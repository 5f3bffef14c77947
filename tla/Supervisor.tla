----------------------------- MODULE Supervisor -----------------------------
(***************************************************************************)
(* The supervisord daemon (src/supervisor.go with the main of              *)
(* src/xmlrpc-client.go and the signal handler): Reload, which loads the   *)
(* configuration, reconciles the process set against it and then polls     *)
(* the restart flag, run once by main and once more by every ReloadConfig  *)
(* RPC; and the RPC handlers that change process state (Start/Stop of one  *)
(* process, of a group, of all, Restart, Shutdown) served concurrently     *)
(* once the HTTP server is up.                                             *)
(*                                                                         *)
(* Each Reload is a goroutine with a program counter:                      *)
(*   "load"      prevPrograms := GetProgramNames(); ini.Load and Append    *)
(*   "parsing"   c.parse writes c.entries and the Group Index; then        *)
(*               setSupervisordInfo and startEventListeners; or c.parse    *)
(*               panics part-way and the goroutine ends                    *)
(*   "reset"     s.restarting = false                                      *)
(*   "create"    createPrograms(prevPrograms); startHttpServer             *)
(*   "autostart" startAutoStartPrograms                                    *)
(*   "poll"      the loop: once IsRestarting, StopAllProcesses and return  *)
(*   "done"      returned (main then returns and the process exits)        *)
(* Config.Load is split at c.parse, which writes Go maps that another     *)
(* goroutine may touch meanwhile; GetIdentification's lookup of c.entries  *)
(* is a window "reading" for the same reason.  Every other RPC handler is  *)
(* a single step.                                                          *)
(*                                                                         *)
(* The ProcessManager (process.go, process_manager.go) is not under src/;  *)
(* it is modelled from the spec (6, Process Runtime) as a map procs from   *)
(* process name to its group, autostart flag and a Stopped/Running state.  *)
(***************************************************************************)
EXTENDS Integers, Sequences, FiniteSets, TLC

CONSTANTS
    Files, Here, PNAME, PNUM, PGROUP, PHERE, PHOST,   \* as in Config
    RpcReloaders,   \* ReloadConfig RPC calls that may arrive (goroutines)
    IdReaders,      \* GetIdentification RPC calls that may arrive
    SignalNames,    \* signal names a Signal* RPC may carry
    OsSignals,      \* SIGINT/SIGTERM deliveries the daemon may receive
    Main            \* the main goroutine

Actors == {Main} \cup RpcReloaders

Goroutines == Actors \cup IdReaders

VARIABLES
    entries, programGroup, loaded,  \* the Config store (module Config)
    procs,          \* ProcessManager: process name -> [group, autostart, state]
    pc,             \* goroutine -> step of its Reload or RPC, or "idle"
    prevNames,      \* actor -> the prevPrograms of its Reload
    restarting,     \* Supervisor.restarting
    httpUp,         \* startHttpServer has run: RPCs are served
    daemon,         \* "running"; "exiting" (Shutdown's 1s timer); "exited"
                    \* (os.Exit or panic); "returned" (main() returned)
    signalled,      \* initSignals' goroutine has received SIGINT/SIGTERM
    toStop          \* the processes its ForEachProcess loop has yet to stop

cfgVars == <<entries, programGroup, loaded>>
sigVars == <<signalled, toStop>>
vars == <<entries, programGroup, loaded, procs, pc, prevNames, restarting, httpUp, daemon,
         signalled, toStop>>

Cfg == INSTANCE Config

-----------------------------------------------------------------------------
(* ProcessManager (spec 6).                                                *)

\* ConfigEntry.GetBool("autostart", true): "false" parses to false.
Autostart(e) == ~("autostart" \in DOMAIN e.kv /\ e.kv["autostart"] = <<"false">>)

\* CreateOrUpdate of the process of every entry key in ks: descriptor from
\* the entry, run state kept for a process that already exists.
CreateProcesses(ps, ents, ks) ==
    LET names == {ents[k].name.nm : k \in ks}
        EntryOf(n) == ents[CHOOSE k \in ks : ents[k].name.nm = n]
    IN [n \in DOMAIN ps \cup names |->
          IF n \in names
          THEN [group |-> EntryOf(n).group, autostart |-> Autostart(EntryOf(n)),
                state |-> IF n \in DOMAIN ps THEN ps[n].state ELSE "Stopped"]
          ELSE ps[n]]

\* startEventListeners: CreateProcess for every event-listener entry.
startEventListeners(ps, ents) == CreateProcesses(ps, ents, Cfg!GetEventListeners(ents))

\* Mutant: StopAllProcesses without waiting, leaving each process in the
\* runtime's intermediate Stopping state.
StopAllNoWait(ps) == [n \in DOMAIN ps |-> [ps[n] EXCEPT !.state = "Stopping"]]

StopAll(ps) == [n \in DOMAIN ps |-> [ps[n] EXCEPT !.state = "Stopped"]]

SetState(ps, S, st) == [n \in DOMAIN ps |-> IF n \in S THEN [ps[n] EXCEPT !.state = st] ELSE ps[n]]

\* Mutant: sub with its arguments swapped.
subSwapped(arr1, arr2) == arr2 \ arr1

\* sub(arr_1, arr_2): the names of arr_1 that are not in arr_2.
sub(arr1, arr2) == arr1 \ arr2

\* startHttpServer starts a listener when the store has an
\* [inet_http_server] whose port evaluates to a non-empty string, or a
\* [unix_http_server] (its socket file has a default).  A listener, once
\* started, keeps serving.
HttpServerConfigured(ents) ==
    LET inet == Cfg!InetHttpServerKey
        unix == Cfg!UnixHttpServerKey
        here == PHERE :> Here
    IN \/ /\ inet \in DOMAIN ents /\ "port" \in DOMAIN ents[inet].kv
          /\ Cfg!Evaluable(ents[inet].kv["port"], here)
          /\ Cfg!Eval(ents[inet].kv["port"], here) # ""
       \/ unix \in DOMAIN ents

Alive == daemon \in {"running", "exiting"}

Step(a, from, to) == pc[a] = from /\ pc' = [pc EXCEPT ![a] = to]

-----------------------------------------------------------------------------
(* Reload, one step per action.                                            *)

\* prevPrograms, then ini.Load and the include Appends succeed: c.parse
\* begins.
LoadBegin(a) ==
    /\ Step(a, "load", "parsing")
    /\ prevNames' = [prevNames EXCEPT ![a] = Cfg!GetProgramNames(entries)]
    /\ UNCHANGED <<cfgVars, procs, restarting, httpUp, daemon, sigVars>>

\* c.parse completes; then startEventListeners.
LoadOk(a) ==
    /\ Step(a, "parsing", "reset")
    /\ \E f \in Files : Cfg!Load(f)
    /\ procs' = startEventListeners(procs, entries')
    /\ UNCHANGED <<prevNames, restarting, httpUp, daemon, sigVars>>

\* config.Load fails (ini parse or include append error) before anything
\* is changed: main panics, a ReloadConfig call replies an error.
LoadFailed(a) ==
    /\ Step(a, "load", "done")
    /\ daemon' = IF a = Main THEN "exited" ELSE daemon
    /\ UNCHANGED <<cfgVars, procs, prevNames, restarting, httpUp, sigVars>>

\* c.parse panics part-way (a numprocs template without process_name),
\* leaving the maps as far as it wrote them.  In main the panic ends the
\* process; in a ReloadConfig call net/http recovers it for the RPC's
\* goroutine, which ends without a reply, and the daemon keeps serving.
LoadPanic(a) ==
    /\ Step(a, "parsing", "done")
    /\ \E f \in Files : Cfg!LoadPanic(f)
    /\ daemon' = IF a = Main THEN "exited" ELSE daemon
    /\ UNCHANGED <<procs, prevNames, restarting, httpUp, sigVars>>

ResetRestarting(a) ==
    /\ Step(a, "reset", "create")
    /\ restarting' = FALSE
    /\ UNCHANGED <<cfgVars, procs, prevNames, httpUp, daemon, sigVars>>

\* createPrograms: create every program, remove sub(prevPrograms, programs);
\* then startHttpServer.
CreatePrograms(a) ==
    /\ Step(a, "create", "autostart")
    /\ LET created == CreateProcesses(procs, entries, Cfg!GetPrograms(entries))
           removed == sub(prevNames[a], Cfg!GetProgramNames(entries))
       IN procs' = [n \in DOMAIN created \ removed |-> created[n]]
    /\ httpUp' = (httpUp \/ HttpServerConfigured(entries))
    /\ UNCHANGED <<cfgVars, prevNames, restarting, daemon, sigVars>>

\* StartAutoStartPrograms (process_manager.go, spec 6).
StartAutoStart(a) ==
    /\ Step(a, "autostart", "poll")
    /\ procs' = SetState(procs, {n \in DOMAIN procs : procs[n].autostart}, "Running")
    /\ UNCHANGED <<cfgVars, prevNames, restarting, httpUp, daemon, sigVars>>

\* Mutant: the loop consumes the flag and keeps polling instead of
\* stopping everything and returning.
PollRestartNoReturn(a) ==
    /\ restarting
    /\ pc[a] = "poll"
    /\ restarting' = FALSE
    /\ UNCHANGED <<cfgVars, procs, pc, prevNames, httpUp, daemon, sigVars>>

\* The restart loop: it sleeps while the flag is false; once it sees the
\* flag it stops every process and Reload returns.  Main then returns from
\* main() and the process exits.
PollRestart(a) ==
    /\ restarting
    /\ Step(a, "poll", "done")
    /\ procs' = StopAll(procs)
    /\ daemon' = IF a = Main THEN "returned" ELSE daemon
    /\ UNCHANGED <<cfgVars, prevNames, restarting, httpUp, sigVars>>

-----------------------------------------------------------------------------
(* RPC handlers, served while the HTTP server is up and the process lives. *)

Serving == httpUp /\ daemon \in {"running", "exiting"}

\* ReloadConfig: a new goroutine runs Reload.
ReloadConfig(a) ==
    /\ Serving
    /\ Step(a, "idle", "load")
    /\ UNCHANGED <<cfgVars, procs, prevNames, restarting, httpUp, daemon, sigVars>>

Restart ==
    /\ Serving
    /\ restarting' = TRUE
    /\ UNCHANGED <<cfgVars, procs, pc, prevNames, httpUp, daemon, sigVars>>

\* Shutdown: stop all, then os.Exit after one second.
Shutdown ==
    /\ Serving /\ daemon = "running"
    /\ procs' = StopAll(procs)
    /\ daemon' = "exiting"
    /\ UNCHANGED <<cfgVars, pc, prevNames, restarting, httpUp, sigVars>>

\* Shutdown's timer fires: os.Exit(0).
ShutdownExit ==
    /\ daemon = "exiting"
    /\ daemon' = "exited"
    /\ UNCHANGED <<cfgVars, procs, pc, prevNames, restarting, httpUp, sigVars>>

\* StartProcess / StopProcess: a name without a process is an error reply.
ChangeProcess(n, st) ==
    /\ Serving /\ n \in DOMAIN procs
    /\ procs' = SetState(procs, {n}, st)
    /\ UNCHANGED <<cfgVars, pc, prevNames, restarting, httpUp, daemon, sigVars>>

\* StartProcessGroup / StopProcessGroup: every process whose group is g.
ChangeGroup(g, st) ==
    /\ Serving
    /\ procs' = SetState(procs, {n \in DOMAIN procs : procs[n].group = g}, st)
    /\ UNCHANGED <<cfgVars, pc, prevNames, restarting, httpUp, daemon, sigVars>>

\* StartAllProcesses / StopAllProcesses.
ChangeAll(st) ==
    /\ Serving
    /\ procs' = SetState(procs, DOMAIN procs, st)
    /\ UNCHANGED <<cfgVars, pc, prevNames, restarting, httpUp, daemon, sigVars>>

\* toSignal: the six names it knows, anything else is SIGTERM.
ToSignal(name) ==
    IF name \in {"HUP", "INT", "QUIT", "KILL", "USR1", "USR2"} THEN name ELSE "TERM"

\* The processes of S that a signal ends: SIGKILL ends every one; a child
\* may handle or ignore any other signal, so any subset of S may end.
Ended(S, sig) == IF ToSignal(sig) = "KILL" THEN {S} ELSE SUBSET S

\* SignalProcess: a name without a process is an error reply.
SignalProcess(n, sig) ==
    /\ Serving /\ n \in DOMAIN procs
    /\ \E E \in Ended({n}, sig) : procs' = SetState(procs, E, "Stopped")
    /\ UNCHANGED <<cfgVars, pc, prevNames, restarting, httpUp, daemon, sigVars>>

\* SignalProcessGroup: signal every process whose group is g.
SignalGroup(g, sig) ==
    /\ Serving
    /\ \E E \in Ended({n \in DOMAIN procs : procs[n].group = g}, sig) :
          procs' = SetState(procs, E, "Stopped")
    /\ UNCHANGED <<cfgVars, pc, prevNames, restarting, httpUp, daemon, sigVars>>

\* SignalAllProcesses.
SignalAll(sig) ==
    /\ Serving
    /\ \E E \in Ended(DOMAIN procs, sig) : procs' = SetState(procs, E, "Stopped")
    /\ UNCHANGED <<cfgVars, pc, prevNames, restarting, httpUp, daemon, sigVars>>

\* GetIdentification: GetSupervisorId looks up the [supervisord] entry in
\* c.entries.  The lookup is a window, "reading", that a parse may overlap.
GetIdentificationBegin(r) ==
    /\ Serving
    /\ Step(r, "idle", "reading")
    /\ UNCHANGED <<cfgVars, procs, prevNames, restarting, httpUp, daemon, sigVars>>

GetIdentificationEnd(r) ==
    /\ Alive
    /\ Step(r, "reading", "idle")
    /\ UNCHANGED <<cfgVars, procs, prevNames, restarting, httpUp, daemon, sigVars>>

\* initSignals: the handler goroutine receives sig (SIGINT or SIGTERM), and
\* ForEachProcess hands it the processes the manager holds now.  With none,
\* the loop is empty and os.Exit(-1) follows at once.  A signal during
\* Shutdown's last second is left out: it only stops processes before an
\* exit that is coming anyway.
SignalReceived(sig) ==
    /\ daemon = "running" /\ ~signalled
    /\ signalled' = TRUE
    /\ toStop' = DOMAIN procs
    /\ daemon' = IF DOMAIN procs = {} THEN "exited" ELSE daemon
    /\ UNCHANGED <<cfgVars, procs, pc, prevNames, restarting, httpUp>>

\* proc.Stop(true) on one process of the handler's list; it waits for the
\* process to stop, and the RPC server and the Reload goroutines run on
\* meanwhile.  After the last one the handler calls os.Exit(-1).
SignalStopOne(n) ==
    /\ Alive /\ n \in toStop
    /\ procs' = SetState(procs, {n}, "Stopped")
    /\ toStop' = toStop \ {n}
    /\ daemon' = IF toStop' = {} THEN "exited" ELSE daemon
    /\ UNCHANGED <<cfgVars, pc, prevNames, restarting, httpUp, signalled>>

-----------------------------------------------------------------------------
Init ==
    /\ Cfg!Init
    /\ procs = <<>>
    /\ pc = [a \in Goroutines |-> IF a = Main THEN "load" ELSE "idle"]
    /\ prevNames = [a \in Actors |-> {}]
    /\ restarting = FALSE
    /\ httpUp = FALSE
    /\ daemon = "running"
    /\ signalled = FALSE
    /\ toStop = {}

ReloadStep(a) ==
    \/ LoadBegin(a) \/ LoadOk(a) \/ LoadFailed(a) \/ LoadPanic(a) \/ ResetRestarting(a)
    \/ CreatePrograms(a) \/ StartAutoStart(a) \/ PollRestart(a)

Next ==
    \/ \E a \in Actors : Alive /\ ReloadStep(a)
    \/ \E a \in RpcReloaders : ReloadConfig(a)
    \/ \E r \in IdReaders : GetIdentificationBegin(r) \/ GetIdentificationEnd(r)
    \/ Restart \/ Shutdown \/ ShutdownExit
    \/ \E sig \in OsSignals : SignalReceived(sig)
    \/ \E n \in toStop : SignalStopOne(n)
    \/ \E n \in DOMAIN procs, st \in {"Running", "Stopped"} : ChangeProcess(n, st)
    \/ \E g \in {procs[n].group : n \in DOMAIN procs}, st \in {"Running", "Stopped"} :
          ChangeGroup(g, st)
    \/ \E st \in {"Running", "Stopped"} : ChangeAll(st)
    \/ \E n \in DOMAIN procs, sig \in SignalNames : SignalProcess(n, sig)
    \/ \E g \in {procs[n].group : n \in DOMAIN procs}, sig \in SignalNames : SignalGroup(g, sig)
    \/ \E sig \in SignalNames : SignalAll(sig)

\* Reload goroutines run to their loop without outside help, the signal
\* handler runs its stop loop, and the one-second exit timer fires: weak
\* fairness on those steps only.
\* WF_vars(Alive /\ ReloadStep(a)) is written out as <>[]ENABLED => []<>step
\* with its enabling condition stated directly: every Reload step is
\* enabled at its pc while the process lives, the poll only once the flag
\* is set, and every one of them moves pc[a] off a non-idle value.
ReloadReady(a) ==
    /\ Alive
    /\ \/ pc[a] \in {"load", "parsing", "reset", "create", "autostart"}
       \/ pc[a] = "poll" /\ restarting

ReloadProgress(a) == Alive /\ pc[a] # "idle" /\ pc'[a] # pc[a]

Fairness ==
    /\ \A a \in Actors : <>[]ReloadReady(a) => []<><<ReloadProgress(a)>>_vars
    /\ WF_vars(\E n \in toStop : SignalStopOne(n))
    /\ WF_vars(ShutdownExit)

Spec == Init /\ [][Next]_vars /\ Fairness

-----------------------------------------------------------------------------
(* Properties.                                                             *)

TypeOK ==
    /\ Cfg!TypeOK
    /\ \A n \in DOMAIN procs :
          procs[n] \in [group : STRING, autostart : BOOLEAN, state : {"Running", "Stopped"}]
    /\ pc \in [Goroutines -> {"idle", "load", "parsing", "reset", "create", "autostart", "poll",
                               "done", "reading"}]
    /\ restarting \in BOOLEAN /\ httpUp \in BOOLEAN
    /\ daemon \in {"running", "exiting", "exited", "returned"}
    /\ signalled \in BOOLEAN /\ \A n \in toStop : n \in STRING

\* Every well-formed numprocs template of the loaded file is expanded into
\* its instances (Config's ExpansionComplete, checked on the daemon's runs).
ExpansionComplete == Cfg!ExpansionComplete

\* No Reload is between its config.Load and the end of its createPrograms.
Reconciled == \A a \in Actors : pc[a] \notin {"reset", "create"}

\* The process names a load of file f into an empty store would produce.
FileProcessNames(f) ==
    LET ents == Cfg!Parse(<<>>, <<>>, f).ents
    IN {ents[k].name.nm : k \in Cfg!GetPrograms(ents) \cup Cfg!GetEventListeners(ents)}

\* Whenever the daemon runs and every Reload has finished reconciling,
\* every program entry of the configuration store has a process.  This is
\* about createPrograms removing sub(prevPrograms, programs) after creating
\* every program, with ReloadConfig calls running Reload concurrently with
\* main's and with RPCs that act on the process set, and about a Reload
\* whose c.parse stops part-way after writing new program entries.
ReloadedProgramsHaveProcesses ==
    Reconciled /\ Alive =>
        \A k \in Cfg!GetPrograms(entries) : entries[k].name.nm \in DOMAIN procs

\* Whenever every Reload has finished reconciling, every process belongs
\* to a program or event listener of the file last loaded (spec 4.3: a
\* process with no matching config entry must be torn down).  This is about
\* createPrograms' removal of programs that left the file.
RemovedProgramsTornDown ==
    Reconciled => DOMAIN procs \subseteq FileProcessNames(loaded)

\* A Restart request is acted on: the loop of main's Reload sees the flag,
\* stops every process and returns, unless the daemon went down otherwise.
\* This is about s.restarting, written by the Restart RPC and reset by
\* every Reload, including one a concurrent ReloadConfig starts.
RestartHonoured == restarting ~> daemon \in {"returned", "exited"}

\* While one goroutine is inside c.parse, no other one writes or reads the
\* config maps: c.parse writes c.entries and the Group Index without a
\* lock, and the Go runtime aborts the daemon on a concurrent map write,
\* or a read during one.  This is about ReloadConfig running Reload, Load
\* included, on the RPC goroutine of each call, beside GetIdentification.
ConfigParseExclusive ==
    \A a \in Actors, b \in Goroutines :
        a # b /\ pc[a] = "parsing" => pc[b] \notin {"parsing", "reading"}

\* When the daemon process ends, no child it started is left running.
\* This is about Shutdown's one-second delay before os.Exit, and the
\* signal handler's one-by-one stop loop before os.Exit, during which the
\* RPC server and the Reload goroutines still start processes.
NoOrphanAtExit ==
    daemon \in {"exited", "returned"} => \A n \in DOMAIN procs : procs[n].state = "Stopped"

=============================================================================
