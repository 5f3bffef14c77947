# TLA+ models of supervisord (Go)

This directory holds TLA+ models of the supervisord daemon in `src/`. They cover:
- loading the configuration;
- expanding program templates;
- the group index;
- reconciling the process set on every reload;
- the RPC handlers that start and stop processes, restart the daemon or shut it down;
- the XML-RPC client that supervisorctl uses to call them, over a transport that can fail, and the older client at the top of `src/xmlrpc-client.go`;
- the decoder of the client's `ReloadConfig` reply.

Each module is translated from the Go source. `PROJECT.json` maps each definition to the lines it models.

## 1. The system

| Part | Source | State it keeps | Operations that change state |
|---|---|---|---|
| Group Index | `src/unnamed/part_000` (`ProcessGroup`) | `processGroup`: program name -> group name | `Add`, `Remove`, `GetGroup` (back-fills a missing program with a default group), `Clone`. `Sub` diffs two snapshots into added/changed/removed groups |
| Config Store | `src/xmlrpc-client.go` lines 135-638 (`Config`, `ConfigEntry`) | `entries`: entry name -> `ConfigEntry{Name, Group, keyValues}`; `programGroup` | `Load` = `ini.Load` + includes + `parse` (group sections, then program/event listener sections with the `numprocs` loop, then every other section) |
| Program Expander | `parseProgram`, same file 583-638 | rewrites the ini section in place on every turn | one turn per instance: evaluate `command` and `process_name`, write both back, create the instance entry |
| Reconciler | `src/supervisor.go` `Reload`, `createPrograms`, `sub`; `main` in `src/xmlrpc-client.go` | `prevPrograms` (local), `s.restarting`, the HTTP listener | Load, start event listeners, reset `restarting`, create processes and remove dropped ones, start the HTTP server, start autostart programs, then poll `restarting` every 10s. On restart it stops all processes and returns |
| RPC Control Surface | `src/supervisor.go` handlers | none of its own | Start/Stop of one process, a group or all; `Restart` (sets the flag); `Shutdown` (stops all, exits 1s later); `ReloadConfig` (runs `Reload` in the RPC goroutine) |
| Signal handler | `initSignals` | the list `ForEachProcess` hands it | SIGINT/SIGTERM: `Stop(true)` on each listed process, one by one, then `os.Exit(-1)` right after the last; the RPC server and the Reload goroutines run on while a Stop is pending |
| Process Runtime | `ProcessManager`, `Process` (not under `src/`) | name -> process | `CreateProcess` (create or update), `Remove`, `StartAutoStartPrograms`, `StopAllProcesses`, `Start`, `Stop` |
| XML-RPC client | `src/xmlrpcclient/xmlrpc-client.go` | `serverurl`, `timeout`; per call its `err` and `reply` | `post` picks inet or unix HTTP by URL scheme; `processResponse` turns a non-2xx status into an error; each call's callback decodes the reply. Every transport failure returns early, without calling back. `ReloadConfig` decodes its reply with two callbacks sharing an index |
| Legacy client | `src/xmlrpc-client.go` lines 11-84 (`XmlRPCClient`) | `host`, `port` | `GetVersion`, `GetAllProcessInfo`, `ChangeProcessState`: `http.Post` to `http://host:port/RPC2`, then `DecodeClientResponse`; a failed post is returned as the error |

### How the parts interact

`main` creates the Supervisor and calls `Reload` once.
- `Reload` loads the configuration. The three parse passes fill `c.entries` and the Group Index.
- `Reload` then creates a process for every program entry, removes the processes of programs named before the load but not after it, starts the HTTP server, and loops until `s.restarting` is set.
- Once the server is up, RPCs run concurrently in their own goroutines.
- `ReloadConfig` runs a second `Reload` concurrently with main's. That `Reload` writes the same maps and the same flag. Two `ReloadConfig` calls run two `Reload`s at once.
- supervisorctl reaches the RPCs through the XML-RPC client. It reads a nil `err` as "the daemon answered".

### Behaviours that are hard

- **Concurrent Reloads.** main's loop and any number of `ReloadConfig` calls run Reload at the same time, with no lock.
- **The `restarting` flag.** Restart sets it, and every Reload clears it after its own Load.
- **Shutdown's timer.** Shutdown stops every process and exits one second later. The RPC server keeps serving in that second.
- **State that persists across loads.** `c.entries` and `c.programGroup` are never emptied. The ini section is mutated inside the `numprocs` loop.
- **Lazy back-fill.** `GetGroup` writes while it reads.
- **The wire.** A request or reply can be lost, and a timeout can expire after the daemon acted. The client has one early `return` per failure point.

### What makes each part correct

| Part | What must hold |
|---|---|
| Group Index | `Sub` is the set-level group diff of spec §3: three disjoint lists |
| Program Expander | A well-formed template with `numprocs=N` yields N distinct instances, each with its own `process_num`. Each instance's command is evaluated from the template with that instance's bindings (spec §3, §8) |
| Config Store | A reload reflects the file loaded: groups rebuilt, removed programs gone (spec §3, §9) |
| Reconciler | After reconciling, every program has a process and no process lacks a program (spec §4.3). A Restart is acted on, and the daemon resumes serving (spec §4.4). A `ReloadConfig` call is answered (spec §4.4) |
| Shutdown | No child is left running at exit |
| Config Store under concurrency | While one goroutine is inside `c.parse`, no other one reads or writes the config maps (Go aborts on a concurrent map write, or a read during one) |
| XML-RPC client | A call that returns no error carries the daemon's reply (spec §7: transport failures are reported). `ReloadConfig` returns the three lists that were sent (spec §8) |

## 2. Modules

| Module | Models | State (VARIABLES) | Actions |
|---|---|---|---|
| `ProcessGroup` | `ProcessGroup` | `processGroup`, `snapshot` (a `Clone`) | `Add`, `Remove`, `GetGroup`, `Clone` |
| `Config` | `Config`, `ConfigEntry`, `parse*` | `entries`, `programGroup`, `loaded` (history: the file of the last load) | `Load(f)`, with the passes as pure fold operators `ParseGroupSection`, `ParseProgramSection`/`ParseInstance`, `ParseOtherSection` |
| `Supervisor` | Reload, the RPC handlers, `main`, `initSignals`, and the Process Runtime | the Config variables plus `procs`, `pc` (per goroutine), `prevNames`, `restarting`, `httpUp`, `daemon`, `signalled`, `toStop` (the signal handler's remaining list) | `LoadBegin`, `LoadOk`, `LoadFailed`, `ResetRestarting`, `CreatePrograms`, `StartAutoStart`, `LoadPanic`, `PollRestart` (per goroutine); `ReloadConfig`, `Restart`, `Shutdown`, `ShutdownExit`, `ChangeProcess`, `ChangeGroup`, `ChangeAll`, `SignalProcess`, `SignalGroup`, `SignalAll`, `SignalReceived`, `SignalStopOne` (one `Stop(true)`; the last one exits); `GetIdentificationBegin`/`End` (the lookup window of `GetSupervisorId`) |
| `EntryGetters` | `ConfigEntry.GetEnv` (the `environment` scanner) | `value` (the raw string), `written` (the pair list it was written from) | none: `GetEnv` is a pure RECURSIVE operator, checked over every pair list it can be written from |
| `Client` | `XMLRPCClient`: the calls, `post`, `postInetHTTP`, `postUnixHTTP`, `processResponse`; and the legacy `XmlRPCClient` | `lib` (which of the two libraries), `serverurl`, `pc` (idle, wire, answered, done, crashed), `request` (method and the name the handler reads), `answer` (ok, fault or a non-2xx status), `ret` (`err`, `reply`) | `Call(c)`, `LegacyCall(c)`, `RequestLost`, `Serve`, `ReplyLost`, `Receive`. The calls include `getVersion` and `reloadConfig`; `VersionUndecodable` is the newer client's `GetVersion`, which decodes into a value, so its outcome is an error or a crash of supervisorctl; `FaultUnread` is `ReloadConfig`'s callback, which never sets `err` from a fault response |
| `Decoder` | `XMLRPCClient.ReloadConfig`: its set-up and its two callbacks | `sent` (the reply), `events` (still to deliver), `i`, `hasValue`, `groups` (the three lists) | `OnBoundary`, `OnLeaf` |
| `MCFiles` | three configuration files | none | none |
| `MCProcessGroup`, `MCConfig`, `MCSupervisor`, `MCEntryGetters`, `MCClient`, `MCDecoder` | instantiations for TLC | none | none |

**Composition.** `Config` instantiates `ProcessGroup` (`PG`) with `processGroup <- programGroup`, so `parseGroup` and `parseProgram` use `ProcessGroup`'s own `GroupOf`/`GetGroupWrite` (the two halves of `GetGroup`). `Supervisor` instantiates `Config` (`Cfg`), so `LoadOk` is `Cfg!Load` and the reconciler reads `Cfg!GetPrograms` and `Cfg!GetProgramNames`.

**Granularity.** Each Reload step is one action. This matches how concurrency appears in the code: the goroutines interleave between these calls. `Config.Load` is two steps: `LoadBegin` (`prevPrograms`, `ini.Load` and the includes) and `LoadOk` (the end of `c.parse`). A goroutine between them is inside `c.parse`, writing `c.entries` and the Group Index. The parse itself is computed in the second step: the property asks only whether two goroutines are inside it together.

**The client's fault model.** `Client` has one call in flight, as supervisorctl does.
- `RequestLost` stands for every early return before the daemon reads the request: `Do` fails in `postInetHTTP`; `Dial`, `SetDeadline` or `Write` fails in `postUnixHTTP`.
- `ReplyLost` stands for every early return after the handler ran: the context deadline expires, or `ReadResponse` fails.
- The daemon's side is reduced to its handlers' error paths. A lookup handler (`getProcessInfo`, `startProcess`, `stopProcess`, `signalProcess`) answers a fault for an unknown name, and the HTTP layer may answer non-2xx.
- The legacy client (`lib = "legacy"`) goes over the same transport. Its losses return the `http.Post` error (or the error of decoding a cut-off body), and a non-2xx body fails to decode.
- Arguments travel by position. `SignalAll` posts `supervisor.signalProcess` with `{Signal}`, so the handler reads the signal name as `args.Name`, and its answer is a fault (or a wrong process).

**Data abstraction.**
- A section name is a record `[pfx, nm]`, for example `[pfx |-> "program:", nm |-> "web"]`. The entry map is keyed the same way, so a program instance's key is `[pfx |-> "", nm |-> procName]`, exactly like the code's bare `procName` key.
- A value that goes through `StringExpression` is a template: a sequence of literal strings and placeholder model values (`PNAME`, `PNUM`, `PGROUP`, `PHERE`, `PHOST`).
- `Eval` concatenates literals and bound values. It fails (the code's `continue`) when a placeholder is unbound. `%(host_node_name)s` is never bound in `parseProgram`.
- Numbers become strings with `ToString`.
- The decoder's input is an event stream. `XMLProcessorManager` is not under `src/`, and spec §9 says its event order cannot be recovered from the call sites. So `Decoder` takes the order as a constant `Orders`: the boundary callback fires at a data element's open, its close, or both, for the outer array only or for the inner ones too. Every string reaches the leaf callback in document order.
- A process is `[group, autostart, state]`, where state is Running or Stopped.

## 3. Runs

| Run | Cfg | Expect | Checks |
|---|---|---|---|
| `pg_diff` | `MCProcessGroup.cfg` | pass | `SubIsGroupDiff`: `Sub(current, any earlier Clone)` equals the reference `GroupDiff` over every sequence of Add/Remove/GetGroup on 3 programs x 2 groups. Breaking `Sub`'s `len(proc2) > 0` test violates it |
| `sup_reload` | `MCSupervisor.cfg` | pass | `ReloadedProgramsHaveProcesses` and `ExpansionComplete`, with main's Reload, one `ReloadConfig` goroutine and every process RPC interleaved over three files (6.0k states) |
| `sup_restart_once` | `SupRestartOnce.cfg` | pass | `RestartHonoured` without a concurrent ReloadConfig, with a SIGTERM that may arrive at any point (2.2k states). A Restart also counts as honoured when the daemon exits otherwise, so this run says nothing of spec §4.4's resume |
| `sup_restart_lost` | `SupRestartLost.cfg` | violation | `RestartHonoured` with one ReloadConfig: its Reload clears a pending Restart |
| `sup_reload_panic` | `SupReloadPanic.cfg` | violation | `ReloadedProgramsHaveProcesses`: a ReloadConfig of FileD (a `numprocs = 2` template with no `process_name`) panics after writing `job` into `c.entries`; net/http recovers the goroutine, the daemon lives on, and `job` has an entry but no process |
| `sup_removed` | `SupRemoved.cfg` | violation | `RemovedProgramsTornDown`: entries are never purged, so a dropped program keeps its process |
| `sup_orphan` | `SupOrphan.cfg` | violation | `NoOrphanAtExit`: Shutdown is served between main's `startHttpServer` and `startAutoStartPrograms`, which then starts `web` inside the one-second window |
| `cfg_command` | `CfgCommandPerInstance.cfg` | violation | `CommandPerInstance`: `web_2` runs `run web 1` |
| `env_reads` | `EnvReadsWritten.cfg` | pass | `GetEnvReadsWritten`: every list of 1-3 pairs is read back exactly. Values are quoted or plain, with commas and `=` inside quoted values and `=` inside plain ones |
| `decoder_roundtrip` | `DecoderRoundTrip.cfg` | violation | `RoundTrip`: a reply with `removed = <<g1, g2>>` decodes as `removed = <<g1>>` |
| `sup_parse_race` | `SupParseRace.cfg` | violation | `ConfigParseExclusive` with two `ReloadConfig` calls and one `GetIdentification`: after 7 steps, one reload is inside `c.parse` while the identification lookup reads `c.entries` |
| `client_silent` | `ClientSilent.cfg` | violation | `NoErrorMeansAnswered`: a malformed URL, or a lost request or reply, returns `err == nil` and a zero reply |

### Bounds and why they are enough

- **Programs and groups.** `MCProcessGroup` uses 3 programs and 2 groups. That is enough for a group to gain, lose and change members, and for one to exist only in the snapshot.
- **Files.** `MCFiles` has three files:
  - A: a group holding a 2-instance template, and an inet server.
  - B: the template shrunk to one plain program, no group, and a unix server.
  - C: a 3-instance template, an event listener with an unbound placeholder, the group moved to another program, and no server section.
  - D (`FilesWithPanic` only): a plain program, then a 2-instance template with no `process_name`, whose parse panics. `sup_restart_once` and `sup_reload_panic` use it; `sup_reload` leaves it out, because a half-written store breaks its properties by design (that is `sup_reload_panic`'s finding).
- **Load sequences.** Any sequence of loads over these files exercises:
  - growth and shrinkage of `numprocs`;
  - group moves;
  - both `continue` paths;
  - a file that never starts the RPC server.
- **Environment values.** `MCEntryGetters` enumerates every pair list of 1-3 pairs, each value quoted or plain, over `a x = " ,`, the classes the scanner tells apart. Longer lists only repeat the scanner's loop. A trailing empty value (`A=`), which makes `GetEnv` index past the end, is left to a unit test.
- **Decoder.** Replies of up to 2 names per list over 3 group names, the lists disjoint and without repeats. Two names in one list is the smallest case where the shared index can go wrong. `MCDecoder` fixes the order to "at the close, inner arrays too". That is the one order under which every reply of at most one name per list round-trips, so it is the order the callbacks were written for. The other five orders fail already on single names.
- **Reload goroutines.** One `ReloadConfig` goroutine (`r1`) is enough for every interleaving of two Reloads. main's Load ends before the RPC server starts, so two writers inside `c.parse` need two RPC goroutines: `sup_parse_race` uses `r1` and `r2`, and one `GetIdentification` goroutine `id1` for a reader. `sup_restart_once` also has `id1`; the other runs have no reader, which changes no state.
- **Client.** `MCClient` has two processes and one name that is not a process, and two signals. It has four URLs: http, unix, an unsupported scheme, and one `url.Parse` rejects. Every call and every failure point is reached from each, through both libraries.
- **OS signals.** `OsSignals` is the set of SIGINT/SIGTERM deliveries. Every run but `sup_reload` has one SIGTERM. `sup_reload` has none: the handler only stops processes and exits, which touches neither of its properties, and its stop loop would multiply that run's 6.0k states thirtyfold.
- **The liveness run.** `sup_restart_once` uses no RPC reloader. That is the configuration where the property should hold.

### Fairness

- Each Reload goroutine runs without outside help, so each has weak fairness on its own steps.
- The fairness is written out in the form `<>[]ReloadReady(a) => []<><<ReloadProgress(a)>>_vars`. `ReloadReady` states the enabling condition of `Alive /\ ReloadStep(a)` directly: every step is enabled at its pc while the process lives, and the poll step only once the flag is set. Written this way, TLC does not evaluate the configuration parser under `ENABLED`.
- Shutdown's timer fires (`WF_vars(ShutdownExit)`), and the signal handler goroutine, once it has a signal, runs its stop loop (`WF_vars(\E n \in toStop : SignalStopOne(n))`).
- RPCs, signals and Restart are the environment and get no fairness.

## 4. Findings

The violation runs are the findings. `PROJECT.json` lists each one with its source line.
- **Restart (`sup_restart_lost`).** A Restart can be lost to a concurrent ReloadConfig. A ReloadConfig call is never answered unless a restart follows: its handler runs Reload's restart loop (S:365-371). That is plain in the code and has no run. A Restart that is honoured ends the daemon, because `main` calls `Reload` once. This last point is the end state `sup_restart_once` reaches (`daemon = "returned"`), where spec §4.4 has the caller re-invoke Reload; no run states the spec's resume as a property.
- **Shutdown (`sup_orphan`).** It can leave a running child at exit: in TLC's trace main's own `startAutoStartPrograms` runs inside the one-second window; a StartProcess RPC there does the same. The signal handler has the same exposure while a `Stop(true)` is pending, but only then: with nothing left to stop it exits at once.
- **Reload (`sup_removed`).** Removed programs keep their processes, because `c.entries` is never emptied. `c.programGroup` is never emptied either, so group membership from an earlier file persists. One unit test reaches that, and no run states it.
- **Concurrent reloads (`sup_parse_race`).** A `ReloadConfig` runs `c.parse` on the RPC goroutine, with no lock. A `GetIdentification` served meanwhile reads `c.entries`, and so does a second `ReloadConfig`'s parse. Either way the Go runtime aborts the daemon.
- **Parse panic (`sup_reload_panic`).** A `numprocs > 1` template without `process_name` makes the error log dereference a nil key (X:601). The panic leaves `c.entries` half written. In `main` it ends the daemon; in a `ReloadConfig` goroutine net/http recovers it, and the store then holds entries no process was created for.
- **Client (`client_silent`).** Every transport failure point of the newer client returns before the callback sets `err`. The legacy client returns the error. A failed `start` looks like a daemon that answered `false`. A timeout after the daemon acted looks the same, so a retry repeats a change already made.
- **Client decoder (`decoder_roundtrip`).** The leaf callback advances the index on every string. The second name of an inner array therefore lands in the next list, or is dropped after `removed`.
- **`numprocs` instances (`cfg_command`).** Every instance after the first runs the first instance's command.

## 5. Not modelled, and the plan

- **Include files, ini syntax and typed getters.** Include-file discovery (directory listing and glob-to-regexp) and ini syntax are treated as a Load that succeeds with a given section list, or fails. `GetBytes`, `GetInt`, `GetString` and `GetStringExpression` are not modelled (`GetEnv` is, in `EntryGetters`). The scanner's runs enumerate no `%`, so `GetEnv`'s final `StringExpression` pass changes nothing there.
- **The DEFAULT section.** The ini library always has a `DEFAULT` section, so every load adds a `DEFAULT` entry. No property reads it.
- **Logging and stdin.** Logging, pid file, stdin and the log RPCs act on the OS and keep no modelled state.
- **`ForEachProcess`.** The process manager is not under `src/`. The signal handler's loop is modelled over the list it is handed when the signal arrives, each `Stop(true)` a step of its own; spec §6 says no more of `ForEach`.
- **Signal delivery.** A Signal RPC ends the process for SIGKILL. For any other signal the child may or may not exit.
- **Process Runtime.** It is modelled from spec §6 as Running/Stopped. The start/stop state machine, retries and backoff are not modelled.
- **Other readers of the config.** `GetIdentification` is the one read-only RPC modelled, as the reader of `c.entries` that a parse can overlap. `createPrograms`' own `GetSupervisorId` call is inside the `CreatePrograms` step.
- **The client's `GetVersion`.** It decodes into a value, not a pointer; `Client` models its outcome as an error or a crash, nondeterministically. The daemon's `ReloadConfig` in this repository replies `{Success bool}`, not the three arrays the client decodes; `Decoder` checks the client against the spec §4.5 reply.
- **The environment panic.** `GetEnv` indexes past the end on an empty or truncated value. One `GetEnv` call in a unit test reaches this, so no run is spent on it.
- **Informational RPCs** (`GetState`, `GetPID`, `GetProcessInfo`, `GetAllProcessInfo`, `AddProcessGroup`/`RemoveProcessGroup`, which reply `false` and do nothing). They change no state.
- **Include resolution.** Two observations from the code, with no run: a relative include pattern lists the directory of the config file, because `dir` stays that directory and only `Base(f)` is used; and the glob's regexp is matched unanchored, so `*.conf` also matches `x.conf.bak`.
- **Planned next:**
  - a file whose program collides with a daemon section name;
  - a refinement of `Supervisor`'s reconciler to an abstract "process set follows the last loaded file" specification.
