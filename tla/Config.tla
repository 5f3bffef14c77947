------------------------------- MODULE Config -------------------------------
(***************************************************************************)
(* The Config Store of supervisord (Config and ConfigEntry, the config.go  *)
(* part of src/xmlrpc-client.go): Load parses an ini file in three passes  *)
(* (groups, then programs and event listeners with numprocs fan-out, then  *)
(* every other section) into a map of ConfigEntry kept across loads, and   *)
(* fills the Group Index (ProcessGroup).                                   *)
(*                                                                         *)
(* Data abstraction.  A section name "program:web" is the record           *)
(* [pfx |-> "program:", nm |-> "web"]; a bare name such as "supervisord"   *)
(* has pfx "".  The key of c.entries is a name of the same shape: the      *)
(* section name, or for a program instance its bare process name.  A raw   *)
(* value that goes through StringExpression is a template: a sequence of   *)
(* literal strings and placeholder model values; evaluating it             *)
(* concatenates the literals and the bound values.  A value the code       *)
(* writes back with section.NewKey is the one-literal template <<s>>.      *)
(* The "programs" value of a group section is the list strings.Split       *)
(* returns.  Include files are out of scope: a file is the section list    *)
(* after cfg.Append of every include.                                      *)
(***************************************************************************)
EXTENDS Integers, Sequences, SequencesExt, FiniteSets, TLC

CONSTANTS
    Files,          \* the section lists the configuration file may hold
    Here,           \* GetConfigFileDir(): the binding of %(here)s
    PNAME, PNUM, PGROUP, PHERE, PHOST   \* placeholder model values

Placeholders == {PNAME, PNUM, PGROUP, PHERE, PHOST}

VARIABLES
    entries,        \* Config.entries: entry key -> ConfigEntry
    programGroup,   \* Config.programGroup.processGroup
    loaded          \* the section list of the last successful Load (history)

vars == <<entries, programGroup, loaded>>

\* The Group Index operators, applied to Config.programGroup.
PG == INSTANCE ProcessGroup WITH Procs <- STRING, Groups <- STRING,
                                 processGroup <- programGroup, snapshot <- programGroup

-----------------------------------------------------------------------------
(* StringExpression (not under src/; spec 4.1): substitute every bound     *)
(* placeholder, fail on an unbound one, never re-scan a substituted value. *)

Evaluable(tmpl, binding) ==
    \A i \in DOMAIN tmpl : tmpl[i] \in Placeholders => tmpl[i] \in DOMAIN binding

Eval(tmpl, binding) ==
    FoldLeft(LAMBDA acc, t : acc \o (IF t \in Placeholders THEN binding[t] ELSE t),
             "", tmpl)

-----------------------------------------------------------------------------
(* ConfigEntry.                                                            *)

NewConfigEntry == [name |-> [pfx |-> "", nm |-> ""], group |-> "", kv |-> <<>>]

IsProgram(e) == e.name.pfx = "program:"
IsEventListener(e) == e.name.pfx = "eventlistener:"
IsGroup(e) == e.name.pfx = "group:"

\* GetProgramName / GetGroupName: the name after the prefix, or "".
GetProgramName(e) == IF IsProgram(e) THEN e.name.nm ELSE ""
GetGroupName(e) == IF IsGroup(e) THEN e.name.nm ELSE ""

\* GetPrograms of a group entry: the split "programs" value, or none.
GroupPrograms(e) ==
    IF IsGroup(e) /\ "programs" \in DOMAIN e.kv THEN e.kv["programs"] ELSE <<>>

\* ConfigEntry.parse: take the section's name, write every key of the
\* section over the old map; keys the section lacks are kept.
EntryParse(e, sec) ==
    [e EXCEPT !.name = [pfx |-> sec.pfx, nm |-> sec.nm], !.kv = sec.keys @@ e.kv]

\* Config.createEntry: the existing entry under key, or a new one.
CreateEntry(ents, key) ==
    IF key \in DOMAIN ents THEN ents ELSE (key :> NewConfigEntry) @@ ents

SecName(sec) == [pfx |-> sec.pfx, nm |-> sec.nm]

-----------------------------------------------------------------------------
(* Config.parse.  The fold state: entries, the group map, the sections of  *)
(* the ini.File, which parseProgram rewrites with NewKey, and whether the  *)
(* parse has panicked (every later step of the fold is then skipped).      *)

\* parseGroup, one [group:x] section.
ParseGroupSection(st, i) ==
    LET sec  == st.secs[i]
        ents == CreateEntry(st.ents, SecName(sec))
        e    == EntryParse(ents[SecName(sec)], sec)
    IN IF sec.pfx # "group:" THEN st
       ELSE [st EXCEPT !.ents = (SecName(sec) :> e) @@ ents,
                       !.pg = FoldLeft(LAMBDA pg, p : (p :> GetGroupName(e)) @@ pg,
                                       st.pg, GroupPrograms(e))]

\* section.Key("numprocs").Int(), or 1 when the key is missing.
NumProcs(sec) == IF "numprocs" \in DOMAIN sec.keys THEN sec.keys["numprocs"] ELSE 1

\* numprocs > 1 and no process_name key: GetKey returned a nil key, and
\* the error log's procNameKey.Value() dereferences it; parse panics.
ProcessNamePanics(sec) == NumProcs(sec) > 1 /\ "process_name" \notin DOMAIN sec.keys

\* section.Key(k) of go-ini creates a missing key with an empty value.
KeyOrCreate(keys, k) == IF k \in DOMAIN keys THEN keys ELSE (k :> <<>>) @@ keys

\* One turn (i = instance number n) of the numprocs loop of parseProgram on
\* section j.
ParseInstance(st, j, n, origProcName) ==
    LET sec      == st.secs[j]
        progName == sec.nm
        group    == PG!GroupOf(st.pg, progName, progName)
        pg1      == PG!GetGroupWrite(st.pg, progName, progName)
        envs     == [x \in {PNAME, PNUM, PGROUP, PHERE} |->
                       CASE x = PNAME -> progName [] x = PNUM -> ToString(n)
                         [] x = PGROUP -> group  [] x = PHERE -> Here]
        cmdT     == sec.keys["command"]
        keys1    == [sec.keys EXCEPT !["command"] = <<Eval(cmdT, envs)>>]
        procName == Eval(origProcName, envs)
        keys2    == [k \in DOMAIN keys1 \cup {"process_name", "numprocs_start", "process_num"} |->
                       CASE k = "process_name"   -> <<procName>>
                         [] k = "numprocs_start" -> <<ToString(n - 1)>>
                         [] k = "process_num"    -> <<ToString(n)>>
                         [] OTHER                -> keys1[k]]
        key      == [pfx |-> "", nm |-> procName]
        ents     == CreateEntry(st.ents, key)
        e        == [EntryParse(ents[key], [sec EXCEPT !.keys = keys2])
                       EXCEPT !.name = [pfx |-> sec.pfx, nm |-> procName], !.group = group]
    IN CASE ~Evaluable(cmdT, envs) -> [st EXCEPT !.pg = pg1]
         [] ~Evaluable(origProcName, envs) ->
                [st EXCEPT !.pg = pg1, !.secs[j].keys = keys1]
         [] OTHER -> [st EXCEPT !.pg = pg1, !.secs[j].keys = keys2,
                                !.ents = (key :> e) @@ ents]

\* Mutant: every turn reads process_name from the section the previous
\* turn rewrote, instead of the origProcName saved before the loop.
ParseProgramSectionNoOrig(st, j) ==
    LET sec0     == st.secs[j]
        keys0    == KeyOrCreate(KeyOrCreate(sec0.keys, "numprocs"), "command")
        NameOf(s) == IF "process_name" \in DOMAIN s.secs[j].keys
                     THEN s.secs[j].keys["process_name"] ELSE <<sec0.nm>>
        st0      == [st EXCEPT !.secs[j].keys = keys0]
    IN CASE st.panic \/ sec0.pfx \notin {"program:", "eventlistener:"} -> st
         [] ProcessNamePanics(sec0) -> [st EXCEPT !.panic = TRUE]
         [] OTHER -> FoldLeft(LAMBDA s, n : ParseInstance(s, j, n, NameOf(s)),
                              st0, [n \in 1..NumProcs(sec0) |-> n])

\* parseProgram, one section: a program or event listener fans out into
\* numprocs instances (1 when numprocs is absent), unless the section
\* makes the parse panic first.
ParseProgramSection(st, j) ==
    LET sec0     == st.secs[j]
        keys0    == KeyOrCreate(KeyOrCreate(sec0.keys, "numprocs"), "command")
        origName == IF "process_name" \in DOMAIN sec0.keys
                    THEN sec0.keys["process_name"] ELSE <<sec0.nm>>
        st0      == [st EXCEPT !.secs[j].keys = keys0]
    IN CASE st.panic \/ sec0.pfx \notin {"program:", "eventlistener:"} -> st
         [] ProcessNamePanics(sec0) -> [st EXCEPT !.panic = TRUE]
         [] OTHER -> FoldLeft(LAMBDA s, n : ParseInstance(s, j, n, origName),
                              st0, [n \in 1..NumProcs(sec0) |-> n])

\* The last pass: every section that is neither group: nor program:.
ParseOtherSection(st, i) ==
    LET sec  == st.secs[i]
        ents == CreateEntry(st.ents, SecName(sec))
    IN IF st.panic \/ sec.pfx \in {"group:", "program:"} THEN st
       ELSE [st EXCEPT !.ents = (SecName(sec) :> EntryParse(ents[SecName(sec)], sec)) @@ ents]

Indices(secs) == [i \in 1..Len(secs) |-> i]

Parse(ents, pg, secs) ==
    LET s0 == [ents |-> ents, pg |-> pg, secs |-> secs, panic |-> FALSE]
        s1 == FoldLeft(ParseGroupSection, s0, Indices(secs))
        s2 == FoldLeft(ParseProgramSection, s1, Indices(secs))
    IN FoldLeft(ParseOtherSection, s2, Indices(secs))

-----------------------------------------------------------------------------
(* Queries.                                                                *)

GetPrograms(ents) == {k \in DOMAIN ents : IsProgram(ents[k])}
GetEventListeners(ents) == {k \in DOMAIN ents : IsEventListener(ents[k])}
GetProgramNames(ents) == {GetProgramName(ents[k]) : k \in GetPrograms(ents)}

\* GetInetHttpServer / GetUnixHttpServer look the entry up under the bare
\* section name; ok is the key's presence.
InetHttpServerKey == [pfx |-> "", nm |-> "inet_http_server"]
UnixHttpServerKey == [pfx |-> "", nm |-> "unix_http_server"]

-----------------------------------------------------------------------------
(* Config.Load once ini.Load and every Append succeeded: c.parse either    *)
(* completes, or panics with the maps written up to that point.            *)
Load(f) ==
    LET r == Parse(entries, programGroup, f)
    IN /\ ~r.panic
       /\ entries' = r.ents
       /\ programGroup' = r.pg
       /\ loaded' = f

LoadPanic(f) ==
    LET r == Parse(entries, programGroup, f)
    IN /\ r.panic
       /\ entries' = r.ents
       /\ programGroup' = r.pg
       /\ UNCHANGED loaded

Init ==
    /\ entries = <<>>
    /\ programGroup = <<>>
    /\ loaded = <<>>

Next == \E f \in Files : Load(f) \/ LoadPanic(f)

Spec == Init /\ [][Next]_vars

-----------------------------------------------------------------------------
(* Properties.                                                             *)

SectionPrefixes == {"program:", "eventlistener:", "group:", ""}

TypeOK ==
    /\ \A k \in DOMAIN entries :
          /\ k.pfx \in SectionPrefixes /\ k.nm \in STRING
          /\ entries[k].name.pfx \in SectionPrefixes /\ entries[k].name.nm \in STRING
          /\ entries[k].group \in STRING
          /\ DOMAIN entries[k].kv \subseteq STRING
    /\ \A p \in DOMAIN programGroup : p \in STRING /\ programGroup[p] \in STRING

\* The bindings instance n of section sec is evaluated with.
InstanceEnv(sec, n) ==
    [x \in {PNAME, PNUM, PGROUP, PHERE} |->
        CASE x = PNAME -> sec.nm [] x = PNUM -> ToString(n)
          [] x = PGROUP -> PG!GroupOf(programGroup, sec.nm, sec.nm) [] x = PHERE -> Here]

\* A template section the spec (3, Program Template) calls well formed: its
\* process_name holds %(process_num) and both templates evaluate.
WellFormedTemplate(sec) ==
    /\ sec.pfx \in {"program:", "eventlistener:"}
    /\ "process_name" \in DOMAIN sec.keys
    /\ \E i \in DOMAIN sec.keys["process_name"] : sec.keys["process_name"][i] = PNUM
    /\ Evaluable(sec.keys["process_name"], InstanceEnv(sec, 1))
    /\ "command" \in DOMAIN sec.keys => Evaluable(sec.keys["command"], InstanceEnv(sec, 1))

\* After a load, every well-formed template section with numprocs = N has N
\* entries with pairwise distinct names, process_num 1..N and
\* numprocs_start 0..N-1 (spec 8).  This is about the numprocs loop of
\* parseProgram, which rewrites process_name and process_num in the shared
\* section on every turn and keys each instance by its generated name.
ExpansionComplete ==
    \A j \in DOMAIN loaded :
        LET sec   == loaded[j]
            names == [n \in 1..NumProcs(sec) |->
                        Eval(sec.keys["process_name"], InstanceEnv(sec, n))]
        IN WellFormedTemplate(sec) =>
            /\ Cardinality(Range(names)) = NumProcs(sec)
            /\ \A n \in 1..NumProcs(sec) :
                 LET key == [pfx |-> "", nm |-> names[n]]
                 IN /\ key \in DOMAIN entries
                    /\ entries[key].name = [pfx |-> sec.pfx, nm |-> names[n]]
                    /\ entries[key].kv["process_num"] = <<ToString(n)>>
                    /\ entries[key].kv["numprocs_start"] = <<ToString(n - 1)>>

\* Every instance of a well-formed template section runs the command the
\* section's own command template gives with that instance's bindings
\* (spec 3, Program Template: command evaluated independently per
\* instance).  This is about parseProgram writing the evaluated command
\* back into the shared section with section.NewKey("command", cmd) inside
\* the numprocs loop, so that the next turn reads it.
CommandPerInstance ==
    \A j \in DOMAIN loaded :
        LET sec == loaded[j]
        IN WellFormedTemplate(sec) /\ "command" \in DOMAIN sec.keys =>
            \A n \in 1..NumProcs(sec) :
               LET key == [pfx |-> "", nm |-> Eval(sec.keys["process_name"], InstanceEnv(sec, n))]
               IN entries[key].kv["command"] = <<Eval(sec.keys["command"], InstanceEnv(sec, n))>>

=============================================================================
