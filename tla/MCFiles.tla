------------------------------ MODULE MCFiles -------------------------------
(* Three configuration files a user may switch between with reloads:       *)
(*  FileA  a group "core" holding web, web fanned out into web_1 and web_2 *)
(*         with a per-instance command and autostart=false, api, a         *)
(*         [supervisord] section and an [inet_http_server] on :9001;       *)
(*  FileB  web shrunk to one unnamed instance with autostart gone, no      *)
(*         group section, api unchanged, a [unix_http_server];             *)
(*  FileC  web fanned out into three, an event listener whose command uses *)
(*         the unbound %(host_node_name)s, and group "core" holding api;   *)
(*         no HTTP server section;                                         *)
(*  FileD  a new program job, then a template batch with numprocs=2 and no *)
(*         process_name, on which c.parse panics, then an                  *)
(*         [inet_http_server] the parse never reaches.                     *)
EXTENDS Sequences, TLC

CONSTANTS PNAME, PNUM, PGROUP, PHERE, PHOST

Sec(pfx, nm, keys) == [pfx |-> pfx, nm |-> nm, keys |-> keys]

WebTemplate(n) ==
    Sec("program:", "web",
        ("numprocs" :> n) @@ ("process_name" :> <<PNAME, "_", PNUM>>)
        @@ ("command" :> <<"run web ", PNUM>>) @@ ("autostart" :> <<"false">>))

FileA ==
    << Sec("group:", "core", "programs" :> <<"web">>),
       WebTemplate(2),
       Sec("program:", "api", "command" :> <<"api">>),
       Sec("", "supervisord", "identifier" :> <<"sv">>),
       Sec("", "inet_http_server", "port" :> <<":9001">>) >>

FileB ==
    << Sec("program:", "web", "command" :> <<"run web">>),
       Sec("program:", "api", "command" :> <<"api">>),
       Sec("", "unix_http_server", "file" :> <<PHERE, "/sv.sock">>) >>

FileC ==
    << Sec("group:", "core", "programs" :> <<"api">>),
       WebTemplate(3),
       Sec("eventlistener:", "ev", "command" :> <<"ev ", PHOST>>),
       Sec("program:", "api", "command" :> <<"api ", PGROUP>>) >>

FileD ==
    << Sec("program:", "job", "command" :> <<"job">>),
       Sec("program:", "batch", ("numprocs" :> 2) @@ ("command" :> <<"batch ", PNUM>>)),
       Sec("", "inet_http_server", "port" :> <<":9002">>) >>

AllFiles == {FileA, FileB, FileC}

\* The three files and the one whose parse panics.
FilesWithPanic == AllFiles \cup {FileD}

=============================================================================
