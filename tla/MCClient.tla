------------------------------ MODULE MCClient ------------------------------
(* The client against one daemon with two processes: an http, a unix, an  *)
(* unsupported and a malformed server URL; a name that is not a process.   *)
EXTENDS Client

MCURLs ==
    { [ok |-> TRUE, scheme |-> "http"], [ok |-> TRUE, scheme |-> "unix"],
      [ok |-> TRUE, scheme |-> "ftp"], [ok |-> FALSE, scheme |-> ""] }

MCProcs == {"web", "api"}
MCNames == {"web", "ghost"}
MCChanges == {"start", "stop", "restart"}
MCSignals == {"HUP", "KILL"}
=============================================================================
