---------------------------- MODULE MCSupervisor ----------------------------
(* The daemon with the three files of MCConfig: FileA fans web out into    *)
(* web_1 and web_2, FileB shrinks it to one process, FileC to three and    *)
(* moves group core from web to api.                                       *)
EXTENDS Supervisor

INSTANCE MCFiles

=============================================================================
