--------------------------- MODULE MCProcessGroup ---------------------------
(* Three programs and two groups: enough for a group that gains, loses and *)
(* moves members between a Clone and the current map.                      *)
EXTENDS ProcessGroup

MCProcs == {"web", "api", "worker"}
MCGroups == {"core", "batch"}

=============================================================================
