------------------------------ MODULE MCConfig ------------------------------
(* The configuration store loading the files of MCFiles in any order.      *)
EXTENDS Config

INSTANCE MCFiles

=============================================================================
