------------------------------ MODULE MCEngine ------------------------------
(* The instance of MCDnsServer, with the engine's mesh task among the tasks. *)
EXTENDS MCDnsServer, Engine

=============================================================================
