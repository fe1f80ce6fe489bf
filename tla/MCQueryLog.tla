------------------------------ MODULE MCQueryLog ------------------------------
(* A small instance of QueryLog: days of two ticks, retentions of none and of *)
(* one day, and a negative one from a backup edited by hand.                  *)
EXTENDS QueryLog

MCRetentions == {-1, 0, 1}

=============================================================================
