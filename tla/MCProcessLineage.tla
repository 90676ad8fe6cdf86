-------------------------- MODULE MCProcessLineage --------------------------
(***************************************************************************)
(* idle, init and two more pids: enough for a grandchild that outlives its *)
(* parent and for the reuse of a freed pid, with the true parents          *)
(* remembered.                                                             *)
(***************************************************************************)
EXTENDS ProcessLineage

MCMaxPid == 4
=============================================================================
