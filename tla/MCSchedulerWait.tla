-------------------------- MODULE MCSchedulerWait --------------------------
(***************************************************************************)
(* Three threads of two slice lengths, so that a slice spans several ticks *)
(* and queues rotate, with the waiting times counted.                      *)
(***************************************************************************)
EXTENDS SchedulerWait

CONSTANTS A, B, C

MCThread == {A, B, C}

MCTimeslice == (A :> 2) @@ (B :> 3) @@ (C :> 2)
=============================================================================
