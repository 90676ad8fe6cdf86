---------------------------- MODULE MCScheduler ----------------------------
(***************************************************************************)
(* Two threads, one with a slice of a single tick, and room for one of     *)
(* them to be in the lists three times.                                    *)
(***************************************************************************)
EXTENDS Scheduler

CONSTANTS A, B

MCPair   == {A, B}

MCPairSlice == (A :> 2) @@ (B :> 1)
MCMaxEntries == 4
=============================================================================
