------------------------------ MODULE MCTasks ------------------------------
(***************************************************************************)
(* The queued threads of the boot by their tids, with the slices of their    *)
(* spawning, and room for one process besides init.                        *)
(***************************************************************************)
EXTENDS Tasks

MCThread    == 2 .. 5
MCTimeslice == [t \in MCThread |-> 10]
=============================================================================
