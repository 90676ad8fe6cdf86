------------------------------- MODULE MCIpc -------------------------------
(* Two pipes with a buffer of two bytes, written up to two at a time, so    *)
(* that a write overruns it; one process with a signal that can be blocked  *)
(* and one that cannot.                                                     *)
EXTENDS Ipc
=============================================================================
