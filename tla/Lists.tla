------------------------------- MODULE Lists -------------------------------
(***************************************************************************)
(* The list comprehension [x for x in list if x not in drop] of Python,    *)
(* with which the scheduler and the address spaces remove what they no     *)
(* longer need.                                                            *)
(***************************************************************************)
EXTENDS Integers, Sequences

\* The elements that are not in the set, in their order.
Without(list, drop) ==
  LET kept[n \in 0 .. Len(list)] ==
        IF n = 0 THEN <<>>
        ELSE IF list[n] \in drop THEN kept[n - 1] ELSE Append(kept[n - 1], list[n])
  IN  kept[Len(list)]
=============================================================================
