------------------------------ MODULE MCMemory ------------------------------
(* Two processes and six frames of two bytes: an image takes five frames   *)
(* (its stack two), so the second one loaded finds memory for a part of    *)
(* itself.  A mapping has one page, one page and a half, or none, and two  *)
(* of them may start at the same address.                                  *)
EXTENDS Memory

MCPids      == {0, 2}
MCAddresses == {3, 20}
MCSizes     == {0, 2, 3}
MCMapFlags  == {{"w"}}
=============================================================================
