-------------------------- MODULE MCProcessMemory --------------------------
(* idle, init and one more process, which may die and be forked again; four *)
(* frames of two bytes; breaks one and four bytes up, so that a step of the *)
(* heap takes one frame or two.                                             *)
EXTENDS ProcessMemory

MCPids      == 0 .. MaxPid
MCAddresses == {0, 20}
MCSizes     == {0, 3}
MCMapFlags  == {{"w"}}
MCBreaks    == {7, 10}
=============================================================================
