------------------------------ MODULE MCFiles ------------------------------
(* Two processes, which are interchangeable, and three filesystems.  Two    *)
(* of them are mounted in either order at or under the one directory of the *)
(* root, or over the root; a directory and an entry in it; two bytes        *)
(* written at a time or one.                                                *)
EXTENDS Files, TLC

MCPaths    == {<<"m">>, <<"m", "a">>}
MCContents == {<<1>>, <<2, 2>>}
MCSymmetry == Permutations(Process)
=============================================================================
