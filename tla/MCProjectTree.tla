---------------------------- MODULE MCProjectTree ----------------------------
(* TLC instances of ProjectTree.                                            *)
EXTENDS ProjectTree

CONSTANTS p1, p2, w1, chat

NoPrefix == {<<p, p>> : p \in Projects}
=============================================================================
