--------------------------- MODULE MCTaskLifecycle ---------------------------
(* TLC instances of TaskLifecycle.                                          *)
EXTENDS TaskLifecycle, TLC

CONSTANTS p1, p2, w1, w2, chat, email

\* No project's path is a prefix of another's.
NoPrefix == {<<p, p>> : p \in Projects}

\* One priority below the range and one above it.
OutOfRange == {-1, MaxPriority + 1}

Symmetry == Permutations({w1, w2})
=============================================================================
