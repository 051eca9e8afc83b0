----------------------------- MODULE MCRegistry -----------------------------
EXTENDS Registry, TLC

CONSTANTS p1, p2, a, b, ab

\* ab is a directory of a.
MCInside == {<<ab, a>>}
MCStarts == {NoFile, {a}}

Symmetry == Permutations(Process)
=============================================================================
