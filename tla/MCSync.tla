------------------------------- MODULE MCSync -------------------------------
EXTENDS Sync, TLC

CONSTANTS m1, m2, main, side, c1, c2

\* Level with the remote, and diverged from it.
MCStarts == {[local |-> {}, remote |-> {}], [local |-> {c1}, remote |-> {c2}]}

Symmetry == Permutations(Member)
=============================================================================
