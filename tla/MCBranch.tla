------------------------------ MODULE MCBranch ------------------------------
EXTENDS BranchOps, TLC

CONSTANTS m1, m2, p1, p2, main, side, c1, c2

\* The side branch is missing, level with the trunk, diverged from it, or
\* ahead of it.
Starts == {(main :> {c2} @@ side :> x) : x \in {NoRef, {c2}, {c1}}}
          \cup {(main :> {} @@ side :> {c1})}

\* A new side branch starts at HEAD or at the trunk; the rest is asked of
\* either branch.
MCRequests ==
  {q \in Request :
     IF q.kind \in {"create", "create_switch"}
     THEN q.branch = side /\ q.start # side
     ELSE q.start = DefaultStart}

Symmetry == Permutations(Member) \cup Permutations(Proc)
=============================================================================
