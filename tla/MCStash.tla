------------------------------ MODULE MCStash ------------------------------
(***************************************************************************)
(* Instances of Stash for TLC.                                             *)
(***************************************************************************)
EXTENDS Stash, TLC

TrackedOnly == {NoOption}

\* A plain push, and one with every flag.
PlainOrEverything ==
  {NoOption, [untracked |-> TRUE, ignored |-> TRUE, keepIndex |-> TRUE]}

\* Processes are interchangeable, and so are members.
Symmetry == Permutations(Proc) \cup Permutations(Member)
=============================================================================
