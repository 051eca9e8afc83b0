------------------------------ MODULE MCCommands ------------------------------
(***************************************************************************)
(* gwz push and tag, gwz add, and gwz pull in the root: they share the     *)
(* members and no state, so each behaviour has one kind of them.           *)
(***************************************************************************)
EXTENDS Publish, Staging, RootPull, TLC

CONSTANTS m1, m2, main, v1, c1, c2, u1, u2, g1, g2, j1, old, new

\* One push after another, or one tag operation after another.
MCAsked ==
  {q \in Request :
     \/ q.kind # "push"
     \/ <<q.dry, q.skip, q.named, q.spec>> \in
          {<<FALSE, FALSE, FALSE, "head">>, <<FALSE, TRUE, FALSE, "head">>,
           <<TRUE, TRUE, TRUE, "head">>, <<FALSE, TRUE, TRUE, "given">>,
           <<FALSE, FALSE, FALSE, "forced">>}}

MCSelections ==
  {[include |-> {}, exclude |-> {}], [include |-> {"@default"}, exclude |-> {"@root", m2}]}

Local(trunk, tip, tag) ==
  [refs |-> main :> trunk, head |-> IF tip = NoRef THEN main ELSE Detached,
   tip |-> IF tip = NoRef THEN {} ELSE tip, tags |-> v1 :> tag]
There(trunk, tag) == [refs |-> main :> trunk, tags |-> v1 :> tag]

\* Ahead of the remote, diverged from it with a tag of its own on each side,
\* detached, without commits, without a remote, and not there.
Shapes ==
  <<[place |-> Local({c1}, NoRef, NoRef), remote |-> There({}, NoRef)],
    [place |-> Local({c1}, NoRef, {}), remote |-> There({c2}, {c2})],
    [place |-> Local({}, {}, NoRef), remote |-> There({}, {})],
    [place |-> Local(NoRef, NoRef, NoRef), remote |-> There(NoRef, NoRef)],
    [place |-> Local({}, NoRef, {}), remote |-> NoRemote],
    [place |-> Absent, remote |-> There({}, NoRef)]>>

\* The root is ahead, or without a remote, with a member that is ahead.  The
\* members differ, or are both ahead or gone.
MCStarts ==
  {m1 :> Shapes[i] @@ m2 :> Shapes[j] @@ Root :> Shapes[k] :
     <<i, j, k>> \in {x \in (1 .. 6) \X (1 .. 6) \X {1, 5} :
                        /\ x[1] < x[2] \/ (x[1] = x[2] /\ x[1] \in {1, 6})
                        /\ x[3] = 5 => x[1] = 1}}

MCRoot == <<"ws">>
MCPathOf == m1 :> <<"a">> @@ m2 :> <<"d", "b">>
MCFile == {<<"f">>, <<"d", "f">>, <<"a", "f">>, <<"a", "g">>, <<"d", "b", "f">>}

Rel(names) == [absolute |-> FALSE, names |-> names]
MCSpecs ==
  {Rel(<<>>), Rel(<<"..">>), Rel(<<"d">>), Rel(<<"b">>), Rel(<<"a", "..", "a", "f">>),
   Rel(<<"..", "..", "x">>), [absolute |-> TRUE, names |-> <<"ws", "d", "f">>]}

NoSelection == [include |-> {}, exclude |-> {}]
Narrow == [include : SUBSET {"@root", "@all", m1}, exclude : SUBSET {"missing", m1, m2}]

MCAsks ==
  [cwd : {MCRoot, <<"ws", "d">>, <<"ws", "a">>},
   specs : {S \in SUBSET MCSpecs : Cardinality(S) <= 2},
   all : {FALSE}, narrow : {FALSE}, selection : {NoSelection}]
  \cup [cwd : {MCRoot}, specs : {{}}, all : {TRUE}, narrow : BOOLEAN, selection : Narrow]

\* m2 is added by an edit of the manifest; each side has committed versions
\* of the lock, and may have changed a file the other has changed too.
MCFileOf == u1 :> "other" @@ u2 :> "other" @@ g1 :> "ignore" @@ g2 :> "ignore"
              @@ j1 :> "manifest"

MCRootStarts ==
  [here : {{1}, {1, 2}, {1, 2, g1}, {1, g1}, {1, 2, j1}},
   there : {{1}, {1, 3}, {1, u2}, {1, 3, u2}, {1, 3, g2}, {1, 3, j1}},
   old : {old}, new : {new}]

MCPolicies == {p \in Policy : p.force <=> p.sync = "reset"}

VARIABLE asks  \* what this behaviour has

Init ==
  /\ PublishInit /\ StageInit /\ RootInit
  /\ asks \in {"publish", "add", "pull"}
  /\ asks # "add" => cloned = Member
  /\ asks # "publish" => HasRemote(Root) /\ \A m \in Member : place[m] = Absent
  /\ asks # "pull" => head = {1} /\ theirs = {1} /\ \A m \in Member : live[m] = Gone

Next ==
  \/ asks = "publish" /\ PublishStep /\ UNCHANGED <<stage, rootVars, asks>>
  \/ asks = "add" /\ StageStep /\ UNCHANGED <<publish, rootVars, asks>>
  \/ asks = "pull" /\ RootPullStep /\ UNCHANGED <<publish, stage, asks>>

Spec == Init /\ [][Next]_<<publish, stage, rootVars, asks>>
=============================================================================
