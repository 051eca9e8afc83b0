-------------------------- MODULE BranchOps_proofs --------------------------
(***************************************************************************)
(* Branch operations, for any members, processes, branches, commits and    *)
(* requests: what create, delete, merge and switch leave of the members'   *)
(* branches, and what the lock file says of them.                          *)
(***************************************************************************)
EXTENDS BranchOps, SequenceTheorems, TLAPS

Holding == {"working", "switching", "rollback", "writing"}
Creates == {"create", "create_switch"}

\* The members whose branch is to be taken back.
Made(p) == {made[p][i] : i \in DOMAIN made[p]}

\* Who holds the lock is who is past try_acquire and has not returned.
Held == \A p \in Proc : holder = p <=> pc[p] \in Holding

\* What a process has in its locals at each point of its work.
Locals ==
  \A p \in Proc :
    /\ pc[p] # "idle" => req[p] \in Requests
    /\ todo[p] \subseteq req[p].targets
    /\ pc[p] \in {"idle", "planned"} => made[p] = <<>> /\ seen[p] = Unseen
    /\ pc[p] = "switching" => current[p] \in Member
    /\ pc[p] \in {"switching", "rollback"} => req[p].kind \in Creates
    /\ pc[p] = "writing" => mem[p] = lock
    /\ req[p].kind = "merge" => \A m \in req[p].targets : plan[p][m].head \in Branch

\* What the holder has observed is as it is, and of the rest the lock file is
\* right; without a holder the lock file is right.
Recorded(m) ==
  IF holder # NoProc /\ seen[holder][m] # NoState THEN seen[holder][m] ELSE lock[m]

Followed ==
  smooth => /\ \A m \in Member : Recorded(m) = Resolved(repos[m])
            /\ \A p \in Proc : pc[p] # "rollback"

\* A create that has been alone since its plan: where it made the branch there
\* was none, and where it did not, or took it back, the ref is as planned.
Restorable(p) ==
  \A m \in req[p].targets :
    /\ m \in Made(p) => plan[p][m].ref = NoRef
    /\ m \notin Made(p) \cup kept[p] => repos[m].refs[req[p].branch] = plan[p][m].ref

Creating(p) == pc[p] \notin {"idle", "writing"} /\ req[p].kind \in Creates

Undoing ==
  \A p \in Proc :
    /\ todo[p] \cap Made(p) = {}
    /\ pc[p] # "rollback" => kept[p] = {}
    /\ Creating(p) /\ alone[p] => Restorable(p)

Typed == TypeOK /\ HeadResolves
IInv  == Typed /\ Held /\ Locals

-----------------------------------------------------------------------------
(* What the calls of GitBackend may do to a repository. *)

\* HEAD is detached or on a branch that exists.
Resolves(r) == r.head # Detached => r.refs[r.head] # NoRef
Sound == {r \in Repo : Resolves(r)}

LEMMA NoCommit == \A c \in Commit : c # NoRef
BY RepoAssumption DEF Commit

LEMMA SoundHead ==
  ASSUME NEW r \in Sound
  PROVE  HeadCommit(r) \in Commit /\ Resolved(r) \in State
BY RepoAssumption DEF Sound, Resolves, Repo, Ref, HeadCommit, Resolved, State

\* branch_create leaves the repository, or sets a branch that was missing or
\* is there already; HEAD does not move.
LEMMA CreateOutcome ==
  ASSUME NEW r \in Sound, NEW b \in Branch, NEW c \in Commit,
         NEW out \in BranchCreate(r, b, c)
  PROVE  /\ out.repo \in Sound /\ Resolved(out.repo) = Resolved(r)
         /\ \A x \in Branch : r.refs[x] # NoRef => out.repo.refs[x] = r.refs[x]
         /\ out.res \in {"ok", "error"}
         /\ out.res = "error" => out.repo = r
         /\ r.refs[b] # NoRef => out.repo.refs = r.refs
<1>1. CASE out = Error(r)
  BY <1>1 DEF Error
<1>2. CASE r.refs[b] \in {NoRef, c} /\ out = Ok([r EXCEPT !.refs[b] = c])
  <2>1. /\ out.repo = [r EXCEPT !.refs[b] = c] /\ out.res = "ok"
    BY <1>2 DEF Ok
  <2>2. /\ out.repo \in Repo /\ out.repo.head = r.head /\ out.repo.tip = r.tip
        /\ out.repo.refs = [r.refs EXCEPT ![b] = c]
    BY <2>1 DEF Sound, Repo, Ref
  <2>3. \A x \in Branch : r.refs[x] # NoRef => out.repo.refs[x] = r.refs[x]
    BY <1>2, <2>2 DEF Sound, Repo
  <2>4. r.refs[b] # NoRef => out.repo.refs = r.refs
    BY <1>2, <2>2 DEF Sound, Repo
  <2>5. r.head # Detached => r.head \in Branch /\ out.repo.refs[r.head] = r.refs[r.head]
    BY <2>3 DEF Sound, Resolves, Repo
  <2> QED
    BY <2>1, <2>2, <2>3, <2>4, <2>5 DEF Sound, Resolves, Resolved, HeadCommit
<1> QED
  BY <1>1, <1>2 DEF BranchCreate, EnsureBranchAtCommit

\* branch_delete leaves the repository, or takes away the branch, which is not
\* the one HEAD is on.
LEMMA DeleteOutcome ==
  ASSUME NEW r \in Sound, NEW b \in Branch, NEW out \in BranchDelete(r, b)
  PROVE  /\ out.repo \in Sound /\ Resolved(out.repo) = Resolved(r)
         /\ \A x \in Branch \ {b} : out.repo.refs[x] = r.refs[x]
         /\ out.res \in {"ok", "error"}
         /\ out.res = "error" => out.repo = r
         /\ out.res = "ok" => out.repo.refs[b] = NoRef
<1>1. CASE out = Error(r)
  BY <1>1 DEF Error
<1>2. CASE r.head # b /\ out = Ok([r EXCEPT !.refs[b] = NoRef])
  <2>1. /\ out.repo = [r EXCEPT !.refs[b] = NoRef] /\ out.res = "ok"
    BY <1>2 DEF Ok
  <2>2. /\ out.repo \in Repo /\ out.repo.head = r.head /\ out.repo.tip = r.tip
        /\ out.repo.refs = [r.refs EXCEPT ![b] = NoRef]
    BY <2>1 DEF Sound, Repo, Ref
  <2>3. r.head # Detached => r.head \in Branch /\ out.repo.refs[r.head] = r.refs[r.head]
    BY <1>2, <2>2 DEF Sound, Repo
  <2> QED
    BY <2>1, <2>2, <2>3 DEF Sound, Resolves, Resolved, HeadCommit, Repo
<1> QED
  BY <1>1, <1>2 DEF BranchDelete

\* switch_branch moves HEAD to the branch, if it is there, and no branch.
LEMMA SwitchOutcome ==
  ASSUME NEW r \in Sound, NEW b \in Branch, NEW out \in SwitchBranch(r, b)
  PROVE  /\ out.repo \in Sound /\ out.repo.refs = r.refs
         /\ out.res \in {"ok", "error"}
<1>1. CASE out = Error(r)
  BY <1>1 DEF Error, Sound, Repo
<1>2. CASE r.refs[b] # NoRef /\ out.repo = Attach(r, b) /\ out.res \in {"ok", "error"}
  <2>1. Attach(r, b) \in Repo /\ Attach(r, b).head = b /\ Attach(r, b).refs = r.refs
    BY DEF Attach, Sound, Repo, Commit
  <2> QED
    BY <1>2, <2>1 DEF Sound, Resolves
<1> QED
  BY <1>1, <1>2 DEF SwitchBranch, CheckedOut, Ok, Error

\* A commit to HEAD, or to the branch it is on.
LEMMA MovedHead ==
  ASSUME NEW r \in Sound, NEW c \in Commit
  PROVE  /\ MoveHead(r, c) \in Sound
         /\ r.head = Detached => MoveHead(r, c).refs = r.refs
         /\ r.head # Detached => MoveHead(r, c).refs = [r.refs EXCEPT ![r.head] = c]
<1>1. CASE r.head = Detached
  BY <1>1 DEF MoveHead, Sound, Resolves, Repo
<1>2. CASE r.head # Detached
  <2>1. r.head \in Branch /\ c \in Ref /\ MoveHead(r, c) = [r EXCEPT !.refs[r.head] = c]
    BY <1>2 DEF MoveHead, Sound, Repo, Ref
  <2>2. /\ MoveHead(r, c) \in Repo /\ MoveHead(r, c).head = r.head
        /\ MoveHead(r, c).refs = [r.refs EXCEPT ![r.head] = c]
    BY <2>1 DEF Sound, Repo
  <2> QED
    BY <1>2, <2>1, <2>2, NoCommit DEF Sound, Resolves, Repo
<1> QED
  BY <1>1, <1>2

\* merge_upstream into the branch HEAD is on takes nothing from any branch; a
\* conflict leaves HEAD where it was.
LEMMA MergeOutcome ==
  ASSUME NEW r \in Sound, NEW b \in Branch, NEW c \in Commit,
         NEW out \in MergeUpstream(r, b, c)
  PROVE  /\ out.repo \in Sound
         /\ out.res \in {"ok", "conflict", "diverged", "error"}
         /\ out.res = "conflict" => Resolved(out.repo) = Resolved(r)
         /\ r.head = b => \A x \in Branch : r.refs[x] # NoRef =>
              out.repo.refs[x] # NoRef /\ Within(r.refs[x], out.repo.refs[x])
<1>1. CASE out \in {Error(r), Ok(r), Diverged(r)}
  BY <1>1 DEF Error, Ok, Diverged, Within
<1>2. CASE out = Conflicted(r)
  BY <1>2 DEF Conflicted, Conflict, Sound, Resolves, Resolved, HeadCommit, Repo, Within
<1>3. CASE out = Ok(MoveHead(r, HeadCommit(r) \cup c))
  <2> DEFINE d == HeadCommit(r) \cup c
  <2>1. d \in Commit /\ HeadCommit(r) \subseteq d
    BY SoundHead DEF Commit
  <2> HIDE DEF d
  <2>2. out.repo = MoveHead(r, d) /\ out.res = "ok"
    BY <1>3 DEF Ok, d
  <2>3. ASSUME r.head = b, NEW x \in Branch, r.refs[x] # NoRef
        PROVE  out.repo.refs[x] # NoRef /\ Within(r.refs[x], out.repo.refs[x])
    <3>1. out.repo.refs = [r.refs EXCEPT ![b] = d] /\ HeadCommit(r) = r.refs[b]
      BY <2>1, <2>2, <2>3, MovedHead, RepoAssumption DEF HeadCommit
    <3> QED
      BY <2>1, <2>3, <3>1, NoCommit DEF Within, Sound, Repo
  <2> QED
    BY <2>1, <2>2, <2>3, MovedHead
<1>4. CASE /\ Within(HeadCommit(r), c) /\ r.refs[b] # NoRef
           /\ out \in CheckedOut(r, Attach([r EXCEPT !.refs[b] = c], b))
  <2> DEFINE s == Attach([r EXCEPT !.refs[b] = c], b)
  <2>1. /\ s \in Repo /\ s.head = b /\ s.refs = [r.refs EXCEPT ![b] = c]
    BY DEF Attach, Sound, Repo, Ref, Commit
  <2>2. s \in Sound
    BY <2>1, NoCommit DEF Sound, Resolves, Repo
  <2>3. ASSUME r.head = b, NEW x \in Branch, r.refs[x] # NoRef
        PROVE  s.refs[x] # NoRef /\ Within(r.refs[x], s.refs[x])
    BY <1>4, <2>1, <2>3, NoCommit, RepoAssumption DEF Within, HeadCommit, Sound, Repo
  <2> HIDE DEF s
  <2>4. out = Error(r) \/ (out.repo = s /\ out.res \in {"ok", "error"})
    BY <1>4 DEF CheckedOut, Ok, Error, s
  <2> QED
    BY <1>1, <2>2, <2>3, <2>4
<1> QED
  BY <1>1, <1>2, <1>3, <1>4 DEF MergeUpstream, FastForward

\* Whatever people do to a repository with git, HEAD keeps its branch.
LEMMA EditedSound ==
  ASSUME NEW r \in Sound, NEW s \in Edited(r)
  PROVE  s \in Sound
<1>1. ASSUME NEW x \in Sound, NEW d \in BOOLEAN, NEW w \in BOOLEAN
      PROVE  [x EXCEPT !.dirty = d] \in Sound /\ [x EXCEPT !.dirty = d, !.midway = w] \in Sound
  BY DEF Sound, Repo, Resolves
<1>2. CASE \E c \in Change :
             s = [MoveHead(r, HeadCommit(r) \cup {c}) EXCEPT !.dirty = FALSE, !.midway = FALSE]
  <2>1. PICK c \in Change :
          s = [MoveHead(r, HeadCommit(r) \cup {c}) EXCEPT !.dirty = FALSE, !.midway = FALSE]
    BY <1>2
  <2>2. HeadCommit(r) \cup {c} \in Commit
    BY SoundHead DEF Commit
  <2> QED
    BY <1>1, <2>1, <2>2, MovedHead
<1>3. CASE \E d \in BOOLEAN : s = [r EXCEPT !.dirty = d]
  BY <1>1, <1>3
<1>4. CASE \E b \in Branch : r.refs[b] # NoRef /\ s = Attach(r, b)
  BY <1>4 DEF Attach, Sound, Repo, Resolves, Commit
<1>5. CASE s = Detach(r, HeadCommit(r))
  BY <1>5, SoundHead DEF Detach, Sound, Repo, Resolves
<1>6. CASE \E b \in Branch : r.refs[b] = NoRef /\ s = [r EXCEPT !.refs[b] = HeadCommit(r)]
  <2>1. PICK b \in Branch : r.refs[b] = NoRef /\ s = [r EXCEPT !.refs[b] = HeadCommit(r)]
    BY <1>6
  <2> DEFINE c == HeadCommit(r)
  <2>2. c \in Ref
    BY SoundHead DEF Ref
  <2> HIDE DEF c
  <2>3. /\ s \in Repo /\ s.head = r.head /\ s.refs = [r.refs EXCEPT ![b] = c]
    BY <2>1, <2>2 DEF Sound, Repo, c
  <2> QED
    BY <2>1, <2>3 DEF Sound, Resolves, Repo
<1>7. CASE \E b \in Branch \ {r.head} : s = [r EXCEPT !.refs[b] = NoRef]
  <2>1. PICK b \in Branch \ {r.head} : s = [r EXCEPT !.refs[b] = NoRef]
    BY <1>7
  <2>2. /\ s \in Repo /\ s.head = r.head /\ s.refs = [r.refs EXCEPT ![b] = NoRef]
    BY <2>1 DEF Sound, Repo, Ref
  <2> QED
    BY <2>1, <2>2 DEF Sound, Resolves, Repo
<1> QED
  BY <1>2, <1>3, <1>4, <1>5, <1>6, <1>7 DEF Edited

-----------------------------------------------------------------------------
(* The steps, with what the calls in them may do put in. *)

LEMMA SoundMembers ==
  TypeOK => (HeadResolves <=> repos \in [Member -> Sound])
<1> SUFFICES ASSUME TypeOK PROVE HeadResolves <=> repos \in [Member -> Sound]
  OBVIOUS
<1>1. repos \in [Member -> Repo]
  BY DEF TypeOK
<1>2. HeadResolves <=> \A m \in Member : Resolves(repos[m])
  BY DEF HeadResolves, Resolves
<1> QED
  BY <1>1, <1>2 DEF Sound

LEMMA RequestParts ==
  ASSUME IInv, NEW p \in Proc, pc[p] # "idle"
  PROVE  /\ req[p].branch \in Branch /\ req[p].start \in Branch \cup {DefaultStart}
         /\ req[p].targets \subseteq Member
BY BranchAssumption DEF IInv, Locals, Request

Created(p, m, s) ==
  /\ repos' = [repos EXCEPT ![m] = s]
  /\ alone' = Touched(Proc \ {p}, m, s)
  /\ Resolved(s) = Resolved(repos[m])
  /\ \A x \in Branch : repos[m].refs[x] # NoRef => s.refs[x] = repos[m].refs[x]
  /\ \/ /\ pc' = [pc EXCEPT ![p] = "rollback"] /\ smooth' = FALSE
        /\ s = repos[m] /\ UNCHANGED <<made, current>>
     \/ /\ smooth' = smooth
        /\ \/ /\ repos[m].refs[req[p].branch] = NoRef
              /\ made' = [made EXCEPT ![p] = Append(@, m)]
           \/ s.refs = repos[m].refs /\ made' = made
        /\ \/ /\ req[p].kind = "create_switch"
              /\ pc' = [pc EXCEPT ![p] = "switching"]
              /\ current' = [current EXCEPT ![p] = m]
           \/ pc' = [pc EXCEPT ![p] = "working"] /\ current' = current

LEMMA CreateEffect ==
  ASSUME IInv, NEW p \in Proc, NEW m \in Member, Create(p, m)
  PROVE  \E s \in Sound : Created(p, m, s)
<1> DEFINE b     == req[p].branch
           start == Denotes(repos[m], req[p].start)
           outs  == IF start = NoRef THEN {Error(repos[m])}
                    ELSE BranchCreate(repos[m], b, start)
<1>1. repos[m] \in Sound
  BY SoundMembers DEF IInv, Typed
<1>2. b \in Branch /\ (start = NoRef \/ start \in Commit)
  <2>1. req[p].branch \in Branch /\ req[p].start \in Branch \cup {DefaultStart}
    BY RequestParts DEF Create
  <2> QED
    BY <1>1, <2>1, SoundHead DEF Denotes, Sound, Repo, Ref
<1>3. PICK out \in outs :
        /\ repos' = [repos EXCEPT ![m] = out.repo]
        /\ alone' = Touched(Proc \ {p}, m, out.repo)
        /\ IF out.res # "ok"
           THEN Goto(p, "rollback") /\ smooth' = FALSE /\ UNCHANGED <<made, current>>
           ELSE /\ made' = [made EXCEPT ![p] = IF repos[m].refs[b] = NoRef THEN Append(@, m) ELSE @]
                /\ IF req[p].kind = "create_switch"
                   THEN Goto(p, "switching") /\ current' = [current EXCEPT ![p] = m]
                   ELSE Goto(p, "working") /\ UNCHANGED current
                /\ UNCHANGED smooth
  BY DEF Create
<1> HIDE DEF b, start
<1>4. /\ out.repo \in Sound /\ Resolved(out.repo) = Resolved(repos[m])
      /\ \A x \in Branch : repos[m].refs[x] # NoRef => out.repo.refs[x] = repos[m].refs[x]
      /\ out.res # "ok" => out.repo = repos[m]
      /\ repos[m].refs[b] # NoRef => out.repo.refs = repos[m].refs
  <2>1. CASE out = Error(repos[m])
    BY <1>1, <2>1 DEF Error
  <2>2. CASE start \in Commit /\ out \in BranchCreate(repos[m], b, start)
    BY <1>1, <1>2, <2>2, CreateOutcome
  <2> QED
    BY <1>2, <2>1, <2>2
<1>5. made \in [Proc -> Seq(Member)]
  BY DEF IInv, Typed, TypeOK
<1>6. CASE out.res # "ok"
  BY <1>3, <1>4, <1>6 DEF Goto, Created
<1>7. CASE out.res = "ok"
  <2>1. \/ /\ repos[m].refs[b] = NoRef
           /\ made' = [made EXCEPT ![p] = Append(@, m)]
        \/ out.repo.refs = repos[m].refs /\ made' = made
    BY <1>3, <1>4, <1>5, <1>7
  <2>2. smooth' = smooth
    BY <1>3, <1>7
  <2>3. \/ /\ req[p].kind = "create_switch"
           /\ pc' = [pc EXCEPT ![p] = "switching"]
           /\ current' = [current EXCEPT ![p] = m]
        \/ pc' = [pc EXCEPT ![p] = "working"] /\ current' = current
    BY <1>3, <1>7 DEF Goto
  <2> QED
    BY <1>3, <1>4, <2>1, <2>2, <2>3 DEF b, Created
<1> QED
  BY <1>6, <1>7

LEMMA SwitchCreatedEffect ==
  ASSUME IInv, NEW p \in Proc, SwitchCreated(p)
  PROVE  \E s \in Sound :
           /\ current[p] \in Member /\ s.refs = repos[current[p]].refs
           /\ repos' = [repos EXCEPT ![current[p]] = s]
           /\ alone' = Touched(Proc \ {p}, current[p], s)
           /\ \/ /\ pc' = [pc EXCEPT ![p] = "rollback"] /\ smooth' = FALSE
                 /\ seen' = seen
              \/ /\ pc' = [pc EXCEPT ![p] = "working"] /\ smooth' = smooth
                 /\ seen' = [seen EXCEPT ![p][current[p]] = Resolved(s)]
<1> DEFINE m == current[p]
<1>1. m \in Member /\ req[p].branch \in Branch
  BY RequestParts DEF SwitchCreated, IInv, Locals
<1>2. repos[m] \in Sound
  BY <1>1, SoundMembers DEF IInv, Typed
<1>3. PICK out \in SwitchBranch(repos[m], req[p].branch) :
        /\ repos' = [repos EXCEPT ![m] = out.repo]
        /\ alone' = Touched(Proc \ {p}, m, out.repo)
        /\ IF out.res # "ok"
           THEN Goto(p, "rollback") /\ smooth' = FALSE /\ UNCHANGED seen
           ELSE /\ Goto(p, "working")
                /\ seen' = [seen EXCEPT ![p][m] = Resolved(out.repo)]
                /\ UNCHANGED smooth
  BY DEF SwitchCreated
<1>4. out.repo \in Sound /\ out.repo.refs = repos[m].refs
  BY <1>1, <1>2, SwitchOutcome
<1> QED
  BY <1>1, <1>3, <1>4 DEF Goto

RolledOne(p, m, s) ==
  /\ m = made[p][Len(made[p])]
  /\ repos' = [repos EXCEPT ![m] = s]
  /\ alone' = Touched(Proc \ {p}, m, s)
  /\ Resolved(s) = Resolved(repos[m])
  /\ \A x \in Branch \ {req[p].branch} : s.refs[x] = repos[m].refs[x]
  /\ \/ s.refs[req[p].branch] = NoRef /\ kept' = kept
     \/ s = repos[m] /\ kept' = [kept EXCEPT ![p] = @ \cup {m}]

LEMMA RollbackEffect ==
  ASSUME IInv, NEW p \in Proc, Rollback(p)
  PROVE  \E m \in Member, s \in Sound : RolledOne(p, m, s)
<1> DEFINE m == made[p][Len(made[p])]
<1>1. m \in Member /\ req[p].branch \in Branch
  <2>1. made[p] \in Seq(Member) /\ made[p] # <<>>
    BY DEF Rollback, IInv, Typed, TypeOK
  <2> QED
    BY <2>1, RequestParts DEF Rollback
<1>2. repos[m] \in Sound
  BY <1>1, SoundMembers DEF IInv, Typed
<1>3. PICK out \in BranchDelete(repos[m], req[p].branch) :
        /\ repos' = [repos EXCEPT ![m] = out.repo]
        /\ alone' = Touched(Proc \ {p}, m, out.repo)
        /\ kept' = [kept EXCEPT ![p] = IF out.res = "ok" THEN @ ELSE @ \cup {m}]
  BY DEF Rollback
<1>4. /\ out.repo \in Sound /\ Resolved(out.repo) = Resolved(repos[m])
      /\ \A x \in Branch \ {req[p].branch} : out.repo.refs[x] = repos[m].refs[x]
      /\ out.res = "ok" \/ out.repo = repos[m]
      /\ out.res = "ok" => out.repo.refs[req[p].branch] = NoRef
  BY <1>1, <1>2, DeleteOutcome
<1>5. kept \in [Proc -> SUBSET Member]
  BY DEF IInv, Typed, TypeOK
<1>6. \/ out.repo.refs[req[p].branch] = NoRef /\ kept' = kept
      \/ out.repo = repos[m] /\ kept' = [kept EXCEPT ![p] = @ \cup {m}]
  BY <1>3, <1>4, <1>5
<1> QED
  BY <1>1, <1>3, <1>4, <1>6 DEF RolledOne

Visited(p, m, s) ==
  /\ pc[p] = "working" /\ req[p].kind \in {"delete", "merge", "switch"}
  /\ repos' = [repos EXCEPT ![m] = s]
  /\ \/ /\ pc' = [pc EXCEPT ![p] = "working"] /\ holder' = holder
        /\ alone' = Touched(Proc \ {p}, m, s)
        /\ todo' = [todo EXCEPT ![p] = @ \ {m}]
        /\ \/ seen' = seen /\ Resolved(s) = Resolved(repos[m])
           \/ seen' = [seen EXCEPT ![p][m] = Resolved(s)]
        /\ UNCHANGED <<req, plan, current, made, mem, kept, smooth>>
     \/ /\ Return(p) /\ smooth' = FALSE
        /\ alone' = [Touched(Proc, m, s) EXCEPT ![p] = FALSE]
  /\ UNCHANGED <<lock, requests, edits>>

\* A loop over members that stops at the first error.
LEMMA VisitEffect ==
  ASSUME IInv, NEW p \in Proc, NEW m \in Member, NEW outcomes, Visit(p, m, outcomes),
         req[p].kind \in {"delete", "merge", "switch"},
         \A out \in outcomes :
           /\ out.repo \in Sound
           /\ out.res = "conflict" \/ req[p].kind = "delete" =>
                Resolved(out.repo) = Resolved(repos[m])
  PROVE  \E out \in outcomes : out.repo \in Sound /\ Visited(p, m, out.repo)
<1>1. PICK out \in outcomes :
        /\ repos' = [repos EXCEPT ![m] = out.repo]
        /\ IF out.res \in {"ok", "conflict"}
           THEN /\ Goto(p, "working")
                /\ alone' = Touched(Proc \ {p}, m, out.repo)
                /\ todo' = [todo EXCEPT ![p] = @ \ {m}]
                /\ seen' = [seen EXCEPT ![p][m] =
                              IF out.res = "ok" /\ req[p].kind # "delete"
                              THEN Resolved(out.repo) ELSE @]
                /\ UNCHANGED <<req, plan, current, made, mem, kept, smooth>>
           ELSE /\ Return(p)
                /\ alone' = [Touched(Proc, m, out.repo) EXCEPT ![p] = FALSE]
                /\ smooth' = FALSE
  BY DEF Visit
<1>2. /\ out.repo \in Sound
      /\ out.res = "conflict" \/ req[p].kind = "delete" => Resolved(out.repo) = Resolved(repos[m])
  OBVIOUS
<1>3. /\ pc[p] = "working" /\ UNCHANGED <<lock, requests, edits>>
      /\ seen \in [Proc -> [Member -> State \cup {NoState}]]
  BY DEF Visit, IInv, Typed, TypeOK
<1>4. CASE out.res \in {"ok", "conflict"} /\ ~(out.res = "ok" /\ req[p].kind # "delete")
  <2>1. seen' = seen
    BY <1>1, <1>3, <1>4
  <2>2. Resolved(out.repo) = Resolved(repos[m])
    BY <1>2, <1>4
  <2> QED
    BY <1>1, <1>2, <1>3, <1>4, <2>1, <2>2 DEF Visited, Goto
<1>5. CASE out.res = "ok" /\ req[p].kind # "delete"
  BY <1>1, <1>2, <1>3, <1>5 DEF Visited, Goto
<1>6. CASE out.res \notin {"ok", "conflict"}
  BY <1>1, <1>2, <1>3, <1>6 DEF Visited
<1> QED
  BY <1>4, <1>5, <1>6

Deleted(p, m, s) ==
  /\ \A x \in Branch \ {req[p].branch} : s.refs[x] = repos[m].refs[x]
  /\ s = repos[m] \/ s.refs[req[p].branch] = NoRef

LEMMA DeleteEffect ==
  ASSUME IInv, NEW p \in Proc, NEW m \in Member, Delete(p, m)
  PROVE  \E s \in Sound : Visited(p, m, s) /\ Deleted(p, m, s)
<1>1. repos[m] \in Sound /\ req[p].branch \in Branch
  BY SoundMembers, RequestParts DEF IInv, Typed, Delete, Visit
<1>2. PICK out \in BranchDelete(repos[m], req[p].branch) :
        out.repo \in Sound /\ Visited(p, m, out.repo)
  <2>1. \A out \in BranchDelete(repos[m], req[p].branch) :
          out.repo \in Sound /\ Resolved(out.repo) = Resolved(repos[m])
    BY <1>1, DeleteOutcome
  <2> HIDE DEF BranchDelete
  <2> QED
    BY <2>1, VisitEffect DEF Delete
<1> QED
  BY <1>1, <1>2, DeleteOutcome DEF Deleted

Merged(p, m, s) ==
  repos[m].head = plan[p][m].head =>
    \A x \in Branch : repos[m].refs[x] # NoRef =>
      s.refs[x] # NoRef /\ Within(repos[m].refs[x], s.refs[x])

LEMMA MergeEffect ==
  ASSUME IInv, NEW p \in Proc, NEW m \in Member, Merge(p, m)
  PROVE  \E s \in Sound : Visited(p, m, s) /\ Merged(p, m, s)
<1> DEFINE source == repos[m].refs[req[p].branch]
           outs   == IF source = NoRef THEN {Error(repos[m])}
                     ELSE MergeUpstream(repos[m], plan[p][m].head, source)
<1>1. repos[m] \in Sound /\ req[p].branch \in Branch /\ plan[p][m].head \in Branch
  <2>1. m \in req[p].targets /\ pc[p] = "working"
    BY DEF Merge, Visit, IInv, Locals
  <2> QED
    BY <2>1, SoundMembers, RequestParts DEF IInv, Typed, Merge, Locals
<1>2. \A out \in outs :
        /\ out.repo \in Sound
        /\ out.res = "conflict" => Resolved(out.repo) = Resolved(repos[m])
        /\ repos[m].head = plan[p][m].head =>
             \A x \in Branch : repos[m].refs[x] # NoRef =>
               out.repo.refs[x] # NoRef /\ Within(repos[m].refs[x], out.repo.refs[x])
  <2>1. CASE source = NoRef
    BY <1>1, <2>1 DEF Error, Within
  <2>2. CASE source # NoRef
    <3>1. source \in Commit
      BY <1>1, <2>2 DEF Sound, Repo, Ref
    <3> HIDE DEF source
    <3> QED
      BY <1>1, <2>2, <3>1, MergeOutcome
  <2> QED
    BY <2>1, <2>2
<1>3. req[p].kind = "merge" /\ Visit(p, m, outs)
  BY DEF Merge
<1> HIDE DEF outs
<1> QED
  BY <1>2, <1>3, VisitEffect DEF Merged

LEMMA SwitchEffect ==
  ASSUME IInv, NEW p \in Proc, NEW m \in Member, Switch(p, m)
  PROVE  \E s \in Sound : Visited(p, m, s) /\ s.refs = repos[m].refs
<1>1. repos[m] \in Sound /\ req[p].branch \in Branch
  BY SoundMembers, RequestParts DEF IInv, Typed, Switch, Visit
<1>2. \A out \in SwitchBranch(repos[m], req[p].branch) :
        out.repo \in Sound /\ out.repo.refs = repos[m].refs /\ out.res \in {"ok", "error"}
  BY <1>1, SwitchOutcome
<1>3. PICK out \in SwitchBranch(repos[m], req[p].branch) :
        out.repo \in Sound /\ Visited(p, m, out.repo)
  BY <1>2, VisitEffect DEF Switch
<1> QED
  BY <1>2, <1>3

-----------------------------------------------------------------------------
(* Types, who holds the lock, and the locals of the processes. *)

LEMMA TouchedType ==
  ASSUME TypeOK, NEW others, NEW m, NEW r
  PROVE  Touched(others, m, r) \in [Proc -> BOOLEAN]
BY DEF TypeOK, Touched

LEMMA MemberWritten ==
  ASSUME Typed, NEW m \in Member, NEW s \in Sound
  PROVE  /\ [repos EXCEPT ![m] = s] \in [Member -> Sound]
         /\ [repos EXCEPT ![m] = s] \in [Member -> Repo]
BY SoundMembers DEF Typed, Sound

\* The end of an operation leaves nothing behind.
LEMMA ReturnInv ==
  ASSUME IInv, NEW p \in Proc, Return(p), repos' \in [Member -> Sound],
         lock' \in [Member -> State], lock' = lock \/ pc[p] = "writing",
         alone' \in [Proc -> BOOLEAN], smooth' \in BOOLEAN,
         requests' = requests, edits' = edits
  PROVE  IInv'
<1>1. TypeOK'
  <2>1. /\ holder' \in Proc \cup {NoProc}
        /\ pc' \in [Proc -> {"idle", "planned", "working", "switching", "rollback", "writing"}]
    BY DEF IInv, Typed, TypeOK, LockTypeOK, Return, ReleaseIfHeld
  <2>2. req' \in [Proc -> Requests \cup {NoRequest}] /\ todo' \in [Proc -> SUBSET Member]
    BY DEF IInv, Typed, TypeOK, Return
  <2>3. current' \in [Proc -> Member \cup {NoMember}] /\ made' \in [Proc -> Seq(Member)]
    BY DEF IInv, Typed, TypeOK, Return
  <2>4. /\ seen' \in [Proc -> [Member -> State \cup {NoState}]]
        /\ mem' \in [Proc -> [Member -> State \cup {NoState}]]
    BY DEF IInv, Typed, TypeOK, Return, Unseen
  <2>5. plan' \in [Proc -> [Member -> Planned]] /\ kept' \in [Proc -> SUBSET Member]
    <3>1. NoPlan \in [Member -> Planned]
      BY BranchAssumption DEF NoPlan, Planned, Ref
    <3> QED
      BY <3>1 DEF IInv, Typed, TypeOK, Return
  <2>6. repos' \in [Member -> Repo]
    BY DEF Sound
  <2> QED
    BY <2>1, <2>2, <2>3, <2>4, <2>5, <2>6 DEF IInv, Typed, TypeOK, LockTypeOK
<1>2. HeadResolves'
  BY DEF HeadResolves, Sound, Resolves
<1>3. Held'
  BY NoProcAssumption DEF IInv, Typed, TypeOK, Held, Return, ReleaseIfHeld, Holding
<1>4. Locals'
  <2>1. \A q \in Proc \ {p} : pc[q] = "writing" => lock' = lock
    BY DEF IInv, Held, Holding
  <2>2. ASSUME NEW q \in Proc \ {p}
        PROVE  /\ pc'[q] = pc[q] /\ req'[q] = req[q] /\ todo'[q] = todo[q] /\ made'[q] = made[q]
               /\ seen'[q] = seen[q] /\ current'[q] = current[q] /\ mem'[q] = mem[q]
               /\ plan'[q] = plan[q]
    BY DEF IInv, Typed, TypeOK, Return
  <2>3. /\ pc'[p] = "idle" /\ req'[p] = NoRequest /\ todo'[p] = {} /\ made'[p] = <<>>
        /\ seen'[p] = Unseen
    BY DEF IInv, Typed, TypeOK, Return
  <2> QED
    BY <2>1, <2>2, <2>3 DEF IInv, Locals, NoRequest, Unseen
<1> QED
  BY <1>1, <1>2, <1>3, <1>4 DEF IInv, Typed

\* A step of the holder that takes it to another point of its work, with its
\* request and plan as they are.
LEMMA WorkInv ==
  ASSUME IInv, NEW p \in Proc, NEW point \in Holding, pc[p] \in Holding,
         pc' = [pc EXCEPT ![p] = point], holder' = holder,
         repos' \in [Member -> Sound], alone' \in [Proc -> BOOLEAN], smooth' \in BOOLEAN,
         UNCHANGED <<lock, req, plan, requests, edits>>,
         todo' \in [Proc -> SUBSET Member],
         current' \in [Proc -> Member \cup {NoMember}], made' \in [Proc -> Seq(Member)],
         seen' \in [Proc -> [Member -> State \cup {NoState}]],
         mem' \in [Proc -> [Member -> State \cup {NoState}]],
         kept' \in [Proc -> SUBSET Member],
         \A q \in Proc \ {p} :
           /\ todo'[q] = todo[q] /\ current'[q] = current[q] /\ made'[q] = made[q]
           /\ seen'[q] = seen[q] /\ mem'[q] = mem[q],
         todo'[p] \subseteq todo[p],
         point = "switching" => current'[p] \in Member,
         point \in {"switching", "rollback"} => req[p].kind \in Creates,
         point = "writing" => mem'[p] = lock
  PROVE  IInv'
<1>1. TypeOK'
  <2>1. /\ pc' \in [Proc -> {"idle", "planned", "working", "switching", "rollback", "writing"}]
        /\ repos' \in [Member -> Repo]
    BY DEF IInv, Typed, TypeOK, Holding, Sound
  <2> QED
    BY <2>1 DEF IInv, Typed, TypeOK, LockTypeOK
<1>2. HeadResolves'
  BY DEF HeadResolves, Sound, Resolves
<1>3. pc'[p] = point /\ \A q \in Proc \ {p} : pc'[q] = pc[q]
  BY DEF IInv, Typed, TypeOK
<1>4. Held'
  BY <1>3 DEF IInv, Held
<1>5. Locals'
  <2>1. pc[p] # "idle" /\ point \notin {"idle", "planned"}
    BY DEF Holding
  <2> DEFINE Local(q) ==
        /\ pc[q] # "idle" => req[q] \in Requests
        /\ todo[q] \subseteq req[q].targets
        /\ pc[q] \in {"idle", "planned"} => made[q] = <<>> /\ seen[q] = Unseen
        /\ pc[q] = "switching" => current[q] \in Member
        /\ pc[q] \in {"switching", "rollback"} => req[q].kind \in Creates
        /\ pc[q] = "writing" => mem[q] = lock
        /\ req[q].kind = "merge" => \A m \in req[q].targets : plan[q][m].head \in Branch
  <2>2. \A q \in Proc : Local(q)
    BY DEF IInv, Locals
  <2>3. Local(p)'
    <3>1. pc[p] # "idle" => req[p] \in Requests
      BY <2>2
    <3>2. /\ todo[p] \subseteq req[p].targets
          /\ req[p].kind = "merge" => \A m \in req[p].targets : plan[p][m].head \in Branch
      BY <2>2
    <3>3. req'[p] = req[p] /\ plan'[p] = plan[p] /\ lock' = lock
      OBVIOUS
    <3>4. /\ pc'[p] # "idle" => req'[p] \in Requests
          /\ pc'[p] \in {"idle", "planned"} => made'[p] = <<>> /\ seen'[p] = Unseen'
      BY <1>3, <2>1, <3>1, <3>3
    <3>5. /\ todo'[p] \subseteq req'[p].targets
          /\ req'[p].kind = "merge" => \A m \in req'[p].targets : plan'[p][m].head \in Branch
      BY <3>2, <3>3
    <3>6. /\ pc'[p] = "switching" => current'[p] \in Member
          /\ pc'[p] \in {"switching", "rollback"} => req'[p].kind \in Creates
          /\ pc'[p] = "writing" => mem'[p] = lock'
      BY <1>3, <3>3
    <3> QED
      BY <3>4, <3>5, <3>6 DEF Unseen
  <2>4. ASSUME NEW q \in Proc \ {p} PROVE Local(q)'
    <3>1. /\ pc'[q] = pc[q] /\ req'[q] = req[q] /\ plan'[q] = plan[q] /\ lock' = lock
          /\ todo'[q] = todo[q] /\ current'[q] = current[q] /\ made'[q] = made[q]
          /\ seen'[q] = seen[q] /\ mem'[q] = mem[q]
      BY <1>3
    <3>2. Local(q)
      BY <2>2
    <3> QED
      BY <3>1, <3>2 DEF Unseen
  <2> QED
    BY <2>3, <2>4 DEF Locals
<1> QED
  BY <1>1, <1>2, <1>4, <1>5 DEF IInv, Typed

LEMMA CreateInv ==
  ASSUME IInv, NEW p \in Proc, NEW m \in Member, Create(p, m)
  PROVE  IInv'
<1>0. PICK s \in Sound : Created(p, m, s)
  BY CreateEffect
<1>1. /\ repos' = [repos EXCEPT ![m] = s]
      /\ alone' = Touched(Proc \ {p}, m, s)
      /\ \/ /\ pc' = [pc EXCEPT ![p] = "rollback"] /\ smooth' = FALSE
            /\ UNCHANGED <<made, current>>
         \/ /\ smooth' = smooth
            /\ made' = [made EXCEPT ![p] = Append(@, m)] \/ made' = made
            /\ \/ /\ pc' = [pc EXCEPT ![p] = "switching"]
                  /\ current' = [current EXCEPT ![p] = m]
               \/ pc' = [pc EXCEPT ![p] = "working"] /\ current' = current
  BY <1>0 DEF Created
<1>2. /\ pc[p] = "working" /\ req[p].kind \in Creates /\ holder' = holder
      /\ todo' = [todo EXCEPT ![p] = @ \ {m}]
      /\ UNCHANGED <<lock, req, plan, seen, mem, requests, edits, kept>>
  BY DEF Create, Creates, Goto
<1>3. TypeOK /\ repos' \in [Member -> Sound] /\ alone' \in [Proc -> BOOLEAN]
  BY <1>1, MemberWritten, TouchedType DEF IInv, Typed
<1>4. /\ smooth' \in BOOLEAN /\ kept' \in [Proc -> SUBSET Member]
      /\ todo' \in [Proc -> SUBSET Member] /\ todo'[p] \subseteq todo[p]
      /\ \A q \in Proc \ {p} : todo'[q] = todo[q]
      /\ seen' \in [Proc -> [Member -> State \cup {NoState}]]
      /\ mem' \in [Proc -> [Member -> State \cup {NoState}]]
  BY <1>1, <1>2, <1>3 DEF TypeOK
<1>5. made' \in [Proc -> Seq(Member)] /\ \A q \in Proc \ {p} : made'[q] = made[q]
  <2>1. Append(made[p], m) \in Seq(Member) /\ made \in [Proc -> Seq(Member)]
    BY <1>3 DEF TypeOK
  <2> QED
    BY <1>1, <2>1
<1>6. PICK point \in {"rollback", "switching", "working"} :
        /\ pc' = [pc EXCEPT ![p] = point]
        /\ current' \in [Proc -> Member \cup {NoMember}]
        /\ \A q \in Proc \ {p} : current'[q] = current[q]
        /\ point = "switching" => current'[p] \in Member
  <2>1. current \in [Proc -> Member \cup {NoMember}]
    BY <1>3 DEF TypeOK
  <2> QED
    BY <1>1, <2>1
<1> QED
  BY <1>2, <1>3, <1>4, <1>5, <1>6, WorkInv DEF Holding

LEMMA SwitchCreatedInv ==
  ASSUME IInv, NEW p \in Proc, SwitchCreated(p)
  PROVE  IInv'
<1> DEFINE m == current[p]
<1>1. PICK s \in Sound :
        /\ m \in Member /\ repos' = [repos EXCEPT ![m] = s]
        /\ alone' = Touched(Proc \ {p}, m, s)
        /\ \/ /\ pc' = [pc EXCEPT ![p] = "rollback"] /\ smooth' = FALSE
              /\ seen' = seen
           \/ /\ pc' = [pc EXCEPT ![p] = "working"] /\ smooth' = smooth
              /\ seen' = [seen EXCEPT ![p][m] = Resolved(s)]
  BY SwitchCreatedEffect
<1>2. /\ pc[p] = "switching" /\ req[p].kind \in Creates /\ holder' = holder
      /\ current' = [current EXCEPT ![p] = NoMember]
      /\ UNCHANGED <<lock, req, plan, todo, made, mem, requests, edits, kept>>
  BY DEF SwitchCreated, Goto, IInv, Locals
<1>3. TypeOK /\ repos' \in [Member -> Sound] /\ alone' \in [Proc -> BOOLEAN]
  BY <1>1, MemberWritten, TouchedType DEF IInv, Typed
<1>4. /\ smooth' \in BOOLEAN /\ kept' \in [Proc -> SUBSET Member]
      /\ todo' \in [Proc -> SUBSET Member]
      /\ current' \in [Proc -> Member \cup {NoMember}]
      /\ made' \in [Proc -> Seq(Member)]
      /\ mem' \in [Proc -> [Member -> State \cup {NoState}]]
      /\ \A q \in Proc \ {p} : current'[q] = current[q]
  BY <1>1, <1>2, <1>3 DEF TypeOK
<1>5. /\ seen' \in [Proc -> [Member -> State \cup {NoState}]]
      /\ \A q \in Proc \ {p} : seen'[q] = seen[q]
  <2>1. seen \in [Proc -> [Member -> State \cup {NoState}]] /\ Resolved(s) \in State
    BY <1>3, SoundHead DEF TypeOK
  <2> QED
    BY <1>1, <2>1
<1>6. PICK point \in {"rollback", "working"} : pc' = [pc EXCEPT ![p] = point]
  BY <1>1
<1> QED
  BY <1>2, <1>3, <1>4, <1>5, <1>6, WorkInv DEF Holding

LEMMA RollbackInv ==
  ASSUME IInv, NEW p \in Proc, Rollback(p)
  PROVE  IInv'
<1>0. PICK m \in Member, s \in Sound : RolledOne(p, m, s)
  BY RollbackEffect
<1>1. /\ repos' = [repos EXCEPT ![m] = s]
      /\ alone' = Touched(Proc \ {p}, m, s)
      /\ kept' = kept \/ kept' = [kept EXCEPT ![p] = @ \cup {m}]
  BY <1>0 DEF RolledOne
<1>2. /\ pc[p] = "rollback" /\ req[p].kind \in Creates
      /\ made' = [made EXCEPT ![p] = SubSeq(@, 1, Len(@) - 1)] /\ made[p] # <<>>
      /\ UNCHANGED <<lock, holder, pc, req, plan, todo, current, seen, mem,
                     requests, edits, smooth>>
  BY DEF Rollback, IInv, Locals
<1>3. TypeOK /\ repos' \in [Member -> Sound] /\ alone' \in [Proc -> BOOLEAN]
  BY <1>1, MemberWritten, TouchedType DEF IInv, Typed
<1>4. /\ smooth' \in BOOLEAN
      /\ todo' \in [Proc -> SUBSET Member]
      /\ current' \in [Proc -> Member \cup {NoMember}]
      /\ seen' \in [Proc -> [Member -> State \cup {NoState}]]
      /\ mem' \in [Proc -> [Member -> State \cup {NoState}]]
  BY <1>2, <1>3 DEF TypeOK
<1>5. /\ kept' \in [Proc -> SUBSET Member]
  <2>1. kept \in [Proc -> SUBSET Member]
    BY <1>3 DEF TypeOK
  <2> QED
    BY <1>1, <2>1
<1>6. made' \in [Proc -> Seq(Member)] /\ \A q \in Proc \ {p} : made'[q] = made[q]
  <2>1. made \in [Proc -> Seq(Member)]
    BY <1>3 DEF TypeOK
  <2>2. SubSeq(made[p], 1, Len(made[p]) - 1) \in Seq(Member)
    <3>1. Len(made[p]) - 1 \in 0 .. Len(made[p]) /\ Len(made[p]) - 1 >= 0
      BY <1>2, <2>1, EmptySeq, LenProperties
    <3> QED
      BY <2>1, <3>1, SubSeqProperties, LenProperties
  <2> QED
    BY <1>2, <2>1, <2>2
<1>7. pc' = [pc EXCEPT ![p] = "rollback"]
  BY <1>2, <1>3 DEF TypeOK
<1> QED
  BY <1>2, <1>3, <1>4, <1>5, <1>6, <1>7, WorkInv DEF Holding

LEMMA VisitedInv ==
  ASSUME IInv, NEW p \in Proc, NEW m \in Member, NEW s \in Sound, Visited(p, m, s)
  PROVE  IInv'
<1>1. /\ pc[p] = "working" /\ repos' = [repos EXCEPT ![m] = s]
      /\ UNCHANGED <<lock, requests, edits>>
  BY DEF Visited
<1>2. TypeOK /\ repos' \in [Member -> Sound]
  BY <1>1, MemberWritten DEF IInv, Typed
<1>3. CASE /\ pc' = [pc EXCEPT ![p] = "working"] /\ holder' = holder
           /\ alone' = Touched(Proc \ {p}, m, s)
           /\ todo' = [todo EXCEPT ![p] = @ \ {m}]
           /\ seen' = seen \/ seen' = [seen EXCEPT ![p][m] = Resolved(s)]
           /\ UNCHANGED <<req, plan, current, made, mem, kept, smooth>>
  <2>1. alone' \in [Proc -> BOOLEAN]
    BY <1>2, <1>3, TouchedType
  <2>2. /\ smooth' \in BOOLEAN /\ kept' \in [Proc -> SUBSET Member]
        /\ todo' \in [Proc -> SUBSET Member] /\ todo'[p] \subseteq todo[p]
        /\ \A q \in Proc \ {p} : todo'[q] = todo[q]
        /\ current' \in [Proc -> Member \cup {NoMember}]
        /\ made' \in [Proc -> Seq(Member)]
        /\ mem' \in [Proc -> [Member -> State \cup {NoState}]]
    BY <1>2, <1>3 DEF TypeOK
  <2>3. /\ seen' \in [Proc -> [Member -> State \cup {NoState}]]
        /\ \A q \in Proc \ {p} : seen'[q] = seen[q]
    <3>1. seen \in [Proc -> [Member -> State \cup {NoState}]] /\ Resolved(s) \in State
      BY <1>2, SoundHead DEF TypeOK
    <3> QED
      BY <1>3, <3>1
  <2> QED
    BY <1>1, <1>2, <1>3, <2>1, <2>2, <2>3, WorkInv DEF Holding
<1>4. CASE /\ Return(p) /\ smooth' = FALSE
           /\ alone' = [Touched(Proc, m, s) EXCEPT ![p] = FALSE]
  <2>1. alone' \in [Proc -> BOOLEAN]
    BY <1>2, <1>4, TouchedType
  <2>2. lock' = lock /\ lock \in [Member -> State]
    BY <1>1, <1>2 DEF TypeOK
  <2> QED
    BY <1>1, <1>2, <1>4, <2>1, <2>2, ReturnInv
<1> QED
  BY <1>3, <1>4 DEF Visited

\* A preflight that passes pins the branch a merge goes into.
LEMMA PlanInv ==
  ASSUME IInv, NEW p \in Proc, NEW q \in Requests, Plan(p, q)
  PROVE  IInv'
<1> DEFINE planned == [m \in Member |-> [head |-> repos[m].head, ref |-> repos[m].refs[q.branch]]]
<1>1. TypeOK /\ HeadResolves /\ q \in Request
  BY BranchAssumption DEF IInv, Typed
<1>2. planned \in [Member -> Planned]
  BY <1>1 DEF TypeOK, Repo, Planned, Request
<1>3. q.kind = "merge" => \A m \in q.targets : planned[m].head \in Branch
  <2>1. ASSUME q.kind = "merge", NEW m \in q.targets PROVE planned[m].head \in Branch
    <3>1. Preflight(repos[m], q) /\ m \in Member
      BY <1>1, <2>1 DEF Plan, Request
    <3>2. repos[m].head # Detached
      BY <2>1, <3>1 DEF Preflight, MergePreflight
    <3> QED
      BY <1>1, <3>1, <3>2 DEF TypeOK, Repo
  <2> QED
    BY <2>1
<1>4. /\ pc[p] = "idle" /\ pc' = [pc EXCEPT ![p] = "planned"]
      /\ req' = [req EXCEPT ![p] = q] /\ todo' = [todo EXCEPT ![p] = q.targets]
      /\ plan' = [plan EXCEPT ![p] = planned] /\ alone' = [alone EXCEPT ![p] = TRUE]
      /\ requests < MaxRequests /\ requests' = requests + 1
      /\ UNCHANGED <<repos, lock, holder, current, made, seen, mem, edits, kept, smooth>>
  BY DEF Plan
<1> HIDE DEF planned
<1>5. TypeOK'
  <2>1. /\ pc' \in [Proc -> {"idle", "planned", "working", "switching", "rollback", "writing"}]
        /\ req' \in [Proc -> Requests \cup {NoRequest}]
        /\ todo' \in [Proc -> SUBSET Member]
        /\ alone' \in [Proc -> BOOLEAN]
    BY <1>1, <1>4 DEF TypeOK, Request
  <2>2. plan' \in [Proc -> [Member -> Planned]]
    BY <1>1, <1>2, <1>4 DEF TypeOK
  <2>3. requests' \in 0 .. MaxRequests
    BY <1>1, <1>4, BranchAssumption DEF TypeOK
  <2> QED
    BY <1>1, <1>4, <2>1, <2>2, <2>3 DEF TypeOK, LockTypeOK
<1>6. HeadResolves'
  BY <1>1, <1>4 DEF HeadResolves
<1>7. Held'
  BY <1>1, <1>4 DEF IInv, Held, Holding, TypeOK
<1>8. Locals'
  <2>1. ASSUME NEW r \in Proc \ {p}
        PROVE  pc'[r] = pc[r] /\ req'[r] = req[r] /\ todo'[r] = todo[r] /\ plan'[r] = plan[r]
    BY <1>1, <1>4 DEF TypeOK
  <2>2. /\ pc'[p] = "planned" /\ req'[p] = q /\ todo'[p] = q.targets /\ plan'[p] = planned
        /\ made[p] = <<>> /\ seen[p] = Unseen
    BY <1>1, <1>4 DEF TypeOK, IInv, Locals
  <2> QED
    BY <1>3, <1>4, <2>1, <2>2 DEF IInv, Locals, Unseen
<1> QED
  BY <1>5, <1>6, <1>7, <1>8 DEF IInv, Typed

LEMMA TakeLockInv ==
  ASSUME IInv, NEW p \in Proc, TakeLock(p)
  PROVE  IInv'
<1>1. /\ pc[p] = "planned" /\ pc' = [pc EXCEPT ![p] = "working"]
      /\ holder = NoProc /\ holder' = p
      /\ UNCHANGED <<repos, lock, req, plan, todo, current, made, seen, mem, requests, edits,
                     alone, kept, smooth>>
  BY DEF TakeLock, Acquire, job
<1>2. TypeOK
  BY DEF IInv, Typed
<1>3. TypeOK' /\ HeadResolves'
  BY <1>1, <1>2 DEF IInv, Typed, TypeOK, LockTypeOK, HeadResolves
<1>4. Held'
  BY <1>1, <1>2, NoProcAssumption DEF IInv, Held, Holding, TypeOK
<1>5. Locals'
  BY <1>1, <1>2 DEF IInv, Locals, TypeOK, Unseen
<1> QED
  BY <1>3, <1>4, <1>5 DEF IInv, Typed

LEMMA ReadLockInv ==
  ASSUME IInv, NEW p \in Proc, ReadLock(p)
  PROVE  IInv'
<1>1. /\ pc[p] = "working" /\ mem' = [mem EXCEPT ![p] = lock]
      /\ pc' = [pc EXCEPT ![p] = "writing"] /\ holder' = holder
      /\ UNCHANGED <<repos, lock, req, plan, todo, current, made, seen, requests,
                     edits, alone, kept, smooth>>
  BY DEF ReadLock, Goto
<1>2. TypeOK /\ repos' \in [Member -> Sound]
  BY <1>1, SoundMembers DEF IInv, Typed
<1>3. /\ mem' \in [Proc -> [Member -> State \cup {NoState}]]
      /\ mem'[p] = lock /\ \A q \in Proc \ {p} : mem'[q] = mem[q]
  BY <1>1, <1>2 DEF TypeOK
<1>4. /\ alone' \in [Proc -> BOOLEAN] /\ smooth' \in BOOLEAN
      /\ kept' \in [Proc -> SUBSET Member] /\ todo' \in [Proc -> SUBSET Member]
      /\ current' \in [Proc -> Member \cup {NoMember}] /\ made' \in [Proc -> Seq(Member)]
      /\ seen' \in [Proc -> [Member -> State \cup {NoState}]]
  BY <1>1, <1>2 DEF TypeOK
<1> QED
  BY <1>1, <1>2, <1>3, <1>4, WorkInv DEF Holding

\* Every other way an operation ends.
LEMMA EndInv ==
  ASSUME IInv, NEW p \in Proc,
         LockHeld(p) \/ RolledBack(p) \/ WriteLock(p) \/ Done(p) \/ Die(p)
  PROVE  IInv'
<1>1. /\ Return(p) /\ alone' = [alone EXCEPT ![p] = FALSE]
      /\ smooth' \in {smooth, FALSE}
      /\ UNCHANGED <<repos, requests, edits>>
      /\ \/ lock' = lock
         \/ /\ pc[p] = "writing"
            /\ lock' = [m \in Member |-> IF seen[p][m] # NoState THEN seen[p][m] ELSE mem[p][m]]
  BY DEF LockHeld, RolledBack, WriteLock, Done, Die
<1>2. TypeOK /\ repos' \in [Member -> Sound]
  BY <1>1, SoundMembers DEF IInv, Typed
<1>3. lock' \in [Member -> State] /\ (lock' = lock \/ pc[p] = "writing")
  <2>1. CASE lock' = lock
    BY <1>2, <2>1 DEF TypeOK
  <2>2. CASE /\ pc[p] = "writing"
             /\ lock' = [m \in Member |-> IF seen[p][m] # NoState THEN seen[p][m] ELSE mem[p][m]]
    <3>1. mem[p] = lock
      BY <2>2 DEF IInv, Locals
    <3> QED
      BY <1>2, <2>2, <3>1 DEF TypeOK
  <2> QED
    BY <1>1, <2>1, <2>2
<1>4. alone' \in [Proc -> BOOLEAN] /\ smooth' \in BOOLEAN
  BY <1>1, <1>2 DEF TypeOK
<1> QED
  BY <1>1, <1>2, <1>3, <1>4, ReturnInv

LEMMA WorkEffect ==
  ASSUME IInv, NEW m \in Member, Work(m)
  PROVE  \E s \in Sound : /\ repos' = [repos EXCEPT ![m] = s] /\ s # repos[m]
                         /\ alone' = Touched(Proc, m, s)
<1>1. repos[m] \in Sound
  BY SoundMembers DEF IInv, Typed
<1>2. PICK s \in Edited(repos[m]) \ {repos[m]} :
        repos' = [repos EXCEPT ![m] = s] /\ alone' = Touched(Proc, m, s)
  BY DEF Work
<1>3. s \in Sound
  BY <1>1, EditedSound
<1> QED
  BY <1>2, <1>3

LEMMA PeopleInv ==
  ASSUME IInv, NEW m \in Member, Work(m)
  PROVE  IInv'
<1>1. PICK s \in Sound : repos' = [repos EXCEPT ![m] = s] /\ alone' = Touched(Proc, m, s)
  BY WorkEffect
<1>2. /\ edits < MaxEdits /\ edits' = edits + 1 /\ smooth' = FALSE
      /\ UNCHANGED <<lock, holder, pc, req, plan, todo, current, made, seen, mem, requests, kept>>
  BY DEF Work, job
<1>3. TypeOK /\ repos' \in [Member -> Sound] /\ alone' \in [Proc -> BOOLEAN]
  BY <1>1, MemberWritten, TouchedType DEF IInv, Typed
<1>4. edits' \in 0 .. MaxEdits
  BY <1>2, <1>3, BranchAssumption DEF TypeOK
<1>5. TypeOK'
  BY <1>2, <1>3, <1>4 DEF TypeOK, LockTypeOK, Sound
<1>6. HeadResolves'
  BY <1>3 DEF HeadResolves, Sound, Resolves
<1> QED
  BY <1>2, <1>5, <1>6 DEF IInv, Typed, Held, Locals, Unseen

LEMMA InitIInv == Init => IInv
<1> SUFFICES ASSUME Init PROVE IInv
  OBVIOUS
<1>1. PICK refs \in [Member -> StartRefs] :
        /\ repos = [m \in Member |-> StartRepo(refs[m])]
        /\ lock = [m \in Member |-> Resolved(StartRepo(refs[m]))]
  BY DEF Init
<1>2. ASSUME NEW m \in Member PROVE StartRepo(refs[m]) \in Sound
  <2>1. refs[m] \in [Branch -> Ref] /\ refs[m][Trunk] # NoRef /\ Trunk \in Branch
    BY BranchAssumption
  <2> QED
    BY <2>1 DEF StartRepo, Sound, Resolves, Repo, Ref, Commit
<1>3. repos \in [Member -> Sound] /\ lock \in [Member -> State]
  BY <1>1, <1>2, SoundHead
<1>4. NoPlan \in [Member -> Planned]
  BY BranchAssumption DEF NoPlan, Planned, Ref
<1>5. TypeOK
  <2>1. repos \in [Member -> Repo]
    BY <1>3 DEF Sound
  <2>2. /\ made \in [Proc -> Seq(Member)] /\ plan \in [Proc -> [Member -> Planned]]
        /\ seen \in [Proc -> [Member -> State \cup {NoState}]]
        /\ mem \in [Proc -> [Member -> State \cup {NoState}]]
    BY <1>4 DEF Init, Unseen
  <2> QED
    BY <1>3, <2>1, <2>2, BranchAssumption DEF Init, TypeOK, LockTypeOK, LockInit
<1>6. HeadResolves
  BY <1>3, <1>5, SoundMembers
<1>7. Held /\ Locals
  BY NoProcAssumption DEF Init, LockInit, Held, Holding, Locals, NoRequest, Unseen
<1> QED
  BY <1>5, <1>6, <1>7 DEF IInv, Typed

LEMMA StepIInv == IInv /\ [Next]_vars => IInv'
<1> SUFFICES ASSUME IInv, [Next]_vars PROVE IInv'
  OBVIOUS
<1>1. ASSUME NEW p \in Proc, NEW q \in Requests, Plan(p, q) PROVE IInv'
  BY <1>1, PlanInv
<1>2. ASSUME NEW p \in Proc, TakeLock(p) PROVE IInv'
  BY <1>2, TakeLockInv
<1>3. ASSUME NEW p \in Proc, NEW m \in Member, Create(p, m) PROVE IInv'
  BY <1>3, CreateInv
<1>4. ASSUME NEW p \in Proc, NEW m \in Member, Delete(p, m) \/ Merge(p, m) \/ Switch(p, m)
      PROVE  IInv'
  <2>1. CASE Delete(p, m)
    BY <2>1, DeleteEffect, VisitedInv
  <2>2. CASE Merge(p, m)
    BY <2>2, MergeEffect, VisitedInv
  <2>3. CASE Switch(p, m)
    BY <2>3, SwitchEffect, VisitedInv
  <2> QED
    BY <1>4, <2>1, <2>2, <2>3
<1>5. ASSUME NEW p \in Proc, SwitchCreated(p) PROVE IInv'
  BY <1>5, SwitchCreatedInv
<1>6. ASSUME NEW p \in Proc, Rollback(p) PROVE IInv'
  BY <1>6, RollbackInv
<1>7. ASSUME NEW p \in Proc, ReadLock(p) PROVE IInv'
  BY <1>7, ReadLockInv
<1>8. ASSUME NEW p \in Proc,
             LockHeld(p) \/ RolledBack(p) \/ WriteLock(p) \/ Done(p) \/ Die(p)
      PROVE  IInv'
  BY <1>8, EndInv
<1>9. ASSUME NEW m \in Member, Work(m) PROVE IInv'
  BY <1>9, PeopleInv
<1>10. CASE UNCHANGED vars
  BY <1>10 DEF vars, IInv, Typed, TypeOK, LockTypeOK, HeadResolves, Held, Locals, Unseen
<1> QED
  BY <1>1, <1>2, <1>3, <1>4, <1>5, <1>6, <1>7, <1>8, <1>9, <1>10 DEF Next, Step

LEMMA SpecIInv == Spec => []IInv
BY InitIInv, StepIInv, PTL DEF Spec

\* The state keeps its types, for any members, processes and requests; that
\* the commit a lock record is given is one, and no missing ref, rests on
\* HeadHasBranch.
THEOREM TypeCorrect == Spec => []TypeOK
BY SpecIInv, PTL DEF IInv, Typed

\* Whatever people do to the members between the plan of an operation and its
\* steps, no create, rollback, delete, merge or switch leaves a HEAD on a
\* branch that is gone.
THEOREM HeadHasBranch == Spec => []HeadResolves
BY SpecIInv, PTL DEF IInv, Typed

-----------------------------------------------------------------------------
\* What may happen to a branch that is there.
BranchKept(m, b) ==
  /\ edits' = edits
  /\ repos[m].refs[b] # NoRef /\ repos'[m].refs[b] # repos[m].refs[b]
  => \E p \in Proc :
       \/ /\ \/ Delete(p, m)
             \/ Rollback(p) /\ \E i \in DOMAIN made[p] : made[p][i] = m
          /\ b = req[p].branch /\ repos'[m].refs[b] = NoRef
       \/ /\ Merge(p, m)
          /\ \/ repos[m].head # plan[p][m].head
             \/ /\ repos'[m].refs[b] # NoRef
                /\ Within(repos[m].refs[b], repos'[m].refs[b])

LEMMA StepBranchKept ==
  ASSUME IInv, [Next]_vars, NEW m \in Member, NEW b \in Branch
  PROVE  BranchKept(m, b)
<1>1. repos \in [Member -> Sound] /\ edits \in Nat
  BY SoundMembers DEF IInv, Typed, TypeOK
<1> SUFFICES ASSUME edits' = edits, repos[m].refs[b] # NoRef,
                    repos'[m].refs[b] # repos[m].refs[b]
             PROVE  BranchKept(m, b)
  BY DEF BranchKept
<1>2. ASSUME NEW p \in Proc, NEW x \in Member, Create(p, x) PROVE FALSE
  BY <1>1, <1>2, CreateEffect DEF Created
<1>3. ASSUME NEW p \in Proc, SwitchCreated(p) PROVE FALSE
  BY <1>1, <1>3, SwitchCreatedEffect
<1>4. ASSUME NEW p \in Proc, NEW x \in Member, Switch(p, x) PROVE FALSE
  BY <1>1, <1>4, SwitchEffect DEF Visited
<1>5. ASSUME NEW p \in Proc, NEW x \in Member, Delete(p, x) PROVE BranchKept(m, b)
  <2>1. PICK s \in Sound : Visited(p, x, s) /\ Deleted(p, x, s)
    BY <1>5, DeleteEffect
  <2>2. x = m /\ b = req[p].branch /\ repos'[m].refs[b] = NoRef
    BY <1>1, <2>1 DEF Visited, Deleted
  <2> QED
    BY <1>5, <2>2 DEF BranchKept
<1>6. ASSUME NEW p \in Proc, NEW x \in Member, Merge(p, x) PROVE BranchKept(m, b)
  <2>1. PICK s \in Sound : Visited(p, x, s) /\ Merged(p, x, s)
    BY <1>6, MergeEffect
  <2>2. x = m /\ repos'[m] = s
    BY <1>1, <2>1 DEF Visited
  <2> QED
    BY <1>6, <2>1, <2>2 DEF BranchKept, Merged
<1>7. ASSUME NEW p \in Proc, Rollback(p) PROVE BranchKept(m, b)
  <2>1. PICK x \in Member, s \in Sound :
          /\ x = made[p][Len(made[p])]
          /\ repos' = [repos EXCEPT ![x] = s]
          /\ \A y \in Branch \ {req[p].branch} : s.refs[y] = repos[x].refs[y]
          /\ s.refs[req[p].branch] = NoRef \/ s = repos[x]
    <3>1. PICK x \in Member, s \in Sound : RolledOne(p, x, s)
      BY <1>7, RollbackEffect
    <3> QED
      BY <3>1 DEF RolledOne
  <2>2. x = m /\ b = req[p].branch /\ repos'[m].refs[b] = NoRef
    BY <1>1, <2>1
  <2>3. Len(made[p]) \in DOMAIN made[p]
    <3>1. made[p] \in Seq(Member) /\ made[p] # <<>>
      BY <1>7 DEF Rollback, IInv, Typed, TypeOK
    <3> QED
      BY <3>1, EmptySeq, LenProperties
  <2> QED
    BY <1>7, <2>1, <2>2, <2>3 DEF BranchKept
<1>8. ASSUME NEW p \in Proc, NEW q \in Requests,
             \/ Plan(p, q) \/ TakeLock(p) \/ LockHeld(p) \/ RolledBack(p) \/ ReadLock(p)
             \/ WriteLock(p) \/ Done(p) \/ Die(p)
      PROVE  FALSE
  BY <1>8 DEF Plan, TakeLock, LockHeld, RolledBack, ReadLock, WriteLock, Done, Die
<1>9. ASSUME NEW x \in Member, Work(x) PROVE FALSE
  BY <1>1, <1>9 DEF Work
<1>10. ASSUME NEW p \in Proc,
             \/ TakeLock(p) \/ LockHeld(p) \/ RolledBack(p) \/ ReadLock(p)
             \/ WriteLock(p) \/ Done(p) \/ Die(p)
      PROVE  FALSE
  BY <1>10 DEF TakeLock, LockHeld, RolledBack, ReadLock, WriteLock, Done, Die
<1>11. CASE UNCHANGED vars
  BY <1>11 DEF vars
<1> QED
  BY <1>2, <1>3, <1>4, <1>5, <1>6, <1>7, <1>8, <1>9, <1>10, <1>11 DEF Next, Step

\* However operations and people interleave, a step of gwz changes a branch it
\* finds only where it was asked to delete it, takes back what this very
\* create made, or merges into it; and the merge keeps what the branch had as
\* long as HEAD is where the plan saw it.
THEOREM WorkOnBranchesIsKept == Spec => NoBranchLosesWork
<1> DEFINE Kept == \A m \in Member, b \in Branch : BranchKept(m, b)
<1>1. IInv /\ [Next]_vars => [Kept]_vars
  BY StepBranchKept
<1> QED
  BY SpecIInv, <1>1, PTL DEF Spec, NoBranchLosesWork, BranchKept

-----------------------------------------------------------------------------
(* The lock file. *)

LEMMA InitFollowed == Init => Followed
BY DEF Init, LockInit, Followed, Recorded

\* A step of the holder that looks at a member it has worked on.
LEMMA ObservedOne ==
  ASSUME IInv, Followed, NEW p \in Proc, holder = p, holder' = p,
         NEW m \in Member, NEW s \in Sound, repos' = [repos EXCEPT ![m] = s],
         lock' = lock, smooth' => smooth,
         \/ seen' = seen /\ Resolved(s) = Resolved(repos[m])
         \/ seen' = [seen EXCEPT ![p][m] = Resolved(s)],
         smooth' => \A q \in Proc : pc'[q] # "rollback"
  PROVE  Followed'
<1>1. /\ repos \in [Member -> Sound] /\ p # NoProc
      /\ seen \in [Proc -> [Member -> State \cup {NoState}]]
  BY SoundMembers, NoProcAssumption DEF IInv, Typed, TypeOK
<1> SUFFICES ASSUME smooth', NEW x \in Member PROVE Recorded(x)' = Resolved(repos'[x])
  BY DEF Followed
<1>2. Recorded(x) = Resolved(repos[x])
  BY DEF Followed
<1>3. CASE seen' = seen /\ Resolved(s) = Resolved(repos[m])
  BY <1>1, <1>2, <1>3 DEF Recorded
<1>4. CASE seen' = [seen EXCEPT ![p][m] = Resolved(s)]
  <2>1. Resolved(s) # NoState
    BY SoundHead, BranchAssumption
  <2>2. CASE x = m
    BY <1>1, <1>4, <2>1, <2>2 DEF Recorded
  <2>3. CASE x # m
    BY <1>1, <1>2, <1>4, <2>3 DEF Recorded
  <2> QED
    BY <2>2, <2>3
<1> QED
  BY <1>3, <1>4

\* An operation that returns with its records written, or with none to write.
LEMMA RecordsWritten ==
  ASSUME IInv, Followed, NEW p \in Proc, WriteLock(p) \/ Done(p)
  PROVE  Followed'
<1>1. /\ holder = p /\ holder' = NoProc /\ p # NoProc
      /\ repos' = repos /\ smooth' = smooth
      /\ pc' = [pc EXCEPT ![p] = "idle"]
  BY NoProcAssumption DEF IInv, Held, Holding, WriteLock, Done, Return, ReleaseIfHeld
<1>2. pc \in [Proc -> {"idle", "planned", "working", "switching", "rollback", "writing"}]
  BY DEF IInv, Typed, TypeOK
<1> SUFFICES ASSUME smooth PROVE Followed'
  BY <1>1 DEF Followed
<1>3. \A m \in Member : Recorded(m) = Resolved(repos[m])
  BY DEF Followed
<1>4. ASSUME NEW m \in Member PROVE lock'[m] = Recorded(m)
  <2>1. CASE WriteLock(p)
    BY <1>1, <2>1 DEF WriteLock, Recorded, IInv, Locals
  <2>2. CASE Done(p)
    BY <1>1, <2>2 DEF Done, Recorded, Unseen
  <2> QED
    BY <2>1, <2>2
<1>5. \A q \in Proc : pc'[q] # "rollback"
  BY <1>1, <1>2 DEF Followed
<1> QED
  BY <1>1, <1>3, <1>4, <1>5 DEF Followed, Recorded

LEMMA StepFollowed == IInv /\ Followed /\ [Next]_vars => Followed'
<1> SUFFICES ASSUME IInv, Followed, [Next]_vars PROVE Followed'
  OBVIOUS
<1>1. /\ repos \in [Member -> Sound]
      /\ pc \in [Proc -> {"idle", "planned", "working", "switching", "rollback", "writing"}]
      /\ seen \in [Proc -> [Member -> State \cup {NoState}]]
      /\ smooth => \A q \in Proc : pc[q] # "rollback"
  BY SoundMembers DEF IInv, Typed, TypeOK, Followed
<1>2. ASSUME NEW p \in Proc, NEW m \in Member, Create(p, m) PROVE Followed'
  <2>1. PICK s \in Sound : Created(p, m, s)
    BY <1>2, CreateEffect
  <2>2. holder = p /\ holder' = p /\ lock' = lock /\ seen' = seen
    BY <1>2 DEF Create, Goto, IInv, Held, Holding
  <2>3. smooth' => smooth /\ \A q \in Proc : pc'[q] # "rollback"
    BY <1>1, <2>1 DEF Created
  <2> QED
    BY <2>1, <2>2, <2>3, ObservedOne DEF Created
<1>3. ASSUME NEW p \in Proc, SwitchCreated(p) PROVE Followed'
  <2>1. PICK s \in Sound :
          /\ current[p] \in Member /\ repos' = [repos EXCEPT ![current[p]] = s]
          /\ \/ /\ pc' = [pc EXCEPT ![p] = "rollback"] /\ smooth' = FALSE
             \/ /\ pc' = [pc EXCEPT ![p] = "working"] /\ smooth' = smooth
                /\ seen' = [seen EXCEPT ![p][current[p]] = Resolved(s)]
    BY <1>3, SwitchCreatedEffect
  <2>2. holder = p /\ holder' = p /\ lock' = lock
    BY <1>3 DEF SwitchCreated, Goto, IInv, Held, Holding
  <2>3. CASE smooth' = FALSE
    BY <2>3 DEF Followed
  <2>4. CASE /\ pc' = [pc EXCEPT ![p] = "working"] /\ smooth' = smooth
             /\ seen' = [seen EXCEPT ![p][current[p]] = Resolved(s)]
    <3>1. smooth' => smooth /\ \A q \in Proc : pc'[q] # "rollback"
      BY <1>1, <2>4
    <3> QED
      BY <2>1, <2>2, <2>4, <3>1, ObservedOne
  <2> QED
    BY <2>1, <2>3, <2>4
<1>4. ASSUME NEW p \in Proc, NEW m \in Member, NEW s \in Sound, Visited(p, m, s)
      PROVE  Followed'
  <2>1. CASE smooth' = FALSE
    BY <2>1 DEF Followed
  <2>2. CASE /\ pc' = [pc EXCEPT ![p] = "working"] /\ holder' = holder /\ smooth' = smooth
             /\ \/ seen' = seen /\ Resolved(s) = Resolved(repos[m])
                \/ seen' = [seen EXCEPT ![p][m] = Resolved(s)]
    <3>1. smooth' => smooth /\ \A q \in Proc : pc'[q] # "rollback"
      BY <1>1, <2>2
    <3>2. /\ holder = p /\ holder' = p /\ lock' = lock /\ repos' = [repos EXCEPT ![m] = s]
      BY <1>4, <2>2 DEF Visited, IInv, Held, Holding
    <3> QED
      BY <2>2, <3>1, <3>2, ObservedOne
  <2> QED
    BY <1>4, <2>1, <2>2 DEF Visited
<1>5. ASSUME NEW p \in Proc, Rollback(p) \/ RolledBack(p) PROVE Followed'
  BY <1>1, <1>5 DEF Rollback, RolledBack, Followed
<1>6. ASSUME NEW p \in Proc, WriteLock(p) \/ Done(p) PROVE Followed'
  BY <1>6, RecordsWritten
<1>7. ASSUME NEW p \in Proc, Die(p) PROVE Followed'
  BY <1>7 DEF Die, Followed
<1>8. ASSUME NEW m \in Member, Work(m) PROVE Followed'
  BY <1>8 DEF Work, Followed
<1>9. ASSUME NEW p \in Proc, NEW q \in Requests, Plan(p, q) PROVE Followed'
  BY <1>1, <1>9 DEF Plan, Followed, Recorded
<1>10. ASSUME NEW p \in Proc, TakeLock(p) PROVE Followed'
  <2>1. /\ holder = NoProc /\ holder' = p /\ seen[p] = Unseen /\ p # NoProc
        /\ UNCHANGED <<repos, lock, seen, smooth>> /\ pc' = [pc EXCEPT ![p] = "working"]
    BY <1>10, NoProcAssumption DEF TakeLock, Acquire, IInv, Locals, job
  <2> QED
    BY <1>1, <2>1 DEF Followed, Recorded, Unseen
<1>11. ASSUME NEW p \in Proc, LockHeld(p) PROVE Followed'
  <2>1. /\ holder # p /\ holder' = holder /\ seen' = [seen EXCEPT ![p] = Unseen]
        /\ UNCHANGED <<repos, lock, smooth>> /\ pc' = [pc EXCEPT ![p] = "idle"]
        /\ holder \in Proc \cup {NoProc}
    BY <1>11 DEF LockHeld, Return, ReleaseIfHeld, IInv, Typed, TypeOK, LockTypeOK
  <2> QED
    BY <1>1, <2>1 DEF Followed, Recorded
<1>12. ASSUME NEW p \in Proc, ReadLock(p) PROVE Followed'
  BY <1>1, <1>12 DEF ReadLock, Goto, Followed, Recorded
<1>13. CASE UNCHANGED vars
  BY <1>13 DEF vars, Followed, Recorded
<1>14. ASSUME NEW p \in Proc, NEW m \in Member, Delete(p, m) PROVE Followed'
  BY <1>4, <1>14, DeleteEffect
<1>15. ASSUME NEW p \in Proc, NEW m \in Member, Merge(p, m) PROVE Followed'
  BY <1>4, <1>15, MergeEffect
<1>16. ASSUME NEW p \in Proc, NEW m \in Member, Switch(p, m) PROVE Followed'
  BY <1>4, <1>16, SwitchEffect
<1> QED
  BY <1>2, <1>3, <1>5, <1>6, <1>7, <1>8, <1>9, <1>10, <1>11, <1>12, <1>13, <1>14, <1>15,
     <1>16 DEF Next, Step

\* As long as operations succeed and people leave the members alone, the lock
\* file is right whenever nobody is at work, however many operations took
\* turns: it is read and written back under the lock, after every member.
THEOREM LockIsRight == Spec => []LockFollowsMembers
<1>1. Followed => LockFollowsMembers
  BY DEF Followed, Recorded, LockFollowsMembers
<1> QED
  BY SpecIInv, InitFollowed, StepFollowed, <1>1, PTL DEF Spec

-----------------------------------------------------------------------------
(* The rollback. *)

LEMMA InitUndoing == Init => Undoing
BY DEF Init, Undoing, Made, Creating

\* What another process, or a person, does to a member: an operation that is
\* still alone afterwards finds every member as it was.
LEMMA OthersUndoing ==
  ASSUME IInv, Undoing, NEW q \in Proc, NEW m \in Member, NEW s, NEW others,
         repos' = [repos EXCEPT ![m] = s], q \in others,
         alone'[q] => Touched(others, m, s)[q],
         pc'[q] = pc[q], req'[q] = req[q], todo'[q] = todo[q], made'[q] = made[q],
         plan'[q] = plan[q], kept'[q] = kept[q]
  PROVE  /\ todo'[q] \cap Made(q)' = {}
         /\ pc'[q] # "rollback" => kept'[q] = {}
         /\ Creating(q)' /\ alone'[q] => Restorable(q)'
<1>1. Made(q)' = Made(q)
  BY DEF Made
<1>2. Creating(q)' => Creating(q)
  BY DEF Creating
<1>3. alone'[q] => alone[q] /\ repos' = repos
  BY DEF Touched, IInv, Typed, TypeOK
<1> QED
  BY <1>1, <1>2, <1>3 DEF Undoing, Restorable

\* Steps that leave the members alone and, of the rest, what a rollback needs.
LEMMA QuietUndoing ==
  ASSUME IInv, Undoing, NEW q \in Proc, repos' = repos, alone'[q] => alone[q],
         pc'[q] # "rollback" => pc[q] # "rollback", Creating(q)' => Creating(q),
         UNCHANGED <<req[q], todo[q], made[q], plan[q], kept[q]>>
  PROVE  /\ todo'[q] \cap Made(q)' = {}
         /\ pc'[q] # "rollback" => kept'[q] = {}
         /\ Creating(q)' /\ alone'[q] => Restorable(q)'
<1>1. Made(q)' = Made(q)
  BY DEF Made
<1> QED
  BY <1>1 DEF Undoing, Restorable

LEMMA ReturnedUndoing ==
  ASSUME IInv, NEW p \in Proc, Return(p)
  PROVE  /\ todo'[p] \cap Made(p)' = {}
         /\ kept'[p] = {} /\ ~Creating(p)'
         /\ \A q \in Proc \ {p} : UNCHANGED <<pc[q], req[q], todo[q], made[q], plan[q], kept[q]>>
<1>1. /\ todo'[p] = {} /\ pc'[p] = "idle" /\ kept'[p] = {}
  BY DEF Return, IInv, Typed, TypeOK
<1>2. \A q \in Proc \ {p} : UNCHANGED <<pc[q], req[q], todo[q], made[q], plan[q], kept[q]>>
  BY DEF Return, IInv, Typed, TypeOK
<1> QED
  BY <1>1, <1>2 DEF Creating

LEMMA CreateUndoing ==
  ASSUME IInv, Undoing, NEW p \in Proc, NEW m \in Member, Create(p, m)
  PROVE  Undoing'
<1>1. PICK s \in Sound : Created(p, m, s)
  BY CreateEffect
<1>2. /\ TypeOK /\ req[p].branch \in Branch /\ m \in todo[p] /\ Creating(p)
      /\ pc[p] = "working" /\ kept[p] = {} /\ todo' = [todo EXCEPT ![p] = @ \ {m}]
      /\ UNCHANGED <<req, plan, kept>> /\ repos \in [Member -> Sound]
  BY RequestParts, SoundMembers DEF Create, Undoing, IInv, Typed, Creating, Creates
<1>3. /\ repos' = [repos EXCEPT ![m] = s] /\ alone' = Touched(Proc \ {p}, m, s)
      /\ \A q \in Proc \ {p} : pc'[q] = pc[q] /\ todo'[q] = todo[q] /\ made'[q] = made[q]
  BY <1>1, <1>2 DEF Created, TypeOK
<1>4. ASSUME NEW q \in Proc \ {p}
      PROVE  /\ todo'[q] \cap Made(q)' = {}
             /\ pc'[q] # "rollback" => kept'[q] = {}
             /\ Creating(q)' /\ alone'[q] => Restorable(q)'
  BY <1>2, <1>3, OthersUndoing
<1>5. /\ todo'[p] = todo[p] \ {m} /\ kept'[p] = {} /\ alone'[p] = alone[p]
  BY <1>2, <1>3 DEF TypeOK, Touched
<1>6. \/ Made(p)' = Made(p) /\ s.refs = repos[m].refs
      \/ Made(p)' = Made(p) \cup {m} /\ repos[m].refs[req[p].branch] = NoRef
  <2>1. CASE made' = made /\ s.refs = repos[m].refs
    BY <2>1 DEF Made
  <2>2. CASE /\ made' = [made EXCEPT ![p] = Append(@, m)]
             /\ repos[m].refs[req[p].branch] = NoRef
    <3>1. made[p] \in Seq(Member) /\ made'[p] = Append(made[p], m)
      BY <1>2, <2>2 DEF TypeOK
    <3>2. /\ DOMAIN made'[p] = 1 .. Len(made[p]) + 1
          /\ DOMAIN made[p] = 1 .. Len(made[p]) /\ Len(made[p]) \in Nat
          /\ \A i \in 1 .. Len(made[p]) : made'[p][i] = made[p][i]
          /\ made'[p][Len(made[p]) + 1] = m
      BY <3>1
    <3> QED
      BY <2>2, <3>2 DEF Made
  <2> QED
    BY <1>1, <2>1, <2>2 DEF Created
<1>7. todo'[p] \cap Made(p)' = {}
  BY <1>5, <1>6 DEF Undoing
<1>8. ASSUME alone[p] PROVE Restorable(p)'
  <2>1. Restorable(p)
    BY <1>2, <1>8 DEF Undoing
  <2>2. m \in req[p].targets /\ m \notin Made(p)
    BY <1>2 DEF Undoing, IInv, Locals
  <2>3. plan[p][m].ref = repos[m].refs[req[p].branch]
    BY <1>2, <2>1, <2>2 DEF Restorable
  <2>4. ASSUME NEW x \in req[p].targets
        PROVE  /\ x \in Made(p)' => plan[p][x].ref = NoRef
               /\ x \notin Made(p)' => repos'[x].refs[req[p].branch] = plan[p][x].ref
    <3>1. x \in Member
      BY <1>2, RequestParts
    <3>2. CASE x = m
      BY <1>2, <1>3, <1>6, <2>2, <2>3, <3>2
    <3>3. CASE x # m
      BY <1>2, <1>3, <1>6, <2>1, <3>1, <3>3 DEF Restorable
    <3> QED
      BY <3>2, <3>3
  <2> QED
    BY <1>2, <1>5, <2>4 DEF Restorable
<1> QED
  BY <1>4, <1>5, <1>7, <1>8 DEF Undoing

\* switch_branch moves no branch.
LEMMA SwitchCreatedUndoing ==
  ASSUME IInv, Undoing, NEW p \in Proc, SwitchCreated(p)
  PROVE  Undoing'
<1>1. PICK s \in Sound :
        /\ current[p] \in Member /\ s.refs = repos[current[p]].refs
        /\ repos' = [repos EXCEPT ![current[p]] = s]
        /\ alone' = Touched(Proc \ {p}, current[p], s)
        /\ pc' = [pc EXCEPT ![p] = "rollback"] \/ pc' = [pc EXCEPT ![p] = "working"]
  BY SwitchCreatedEffect
<1>2. /\ TypeOK /\ pc[p] = "switching" /\ kept[p] = {}
      /\ UNCHANGED <<req, plan, todo, made, kept>>
  BY DEF SwitchCreated, Undoing, IInv, Typed
<1>3. ASSUME NEW q \in Proc \ {p}
      PROVE  /\ todo'[q] \cap Made(q)' = {}
             /\ pc'[q] # "rollback" => kept'[q] = {}
             /\ Creating(q)' /\ alone'[q] => Restorable(q)'
  <2>1. pc'[q] = pc[q]
    BY <1>1, <1>2 DEF TypeOK
  <2> QED
    BY <1>1, <1>2, <2>1, OthersUndoing
<1>4. Made(p)' = Made(p) /\ alone'[p] = alone[p]
  BY <1>1, <1>2 DEF Made, TypeOK, Touched
<1>5. \A x \in Member : repos'[x].refs = repos[x].refs
  BY <1>1, <1>2 DEF TypeOK
<1>6. Creating(p)' => Creating(p)
  BY <1>2 DEF Creating
<1>7. ASSUME Creating(p), alone[p] PROVE Restorable(p)'
  <2>1. req[p].targets \subseteq Member /\ Restorable(p)
    BY <1>2, <1>7, RequestParts DEF Undoing
  <2>2. ASSUME NEW x \in req[p].targets
        PROVE  /\ x \in Made(p)' => plan[p][x].ref = NoRef
               /\ x \notin Made(p)' \cup kept[p] =>
                    repos'[x].refs[req[p].branch] = plan[p][x].ref
    <3>1. repos'[x].refs = repos[x].refs
      BY <1>5, <2>1
    <3> QED
      BY <1>4, <2>1, <3>1 DEF Restorable
  <2> QED
    BY <1>2, <2>2 DEF Restorable
<1> QED
  BY <1>2, <1>3, <1>4, <1>6, <1>7 DEF Undoing

\* One branch is taken back: there was none, and there is none.
LEMMA RollbackUndoing ==
  ASSUME IInv, Undoing, NEW p \in Proc, Rollback(p)
  PROVE  Undoing'
<1>1. PICK m \in Member, s \in Sound : RolledOne(p, m, s)
  BY RollbackEffect
<1>2. /\ TypeOK /\ pc[p] = "rollback" /\ pc' = pc
      /\ made' = [made EXCEPT ![p] = SubSeq(@, 1, Len(@) - 1)] /\ made[p] # <<>>
      /\ UNCHANGED <<req, plan, todo>>
  BY DEF Rollback, IInv, Typed
<1>3. ASSUME NEW q \in Proc \ {p}
      PROVE  /\ todo'[q] \cap Made(q)' = {}
             /\ pc'[q] # "rollback" => kept'[q] = {}
             /\ Creating(q)' /\ alone'[q] => Restorable(q)'
  <2>1. kept'[q] = kept[q] /\ made'[q] = made[q]
    BY <1>1, <1>2 DEF RolledOne, TypeOK
  <2> QED
    BY <1>1, <1>2, <2>1, OthersUndoing DEF RolledOne
<1>4. Made(p)' \subseteq Made(p) /\ Made(p) \subseteq Made(p)' \cup {m} /\ m \in Made(p)
  <2>1. made[p] \in Seq(Member) /\ made'[p] = SubSeq(made[p], 1, Len(made[p]) - 1)
    BY <1>2 DEF TypeOK
  <2>2. Len(made[p]) \in Nat /\ Len(made[p]) >= 1 /\ DOMAIN made[p] = 1 .. Len(made[p])
    BY <1>2, <2>1, EmptySeq, LenProperties
  <2>3. /\ DOMAIN made'[p] = 1 .. Len(made[p]) - 1
        /\ \A i \in 1 .. Len(made[p]) - 1 : made'[p][i] = made[p][i]
    BY <2>1, <2>2
  <2>4. m = made[p][Len(made[p])]
    BY <1>1 DEF RolledOne
  <2> QED
    BY <2>2, <2>3, <2>4 DEF Made
<1>5. /\ repos' = [repos EXCEPT ![m] = s] /\ alone'[p] = alone[p]
      /\ \/ s.refs[req[p].branch] = NoRef /\ kept'[p] = kept[p]
         \/ s = repos[m] /\ kept'[p] = kept[p] \cup {m}
  BY <1>1, <1>2 DEF RolledOne, TypeOK, Touched
<1>6. todo'[p] \cap Made(p)' = {}
  BY <1>2, <1>4 DEF Undoing
<1>7. ASSUME Creating(p), alone[p] PROVE Restorable(p)'
  <2>1. Restorable(p) /\ req[p].targets \subseteq Member
    BY <1>2, <1>7, RequestParts DEF Undoing
  <2>2. ASSUME NEW x \in req[p].targets
        PROVE  /\ x \in Made(p)' => plan[p][x].ref = NoRef
               /\ x \notin Made(p)' \cup kept'[p] =>
                    repos'[x].refs[req[p].branch] = plan[p][x].ref
    <3>1. x \in Member
      BY <2>1
    <3>2. CASE x = m
      BY <1>2, <1>4, <1>5, <2>1, <3>2 DEF Restorable, TypeOK
    <3>3. CASE x # m
      <4>1. repos'[x] = repos[x] /\ (x \in kept[p] <=> x \in kept'[p])
        BY <1>2, <1>5, <3>1, <3>3 DEF TypeOK
      <4> QED
        BY <1>4, <2>1, <3>3, <4>1 DEF Restorable
    <3> QED
      BY <3>2, <3>3
  <2> QED
    BY <1>2, <2>2 DEF Restorable
<1>8. Creating(p)' <=> Creating(p)
  BY <1>2 DEF Creating
<1> QED
  BY <1>2, <1>3, <1>5, <1>6, <1>7, <1>8 DEF Undoing

LEMMA PlanUndoing ==
  ASSUME IInv, Undoing, NEW p \in Proc, NEW q \in Requests, Plan(p, q)
  PROVE  Undoing'
<1>1. /\ TypeOK /\ pc[p] = "idle" /\ pc' = [pc EXCEPT ![p] = "planned"]
      /\ made[p] = <<>> /\ kept[p] = {} /\ q \in Request
  BY BranchAssumption DEF Plan, IInv, Typed, Locals, Undoing
<1>2. ASSUME NEW r \in Proc \ {p}
      PROVE  /\ todo'[r] \cap Made(r)' = {}
             /\ pc'[r] # "rollback" => kept'[r] = {}
             /\ Creating(r)' /\ alone'[r] => Restorable(r)'
  <2>1. /\ UNCHANGED <<pc[r], req[r], todo[r], made[r], plan[r], kept[r], alone[r]>>
        /\ repos' = repos
    BY <1>1 DEF Plan, TypeOK
  <2> QED
    BY <2>1, QuietUndoing DEF Creating
<1>3. Made(p)' = {} /\ kept'[p] = {}
  BY <1>1 DEF Plan, Made
<1>4. Restorable(p)'
  <2>1. /\ req'[p] = q /\ repos' = repos
        /\ plan'[p] = [m \in Member |-> [head |-> repos[m].head, ref |-> repos[m].refs[q.branch]]]
    BY <1>1 DEF Plan, TypeOK
  <2>2. q.targets \subseteq Member
    BY <1>1 DEF Request
  <2> QED
    BY <1>3, <2>1, <2>2 DEF Restorable
<1> QED
  BY <1>2, <1>3, <1>4 DEF Undoing

LEMMA StepUndoing == IInv /\ Undoing /\ [Next]_vars => Undoing'
<1> SUFFICES ASSUME IInv, Undoing, [Next]_vars PROVE Undoing'
  OBVIOUS
<1> DEFINE OK(q) == /\ todo[q] \cap Made(q) = {}
                    /\ pc[q] # "rollback" => kept[q] = {}
                    /\ Creating(q) /\ alone[q] => Restorable(q)
<1>0. TypeOK
  BY DEF IInv, Typed
<1>1. ASSUME NEW p \in Proc, NEW m \in Member, Create(p, m) PROVE Undoing'
  BY <1>1, CreateUndoing
<1>2. ASSUME NEW p \in Proc, SwitchCreated(p) PROVE Undoing'
  BY <1>2, SwitchCreatedUndoing
<1>3. ASSUME NEW p \in Proc, Rollback(p) PROVE Undoing'
  BY <1>3, RollbackUndoing
<1>4. ASSUME NEW p \in Proc, NEW q \in Requests, Plan(p, q) PROVE Undoing'
  BY <1>4, PlanUndoing
<1>5. ASSUME NEW p \in Proc, NEW m \in Member, NEW s \in Sound, Visited(p, m, s)
      PROVE  Undoing'
  <2>1. /\ pc[p] = "working" /\ req[p].kind \in {"delete", "merge", "switch"}
        /\ repos' = [repos EXCEPT ![m] = s]
    BY <1>5 DEF Visited
  <2>2. CASE /\ pc' = [pc EXCEPT ![p] = "working"]
             /\ alone' = Touched(Proc \ {p}, m, s)
             /\ todo' = [todo EXCEPT ![p] = @ \ {m}]
             /\ UNCHANGED <<req, plan, made, kept>>
    <3>1. ASSUME NEW q \in Proc \ {p} PROVE OK(q)'
      <4>1. pc'[q] = pc[q] /\ todo'[q] = todo[q]
        BY <1>0, <2>2 DEF TypeOK
      <4> QED
        BY <2>1, <2>2, <4>1, OthersUndoing
    <3>2. Made(p)' = Made(p) /\ todo'[p] \subseteq todo[p] /\ ~Creating(p)' /\ kept'[p] = {}
      BY <1>0, <2>1, <2>2 DEF Made, Creating, Creates, TypeOK, Undoing
    <3> QED
      BY <3>1, <3>2 DEF Undoing
  <2>3. CASE Return(p) /\ alone' = [Touched(Proc, m, s) EXCEPT ![p] = FALSE]
    <3>1. ASSUME NEW q \in Proc \ {p} PROVE OK(q)'
      <4>1. UNCHANGED <<pc[q], req[q], todo[q], made[q], plan[q], kept[q]>>
        BY <2>3, ReturnedUndoing
      <4>2. alone'[q] => Touched(Proc, m, s)[q]
        BY <1>0, <2>3, TouchedType
      <4> QED
        BY <2>1, <4>1, <4>2, OthersUndoing
    <3> QED
      BY <2>3, <3>1, ReturnedUndoing DEF Undoing
  <2> QED
    BY <1>5, <2>2, <2>3 DEF Visited
<1>6. ASSUME NEW p \in Proc,
             LockHeld(p) \/ RolledBack(p) \/ WriteLock(p) \/ Done(p) \/ Die(p)
      PROVE  Undoing'
  <2>1. Return(p) /\ repos' = repos /\ alone' = [alone EXCEPT ![p] = FALSE]
    BY <1>6 DEF LockHeld, RolledBack, WriteLock, Done, Die
  <2>2. ASSUME NEW q \in Proc \ {p} PROVE OK(q)'
    <3>1. UNCHANGED <<pc[q], req[q], todo[q], made[q], plan[q], kept[q], alone[q]>>
      BY <1>0, <2>1, ReturnedUndoing DEF TypeOK
    <3> QED
      BY <2>1, <3>1, QuietUndoing DEF Creating
  <2> QED
    BY <2>1, <2>2, ReturnedUndoing DEF Undoing
<1>7. ASSUME NEW p \in Proc, TakeLock(p) \/ ReadLock(p) PROVE Undoing'
  <2>1. /\ UNCHANGED <<repos, req, todo, made, plan, kept, alone>>
        /\ \/ pc[p] = "planned" /\ pc' = [pc EXCEPT ![p] = "working"]
           \/ pc[p] = "working" /\ pc' = [pc EXCEPT ![p] = "writing"]
    BY <1>7 DEF TakeLock, ReadLock, Goto, job
  <2>2. ASSUME NEW q \in Proc PROVE OK(q)'
    <3>1. Creating(q)' => Creating(q)
      BY <1>0, <2>1 DEF Creating, TypeOK
    <3>2. pc'[q] # "rollback" => pc[q] # "rollback"
      BY <1>0, <2>1 DEF TypeOK
    <3> QED
      BY <2>1, <3>1, <3>2, QuietUndoing
  <2> QED
    BY <2>2 DEF Undoing
<1>8. ASSUME NEW m \in Member, Work(m) PROVE Undoing'
  <2>1. PICK s \in Sound : repos' = [repos EXCEPT ![m] = s] /\ alone' = Touched(Proc, m, s)
    BY <1>8, WorkEffect
  <2>2. UNCHANGED <<pc, req, todo, made, plan, kept>>
    BY <1>8 DEF Work, job
  <2>3. ASSUME NEW q \in Proc PROVE OK(q)'
    BY <2>1, <2>2, OthersUndoing
  <2> QED
    BY <2>3 DEF Undoing
<1>9. CASE UNCHANGED vars
  BY <1>9 DEF vars, Undoing, Made, Creating, Restorable
<1>10. ASSUME NEW p \in Proc, NEW m \in Member, Delete(p, m) PROVE Undoing'
  BY <1>5, <1>10, DeleteEffect
<1>11. ASSUME NEW p \in Proc, NEW m \in Member, Merge(p, m) PROVE Undoing'
  BY <1>5, <1>11, MergeEffect
<1>12. ASSUME NEW p \in Proc, NEW m \in Member, Switch(p, m) PROVE Undoing'
  BY <1>5, <1>12, SwitchEffect
<1> QED
  BY <1>1, <1>2, <1>3, <1>4, <1>6, <1>7, <1>8, <1>9, <1>10, <1>11, <1>12 DEF Next, Step

\* A create that fails while nobody else touches the members leaves each of
\* them with the ref the plan found, for any number of members, at whichever
\* of them and whichever call it failed, but for the branches git would not
\* delete.
THEOREM RollbackRestores == Spec => RollbackIsComplete
<1>1. IInv /\ Undoing /\ [Next]_vars =>
        [\A p \in Proc :
           RolledBack(p) /\ alone[p] =>
             \A m \in req[p].targets \ kept[p] :
               repos[m].refs[req[p].branch] = plan[p][m].ref]_vars
  <2> SUFFICES ASSUME IInv, Undoing, NEW p \in Proc, RolledBack(p), alone[p],
                      NEW m \in req[p].targets \ kept[p]
               PROVE  repos[m].refs[req[p].branch] = plan[p][m].ref
    OBVIOUS
  <2>1. Creating(p) /\ Made(p) = {}
    BY DEF RolledBack, Creating, IInv, Locals, Made
  <2> QED
    BY <2>1 DEF Undoing, Restorable
<1> QED
  BY SpecIInv, InitUndoing, StepUndoing, <1>1, PTL DEF Spec, RollbackIsComplete
=============================================================================
