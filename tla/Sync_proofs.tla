----------------------------- MODULE Sync_proofs -----------------------------
(***************************************************************************)
(* Pull, materialize, snapshot and capture, for any members, branches,     *)
(* changes and policies, and whatever people do meanwhile: what a rejected *)
(* pull leaves alone, what no call of the backend loses, and what the lock *)
(* and the members are like when an operation ends.                        *)
(***************************************************************************)
EXTENDS Sync, TLAPS

(* The repositories.                                                       *)

\* HEAD is on a branch that has a commit, or detached with a commit of its own.
Sound(r) ==
  /\ r \in Repo
  /\ r.head # Detached => r.refs[r.head] # NoRef /\ r.tip = {}

\* What is in the workspace is of its type, every repository in it is sound,
\* and every remote has its default branch.
Repos ==
  /\ hosted \in Manifests
  /\ place \in [Member -> Place]
  /\ \A m \in Member : IsRepo(m) => Sound(place[m])
  /\ upstream \in [Member -> [Branch -> Ref]]
  /\ \A m \in Member : upstream[m][Trunk] # NoRef
  /\ lock \in [Member -> State]
  /\ snapshot \in {NoSnapshot} \cup [Member -> {NoState} \cup State]

Phase   == {"idle", "validate", "fetch", "apply", "capture", "materialize"}
Pulling == {"validate", "fetch", "apply"}
Moving  == {"fast_forward", "merge", "rebase", "reset"}
Action  == {"none", "noop", "skip", "fetch_only"} \cup Moving

\* The state of the operation.
Locals ==
  /\ op \in Phase
  /\ targets \subseteq Member /\ todo \subseteq targets /\ failed \subseteq targets
  /\ mem \in [Member -> {NoState} \cup State]
  /\ seen \in [Member -> {NoState} \cup State]
  /\ start \in {Disturbed} \cup [Member -> Place]
  /\ requests \in 0 .. MaxRequests /\ edits \in 0 .. MaxEdits
  /\ sync \in SyncModes \cup {"none"} /\ force \in BOOLEAN
  /\ actions \in [Member -> Action]
  /\ source \in {"none", "lock", "snapshot"}
  /\ clones \subseteq targets
  /\ at \in [Member -> {"waiting", "attach", "detach"}]

\* What an operation knows in each of its phases: a pull works with the lock
\* it has read, plans moves only to branches it has fetched, and a reset only
\* when that was asked for; nothing is observed before its member is done.
Phases ==
  /\ op \in Pulling => mem = lock /\ sync \in SyncModes
  /\ op = "materialize" => \A m \in targets : mem[m] \in State
  /\ op # "materialize" => clones = {}
  /\ op \notin {"fetch", "apply"} => actions = NoActions
  /\ op = "fetch" => /\ \A m \in todo : actions[m] = "none"
                     /\ \A m \in targets \ (todo \cup failed) : actions[m] # "none"
  /\ op = "apply" => \A m \in targets : actions[m] # "none"
  /\ \A m \in Member : actions[m] = "reset" => sync = "reset"
  /\ \A m \in Member : actions[m] \in Moving /\ IsRepo(m) =>
       place[m].origin[PullBranch(m)] # NoRef
  /\ op \in {"idle", "validate", "fetch"} => seen = Unseen
  /\ \A m \in Member : m \notin targets \/ m \in todo => seen[m] = NoState

\* What it has done, as long as nobody else was at work.
Validated ==
  op = "validate" =>
    place = start /\ \A m \in targets \ (todo \cup failed) : Valid(m)

Prepared ==
  op = "fetch" =>
    /\ \A m \in targets : Valid(m)
    /\ \A m \in Member :
         \/ place[m] = start[m]
         \/ /\ place[m] \in Repo /\ start[m] \in Repo
            /\ place[m] = [start[m] EXCEPT !.origin = place[m].origin]

Applied ==
  op = "apply" =>
    \A m \in targets \ todo :
      seen[m] = IF IsRepo(m) THEN Resolved(place[m]) ELSE mem[m]

Captured ==
  op = "capture" => \A m \in targets \ todo : seen[m] = Observed(m)

Landed ==
  op = "materialize" =>
    /\ clones = {m \in targets : start[m] \in {Absent, Files}}
    /\ \A m \in targets \ (todo \cup failed) :
         /\ IsRepo(m) /\ seen[m] = Resolved(place[m])
         /\ HeadCommit(place[m]) = Target(m)
         /\ place[m].head \in {mem[m].branch, Detached}

Undisturbed ==
  start # Disturbed => Validated /\ Prepared /\ Applied /\ Captured /\ Landed

IInv == Repos /\ Locals /\ Phases /\ Undisturbed

\* Every branch of r is there in s, with at least the changes it had.
Extended(r, s) ==
  \A b \in Branch : r.refs[b] # NoRef => s.refs[b] # NoRef /\ r.refs[b] \subseteq s.refs[b]

-----------------------------------------------------------------------------
(* What the calls of the backend do to a sound repository.                 *)

LEMMA RefType == \A c : c \in Commit <=> c \in Ref /\ c # NoRef
BY RepoAssumption DEF Commit, Ref

LEMMA SoundHead ==
  ASSUME NEW r, Sound(r)
  PROVE  /\ r \in Repo /\ HeadCommit(r) \in Commit /\ Resolved(r) \in State
         /\ r.refs \in [Branch -> Ref] /\ r.origin \in [Branch -> Ref]
         /\ r.head \in Branch \cup {Detached} /\ r.tip \in Commit
<1>1. /\ r \in Repo
      /\ r.refs \in [Branch -> Ref] /\ r.origin \in [Branch -> Ref]
      /\ r.head \in Branch \cup {Detached} /\ r.tip \in Commit
  BY DEF Sound, Repo
<1>2. HeadCommit(r) \in Commit
  <2>1. CASE r.head = Detached
    BY <1>1, <2>1 DEF HeadCommit
  <2>2. CASE r.head # Detached
    <3>1. r.refs[r.head] \in Ref /\ r.refs[r.head] # NoRef
      BY <1>1, <2>2 DEF Sound
    <3> QED
      BY <2>2, <3>1, RefType DEF HeadCommit
  <2> QED
    BY <2>1, <2>2
<1>3. Resolved(r) \in State
  BY <1>1, <1>2 DEF Resolved, State
<1> QED
  BY <1>1, <1>2, <1>3

\* A branch is created or moved to a commit.
LEMMA WithRef ==
  ASSUME NEW r \in Repo, NEW b \in Branch, NEW c \in Commit
  PROVE  LET s == [r EXCEPT !.refs[b] = c]
         IN  /\ s \in Repo
             /\ s.refs \in [Branch -> Ref] /\ s.refs[b] = c
             /\ \A x \in Branch : x # b => s.refs[x] = r.refs[x]
             /\ s.origin = r.origin /\ s.head = r.head /\ s.tip = r.tip
<1> DEFINE refs == [r.refs EXCEPT ![b] = c]
<1>1. /\ r.refs \in [Branch -> Ref] /\ r.origin \in [Branch -> Ref]
      /\ r.head \in Branch \cup {Detached} /\ r.tip \in Commit
      /\ r.dirty \in BOOLEAN /\ r.midway \in BOOLEAN
  BY DEF Repo
<1>2. /\ refs \in [Branch -> Ref] /\ refs[b] = c
      /\ \A x \in Branch : x # b => refs[x] = r.refs[x]
  BY <1>1, RefType
<1>3. [r EXCEPT !.refs[b] = c] = [r EXCEPT !.refs = refs]
  OBVIOUS
<1> HIDE DEF refs
<1>4. [r EXCEPT !.refs = refs] \in Repo
  BY <1>1, <1>2 DEF Repo
<1>5. LET s == [r EXCEPT !.refs = refs]
      IN  /\ s.refs = refs
          /\ s.origin = r.origin /\ s.head = r.head /\ s.tip = r.tip
  BY DEF Repo
<1> QED
  BY <1>2, <1>3, <1>4, <1>5

\* The branch HEAD is on, or the detached HEAD, is moved to a commit.
LEMMA MoveHeadSound ==
  ASSUME NEW r, Sound(r), NEW c \in Commit
  PROVE  LET s == MoveHead(r, c)
         IN  /\ Sound(s) /\ HeadCommit(s) = c
             /\ s.origin = r.origin /\ s.head = r.head
             /\ \A x \in Branch : x # r.head => s.refs[x] = r.refs[x]
             /\ r.head # Detached => s.refs[r.head] = c
<1>1. r \in Repo /\ r.head \in Branch \cup {Detached}
  BY SoundHead
<1>2. CASE r.head = Detached
  <2> DEFINE s == [r EXCEPT !.tip = c]
  <2>1. /\ s \in Repo /\ s.tip = c /\ s.refs = r.refs
        /\ s.origin = r.origin /\ s.head = r.head
    BY <1>1 DEF Repo
  <2>2. MoveHead(r, c) = s
    BY <1>2 DEF MoveHead
  <2> HIDE DEF s
  <2> QED
    BY <1>2, <2>1, <2>2 DEF Sound, HeadCommit
<1>3. CASE r.head # Detached
  <2> DEFINE b == r.head
             s == [r EXCEPT !.refs[b] = c]
  <2>1. b \in Branch
    BY <1>1, <1>3
  <2>2. /\ s \in Repo /\ s.refs[b] = c
        /\ \A x \in Branch : x # b => s.refs[x] = r.refs[x]
        /\ s.origin = r.origin /\ s.head = r.head /\ s.tip = r.tip
    BY <1>1, <2>1, WithRef
  <2>3. MoveHead(r, c) = s
    BY <1>3 DEF MoveHead
  <2> HIDE DEF s
  <2>4. c # NoRef
    BY RefType
  <2> QED
    BY <1>3, <2>1, <2>2, <2>3, <2>4 DEF Sound, HeadCommit
<1> QED
  BY <1>2, <1>3

LEMMA AttachSound ==
  ASSUME NEW r \in Repo, NEW b \in Branch, r.refs[b] # NoRef
  PROVE  LET s == Attach(r, b)
         IN  /\ Sound(s) /\ HeadCommit(s) = r.refs[b] /\ s.head = b
             /\ s.origin = r.origin /\ s.refs = r.refs
<1> DEFINE s == Attach(r, b)
<1>1. {} \in Commit
  BY DEF Commit
<1>2. /\ s \in Repo /\ s.head = b /\ s.tip = {}
      /\ s.origin = r.origin /\ s.refs = r.refs
  BY <1>1 DEF Attach, Repo
<1> HIDE DEF s
<1>3. Sound(s) /\ HeadCommit(s) = r.refs[b]
  BY <1>2, RepoAssumption DEF Sound, HeadCommit
<1> QED
  BY <1>2, <1>3 DEF s

LEMMA DetachSound ==
  ASSUME NEW r \in Repo, NEW c \in Commit
  PROVE  LET s == Detach(r, c)
         IN  /\ Sound(s) /\ HeadCommit(s) = c /\ s.head = Detached
             /\ s.origin = r.origin /\ s.refs = r.refs
<1> DEFINE s == Detach(r, c)
<1>1. /\ s \in Repo /\ s.head = Detached /\ s.tip = c
      /\ s.origin = r.origin /\ s.refs = r.refs
  BY DEF Detach, Repo
<1> HIDE DEF s
<1>2. Sound(s) /\ HeadCommit(s) = c
  BY <1>1 DEF Sound, HeadCommit
<1> QED
  BY <1>1, <1>2 DEF s

\* The worktree's flags say nothing of soundness.
LEMMA FlagsSound ==
  ASSUME NEW r, Sound(r), NEW d \in BOOLEAN, NEW w \in BOOLEAN
  PROVE  LET s == [r EXCEPT !.dirty = d, !.midway = w]
         IN  /\ Sound(s) /\ HeadCommit(s) = HeadCommit(r)
             /\ s.origin = r.origin /\ s.refs = r.refs /\ s.head = r.head
<1> DEFINE s == [r EXCEPT !.dirty = d, !.midway = w]
<1>1. r \in Repo
  BY DEF Sound
<1>2. /\ s \in Repo /\ s.origin = r.origin /\ s.refs = r.refs
      /\ s.head = r.head /\ s.tip = r.tip
  BY <1>1 DEF Repo
<1> HIDE DEF s
<1>3. Sound(s) /\ HeadCommit(s) = HeadCommit(r)
  BY <1>2 DEF Sound, HeadCommit
<1> QED
  BY <1>2, <1>3 DEF s

LEMMA FetchedSound ==
  ASSUME NEW r, Sound(r), NEW remote \in [Branch -> Ref]
  PROVE  LET s == Fetched(r, remote)
         IN  /\ Sound(s) /\ s.origin = remote /\ s = [r EXCEPT !.origin = s.origin]
             /\ s.dirty = r.dirty /\ HeadCommit(s) = HeadCommit(r)
<1> DEFINE s == Fetched(r, remote)
<1>1. r \in Repo
  BY DEF Sound
<1>2. /\ s \in Repo /\ s.origin = remote /\ s.refs = r.refs /\ s.dirty = r.dirty
      /\ s.head = r.head /\ s.tip = r.tip
  BY <1>1 DEF Fetched, Repo
<1>3. s = [r EXCEPT !.origin = s.origin]
  BY <1>2 DEF Fetched
<1> HIDE DEF s
<1>4. Sound(s) /\ HeadCommit(s) = HeadCommit(r)
  BY <1>2 DEF Sound, HeadCommit
<1> QED
  BY <1>2, <1>3, <1>4 DEF s

LEMMA ClonedSound ==
  ASSUME NEW remote \in [Branch -> Ref], NEW b \in Branch, remote[b] # NoRef
  PROVE  LET s == Cloned(remote, b)
         IN  Sound(s) /\ s.origin = remote
<1> DEFINE s == Cloned(remote, b)
<1>1. {} \in Commit /\ NoRef \in Ref /\ b # Detached
  BY RepoAssumption DEF Commit, Ref
<1>2. [x \in Branch |-> IF x = b THEN remote[b] ELSE NoRef] \in [Branch -> Ref]
  BY <1>1
<1>3. s \in Repo
  BY <1>1, <1>2 DEF Cloned, Repo
<1>4. s.refs[b] = remote[b] /\ s.head = b /\ s.tip = {} /\ s.origin = remote
  BY DEF Cloned
<1> HIDE DEF s
<1>5. Sound(s)
  BY <1>3, <1>4 DEF Sound
<1> QED
  BY <1>4, <1>5 DEF s

\* Whatever a person does with git leaves a sound repository, and what was
\* fetched.
LEMMA EditedSound ==
  ASSUME NEW r, Sound(r), NEW s \in Edited(r)
  PROVE  Sound(s) /\ s.origin = r.origin
<1>1. /\ r \in Repo /\ HeadCommit(r) \in Commit
      /\ r.refs \in [Branch -> Ref]
      /\ r.head \in Branch \cup {Detached}
  BY SoundHead
<1>2. ASSUME NEW c \in Change,
             s = [MoveHead(r, HeadCommit(r) \cup {c}) EXCEPT !.dirty = FALSE,
                                                             !.midway = FALSE]
      PROVE  Sound(s) /\ s.origin = r.origin
  <2> DEFINE moved == MoveHead(r, HeadCommit(r) \cup {c})
  <2>1. HeadCommit(r) \cup {c} \in Commit
    BY <1>1 DEF Commit
  <2>2. Sound(moved) /\ moved.origin = r.origin
    BY <2>1, MoveHeadSound
  <2> HIDE DEF moved
  <2>3. s = [moved EXCEPT !.dirty = FALSE, !.midway = FALSE]
    BY <1>2 DEF moved
  <2> QED
    BY <2>2, <2>3, FlagsSound
<1>3. ASSUME NEW d \in BOOLEAN, s = [r EXCEPT !.dirty = d]
      PROVE  Sound(s) /\ s.origin = r.origin
  BY <1>1, <1>3 DEF Sound, Repo
<1>4. ASSUME NEW b \in Branch, r.refs[b] # NoRef, s = Attach(r, b)
      PROVE  Sound(s) /\ s.origin = r.origin
  BY <1>1, <1>4, AttachSound
<1>5. CASE s = Detach(r, HeadCommit(r))
  BY <1>1, <1>5, DetachSound
<1>6. ASSUME NEW b \in Branch, r.refs[b] = NoRef, s = [r EXCEPT !.refs[b] = HeadCommit(r)]
      PROVE  Sound(s) /\ s.origin = r.origin
  <2> DEFINE c == HeadCommit(r)
             t == [r EXCEPT !.refs[b] = c]
  <2>1. /\ t \in Repo /\ t.origin = r.origin /\ t.head = r.head /\ t.tip = r.tip
        /\ \A x \in Branch : x # b => t.refs[x] = r.refs[x]
    BY <1>1, WithRef
  <2>2. s = t
    BY <1>6
  <2> HIDE DEF t
  <2> QED
    BY <1>1, <1>6, <2>1, <2>2 DEF Sound
<1>7. ASSUME NEW b \in Branch \ {r.head}, s = [r EXCEPT !.refs[b] = NoRef]
      PROVE  Sound(s) /\ s.origin = r.origin
  <2> DEFINE refs == [r.refs EXCEPT ![b] = NoRef]
             t == [r EXCEPT !.refs = refs]
  <2>1. refs \in [Branch -> Ref] /\ \A x \in Branch : x # b => refs[x] = r.refs[x]
    BY <1>1 DEF Ref
  <2>2. s = t
    BY <1>7
  <2> HIDE DEF refs
  <2>3. /\ t \in Repo /\ t.origin = r.origin /\ t.head = r.head /\ t.tip = r.tip
        /\ t.refs = refs
    BY <1>1, <2>1 DEF Repo
  <2> HIDE DEF t
  <2> QED
    BY <1>1, <2>1, <2>2, <2>3 DEF Sound
<1> QED
  BY <1>2, <1>3, <1>4, <1>5, <1>6, <1>7 DEF Edited

\* A checkout that fails may have moved everything, one that succeeds has.
LEMMA CheckedOutMoves ==
  ASSUME NEW r, NEW moved, NEW out \in CheckedOut(r, moved)
  PROVE  /\ out.repo \in {r, moved} /\ out.res \in {"ok", "error"}
         /\ out.res = "ok" => out.repo = moved
BY DEF CheckedOut, Ok, Error

\* What every call of a pull leaves: a sound repository with the remote
\* branches it had and, if it is on the branch that is pulled, its changes.
Moves(r, b, out) ==
  /\ Sound(out.repo) /\ out.repo.origin = r.origin
  /\ out.res \in {"ok", "conflict", "diverged", "error"}
  /\ r.head = b => Extended(r, out.repo)

LEMMA StaysMoves ==
  ASSUME NEW r, Sound(r), NEW b, NEW out, out \in {Ok(r), Error(r), Diverged(r)}
  PROVE  Moves(r, b, out)
BY DEF Moves, Ok, Error, Diverged, Extended

LEMMA FastForwardMoves ==
  ASSUME NEW r, Sound(r), NEW b \in Branch, NEW c \in Commit,
         NEW out \in FastForward(r, b, c)
  PROVE  Moves(r, b, out)
<1> DEFINE ahead == [r EXCEPT !.refs[b] = c]
           moved == Attach(ahead, b)
<1>1. CASE out \in {Ok(r), Error(r), Diverged(r)}
  BY <1>1, StaysMoves
<1>2. CASE Within(HeadCommit(r), c) /\ r.refs[b] # NoRef /\ out \in CheckedOut(r, moved)
  <2>1. r \in Repo
    BY SoundHead
  <2>2. /\ ahead \in Repo /\ ahead.refs[b] = c /\ ahead.origin = r.origin
        /\ \A x \in Branch : x # b => ahead.refs[x] = r.refs[x]
    BY <2>1, WithRef
  <2> HIDE DEF ahead
  <2>3. c # NoRef
    BY RefType
  <2>4. Sound(moved) /\ moved.origin = ahead.origin /\ moved.refs = ahead.refs
    BY <2>2, <2>3, AttachSound
  <2> HIDE DEF moved
  <2>5. r.head = b => r.refs[b] \subseteq c
    BY <1>2, RepoAssumption DEF HeadCommit, Within
  <2>6. r.head = b => Extended(r, moved)
    BY <2>2, <2>3, <2>4, <2>5 DEF Extended
  <2>7. Extended(r, r)
    BY DEF Extended
  <2>8. /\ out.repo \in {r, moved} /\ out.res \in {"ok", "error"}
    BY <1>2, CheckedOutMoves
  <2> QED
    BY <2>2, <2>4, <2>6, <2>7, <2>8 DEF Moves
<1> QED
  BY <1>1, <1>2 DEF FastForward

LEMMA MergeMoves ==
  ASSUME NEW r, Sound(r), NEW b \in Branch, NEW c \in Commit,
         NEW out \in MergeUpstream(r, b, c)
  PROVE  Moves(r, b, out)
<1> DEFINE merged == HeadCommit(r) \cup c
           moved  == MoveHead(r, merged)
<1>1. CASE out \in FastForward(r, b, c)
  BY <1>1, FastForwardMoves
<1>2. CASE out = Error(r)
  BY <1>2, StaysMoves
<1>3. CASE out = Conflicted(r)
  <2> DEFINE s == [r EXCEPT !.dirty = TRUE, !.midway = TRUE]
  <2>1. Sound(s) /\ s.origin = r.origin /\ s.refs = r.refs
    BY FlagsSound
  <2>2. out.repo = s /\ out.res = "conflict"
    BY <1>3 DEF Conflicted, Conflict
  <2> HIDE DEF s
  <2> QED
    BY <2>1, <2>2 DEF Moves, Extended
<1>4. CASE out = Ok(moved)
  <2>1. HeadCommit(r) \in Commit
    BY SoundHead
  <2>2. merged \in Commit /\ HeadCommit(r) \subseteq merged
    BY <2>1 DEF Commit
  <2> HIDE DEF merged
  <2>3. /\ Sound(moved) /\ moved.origin = r.origin
        /\ \A x \in Branch : x # r.head => moved.refs[x] = r.refs[x]
        /\ r.head # Detached => moved.refs[r.head] = merged
    BY <2>2, MoveHeadSound
  <2> HIDE DEF moved
  <2>4. r.head = b => Extended(r, moved)
    <3> SUFFICES ASSUME r.head = b PROVE Extended(r, moved)
      OBVIOUS
    <3>1. b # Detached /\ HeadCommit(r) = r.refs[b]
      BY RepoAssumption DEF HeadCommit
    <3>2. moved.refs[b] = merged /\ merged # NoRef
      BY <2>2, <2>3, <3>1, RefType
    <3> QED
      BY <2>2, <2>3, <3>1, <3>2 DEF Extended
  <2>5. out.repo = moved /\ out.res = "ok"
    BY <1>4 DEF Ok
  <2> QED
    BY <2>3, <2>4, <2>5 DEF Moves
<1> QED
  BY <1>1, <1>2, <1>3, <1>4 DEF MergeUpstream

LEMMA RebaseMoves ==
  ASSUME NEW r, Sound(r), NEW b \in Branch, NEW c \in Commit,
         NEW out \in RebaseOnto(r, b, c)
  PROVE  Moves(r, b, out)
<1> DEFINE merged   == HeadCommit(r) \cup c
           replayed == MoveHead(r, merged)
           between  == Detach(r, c)
<1>1. CASE out \in FastForward(r, b, c)
  BY <1>1, FastForwardMoves
<1>2. CASE out = Error(r)
  BY <1>2, StaysMoves
<1>3. CASE out = Conflicted(between)
  <2> DEFINE s == [between EXCEPT !.dirty = TRUE, !.midway = TRUE]
  <2>1. Sound(between) /\ between.origin = r.origin /\ between.refs = r.refs
    BY SoundHead, DetachSound
  <2> HIDE DEF between
  <2>2. Sound(s) /\ s.origin = r.origin /\ s.refs = r.refs
    BY <2>1, FlagsSound
  <2>3. out.repo = s /\ out.res = "conflict"
    BY <1>3 DEF Conflicted, Conflict
  <2> HIDE DEF s
  <2> QED
    BY <2>2, <2>3 DEF Moves, Extended
<1>4. CASE out = IF r.head = b THEN Ok(replayed) ELSE Error(replayed)
  <2>1. HeadCommit(r) \in Commit
    BY SoundHead
  <2>2. merged \in Commit /\ HeadCommit(r) \subseteq merged
    BY <2>1 DEF Commit
  <2> HIDE DEF merged
  <2>3. /\ Sound(replayed) /\ replayed.origin = r.origin
        /\ \A x \in Branch : x # r.head => replayed.refs[x] = r.refs[x]
        /\ r.head # Detached => replayed.refs[r.head] = merged
    BY <2>2, MoveHeadSound
  <2> HIDE DEF replayed
  <2>4. r.head = b => Extended(r, replayed)
    <3> SUFFICES ASSUME r.head = b PROVE Extended(r, replayed)
      OBVIOUS
    <3>1. b # Detached /\ HeadCommit(r) = r.refs[b]
      BY RepoAssumption DEF HeadCommit
    <3>2. replayed.refs[b] = merged /\ merged # NoRef
      BY <2>2, <2>3, <3>1, RefType
    <3> QED
      BY <2>2, <2>3, <3>1, <3>2 DEF Extended
  <2>5. out.repo = replayed /\ out.res \in {"ok", "error"}
    BY <1>4 DEF Ok, Error
  <2> QED
    BY <2>3, <2>4, <2>5 DEF Moves
<1> QED
  BY <1>1, <1>2, <1>3, <1>4 DEF RebaseOnto

LEMMA ResetSound ==
  ASSUME NEW r, Sound(r), NEW b \in Branch, NEW c \in Commit,
         NEW out \in ResetHard(r, b, c)
  PROVE  /\ Sound(out.repo) /\ out.repo.origin = r.origin
         /\ out.res \in {"ok", "error"}
<1> DEFINE moved == MoveHead(r, c)
           reset == [moved EXCEPT !.dirty = FALSE, !.midway = FALSE]
<1>1. Sound(moved) /\ moved.origin = r.origin
  BY MoveHeadSound
<1>2. out \in {Error(r), Ok(reset), Error(reset)}
  BY DEF ResetHard
<1> HIDE DEF moved
<1>3. Sound(reset) /\ reset.origin = r.origin
  BY <1>1, FlagsSound
<1> HIDE DEF reset
<1> QED
  BY <1>2, <1>3 DEF Ok, Error

\* What a pull applies to a member keeps the member's repository sound, and
\* drops nothing unless it is a reset.
LEMMA ApplyMoves ==
  ASSUME NEW r, Sound(r), NEW b \in Branch, r.origin[b] # NoRef,
         NEW action \in Moving, NEW out \in Apply(r, action, b)
  PROVE  /\ Sound(out.repo) /\ out.repo.origin = r.origin
         /\ out.res \in {"ok", "conflict", "diverged", "error"}
         /\ action # "reset" /\ r.head = b => Extended(r, out.repo)
<1>1. r.origin[b] \in Commit
  BY SoundHead, RefType
<1>2. CASE action = "fast_forward"
  BY <1>1, <1>2, FastForwardMoves DEF Apply, Moves
<1>3. CASE action = "merge"
  BY <1>1, <1>3, MergeMoves DEF Apply, Moves
<1>4. CASE action = "rebase"
  BY <1>1, <1>4, RebaseMoves DEF Apply, Moves
<1>5. CASE action = "reset"
  BY <1>1, <1>5, ResetSound DEF Apply
<1> QED
  BY <1>2, <1>3, <1>4, <1>5 DEF Moving

\* Nothing a repository has is lost when its branches only gain.
LEMMA ExtendedKeeps ==
  ASSUME NEW r, Sound(r), r.head # Detached, NEW s, Extended(r, s)
  PROVE  Kept(r) \subseteq Kept(s)
<1>1. r.tip = {}
  BY DEF Sound
<1> QED
  BY <1>1 DEF Kept, Extended

\* materialize's checkouts: when they succeed HEAD is where it is to be, and
\* no branch that was there has moved.
Lands(r, c, heads, out) ==
  /\ Sound(out.repo) /\ out.repo.origin = r.origin
  /\ out.res = "ok" => HeadCommit(out.repo) = c /\ out.repo.head \in heads
  /\ \A x \in Branch : r.refs[x] # NoRef => out.repo.refs[x] = r.refs[x]

LEMMA StaysLands ==
  ASSUME NEW r, Sound(r), NEW c, NEW heads, NEW out, out \in {Error(r), Diverged(r)}
  PROVE  Lands(r, c, heads, out) /\ out.res \in {"error", "diverged"}
BY DEF Lands, Error, Diverged

LEMMA CheckoutBranchLands ==
  ASSUME NEW r, Sound(r), NEW b \in Branch, NEW c \in Commit,
         NEW out \in CheckoutBranch(r, b, c)
  PROVE  Lands(r, c, {b}, out) /\ out.res \in {"ok", "diverged", "error"}
<1> DEFINE s == [r EXCEPT !.refs[b] = c]
           moved == Attach(s, b)
<1>1. CASE out \in {Error(r), Diverged(r)}
  BY <1>1, StaysLands
<1>2. CASE r.refs[b] \in {NoRef, c} /\ out \in CheckedOut(s, moved) \cup {Error(r)}
  <2>1. CASE out = Error(r)
    BY <2>1, StaysLands
  <2>2. CASE out \in CheckedOut(s, moved)
    <3>1. r \in Repo /\ c # NoRef
      BY SoundHead, RefType
    <3>2. /\ s \in Repo /\ s.refs[b] = c /\ s.origin = r.origin
          /\ s.head = r.head /\ s.tip = r.tip
          /\ \A x \in Branch : x # b => s.refs[x] = r.refs[x]
      BY <3>1, WithRef
    <3> HIDE DEF s
    <3>3. Sound(s)
      BY <3>1, <3>2, SoundHead DEF Sound
    <3>4. /\ Sound(moved) /\ moved.origin = s.origin /\ moved.refs = s.refs
          /\ HeadCommit(moved) = s.refs[b] /\ moved.head = b
      BY <3>1, <3>2, AttachSound
    <3> HIDE DEF moved
    <3>5. \A x \in Branch : r.refs[x] # NoRef => s.refs[x] = r.refs[x]
      BY <1>2, <3>2
    <3>6. /\ out.repo \in {s, moved} /\ out.res \in {"ok", "error"}
          /\ out.res = "ok" => out.repo = moved
      BY <2>2, CheckedOutMoves
    <3> QED
      BY <3>2, <3>3, <3>4, <3>5, <3>6 DEF Lands
  <2> QED
    BY <1>2, <2>1, <2>2
<1> QED
  BY <1>1, <1>2 DEF CheckoutBranch, EnsureBranchAtCommit

LEMMA CheckoutCommitLands ==
  ASSUME NEW r, Sound(r), NEW c \in Commit, NEW out \in CheckoutCommit(r, c)
  PROVE  Lands(r, c, {Detached}, out) /\ out.res \in {"ok", "error"}
<1> DEFINE moved == Detach(r, c)
<1>1. /\ Sound(moved) /\ moved.origin = r.origin /\ moved.refs = r.refs
      /\ HeadCommit(moved) = c /\ moved.head = Detached
  BY SoundHead, DetachSound
<1> HIDE DEF moved
<1>2. out \in CheckedOut(r, moved)
  BY DEF CheckoutCommit, moved
<1>3. /\ out.repo \in {r, moved} /\ out.res \in {"ok", "error"}
      /\ out.res = "ok" => out.repo = moved
  BY <1>2, CheckedOutMoves
<1> QED
  BY <1>1, <1>3 DEF Lands

-----------------------------------------------------------------------------
(* The steps.                                                              *)

LEMMA RepoThere ==
  ASSUME Repos, NEW m \in Member
  PROVE  /\ IsRepo(m) <=> place[m] \in Repo
         /\ IsRepo(m) => Sound(place[m])
BY WorkspaceAssumption DEF Repos, IsRepo, Place

LEMMA StateType == NoState \notin State /\ Unseen \in [Member -> {NoState} \cup State]
BY WorkspaceAssumption DEF Unseen

\* A pull works on branches: what the lock records, or the default one.
LEMMA PullBranchType ==
  ASSUME IInv, op \in Pulling, NEW m \in Member
  PROVE  mem[m] \in State /\ PullBranch(m) \in Branch
<1>1. mem[m] \in State
  BY DEF IInv, Phases, Repos
<1> QED
  BY <1>1, WorkspaceAssumption DEF PullBranch, State

\* What was valid stays so while the worktree and the request do, and the
\* remote keeps its branch.
LEMMA ValidStays ==
  ASSUME NEW m \in Member, Valid(m), UNCHANGED <<hosted, sync, force, mem>>,
         IsRepo(m)', place'[m].dirty = place[m].dirty,
         upstream[m][PullBranch(m)] # NoRef => upstream'[m][PullBranch(m)] # NoRef
  PROVE  Valid(m)'
BY DEF Valid, Tolerates, PullBranch

LEMMA InitIInv == Init => IInv
<1> SUFFICES ASSUME Init PROVE IInv
  OBVIOUS
<1> USE DEF Init, WorkspaceInit, PullInit, MaterializeInit
<1>1. PICK s \in [Member -> Starts] :
        /\ upstream = [m \in Member |-> OnlyTrunk(s[m].remote)]
        /\ place = [m \in Member |-> MoveHead(Cloned(OnlyTrunk({}), Trunk), s[m].local)]
  OBVIOUS
<1>2. \A m \in Member : s[m].local \in Commit /\ s[m].remote \in Commit
  BY WorkspaceAssumption
<1>3. ASSUME NEW c \in Commit
      PROVE  OnlyTrunk(c) \in [Branch -> Ref] /\ OnlyTrunk(c)[Trunk] = c /\ c # NoRef
  BY WorkspaceAssumption, RefType DEF OnlyTrunk, Ref
<1>4. ASSUME NEW m \in Member
      PROVE  Sound(place[m]) /\ upstream[m] \in [Branch -> Ref] /\ upstream[m][Trunk] # NoRef
  <2> DEFINE remote == OnlyTrunk({})
             new    == Cloned(remote, Trunk)
  <2>1. remote \in [Branch -> Ref] /\ remote[Trunk] # NoRef
    BY <1>3 DEF Commit
  <2> HIDE DEF remote
  <2>2. Sound(new)
    BY <2>1, ClonedSound, WorkspaceAssumption
  <2> HIDE DEF new
  <2>3. Sound(MoveHead(new, s[m].local))
    BY <1>2, <2>2, MoveHeadSound
  <2>4. place[m] = MoveHead(new, s[m].local)
    BY <1>1 DEF new, remote
  <2> QED
    BY <1>1, <1>2, <1>3, <2>3, <2>4
<1>5. /\ DOMAIN place = Member /\ place = [m \in Member |-> place[m]]
      /\ DOMAIN upstream = Member /\ upstream = [m \in Member |-> upstream[m]]
  BY <1>1
<1>6. Repos
  <2>1. \A m \in Member : place[m] \in Place
    BY <1>4 DEF Sound, Place
  <2>2. \A m \in Member : Resolved(place[m]) \in State
    BY <1>4, SoundHead
  <2>3. place \in [Member -> Place] /\ upstream \in [Member -> [Branch -> Ref]]
    BY <1>4, <1>5, <2>1
  <2>4. lock \in [Member -> State]
    BY <2>2
  <2> QED
    BY <1>4, <2>3, <2>4 DEF Repos
<1>7. Locals
  <2>1. NoActions \in [Member -> Action] /\ Waiting \in [Member -> {"waiting", "attach", "detach"}]
    BY DEF NoActions, Action, Waiting
  <2>2. 0 \in 0 .. MaxRequests /\ 0 \in 0 .. MaxEdits
    BY WorkspaceAssumption
  <2> QED
    BY StateType, <2>1, <2>2 DEF Locals, Phase
<1>8. Phases
  BY DEF Phases, Pulling, Moving, NoActions, Unseen
<1>9. Undisturbed
  BY DEF Undisturbed
<1> QED
  BY <1>6, <1>7, <1>8, <1>9 DEF IInv

\* An operation that returns, or dies, leaves nothing of its own.
LEMMA ReturnKeeps ==
  ASSUME IInv, Return, actions' = NoActions, clones' = {},
         sync' \in SyncModes \cup {"none"}, force' \in BOOLEAN,
         source' \in {"none", "lock", "snapshot"},
         at' \in [Member -> {"waiting", "attach", "detach"}]
  PROVE  Locals' /\ Phases' /\ Undisturbed'
<1>1. Locals'
  BY StateType DEF IInv, Locals, Return, Phase, Action, NoActions
<1>2. Phases'
  BY DEF Return, Phases, Pulling, Moving, NoActions, Unseen
<1>3. Undisturbed'
  BY DEF Return, Undisturbed
<1> QED
  BY <1>1, <1>2, <1>3

LEMMA DieIInv ==
  ASSUME IInv, Die PROVE IInv'
<1>1. Locals' /\ Phases' /\ Undisturbed'
  BY ReturnKeeps DEF Die, PullReset, MaterializeReset, Waiting
<1>2. Repos'
  BY DEF IInv, Die, Return, Repos, IsRepo
<1> QED
  BY <1>1, <1>2 DEF IInv

LEMMA EditIInv ==
  ASSUME IInv, NEW m \in Member, Edit(m), UNCHANGED <<pull, snapshot, materialize>>
  PROVE  IInv'
<1>1. PICK there :
        /\ there \in {Absent, Files} \cup (IF IsRepo(m) THEN Edited(place[m]) ELSE {})
        /\ place' = [place EXCEPT ![m] = there]
  BY DEF Edit
<1>2. /\ there \in Place
      /\ there \in Repo => /\ IsRepo(m) /\ Sound(there)
                           /\ there.origin = place[m].origin
  <2>1. CASE there \in {Absent, Files}
    BY <2>1, WorkspaceAssumption DEF Place
  <2>2. CASE IsRepo(m) /\ there \in Edited(place[m])
    <3>1. Sound(there) /\ there.origin = place[m].origin
      BY <2>2, RepoThere, EditedSound DEF IInv
    <3> QED
      BY <2>2, <3>1 DEF Sound, Place
  <2> QED
    BY <1>1, <2>1, <2>2
<1>3. /\ place \in [Member -> Place]
      /\ \A x \in Member : place'[x] = IF x = m THEN there ELSE place[x]
  BY <1>1 DEF IInv, Repos
<1>4. Repos'
  <2>1. place' \in [Member -> Place]
    BY <1>1, <1>2, <1>3
  <2>2. \A x \in Member : IsRepo(x)' => Sound(place'[x])
    BY <1>2, <1>3, WorkspaceAssumption DEF IsRepo, Place, IInv, Repos
  <2> QED
    BY <2>1, <2>2 DEF Repos, IInv, Edit
<1>5. Locals'
  BY WorkspaceAssumption DEF IInv, Locals, Edit, pull, materialize
<1>6. Phases'
  <2>1. ASSUME NEW x \in Member, actions[x] \in Moving, IsRepo(x)'
        PROVE  place'[x].origin[PullBranch(x)] # NoRef
    <3>1. IsRepo(x) /\ place'[x].origin = place[x].origin
      BY <1>2, <1>3, <2>1, WorkspaceAssumption DEF IsRepo, Place
    <3> QED
      BY <2>1, <3>1 DEF IInv, Phases
  <2> QED
    BY <2>1 DEF IInv, Phases, Edit, pull, materialize, PullBranch
<1>7. Undisturbed'
  BY DEF Edit, Undisturbed
<1> QED
  BY <1>4, <1>5, <1>6, <1>7 DEF IInv

LEMMA PublishIInv ==
  ASSUME IInv, NEW m \in Member, Publish(m), UNCHANGED <<pull, snapshot, materialize>>
  PROVE  IInv'
<1> DEFINE Base(b) == IF upstream[m][b] = NoRef THEN upstream[m][Trunk] ELSE upstream[m][b]
<1>1. PICK b \in Branch, c \in Change :
        upstream' = [upstream EXCEPT ![m][b] = Base(b) \cup {c}]
  BY DEF Publish
<1> DEFINE new == Base(b) \cup {c}
           row == [upstream[m] EXCEPT ![b] = new]
<1>2. new \in Commit
  <2>1. /\ upstream[m][b] \in Ref /\ upstream[m][Trunk] \in Ref
        /\ upstream[m][Trunk] # NoRef
    BY WorkspaceAssumption DEF IInv, Repos
  <2>2. Base(b) \in Commit
    BY <2>1, RefType
  <2> HIDE DEF Base
  <2> QED
    BY <2>2 DEF Commit
<1> HIDE DEF new
<1>3. /\ upstream \in [Member -> [Branch -> Ref]]
      /\ upstream' = [upstream EXCEPT ![m] = row]
      /\ new \in Ref /\ new # NoRef
  BY <1>1, <1>2, RefType DEF IInv, Repos, new
<1>4. /\ row \in [Branch -> Ref]
      /\ \A x \in Branch : upstream[m][x] # NoRef => row[x] # NoRef
  BY <1>3
<1> HIDE DEF row
<1>5. /\ upstream' \in [Member -> [Branch -> Ref]]
      /\ \A n \in Member, x \in Branch :
           upstream[n][x] # NoRef => upstream'[n][x] # NoRef
  BY <1>3, <1>4
<1>6. Repos'
  BY <1>5, WorkspaceAssumption DEF IInv, Repos, Publish, IsRepo
<1>7. Locals'
  BY WorkspaceAssumption DEF IInv, Locals, Publish, pull, materialize
<1>8. Phases'
  BY DEF IInv, Phases, Publish, pull, materialize, PullBranch, IsRepo
<1>9. Undisturbed'
  <2>1. ASSUME op \in Pulling, NEW n \in Member, Valid(n) PROVE Valid(n)'
    <3>1. PullBranch(n) \in Branch
      BY <2>1, PullBranchType
    <3> QED
      BY <1>5, <2>1, <3>1, ValidStays DEF Publish, pull, IsRepo, Valid
  <2> SUFFICES ASSUME start # Disturbed
               PROVE  Validated' /\ Prepared' /\ Applied' /\ Captured' /\ Landed'
    BY DEF Undisturbed, Publish
  <2>2. Validated /\ Prepared /\ Applied /\ Captured /\ Landed
    BY DEF IInv, Undisturbed
  <2>3. targets \subseteq Member
    BY DEF IInv, Locals
  <2>4. Validated' /\ Prepared'
    BY <2>1, <2>2, <2>3 DEF Validated, Prepared, Publish, Pulling
  <2>5. Applied' /\ Captured' /\ Landed'
    BY <2>2 DEF Applied, Captured, Landed, Publish, pull, materialize,
                IsRepo, Observed, Target
  <2> QED
    BY <2>4, <2>5
<1> QED
  BY <1>6, <1>7, <1>8, <1>9 DEF IInv

-----------------------------------------------------------------------------
(* Pull.                                                                   *)

LEMMA PullStartIInv ==
  ASSUME IInv, NEW selected \in SUBSET Member, PullStart(selected),
         UNCHANGED <<snapshot, materialize>>
  PROVE  IInv'
<1> USE DEF PullStart, Begin
<1>1. Repos'
  BY DEF IInv, Repos, IsRepo
<1>2. Locals'
  <2>1. requests' \in 0 .. MaxRequests
    BY WorkspaceAssumption DEF IInv, Locals
  <2>2. mem' \in [Member -> {NoState} \cup State] /\ start' \in [Member -> Place]
    BY DEF IInv, Repos
  <2>3. clones = {}
    BY DEF IInv, Phases
  <2> QED
    BY <2>1, <2>2, <2>3 DEF IInv, Locals, Phase, materialize
<1>3. Phases'
  <2>1. actions = NoActions /\ seen = Unseen /\ clones = {}
    BY DEF IInv, Phases
  <2> QED
    BY <2>1 DEF Phases, materialize, Pulling, Moving, NoActions, Unseen, IInv, Locals
<1>4. Undisturbed'
  BY DEF Undisturbed, Validated, Prepared, Applied, Captured, Landed
<1> QED
  BY <1>1, <1>2, <1>3, <1>4 DEF IInv

LEMMA PullValidateIInv ==
  ASSUME IInv, NEW m \in Member, PullValidate(m), UNCHANGED <<snapshot, materialize>>
  PROVE  IInv'
<1> USE DEF PullValidate, Stay
<1>1. Repos'
  BY DEF IInv, Repos, IsRepo
<1>2. Locals'
  BY DEF IInv, Locals, Phase, pull, materialize
<1>3. Phases'
  BY DEF IInv, Phases, Pulling, Moving, pull, materialize, IsRepo, PullBranch
<1>4. Undisturbed'
  <2> SUFFICES ASSUME start # Disturbed
               PROVE  Validated' /\ Prepared' /\ Applied' /\ Captured' /\ Landed'
    BY DEF Undisturbed
  <2>1. place = start /\ \A n \in targets \ (todo \cup failed) : Valid(n)
    BY DEF IInv, Undisturbed, Validated
  <2>2. ASSUME NEW n \in targets \ (todo' \cup failed') PROVE Valid(n)'
    <3>1. Valid(n)
      BY <2>1, <2>2
    <3> QED
      BY <3>1 DEF Valid, Tolerates, IsRepo, PullBranch, pull
  <2> QED
    BY <2>1, <2>2 DEF Validated, Prepared, Applied, Captured, Landed
<1> QED
  BY <1>1, <1>2, <1>3, <1>4 DEF IInv

LEMMA BarrierIInv ==
  ASSUME IInv, Barrier("fetch") \/ Barrier("apply"), UNCHANGED <<snapshot, materialize>>
  PROVE  IInv'
<1> USE DEF Barrier
<1>1. /\ op \in {"validate", "fetch"} /\ op' \in {"fetch", "apply"}
      /\ op = "validate" <=> op' = "fetch"
      /\ todo = {} /\ failed = {} /\ todo' = targets
      /\ UNCHANGED <<hosted, place, upstream, lock, targets, failed, mem, seen, requests,
                     edits, start, pull, snapshot, materialize>>
  OBVIOUS
<1> HIDE DEF Barrier
<1>2. Repos'
  BY <1>1 DEF IInv, Repos, IsRepo
<1>3. Locals'
  BY <1>1 DEF IInv, Locals, Phase, pull, materialize
<1>4. Phases'
  BY <1>1, StateType DEF IInv, Phases, Pulling, Moving, NoActions, Unseen, pull,
                         materialize, IsRepo, PullBranch, Locals
<1>5. Undisturbed'
  <2> SUFFICES ASSUME start # Disturbed
               PROVE  Validated' /\ Prepared' /\ Applied' /\ Captured' /\ Landed'
    BY <1>1 DEF Undisturbed
  <2>1. CASE op = "validate"
    <3>1. place = start /\ \A n \in targets : Valid(n)
      BY <1>1, <2>1 DEF IInv, Undisturbed, Validated
    <3>2. \A n \in targets' : Valid(n)'
      BY <1>1, <3>1 DEF Valid, Tolerates, IsRepo, PullBranch, pull
    <3> QED
      BY <1>1, <2>1, <3>1, <3>2 DEF Validated, Prepared, Applied, Captured, Landed
  <2>2. CASE op = "fetch"
    BY <1>1, <2>2 DEF Validated, Prepared, Applied, Captured, Landed
  <2> QED
    BY <1>1, <2>1, <2>2
<1> QED
  BY <1>2, <1>3, <1>4, <1>5 DEF IInv

\* What fetching and planning may do to one member.
LEMMA PullFetchEffect ==
  ASSUME IInv, NEW m \in Member, PullFetch(m)
  PROVE  \E s, a :
           /\ s \in Place /\ a \in Action
           /\ place' = [place EXCEPT ![m] = s]
           /\ actions' = [actions EXCEPT ![m] = a]
           /\ s = place[m] \/ (/\ IsRepo(m) /\ Sound(s)
                               /\ s = [place[m] EXCEPT !.origin = s.origin]
                               /\ s.dirty = place[m].dirty)
           /\ a = "reset" => sync = "reset"
           /\ a \in Moving => IsRepo(m) /\ s.origin[PullBranch(m)] # NoRef
           /\ a = "none" => m \in failed'
<1>1. /\ place \in [Member -> Place] /\ actions \in [Member -> Action]
      /\ actions[m] = "none"
  BY DEF IInv, Repos, Locals, Phases, PullFetch
<1>2. /\ place = [place EXCEPT ![m] = place[m]] /\ place[m] \in Place
      /\ actions = [actions EXCEPT ![m] = "none"]
      /\ "none" \in Action /\ "none" \notin Moving
  BY <1>1 DEF Action, Moving
<1>3. CASE UNCHANGED <<place, actions>> /\ m \in failed'
  BY <1>2, <1>3
<1>4. CASE UNCHANGED place /\ actions' = [actions EXCEPT ![m] = "skip"]
  <2>1. "skip" \in Action /\ "skip" \notin Moving /\ "skip" # "none"
    BY DEF Action, Moving
  <2>2. place' = [place EXCEPT ![m] = place[m]]
    BY <1>2, <1>4
  <2> WITNESS place[m], "skip"
  <2> QED
    BY <1>2, <1>4, <2>1, <2>2
<1> DEFINE s      == Fetched(place[m], upstream[m])
           remote == s.origin[PullBranch(m)]
           plans  == IF remote = NoRef THEN {} ELSE Planned(s, remote)
<1>5. CASE /\ IsRepo(m) /\ place' = [place EXCEPT ![m] = s]
           /\ \/ UNCHANGED actions /\ m \in failed'
              \/ \E a \in plans : actions' = [actions EXCEPT ![m] = a]
  <2>1. Sound(place[m]) /\ upstream[m] \in [Branch -> Ref]
    BY <1>5, RepoThere DEF IInv, Repos
  <2>2. Sound(s) /\ s = [place[m] EXCEPT !.origin = s.origin] /\ s.dirty = place[m].dirty
    BY <2>1, FetchedSound
  <2> HIDE DEF s
  <2>3. s \in Place
    BY <2>2 DEF Place, Sound
  <2>4. CASE UNCHANGED actions /\ m \in failed'
    BY <1>2, <1>5, <2>2, <2>3, <2>4
  <2>5. CASE \E a \in plans : actions' = [actions EXCEPT ![m] = a]
    <3>1. PICK a \in plans : actions' = [actions EXCEPT ![m] = a]
      BY <2>5
    <3>2. remote # NoRef /\ a \in Planned(s, remote)
      OBVIOUS
    <3> HIDE DEF remote
    <3>3. a \in Action /\ a # "none" /\ (a = "reset" => sync = "reset")
      <4>1. sync \in {"fetch_only", "ff_only", "merge", "rebase", "reset"}
        BY SyncModesAssumption DEF IInv, Phases, Pulling, PullFetch
      <4> QED
        BY <3>2, <4>1 DEF Planned, Action, Moving
    <3> QED
      BY <1>5, <2>2, <2>3, <3>1, <3>2, <3>3 DEF remote
  <2> QED
    BY <1>5, <2>4, <2>5
<1> HIDE DEF s, plans
<1>6. \/ UNCHANGED <<place, actions>> /\ m \in failed'
      \/ UNCHANGED place /\ actions' = [actions EXCEPT ![m] = "skip"]
      \/ /\ IsRepo(m) /\ place' = [place EXCEPT ![m] = s]
         /\ \/ UNCHANGED actions /\ m \in failed'
            \/ \E a \in plans : actions' = [actions EXCEPT ![m] = a]
  BY DEF PullFetch, s, plans, remote
<1> HIDE DEF remote
<1> QED
  BY <1>3, <1>4, <1>5, <1>6

LEMMA PullFetchIInv ==
  ASSUME IInv, NEW m \in Member, PullFetch(m), UNCHANGED <<snapshot, materialize>>
  PROVE  IInv'
<1>1. PICK s, a :
        /\ s \in Place /\ a \in Action
        /\ place' = [place EXCEPT ![m] = s]
        /\ actions' = [actions EXCEPT ![m] = a]
        /\ s = place[m] \/ (/\ IsRepo(m) /\ Sound(s)
                            /\ s = [place[m] EXCEPT !.origin = s.origin]
                            /\ s.dirty = place[m].dirty)
        /\ a = "reset" => sync = "reset"
        /\ a \in Moving => IsRepo(m) /\ s.origin[PullBranch(m)] # NoRef
        /\ a = "none" => m \in failed'
  BY PullFetchEffect
<1>2. /\ op = "fetch" /\ m \in todo /\ todo' = todo \ {m}
      /\ failed' \in {failed, failed \cup {m}}
      /\ UNCHANGED <<hosted, upstream, op, targets, mem, requests, edits, start,
                     lock, seen, sync, force>>
  BY DEF PullFetch, Stay
<1>3. /\ place \in [Member -> Place] /\ actions \in [Member -> Action]
      /\ \A x \in Member : /\ place'[x] = IF x = m THEN s ELSE place[x]
                           /\ actions'[x] = IF x = m THEN a ELSE actions[x]
  BY <1>1 DEF IInv, Repos, Locals
<1>4. s \in Repo <=> IsRepo(m)
  BY <1>1, RepoThere DEF Sound, IInv
<1>5. \A x \in Member : IsRepo(x)' <=> IsRepo(x)
  BY <1>1, <1>3, <1>4, WorkspaceAssumption DEF IsRepo, Place
<1>6. Repos'
  <2>1. place' \in [Member -> Place]
    BY <1>1, <1>3
  <2>2. \A x \in Member : IsRepo(x)' => Sound(place'[x])
    BY <1>1, <1>3, <1>5 DEF IInv, Repos
  <2> QED
    BY <1>2, <2>1, <2>2 DEF IInv, Repos
<1>7. Locals'
  <2>1. actions' \in [Member -> Action]
    BY <1>1, <1>3
  <2> QED
    BY <1>2, <2>1 DEF IInv, Locals, materialize
<1>8. Phases'
  <2>1. \A x \in Member : actions'[x] \in Moving /\ IsRepo(x)' =>
          place'[x].origin[PullBranch(x)] # NoRef
    BY <1>1, <1>3, <1>5 DEF IInv, Phases
  <2>2. \A x \in Member : actions'[x] = "reset" => sync = "reset"
    BY <1>1, <1>3 DEF IInv, Phases
  <2>3. \A x \in todo' : x # m /\ x \in Member
    BY <1>2 DEF IInv, Locals
  <2>4. \A x \in targets \ (todo' \cup failed') : actions'[x] # "none"
    BY <1>1, <1>2, <1>3 DEF IInv, Phases, Locals
  <2> QED
    BY <1>2, <1>3, <2>1, <2>2, <2>3, <2>4 DEF IInv, Phases, materialize, PullBranch, Pulling
<1>9. Undisturbed'
  <2> SUFFICES ASSUME start # Disturbed PROVE Prepared'
    BY <1>2 DEF Undisturbed, Validated, Applied, Captured, Landed
  <2>1. /\ \A n \in targets : Valid(n)
        /\ \A n \in Member :
             \/ place[n] = start[n]
             \/ /\ place[n] \in Repo /\ start[n] \in Repo
                /\ place[n] = [start[n] EXCEPT !.origin = place[n].origin]
    BY <1>2 DEF IInv, Undisturbed, Prepared
  <2>2. ASSUME NEW n \in targets PROVE Valid(n)'
    <3>1. n \in Member /\ Valid(n)
      BY <2>1 DEF IInv, Locals
    <3>2. place'[n].dirty = place[n].dirty /\ IsRepo(n)'
      BY <1>1, <1>3, <1>5, <3>1 DEF Valid
    <3> QED
      BY <1>2, <3>1, <3>2, ValidStays
  <2>3. ASSUME NEW n \in Member
        PROVE  \/ place'[n] = start[n]
               \/ /\ place'[n] \in Repo /\ start[n] \in Repo
                  /\ place'[n] = [start[n] EXCEPT !.origin = place'[n].origin]
    <3>1. CASE n # m \/ s = place[m]
      BY <1>3, <2>1, <3>1
    <3>2. CASE n = m /\ s # place[m]
      <4>1. /\ IsRepo(m) /\ s \in Repo
            /\ s = [place[m] EXCEPT !.origin = s.origin]
        BY <1>1, <3>2 DEF Sound
      <4>2. place[m] \in Repo
        BY <4>1, RepoThere DEF IInv
      <4>3. start[m] \in Repo
        BY <2>1, <4>2
      <4>4. s = [start[m] EXCEPT !.origin = s.origin]
        <5>1. CASE place[m] = start[m]
          BY <4>1, <5>1
        <5>2. CASE place[m] = [start[m] EXCEPT !.origin = place[m].origin]
          BY <4>1, <4>2, <4>3, <5>2 DEF Repo
        <5> QED
          BY <2>1, <5>1, <5>2
      <4> QED
        BY <1>3, <3>2, <4>1, <4>3, <4>4
    <3> QED
      BY <3>1, <3>2
  <2> QED
    BY <1>2, <2>2, <2>3 DEF Prepared
<1> QED
  BY <1>6, <1>7, <1>8, <1>9 DEF IInv

\* What applying its action may do to one member, and how the pull goes on.
LEMMA PullApplyEffect ==
  ASSUME IInv, NEW m \in Member, PullApply(m)
  PROVE  \E s :
           /\ s \in Place
           /\ place' = [place EXCEPT ![m] = s]
           /\ ~IsRepo(m) => s = place[m]
           /\ IsRepo(m) =>
                /\ Sound(s) /\ s.origin = place[m].origin
                /\ sync # "reset" /\ place[m].head = PullBranch(m) => Extended(place[m], s)
           /\ \/ /\ seen' = [seen EXCEPT ![m] = IF IsRepo(m) THEN Resolved(s) ELSE mem[m]]
                 /\ todo' = todo \ {m}
                 /\ Stay
                 /\ UNCHANGED <<failed, pull>>
              \/ Return /\ PullReset
<1> DEFINE r == place[m]
           b == PullBranch(m)
           Still == actions[m] \in {"noop", "skip", "fetch_only"}
           Fits(s) == /\ s \in Place
                      /\ ~IsRepo(m) => s = r
                      /\ IsRepo(m) =>
                           /\ Sound(s) /\ s.origin = r.origin
                           /\ sync # "reset" /\ r.head = b => Extended(r, s)
<1>1. PICK out : /\ out \in IF Still THEN {Ok(r)}
                            ELSE IF IsRepo(m) THEN Apply(r, actions[m], b)
                            ELSE {Error(r)}
                 /\ place' = [place EXCEPT ![m] = out.repo]
                 /\ IF out.res \in {"ok", "conflict"}
                    THEN /\ seen' = [seen EXCEPT ![m] = IF IsRepo(m) THEN Resolved(out.repo)
                                                        ELSE mem[m]]
                         /\ todo' = todo \ {m}
                         /\ Stay
                         /\ UNCHANGED <<failed, pull>>
                    ELSE Return /\ PullReset
  BY DEF PullApply
<1>2. /\ r \in Place /\ (IsRepo(m) => Sound(r)) /\ b \in Branch
      /\ actions[m] \in Action
      /\ actions[m] = "reset" => sync = "reset"
      /\ actions[m] \in Moving /\ IsRepo(m) => r.origin[b] # NoRef
  BY PullBranchType, RepoThere DEF IInv, Repos, Locals, Phases, PullApply, Pulling
<1>3. Fits(r)
  BY <1>2 DEF Extended
<1>4. Fits(out.repo)
  <2>1. CASE Still \/ ~IsRepo(m)
    <3>1. out.repo = r
      BY <1>1, <2>1 DEF Ok, Error
    <3> HIDE DEF Fits, r
    <3> QED
      BY <1>3, <3>1
  <2>2. CASE ~Still /\ IsRepo(m) /\ actions[m] \in Moving
    <3>1. out \in Apply(r, actions[m], b)
      BY <1>1, <2>2
    <3>2. /\ Sound(out.repo) /\ out.repo.origin = r.origin
          /\ actions[m] # "reset" /\ r.head = b => Extended(r, out.repo)
      BY <1>2, <2>2, <3>1, ApplyMoves
    <3>3. out.repo \in Place
      BY <3>2 DEF Sound, Place
    <3> QED
      BY <1>2, <2>2, <3>2, <3>3
  <2>3. CASE ~Still /\ IsRepo(m) /\ actions[m] \notin Moving
    \* There is no such member: an action is planned for each.
    <3>1. actions[m] # "none"
      BY DEF IInv, Phases, PullApply, Locals
    <3> QED
      BY <1>2, <2>3, <3>1 DEF Action
  <2> QED
    BY <2>1, <2>2, <2>3
<1> QED
  BY <1>1, <1>4

LEMMA PullApplyIInv ==
  ASSUME IInv, NEW m \in Member, PullApply(m), UNCHANGED <<snapshot, materialize>>
  PROVE  IInv'
<1>1. PICK s :
        /\ s \in Place
        /\ place' = [place EXCEPT ![m] = s]
        /\ ~IsRepo(m) => s = place[m]
        /\ IsRepo(m) =>
             /\ Sound(s) /\ s.origin = place[m].origin
             /\ sync # "reset" /\ place[m].head = PullBranch(m) => Extended(place[m], s)
        /\ \/ /\ seen' = [seen EXCEPT ![m] = IF IsRepo(m) THEN Resolved(s) ELSE mem[m]]
              /\ todo' = todo \ {m}
              /\ Stay
              /\ UNCHANGED <<failed, pull>>
           \/ Return /\ PullReset
  BY PullApplyEffect
<1>2. op = "apply" /\ m \in todo /\ UNCHANGED lock /\ mem[m] \in State
  BY PullBranchType DEF PullApply, Pulling
<1>3. UNCHANGED <<hosted, upstream>>
  BY <1>1 DEF Stay, Return
<1>4. /\ place \in [Member -> Place] /\ seen \in [Member -> {NoState} \cup State]
      /\ \A x \in Member : place'[x] = IF x = m THEN s ELSE place[x]
  BY <1>1 DEF IInv, Repos, Locals
<1>5. s \in Repo <=> IsRepo(m)
  BY <1>1, RepoThere DEF Sound, IInv
<1>6. \A x \in Member : IsRepo(x)' <=> IsRepo(x)
  BY <1>1, <1>4, <1>5, WorkspaceAssumption DEF IsRepo, Place
<1>7. Repos'
  <2>1. place' \in [Member -> Place]
    BY <1>1, <1>4
  <2>2. \A x \in Member : IsRepo(x)' => Sound(place'[x])
    BY <1>1, <1>4, <1>6 DEF IInv, Repos
  <2> QED
    BY <1>2, <1>3, <2>1, <2>2 DEF IInv, Repos
<1>8. CASE Return /\ PullReset
  <2>1. clones = {} /\ source \in {"none", "lock", "snapshot"}
        /\ at \in [Member -> {"waiting", "attach", "detach"}]
    BY <1>2 DEF IInv, Locals, Phases
  <2>2. Locals' /\ Phases' /\ Undisturbed'
    BY <1>8, <2>1, ReturnKeeps DEF PullReset, materialize
  <2> QED
    BY <1>7, <2>2 DEF IInv
<1>9. CASE /\ seen' = [seen EXCEPT ![m] = IF IsRepo(m) THEN Resolved(s) ELSE mem[m]]
           /\ todo' = todo \ {m}
           /\ Stay
           /\ UNCHANGED <<failed, pull>>
  <2> DEFINE new == IF IsRepo(m) THEN Resolved(s) ELSE mem[m]
  <2>1. new \in State /\ new # NoState
    BY <1>1, <1>2, SoundHead, StateType
  <2>2. /\ seen' \in [Member -> {NoState} \cup State]
        /\ \A x \in Member : seen'[x] = IF x = m THEN new ELSE seen[x]
    <3> HIDE DEF new
    <3>1. seen' = [seen EXCEPT ![m] = new]
      BY <1>9 DEF new
    <3> QED
      BY <1>4, <2>1, <3>1
  <2>3. /\ UNCHANGED <<hosted, upstream, op, targets, mem, requests, edits, start,
                       failed, lock, sync, force, actions, snapshot, source, clones, at>>
    BY <1>2, <1>9 DEF Stay, pull, materialize
  <2>4. Locals'
    BY <1>9, <2>2, <2>3 DEF IInv, Locals
  <2>5. Phases'
    <3>1. \A x \in Member : actions[x] \in Moving /\ IsRepo(x)' =>
            place'[x].origin[PullBranch(x)] # NoRef
      BY <1>1, <1>4, <1>6 DEF IInv, Phases
    <3>2. \A x \in Member : x \notin targets \/ x \in todo' => seen'[x] = NoState
      BY <1>2, <1>9, <2>2 DEF IInv, Phases, Locals
    <3> QED
      BY <1>2, <1>9, <2>3, <3>1, <3>2 DEF IInv, Phases, PullBranch, Pulling
  <2>6. Undisturbed'
    <3> SUFFICES ASSUME start # Disturbed PROVE Applied'
      BY <1>2, <2>3 DEF Undisturbed, Validated, Prepared, Captured, Landed
    <3>1. \A x \in targets \ todo :
            seen[x] = IF IsRepo(x) THEN Resolved(place[x]) ELSE mem[x]
      BY <1>2 DEF IInv, Undisturbed, Applied
    <3>2. ASSUME NEW x \in targets \ todo'
          PROVE  seen'[x] = IF IsRepo(x)' THEN Resolved(place'[x]) ELSE mem[x]
      <4>1. x \in Member
        BY DEF IInv, Locals
      <4>2. CASE x = m
        BY <1>4, <1>6, <2>2, <4>1, <4>2
      <4>3. CASE x # m
        BY <1>4, <1>6, <1>9, <2>2, <3>1, <4>1, <4>3
      <4> QED
        BY <4>2, <4>3
    <3> QED
      BY <1>2, <2>3, <3>2 DEF Applied
  <2> QED
    BY <1>7, <2>4, <2>5, <2>6 DEF IInv
<1> QED
  BY <1>1, <1>8, <1>9

LEMMA PullReturnsIInv ==
  ASSUME IInv, PullRejected \/ PullWriteLock, UNCHANGED <<snapshot, materialize>>
  PROVE  IInv'
<1>1. /\ op \in Pulling /\ Return /\ PullReset /\ UNCHANGED place
      /\ UNCHANGED lock \/ lock' = [m \in Member |-> IF seen[m] # NoState THEN seen[m] ELSE mem[m]]
  BY DEF PullRejected, PullWriteLock, Pulling
<1>2. /\ clones = {} /\ source \in {"none", "lock", "snapshot"}
      /\ at \in [Member -> {"waiting", "attach", "detach"}]
  BY <1>1 DEF IInv, Locals, Phases, Pulling
<1>3. Locals' /\ Phases' /\ Undisturbed'
  BY <1>1, <1>2, ReturnKeeps DEF PullReset, materialize
<1>4. lock' \in [Member -> State]
  BY <1>1 DEF IInv, Repos, Locals, Phases
<1>5. Repos'
  BY <1>1, <1>4 DEF IInv, Repos, Return, IsRepo
<1> QED
  BY <1>3, <1>5 DEF IInv

-----------------------------------------------------------------------------
(* Snapshot, capture and materialize.                                      *)

LEMMA ObservedType ==
  ASSUME IInv, NEW m \in Member
  PROVE  Observed(m) \in State /\ Observed(m) # NoState
<1>1. Observed(m) \in State
  BY RepoThere, SoundHead DEF IInv, Repos, Observed
<1> QED
  BY <1>1, StateType

LEMMA RecordedType == IInv => Recorded \in [Member -> State]
BY DEF IInv, Repos, Locals, Recorded

LEMMA SnapshotIInv ==
  ASSUME IInv, NEW selected \in SUBSET Member, TakeSnapshot(selected), UNCHANGED pull
  PROVE  IInv'
<1> USE DEF TakeSnapshot
<1>1. snapshot' \in [Member -> {NoState} \cup State]
  BY ObservedType
<1>2. Repos'
  BY <1>1 DEF IInv, Repos, IsRepo
<1>3. requests' \in 0 .. MaxRequests
  BY WorkspaceAssumption DEF IInv, Locals
<1>4. Locals'
  BY <1>3 DEF IInv, Locals, pull, materialize
<1>5. Phases'
  BY DEF IInv, Phases, pull, materialize, PullBranch, IsRepo, Pulling
<1>6. Undisturbed'
  BY DEF Undisturbed, Validated, Prepared, Applied, Captured, Landed
<1> QED
  BY <1>2, <1>4, <1>5, <1>6 DEF IInv

LEMMA CaptureIInv ==
  ASSUME IInv, NEW selected \in SUBSET Member, Capture(selected), UNCHANGED pull
  PROVE  IInv'
<1> USE DEF Capture, Begin
<1>1. /\ actions = NoActions /\ seen = Unseen /\ clones = {}
  BY DEF IInv, Phases
<1>2. Repos'
  BY DEF IInv, Repos, IsRepo
<1>3. requests' \in 0 .. MaxRequests
  BY WorkspaceAssumption DEF IInv, Locals
<1>4. Locals'
  BY <1>1, <1>3, StateType DEF IInv, Repos, Locals, Phase, pull, materialize
<1>5. Phases'
  BY <1>1 DEF Phases, pull, materialize, Pulling, Moving, NoActions, Unseen
<1>6. Undisturbed'
  BY DEF Undisturbed, Validated, Prepared, Applied, Captured, Landed
<1> QED
  BY <1>2, <1>4, <1>5, <1>6 DEF IInv

LEMMA CaptureMemberIInv ==
  ASSUME IInv, NEW m \in Member, CaptureMember(m), UNCHANGED pull
  PROVE  IInv'
<1> USE DEF CaptureMember, Stay
<1>1. /\ Observed(m) \in State
      /\ seen \in [Member -> {NoState} \cup State]
  BY ObservedType DEF IInv, Locals
<1>2. /\ seen' \in [Member -> {NoState} \cup State]
      /\ \A x \in Member : seen'[x] = IF x = m THEN Observed(m) ELSE seen[x]
  BY <1>1
<1>3. Repos'
  BY DEF IInv, Repos, IsRepo
<1>4. Locals'
  BY <1>2 DEF IInv, Locals, pull, materialize
<1>5. Phases'
  <2>1. \A x \in Member : x \notin targets \/ x \in todo' => seen'[x] = NoState
    BY <1>2 DEF IInv, Phases, Locals
  <2> QED
    BY <2>1 DEF IInv, Phases, pull, materialize, PullBranch, IsRepo, Pulling
<1>6. Undisturbed'
  <2> SUFFICES ASSUME start # Disturbed, NEW x \in targets \ todo'
               PROVE  seen'[x] = Observed(x)'
    BY DEF Undisturbed, Validated, Prepared, Applied, Captured, Landed
  <2>1. x \in Member /\ Observed(x)' = Observed(x)
    BY DEF IInv, Locals, Observed, IsRepo
  <2>2. x # m => seen[x] = Observed(x)
    BY DEF IInv, Undisturbed, Captured
  <2> QED
    BY <1>2, <2>1, <2>2
<1> QED
  BY <1>3, <1>4, <1>5, <1>6 DEF IInv

LEMMA CaptureWriteIInv ==
  ASSUME IInv, CaptureWriteLock, UNCHANGED pull
  PROVE  IInv'
<1> USE DEF CaptureWriteLock
<1>1. /\ clones = {} /\ source \in {"none", "lock", "snapshot"}
      /\ at \in [Member -> {"waiting", "attach", "detach"}]
      /\ actions = NoActions /\ sync \in SyncModes \cup {"none"} /\ force \in BOOLEAN
  BY DEF IInv, Locals, Phases
<1>2. Locals' /\ Phases' /\ Undisturbed'
  BY <1>1, ReturnKeeps DEF pull, materialize
<1>3. Repos'
  BY RecordedType DEF IInv, Repos, Return, IsRepo
<1> QED
  BY <1>2, <1>3 DEF IInv

LEMMA MaterializeStartIInv ==
  ASSUME IInv, NEW selected \in SUBSET Member, NEW kind \in {"lock", "snapshot"},
         NEW wanted \in [Member -> {NoState} \cup State], NEW destructive \in BOOLEAN,
         MaterializeStart(selected, kind, wanted, destructive), UNCHANGED pull
  PROVE  IInv'
<1> USE DEF MaterializeStart, Begin
<1>1. actions = NoActions /\ seen = Unseen
  BY DEF IInv, Phases
<1>2. Repos'
  BY DEF IInv, Repos, IsRepo
<1>3. requests' \in 0 .. MaxRequests
  BY WorkspaceAssumption DEF IInv, Locals
<1>4. Locals'
  <2>1. at' \in [Member -> {"waiting", "attach", "detach"}]
    OBVIOUS
  <2>2. clones' \subseteq targets' /\ source' \in {"none", "lock", "snapshot"}
    OBVIOUS
  <2>3. start' \in [Member -> Place] /\ mem' \in [Member -> {NoState} \cup State]
    BY DEF IInv, Repos
  <2> QED
    BY <1>3, <2>1, <2>2, <2>3 DEF IInv, Locals, Phase, pull
<1>5. Phases'
  <2>1. \A m \in selected : wanted[m] \in State
    OBVIOUS
  <2> QED
    BY <1>1, <2>1 DEF Phases, pull, Pulling, Moving, NoActions, Unseen
<1>6. Undisturbed'
  BY DEF Undisturbed, Validated, Prepared, Applied, Captured, Landed, IsRepo
<1> QED
  BY <1>2, <1>4, <1>5, <1>6 DEF IInv

\* A worker's step on one member: what it leaves there, and where it goes on.
WorkerStep(m, s) ==
  /\ op = "materialize" /\ m \in todo
  /\ s \in Place
  /\ s \in Repo => Sound(s)
  /\ place' = [place EXCEPT ![m] = s]
  /\ \/ MemberFails(m)
     \/ /\ MemberDone(m, s)
        /\ s \in Repo /\ HeadCommit(s) = Target(m)
        /\ place[m] \in Repo /\ s.origin = place[m].origin
        /\ s.head \in {mem[m].branch, Detached}
     \/ MemberGoes(m, "attach") \/ MemberGoes(m, "detach")
  /\ Stay
  /\ UNCHANGED <<lock, snapshot, source, clones>>

LEMMA WorkerIInv ==
  ASSUME IInv, NEW m \in Member, NEW s, WorkerStep(m, s), UNCHANGED pull
  PROVE  IInv'
<1>1. /\ op = "materialize" /\ m \in todo
      /\ s \in Place
      /\ s \in Repo => Sound(s)
      /\ place' = [place EXCEPT ![m] = s]
      /\ UNCHANGED <<hosted, upstream, op, targets, mem, requests, edits, start,
                     lock, snapshot, source, clones, sync, force, actions>>
  BY DEF WorkerStep, Stay, pull
<1>2. /\ place \in [Member -> Place] /\ seen \in [Member -> {NoState} \cup State]
      /\ todo \subseteq targets /\ failed \subseteq targets /\ targets \subseteq Member
      /\ at \in [Member -> {"waiting", "attach", "detach"}]
      /\ \A x \in Member : place'[x] = IF x = m THEN s ELSE place[x]
  BY <1>1 DEF IInv, Repos, Locals
<1>3. \A x \in Member : IsRepo(x)' <=> place'[x] \in Repo
  BY <1>1, <1>2, WorkspaceAssumption DEF IsRepo, Place
<1>4. \/ failed' = failed \cup {m} /\ todo' = todo \ {m} /\ UNCHANGED <<seen, at>>
      \/ /\ seen' = [seen EXCEPT ![m] = Resolved(s)] /\ todo' = todo \ {m}
         /\ UNCHANGED <<failed, at>>
         /\ s \in Repo /\ HeadCommit(s) = Target(m)
         /\ place[m] \in Repo /\ s.origin = place[m].origin
         /\ s.head \in {mem[m].branch, Detached}
      \/ /\ \E l \in {"attach", "detach"} : at' = [at EXCEPT ![m] = l]
         /\ UNCHANGED <<failed, todo, seen>>
  BY DEF WorkerStep, MemberFails, MemberDone, MemberGoes
<1>5. Repos'
  <2>1. place' \in [Member -> Place]
    BY <1>1, <1>2
  <2>2. \A x \in Member : IsRepo(x)' => Sound(place'[x])
    BY <1>1, <1>2, <1>3, RepoThere DEF IInv
  <2> QED
    BY <1>1, <2>1, <2>2 DEF IInv, Repos
<1>6. /\ seen' \in [Member -> {NoState} \cup State]
      /\ at' \in [Member -> {"waiting", "attach", "detach"}]
      /\ todo' \subseteq todo /\ failed' \subseteq failed \cup {m} /\ failed \subseteq failed'
      /\ \A x \in Member : x # m => seen'[x] = seen[x]
      /\ m \in todo' => seen'[m] = seen[m]
      /\ m \notin todo' /\ m \notin failed' => seen'[m] = Resolved(s)
      /\ \A x \in todo : x # m => x \in todo'
  <2>1. CASE failed' = failed \cup {m} /\ todo' = todo \ {m} /\ UNCHANGED <<seen, at>>
    BY <1>2, <2>1
  <2>2. CASE /\ seen' = [seen EXCEPT ![m] = Resolved(s)] /\ todo' = todo \ {m}
             /\ UNCHANGED <<failed, at>> /\ s \in Repo
    <3>1. Resolved(s) \in State
      BY <1>1, <2>2, SoundHead
    <3> QED
      BY <1>2, <2>2, <3>1
  <2>3. CASE /\ \E l \in {"attach", "detach"} : at' = [at EXCEPT ![m] = l]
             /\ UNCHANGED <<failed, todo, seen>>
    BY <1>1, <1>2, <2>3
  <2> QED
    BY <1>4, <2>1, <2>2, <2>3
<1>7. Locals'
  BY <1>1, <1>2, <1>6 DEF IInv, Locals
<1>8. Phases'
  <2>1. \A x \in Member : x \notin targets \/ x \in todo' => seen'[x] = NoState
    BY <1>1, <1>2, <1>6 DEF IInv, Phases
  <2> QED
    BY <1>1, <2>1 DEF IInv, Phases, Pulling, Moving, NoActions
<1>9. Undisturbed'
  <2> SUFFICES ASSUME start # Disturbed PROVE Landed'
    BY <1>1 DEF Undisturbed, Validated, Prepared, Applied, Captured
  <2>1. Landed
    BY DEF IInv, Undisturbed
  <2>2. ASSUME NEW x \in targets, x \notin todo', x \notin failed'
        PROVE  /\ IsRepo(x)' /\ seen'[x] = Resolved(place'[x])
               /\ HeadCommit(place'[x]) = Target(x)'
               /\ place'[x].head \in {mem[x].branch, Detached}
    <3>1. x \in Member
      BY <1>2
    <3>2. CASE x # m
      <4>1. x \notin todo /\ x \notin failed
        BY <1>6, <2>2, <3>2
      <4>2. /\ IsRepo(x) /\ seen[x] = Resolved(place[x])
            /\ HeadCommit(place[x]) = Target(x)
            /\ place[x].head \in {mem[x].branch, Detached}
        BY <1>1, <2>1, <4>1 DEF Landed
      <4>3. place'[x] = place[x] /\ seen'[x] = seen[x]
        BY <1>2, <1>6, <3>1, <3>2
      <4>4. IsRepo(x)' /\ Target(x)' = Target(x)
        BY <1>1, <4>2, <4>3 DEF IsRepo, Target
      <4> QED
        BY <4>2, <4>3, <4>4
    <3>3. CASE x = m
      <4>1. /\ s \in Repo /\ HeadCommit(s) = Target(m)
            /\ s.origin = place[m].origin
            /\ s.head \in {mem[m].branch, Detached}
        BY <1>1, <1>4, <2>2, <3>3
      <4>2. place'[m] = s /\ seen'[m] = Resolved(s) /\ IsRepo(m)'
        BY <1>2, <1>3, <1>6, <2>2, <3>3, <4>1
      <4>3. Target(m)' = Target(m)
        BY <1>1, <4>1, <4>2 DEF Target
      <4> QED
        BY <3>3, <4>1, <4>2, <4>3
    <3> QED
      BY <3>2, <3>3
  <2> QED
    BY <1>1, <2>1, <2>2 DEF Landed
<1> QED
  BY <1>5, <1>7, <1>8, <1>9 DEF IInv

LEMMA TargetType ==
  ASSUME IInv, NEW m \in Member, IsRepo(m), mem[m] \in State
  PROVE  Target(m) \in Commit
<1>1. /\ mem[m].commit \in Commit /\ mem[m].branch \in Branch \cup {Detached}
  BY DEF State
<1>2. place[m].origin \in [Branch -> Ref]
  BY RepoThere, SoundHead DEF IInv
<1> QED
  BY <1>1, <1>2, RefType DEF Target

LEMMA CloneIsStep ==
  ASSUME IInv, NEW m \in Member, Clone(m)
  PROVE  \E s : WorkerStep(m, s)
<1>1. /\ place \in [Member -> Place] /\ place[m] \in Place
      /\ IsRepo(m) => Sound(place[m])
      /\ place[m] \in Repo => Sound(place[m])
  BY RepoThere DEF IInv, Repos
<1>2. CASE MemberFails(m) /\ UNCHANGED place
  <2>1. place' = [place EXCEPT ![m] = place[m]]
    BY <1>1, <1>2
  <2>2. WorkerStep(m, place[m])
    BY <1>1, <1>2, <2>1 DEF WorkerStep, Clone
  <2> QED
    BY <2>2
<1>3. CASE /\ place' = [place EXCEPT ![m] = Cloned(upstream[m], Trunk)]
           /\ MemberGoes(m, "attach")
  <2> DEFINE s == Cloned(upstream[m], Trunk)
  <2>1. Sound(s)
    BY ClonedSound, WorkspaceAssumption DEF IInv, Repos
  <2>2. place' = [place EXCEPT ![m] = s]
    BY <1>3
  <2> HIDE DEF s
  <2>3. WorkerStep(m, s)
    BY <1>3, <2>1, <2>2 DEF WorkerStep, Clone, Place, Sound
  <2> QED
    BY <2>3
<1> QED
  BY <1>2, <1>3 DEF Clone

\* What a checkout does moves no branch that was there, and when it succeeds
\* the member is where it was to be.
LEMMA AttachesEffect ==
  ASSUME IInv, NEW m \in Member, Attaches(m)
  PROVE  \E s :
           /\ WorkerStep(m, s)
           /\ \A b \in Branch : place[m].refs[b] # NoRef => s.refs[b] = place[m].refs[b]
<1> DEFINE r == place[m]
           b == mem[m].branch
           c == Target(m)
           Ends(out) ==
             CASE out.res = "ok"       -> MemberDone(m, out.repo)
               [] out.res = "diverged" -> MemberGoes(m, "detach")
               [] out.res = "error"    -> MemberFails(m)
<1>1. PICK out :
        /\ out \in IF Has(m, c) THEN CheckoutBranch(r, b, c)
                   ELSE {Error(r)} \cup (IF r.refs[b] = NoRef THEN {} ELSE {Diverged(r)})
        /\ place' = [place EXCEPT ![m] = out.repo]
        /\ Ends(out)
  BY DEF Attaches
<1>2. /\ op = "materialize" /\ m \in todo /\ IsRepo(m) /\ Sound(r) /\ r \in Repo
      /\ mem[m] \in State /\ b \in Branch
      /\ Stay /\ UNCHANGED <<lock, snapshot, source, clones>>
  BY RepoThere DEF Attaches, IInv, Phases, Locals, State
<1>3. c \in Commit
  BY <1>2, TargetType
<1> HIDE DEF r, c, b
<1>4. Lands(r, c, {b}, out) /\ out.res \in {"ok", "diverged", "error"}
  <2>1. CASE out \in CheckoutBranch(r, b, c)
    BY <1>2, <1>3, <2>1, CheckoutBranchLands
  <2>2. CASE out \in {Error(r), Diverged(r)}
    BY <1>2, <2>2, StaysLands
  <2> QED
    BY <1>1, <2>1, <2>2
<1> DEFINE s == out.repo
<1>5. /\ Sound(s) /\ s.origin = r.origin
      /\ \A x \in Branch : r.refs[x] # NoRef => s.refs[x] = r.refs[x]
      /\ out.res = "ok" => HeadCommit(s) = c /\ s.head = b
  BY <1>4 DEF Lands
<1>6. \/ (out.res = "ok" /\ MemberDone(m, s))
      \/ MemberGoes(m, "detach") \/ MemberFails(m)
  BY <1>1, <1>4
<1>7. s \in Repo /\ s \in Place
  BY <1>5 DEF Sound, Place
<1>8. WorkerStep(m, s)
  BY <1>1, <1>2, <1>5, <1>6, <1>7 DEF WorkerStep, r, c, b
<1> QED
  BY <1>5, <1>8 DEF r

LEMMA DetachesEffect ==
  ASSUME IInv, NEW m \in Member, Detaches(m)
  PROVE  \E s :
           /\ WorkerStep(m, s)
           /\ \A b \in Branch : place[m].refs[b] # NoRef => s.refs[b] = place[m].refs[b]
<1> DEFINE r == place[m]
           c == Target(m)
<1>1. PICK out :
        /\ out \in IF Has(m, c) THEN CheckoutCommit(r, c) ELSE {Error(r)}
        /\ place' = [place EXCEPT ![m] = out.repo]
        /\ IF out.res = "ok" THEN MemberDone(m, out.repo) ELSE MemberFails(m)
  BY DEF Detaches
<1>2. /\ op = "materialize" /\ m \in todo /\ IsRepo(m) /\ Sound(r) /\ r \in Repo
      /\ mem[m] \in State
      /\ Stay /\ UNCHANGED <<lock, snapshot, source, clones>>
  BY RepoThere DEF Detaches, IInv, Phases, Locals
<1>3. c \in Commit
  BY <1>2, TargetType
<1> HIDE DEF r, c
<1>4. Lands(r, c, {Detached}, out)
  <2>1. CASE out \in CheckoutCommit(r, c)
    BY <1>2, <1>3, <2>1, CheckoutCommitLands
  <2>2. CASE out = Error(r)
    BY <1>2, <2>2, StaysLands
  <2> QED
    BY <1>1, <2>1, <2>2
<1> DEFINE s == out.repo
<1>5. /\ Sound(s) /\ s.origin = r.origin
      /\ \A x \in Branch : r.refs[x] # NoRef => s.refs[x] = r.refs[x]
      /\ out.res = "ok" => HeadCommit(s) = c /\ s.head = Detached
  BY <1>4 DEF Lands
<1>6. (out.res = "ok" /\ MemberDone(m, s)) \/ MemberFails(m)
  BY <1>1
<1>7. s \in Repo /\ s \in Place
  BY <1>5 DEF Sound, Place
<1>8. WorkerStep(m, s)
  BY <1>1, <1>2, <1>5, <1>6, <1>7 DEF WorkerStep, r, c
<1> QED
  BY <1>5, <1>8 DEF r

LEMMA VanishedIsStep ==
  ASSUME IInv, NEW m \in Member, Vanished(m)
  PROVE  \E s : WorkerStep(m, s)
<1>1. place \in [Member -> Place] /\ (place[m] \in Repo => Sound(place[m]))
  BY RepoThere DEF IInv, Repos
<1>2. place' = [place EXCEPT ![m] = place[m]] /\ place[m] \in Place
  BY <1>1 DEF Vanished
<1>3. WorkerStep(m, place[m])
  BY <1>1, <1>2 DEF WorkerStep, Vanished
<1> QED
  BY <1>3

LEMMA MaterializeReturnsIInv ==
  ASSUME IInv, MaterializeFails \/ MaterializeEnds, UNCHANGED pull
  PROVE  IInv'
<1>1. /\ op = "materialize" /\ Return /\ MaterializeReset /\ UNCHANGED snapshot
      /\ UNCHANGED lock \/ lock' = Recorded
      /\ UNCHANGED place \/ RemoveClones
  BY DEF MaterializeFails, MaterializeEnds
<1>2. actions = NoActions /\ sync \in SyncModes \cup {"none"} /\ force \in BOOLEAN
  BY <1>1 DEF IInv, Locals, Phases
<1>3. Locals' /\ Phases' /\ Undisturbed'
  BY <1>1, <1>2, ReturnKeeps DEF pull, MaterializeReset, Waiting
<1>4. place' \in [Member -> Place] /\ \A x \in Member : IsRepo(x)' => Sound(place'[x])
  <2>1. \A x \in Member : place'[x] \in {Absent, place[x]}
    BY <1>1 DEF RemoveClones
  <2>2. place' \in [Member -> Place]
    BY <1>1, WorkspaceAssumption DEF IInv, Repos, RemoveClones, Place
  <2> QED
    BY <2>1, <2>2 DEF IInv, Repos, IsRepo
<1>5. lock' \in [Member -> State]
  BY <1>1, RecordedType DEF IInv, Repos
<1>6. Repos'
  BY <1>1, <1>4, <1>5 DEF IInv, Repos, Return
<1> QED
  BY <1>3, <1>6 DEF IInv

-----------------------------------------------------------------------------
LEMMA NextIInv == IInv /\ [Next]_vars => IInv'
<1> SUFFICES ASSUME IInv, [Next]_vars PROVE IInv'
  OBVIOUS
<1>1. CASE PullStep /\ UNCHANGED <<snapshot, materialize>>
  BY <1>1, PullStartIInv, PullValidateIInv, PullFetchIInv, PullApplyIInv, BarrierIInv,
     PullReturnsIInv DEF PullStep
<1>2. CASE MaterializeStep /\ UNCHANGED pull
  <2>1. ASSUME NEW selected \in SUBSET Member, TakeSnapshot(selected) \/ Capture(selected)
        PROVE  IInv'
    BY <1>2, <2>1, SnapshotIInv, CaptureIInv
  <2>2. CASE MaterializeRequest
    <3>1. PICK selected \in SUBSET Member, destructive \in BOOLEAN :
            \/ MaterializeStart(selected, "lock", lock, destructive)
            \/ /\ snapshot # NoSnapshot
               /\ MaterializeStart(selected, "snapshot", snapshot, destructive)
      BY <2>2 DEF MaterializeRequest
    <3>2. /\ lock \in [Member -> {NoState} \cup State]
          /\ snapshot # NoSnapshot => snapshot \in [Member -> {NoState} \cup State]
      BY DEF IInv, Repos
    <3> QED
      BY <1>2, <3>1, <3>2, MaterializeStartIInv
  <2>3. ASSUME NEW m \in Member, CaptureMember(m) PROVE IInv'
    BY <1>2, <2>3, CaptureMemberIInv
  <2>4. ASSUME NEW m \in Member, Clone(m) \/ Attaches(m) \/ Detaches(m) \/ Vanished(m)
        PROVE  IInv'
    <3>1. \E s : WorkerStep(m, s)
      BY <2>4, CloneIsStep, AttachesEffect, DetachesEffect, VanishedIsStep
    <3> QED
      BY <1>2, <3>1, WorkerIInv
  <2>5. CASE CaptureWriteLock
    BY <1>2, <2>5, CaptureWriteIInv
  <2>6. CASE MaterializeFails \/ MaterializeEnds
    BY <1>2, <2>6, MaterializeReturnsIInv
  <2> QED
    BY <1>2, <2>1, <2>2, <2>3, <2>4, <2>5, <2>6 DEF MaterializeStep
<1>3. CASE Die
  BY <1>3, DieIInv
<1>4. CASE People /\ UNCHANGED <<pull, snapshot, materialize>>
  BY <1>4, EditIInv, PublishIInv DEF People
<1>5. CASE UNCHANGED vars
  <2> USE <1>5 DEF vars, workspace, pull, materialize
  <2>1. Repos' /\ Locals' /\ Phases'
    BY DEF IInv, Repos, Locals, Phases, IsRepo, PullBranch
  <2>2. Undisturbed'
    BY DEF IInv, Undisturbed, Validated, Prepared, Applied, Captured, Landed, Valid,
           Tolerates, PullBranch, IsRepo, Observed, Target
  <2> QED
    BY <2>1, <2>2 DEF IInv
<1> QED
  BY <1>1, <1>2, <1>3, <1>4, <1>5 DEF Next

LEMMA SpecIInv == Spec => []IInv
BY InitIInv, NextIInv, PTL DEF Spec

-----------------------------------------------------------------------------
\* Whatever gwz and people do to a workspace, everything in it keeps its type.
THEOREM TypeCorrect == Spec => []TypeOK
<1>1. IInv => TypeOK
  BY DEF IInv, Repos, Locals, TypeOK, WorkspaceTypeOK, PullTypeOK, MaterializeTypeOK,
         Phase, Action, Moving
<1> QED
  BY SpecIInv, <1>1, PTL

\* A pull that its preflight turns away has at most fetched, and that only
\* when every selected member was valid.
THEOREM RejectionIsHarmless == Spec => RejectedPullChangesNothing
<1> DEFINE Harmless ==
      PullRejected /\ start # Disturbed =>
        \A m \in Member :
          \/ place[m] = start[m]
          \/ /\ \A n \in targets : Valid(n)
             /\ IsRepo(m)
             /\ place[m] = [start[m] EXCEPT !.origin = place[m].origin]
<1>1. ASSUME IInv PROVE Harmless
  <2> SUFFICES ASSUME PullRejected, start # Disturbed, NEW m \in Member
               PROVE  \/ place[m] = start[m]
                      \/ /\ \A n \in targets : Valid(n)
                         /\ IsRepo(m)
                         /\ place[m] = [start[m] EXCEPT !.origin = place[m].origin]
    OBVIOUS
  <2>1. CASE op = "validate"
    BY <1>1, <2>1 DEF IInv, Undisturbed, Validated
  <2>2. CASE op = "fetch"
    <3>1. place[m] \in Repo => IsRepo(m)
      BY <1>1, RepoThere DEF IInv
    <3> QED
      BY <1>1, <2>2, <3>1 DEF IInv, Undisturbed, Prepared
  <2> QED
    BY <2>1, <2>2 DEF PullRejected
<1>2. RejectedPullChangesNothing <=> [][Harmless]_vars
  BY DEF RejectedPullChangesNothing
<1> HIDE DEF Harmless
<1> QED
  BY SpecIInv, <1>1, <1>2, PTL

\* No pull but a reset drops a change, by whatever outcome of its git calls,
\* and materialize moves no branch that was there.
THEOREM NoWorkIsLost == Spec => WorkIsKept
<1> DEFINE Keeps(m) ==
      IsRepo(m) =>
        /\ PullApply(m) /\ sync # "reset" /\ place[m].head = PullBranch(m)
           => Kept(place[m]) \subseteq Kept(place'[m])
        /\ (Attaches(m) \/ Detaches(m)) /\ m \notin clones
           => \A b \in Branch : place[m].refs[b] # NoRef =>
                                place'[m].refs[b] = place[m].refs[b]
<1>1. ASSUME IInv PROVE \A m \in Member : Keeps(m)
  <2> SUFFICES ASSUME NEW m \in Member, IsRepo(m) PROVE Keeps(m)
    OBVIOUS
  <2>1. place \in [Member -> Place] /\ Sound(place[m])
    BY <1>1, RepoThere DEF IInv, Repos
  <2>2. ASSUME PullApply(m), sync # "reset", place[m].head = PullBranch(m)
        PROVE  Kept(place[m]) \subseteq Kept(place'[m])
    <3>1. PICK s : /\ place' = [place EXCEPT ![m] = s]
                   /\ IsRepo(m) =>
                        (sync # "reset" /\ place[m].head = PullBranch(m)
                           => Extended(place[m], s))
      BY <1>1, <2>2, PullApplyEffect
    <3>2. Extended(place[m], s) /\ place'[m] = s
      BY <2>1, <2>2, <3>1
    <3>3. place[m].head # Detached
      BY <1>1, <2>2, PullBranchType, RepoAssumption DEF PullApply, Pulling
    <3> QED
      BY <2>1, <3>2, <3>3, ExtendedKeeps
  <2>3. ASSUME Attaches(m) \/ Detaches(m)
        PROVE  \A b \in Branch : place[m].refs[b] # NoRef =>
                                 place'[m].refs[b] = place[m].refs[b]
    <3>1. PICK s :
            /\ WorkerStep(m, s)
            /\ \A b \in Branch : place[m].refs[b] # NoRef => s.refs[b] = place[m].refs[b]
      BY <1>1, <2>3, AttachesEffect, DetachesEffect
    <3>2. place'[m] = s
      BY <2>1, <3>1 DEF WorkerStep
    <3> QED
      BY <3>1, <3>2
  <2> QED
    BY <2>2, <2>3
<1>2. WorkIsKept <=> [][\A m \in Member : Keeps(m)]_vars
  BY DEF WorkIsKept
<1> HIDE DEF Keeps
<1> QED
  BY SpecIInv, <1>1, <1>2, PTL

\* What pull, capture and materialize write to the lock is what is there.
THEOREM LockTellsTheTruth == Spec => LockRecordsOutcome
<1> DEFINE Truthful ==
      /\ PullWriteLock \/ CaptureWriteLock \/ (MaterializeEnds /\ source = "snapshot")
      /\ start # Disturbed
      => \A m \in Member :
           lock'[m] = IF m \in targets /\ IsRepo(m) THEN Resolved(place[m]) ELSE lock[m]
<1>1. ASSUME IInv PROVE Truthful
  <2> SUFFICES ASSUME PullWriteLock \/ CaptureWriteLock
                        \/ (MaterializeEnds /\ source = "snapshot"),
                      start # Disturbed, NEW m \in Member
               PROVE  lock'[m] = IF m \in targets /\ IsRepo(m)
                                 THEN Resolved(place[m]) ELSE lock[m]
    OBVIOUS
  <2>1. /\ m \notin targets => seen[m] = NoState
        /\ IsRepo(m) => Resolved(place[m]) # NoState
        /\ lock[m] # NoState
    BY <1>1, RepoThere, SoundHead, StateType DEF IInv, Phases, Repos
  <2>2. CASE PullWriteLock
    <3>1. mem = lock /\ todo = {}
      BY <1>1, <2>2 DEF IInv, Phases, PullWriteLock, Pulling
    <3>2. m \in targets => seen[m] = IF IsRepo(m) THEN Resolved(place[m]) ELSE lock[m]
      BY <1>1, <2>2, <3>1 DEF IInv, Undisturbed, Applied, PullWriteLock
    <3> QED
      BY <2>1, <2>2, <3>1, <3>2 DEF PullWriteLock
  <2>3. CASE CaptureWriteLock
    <3>1. m \in targets => seen[m] = Observed(m)
      BY <1>1, <2>3 DEF IInv, Undisturbed, Captured, CaptureWriteLock
    <3> QED
      BY <2>1, <2>3, <3>1 DEF CaptureWriteLock, Recorded, Observed
  <2>4. CASE MaterializeEnds /\ source = "snapshot"
    <3>1. m \in targets => IsRepo(m) /\ seen[m] = Resolved(place[m])
      BY <1>1, <2>4 DEF IInv, Undisturbed, Landed, MaterializeEnds
    <3> QED
      BY <2>1, <2>4, <3>1 DEF MaterializeEnds, Recorded
  <2> QED
    BY <2>2, <2>3, <2>4
<1>2. LockRecordsOutcome <=> [][Truthful]_vars
  BY DEF LockRecordsOutcome
<1> HIDE DEF Truthful
<1> QED
  BY SpecIInv, <1>1, <1>2, PTL

\* A materialize that succeeds has brought every member to its target.
THEOREM TargetsAreReached == Spec => MaterializeLandsOnTarget
<1> DEFINE Reached ==
      MaterializeEnds /\ start # Disturbed =>
        \A m \in targets :
          /\ HeadCommit(place[m]) =
               IF /\ source = "lock" /\ mem[m].branch # Detached
                  /\ place[m].origin[mem[m].branch] # NoRef
               THEN place[m].origin[mem[m].branch] ELSE mem[m].commit
          /\ place[m].head \in {mem[m].branch, Detached}
<1>1. ASSUME IInv PROVE Reached
  BY <1>1 DEF IInv, Undisturbed, Landed, MaterializeEnds, Target
<1>2. MaterializeLandsOnTarget <=> [][Reached]_vars
  BY DEF MaterializeLandsOnTarget
<1> HIDE DEF Reached
<1> QED
  BY SpecIInv, <1>1, <1>2, PTL

\* A materialize that fails has taken away what it had cloned.
THEOREM NoCloneStays == Spec => FailedMaterializeLeavesNoClone
<1> DEFINE Gone ==
      MaterializeFails /\ start # Disturbed =>
        \A m \in targets : start[m] = Absent => place'[m] = Absent
<1>1. ASSUME IInv PROVE Gone
  <2> SUFFICES ASSUME MaterializeFails, start # Disturbed,
                      NEW m \in targets, start[m] = Absent
               PROVE  place'[m] = Absent
    OBVIOUS
  <2>1. m \in clones /\ m \in Member
    BY <1>1 DEF IInv, Locals, Undisturbed, Landed, MaterializeFails
  <2> QED
    BY <2>1 DEF MaterializeFails, RemoveClones
<1>2. FailedMaterializeLeavesNoClone <=> [][Gone]_vars
  BY DEF FailedMaterializeLeavesNoClone
<1> HIDE DEF Gone
<1> QED
  BY SpecIInv, <1>1, <1>2, PTL

\* The rollback of a failed materialize, with nobody else at work, takes away
\* what it cloned and files that were in the way of a clone, and nothing of a
\* member that was a repository when it began.
RollbackSparesRepositories ==
  [][MaterializeFails /\ start # Disturbed =>
       \A m \in Member : start[m] \notin {Absent, Files} => place'[m] = place[m]]_vars

\* What RollbackRemovesOnlyClones says is so of everything but files in the
\* way: whatever clones fail, a rollback removes no repository.
THEOREM RepositoriesStay == Spec => RollbackSparesRepositories
<1> DEFINE Spared ==
      MaterializeFails /\ start # Disturbed =>
        \A m \in Member : start[m] \notin {Absent, Files} => place'[m] = place[m]
<1>1. ASSUME IInv PROVE Spared
  <2> SUFFICES ASSUME MaterializeFails, start # Disturbed,
                      NEW m \in Member, start[m] \notin {Absent, Files}
               PROVE  place'[m] = place[m]
    OBVIOUS
  <2>1. m \notin clones
    BY <1>1 DEF IInv, Undisturbed, Landed, MaterializeFails
  <2> QED
    BY <2>1 DEF MaterializeFails, RemoveClones
<1>2. RollbackSparesRepositories <=> [][Spared]_vars
  BY DEF RollbackSparesRepositories
<1> HIDE DEF Spared
<1> QED
  BY SpecIInv, <1>1, <1>2, PTL
=============================================================================
