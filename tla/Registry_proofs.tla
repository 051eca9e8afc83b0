--------------------------- MODULE Registry_proofs ---------------------------
(***************************************************************************)
(* Of the files of a workspace, for any processes, paths and bounds: no    *)
(* crash, failed call or edit leaves a lock that names a member the        *)
(* manifest lacks as long as operations follow one another, and without    *)
(* those the files agree; an operation publishes what it staged itself;    *)
(* one that nothing came between records its members as they are, or, an   *)
(* init that fails, leaves nothing.                                        *)
(***************************************************************************)
EXTENDS Registry, TLAPS

Fields == {"phase", "kind", "paths", "root", "todo", "failed", "committed", "mf",
           "lk", "seen"}

\* What the proof needs of types: that updates take effect.
Shape ==
  /\ op = [p \in Process |-> op[p]]
  /\ \A p \in Process : DOMAIN op[p] = Fields
  /\ DOMAIN temp = {"manifest", "lock"}
  /\ temp.manifest = [p \in Process |-> temp.manifest[p]]
  /\ temp.lock = [p \in Process |-> temp.lock[p]]

OneAtATime ==
  ~overlapped => \A p, q \in Process : Running(p) /\ Running(q) => p = q

Fits(m) == lock = NoFile \/ DOMAIN lock \subseteq DOMAIN m
Registered(S) == manifest # NoFile /\ S \subseteq Members

\* What an operation carries on its way to the two files.
Carries(p) ==
  LET o == op[p] IN
  /\ o.phase \in {"clone", "rollback"} =>
       o.kind = "init" /\ lock = NoFile /\ DOMAIN o.lk \subseteq DOMAIN o.mf
  /\ o.phase = "make" => o.kind = "create_repo" /\ Fits(o.mf)
  /\ o.phase = "commit" => o.kind = "commit" /\ Registered(o.paths)
  /\ o.phase = "merge" =>
       \/ o.kind \in {"create_repo", "add"} /\ Fits(o.mf) /\ DOMAIN o.seen \subseteq DOMAIN o.mf
       \/ o.kind \in {"capture", "commit"} /\ Registered(DOMAIN o.seen)
  /\ o.phase = "stage" =>
       IF WritesManifest(o.kind)
         THEN Fits(o.mf) /\ (WritesLock(o.kind) => DOMAIN o.lk \subseteq DOMAIN o.mf)
         ELSE WritesLock(o.kind) /\ Registered(DOMAIN o.lk)
  /\ o.phase = "manifest" =>
       /\ temp.manifest[p] = o.mf /\ Fits(o.mf)
       /\ WritesLock(o.kind) => temp.lock[p] = o.lk /\ DOMAIN o.lk \subseteq DOMAIN o.mf
  /\ o.phase = "lock" => temp.lock[p] = o.lk /\ Registered(DOMAIN o.lk)

AllCarry == ~overlapped => \A p \in Process : Carries(p)

IInv == Shape /\ OneAtATime /\ AllCarry /\ LockWithinManifest

-----------------------------------------------------------------------------
(* What moves an operation. *)

LEMMA NothingShape == DOMAIN Nothing = Fields
BY DEF Nothing, Fields

\* An operation that waits for nothing carries nothing.
LEMMA AtRestCarries ==
  ASSUME NEW p \in Process, op[p].phase \in AtRest
  PROVE  Carries(p)
BY DEF Carries, AtRest

LEMMA InitIInv == Init => IInv
<1> SUFFICES ASSUME Init PROVE IInv
  OBVIOUS
<1>1. \A p \in Process : op[p] = Nothing /\ op[p].phase = "ok"
  BY DEF Init, Nothing
<1>2. Shape
  BY <1>1, NothingShape DEF Init, Shape
<1>3. OneAtATime /\ AllCarry
  BY <1>1, AtRestCarries DEF OneAtATime, AllCarry, Running, AtRest
<1>4. LockWithinManifest
  <2>1. CASE lock = NoFile
    BY <2>1 DEF LockWithinManifest
  <2>2. CASE lock # NoFile
    <3>1. PICK s \in SUBSET Path : manifest = [m \in s |-> TRUE] /\ lock = [m \in s |-> 1]
      BY <2>2, RegistryAssumption DEF Init
    <3>2. manifest \in Maps(BOOLEAN)
      BY <3>1 DEF Maps
    <3> QED
      BY <3>1, <3>2, RegistryAssumption DEF LockWithinManifest, Members
  <2> QED
    BY <2>1, <2>2
<1> QED
  BY <1>2, <1>3, <1>4 DEF IInv

\* A step of one operation that is under way: the others are not, so only what
\* this one carries matters.
LEMMA GoesIInv ==
  ASSUME IInv, NEW p \in Process, Running(p), NEW o, Goes(p, o), DOMAIN o = Fields,
         DOMAIN temp' = {"manifest", "lock"},
         temp'.manifest = [q \in Process |-> temp'.manifest[q]],
         temp'.lock = [q \in Process |-> temp'.lock[q]],
         ~overlapped => Carries(p)' /\ LockWithinManifest'
  PROVE  IInv'
<1> USE DEF IInv
<1>1. op'[p] = o /\ \A q \in Process : q # p => op'[q] = op[q]
  BY DEF Goes, Shape
<1>2. Shape'
  <2>1. op' = [q \in Process |-> op'[q]]
    BY DEF Goes, Shape
  <2> QED
    BY <1>1, <2>1 DEF Shape
<1>3. overlapped' = overlapped
  BY DEF Goes
<1>4. ASSUME ~overlapped, NEW q \in Process, q # p
      PROVE  op'[q].phase \in AtRest /\ Carries(q)'
  <2>1. ~Running(q)
    BY <1>4 DEF OneAtATime
  <2>2. op'[q].phase \in AtRest
    BY <1>1, <1>4, <2>1 DEF Running
  <2> QED
    BY <2>2 DEF Carries, AtRest
<1>5. OneAtATime'
  BY <1>3, <1>4 DEF OneAtATime, Running
<1>6. AllCarry'
  BY <1>3, <1>4 DEF AllCarry
<1>7. LockWithinManifest'
  BY <1>3 DEF LockWithinManifest
<1> QED
  BY <1>2, <1>5, <1>6, <1>7

\* The process that begins is the only one under way, if none was before.
LEMMA BeginIInv ==
  ASSUME IInv, NEW p \in Process, NEW o, Begin(p, o), DOMAIN o = Fields,
         ~overlapped' => Carries(p)'
  PROVE  IInv'
<1> USE DEF IInv
<1>1. op'[p] = o /\ \A q \in Process : q # p => op'[q] = op[q]
  BY DEF Begin, Shape
<1>2. Shape'
  <2>1. op' = [q \in Process |-> op'[q]]
    BY DEF Begin, Shape
  <2> QED
    BY <1>1, <2>1 DEF Begin, Shape
<1>3. ASSUME ~overlapped', NEW q \in Process, q # p
      PROVE  op'[q].phase \in AtRest /\ Carries(q)'
  <2>1. op'[q].phase \in AtRest
    BY <1>1, <1>3 DEF Begin, Running
  <2> QED
    BY <2>1 DEF Carries, AtRest
<1>4. OneAtATime'
  BY <1>3 DEF OneAtATime, Running
<1>5. AllCarry'
  BY <1>3 DEF AllCarry
<1>6. LockWithinManifest'
  BY DEF Begin, LockWithinManifest, Members
<1> QED
  BY <1>2, <1>4, <1>5, <1>6

-----------------------------------------------------------------------------
(* The operations begin. *)

\* The guards and the copies an operation starts from.
LEMMA RequestIInv ==
  ASSUME IInv, NEW p \in Process, Request(p)
  PROVE  IInv'
<1> USE NothingShape
<1>1. ASSUME NEW o, Begin(p, o)
      PROVE  op'[p] = o /\ manifest' = manifest /\ lock' = lock /\ (~overlapped' => ~overlapped)
  BY <1>1 DEF Begin, IInv, Shape
<1>2. ~overlapped /\ lock # NoFile => manifest # NoFile /\ DOMAIN lock \subseteq Members
  BY DEF IInv, LockWithinManifest
<1>3. ASSUME CreateWorkspace(p) PROVE IInv'
  <2> DEFINE o == [Nothing EXCEPT !.phase = "stage"]
  <2>1. /\ DOMAIN o = Fields /\ o.phase = "stage" /\ o.kind = "create"
        /\ o.mf = <<>> /\ o.lk = <<>>
    BY DEF Nothing, Fields
  <2>2. Begin(p, o) /\ manifest = NoFile
    BY <1>3 DEF CreateWorkspace
  <2> HIDE DEF o
  <2>3. ~overlapped' => Carries(p)'
    BY <1>1, <1>2, <2>1, <2>2 DEF Carries, Fits, WritesManifest
  <2> QED
    BY <2>1, <2>2, <2>3, BeginIInv
<1>4. ASSUME NEW S \in SUBSET Path, InitFromSources(p, S) PROVE IInv'
  <2> DEFINE o == [Nothing EXCEPT !.phase = "clone", !.kind = "init", !.paths = S, !.todo = S]
  <2>1. /\ DOMAIN o = Fields /\ o.phase = "clone" /\ o.kind = "init"
        /\ o.mf = <<>> /\ o.lk = <<>>
    BY DEF Nothing, Fields
  <2>2. Begin(p, o) /\ manifest = NoFile
    BY <1>4 DEF InitFromSources
  <2> HIDE DEF o
  <2>3. ~overlapped' => Carries(p)'
    BY <1>1, <1>2, <2>1, <2>2 DEF Carries
  <2> QED
    BY <2>1, <2>2, <2>3, BeginIInv
<1>5. ASSUME NEW m \in Path, CreateRepo(p, m) PROVE IInv'
  <2> DEFINE o == [Nothing EXCEPT !.phase = "make", !.kind = "create_repo", !.paths = {m},
                                  !.mf = manifest]
  <2>1. DOMAIN o = Fields /\ o.phase = "make" /\ o.kind = "create_repo" /\ o.mf = manifest
    BY DEF Nothing, Fields
  <2>2. Begin(p, o)
    BY <1>5 DEF CreateRepo
  <2> HIDE DEF o
  <2>3. ~overlapped' => Carries(p)'
    BY <1>1, <1>2, <2>1, <2>2 DEF Carries, Fits, Members
  <2> QED
    BY <2>1, <2>2, <2>3, BeginIInv
<1>6. ASSUME NEW m \in Path, AddExistingRepo(p, m) PROVE IInv'
  <2> DEFINE mf == Inserted(Entry(m, place[m].remote), manifest)
             seen == Entry(m, place[m].commit)
             o == [Nothing EXCEPT !.phase = "merge", !.kind = "add", !.paths = {m},
                                  !.mf = mf, !.seen = seen]
  <2>1. DOMAIN seen = {m} /\ DOMAIN mf = {m} \cup Members
    BY DEF Entry, Inserted, Members
  <2> HIDE DEF mf, seen
  <2>2. /\ DOMAIN o = Fields /\ o.phase = "merge" /\ o.kind = "add"
        /\ o.mf = mf /\ o.seen = seen
    BY DEF Nothing, Fields
  <2>3. Begin(p, o)
    BY <1>6 DEF AddExistingRepo, mf, seen
  <2> HIDE DEF o
  <2>4. ~overlapped' => Carries(p)'
    BY <1>1, <1>2, <2>1, <2>2, <2>3 DEF Carries, Fits
  <2> QED
    BY <2>2, <2>3, <2>4, BeginIInv
<1>7. ASSUME NEW S \in SUBSET Path, RepoSync(p, S) PROVE IInv'
  <2> DEFINE mf == Inserted([m \in S |-> manifest[m] \/ place[m].remote], manifest)
             o == [Nothing EXCEPT !.phase = "stage", !.kind = "repo_sync", !.paths = S,
                                  !.mf = mf]
  <2>1. DOMAIN mf = S \cup Members
    BY DEF Inserted, Members
  <2> HIDE DEF mf
  <2>2. DOMAIN o = Fields /\ o.phase = "stage" /\ o.kind = "repo_sync" /\ o.mf = mf
    BY DEF Nothing, Fields
  <2>3. Begin(p, o)
    BY <1>7 DEF RepoSync, mf
  <2> HIDE DEF o
  <2>4. ~overlapped' => Carries(p)'
    BY <1>1, <1>2, <2>1, <2>2, <2>3 DEF Carries, Fits, WritesManifest, WritesLock
  <2> QED
    BY <2>2, <2>3, <2>4, BeginIInv
<1>8. ASSUME NEW S \in SUBSET Path, Capture(p, S) PROVE IInv'
  <2> DEFINE seen == Observed(S, lock)
             o == [Nothing EXCEPT !.phase = "merge", !.kind = "capture", !.paths = S,
                                  !.seen = seen]
  <2>1. DOMAIN seen = S /\ S \subseteq Members /\ manifest # NoFile
    BY <1>8 DEF Observed, Capture
  <2> HIDE DEF seen
  <2>2. DOMAIN o = Fields /\ o.phase = "merge" /\ o.kind = "capture" /\ o.seen = seen
    BY DEF Nothing, Fields
  <2>3. Begin(p, o)
    BY <1>8 DEF Capture, seen
  <2> HIDE DEF o
  <2>4. ~overlapped' => Carries(p)'
    BY <1>1, <2>1, <2>2, <2>3 DEF Carries, Registered, Members
  <2> QED
    BY <2>2, <2>3, <2>4, BeginIInv
<1>9. ASSUME NEW S \in SUBSET Path, NEW withRoot \in BOOLEAN, Commit(p, S, withRoot)
      PROVE  IInv'
  <2> DEFINE o == [Nothing EXCEPT !.phase = "commit", !.kind = "commit", !.paths = S,
                                  !.todo = S, !.root = withRoot, !.lk = lock]
  <2>1. DOMAIN o = Fields /\ o.phase = "commit" /\ o.kind = "commit" /\ o.paths = S
    BY DEF Nothing, Fields
  <2>2. Begin(p, o) /\ S \subseteq Members /\ manifest # NoFile
    BY <1>9 DEF Commit
  <2> HIDE DEF o
  <2>3. ~overlapped' => Carries(p)'
    BY <1>1, <2>1, <2>2 DEF Carries, Registered, Members
  <2> QED
    BY <2>1, <2>2, <2>3, BeginIInv
<1> QED
  BY <1>3, <1>4, <1>5, <1>6, <1>7, <1>8, <1>9 DEF Request

-----------------------------------------------------------------------------
(* Their steps on the members. *)

LEMMA EndsIInv ==
  ASSUME IInv, NEW p \in Process, Running(p), NEW result \in AtRest, Ends(p, result),
         UNCHANGED <<manifest, lock, temp>>
  PROVE  IInv'
<1> DEFINE o == [Nothing EXCEPT !.phase = result]
<1>1. DOMAIN o = Fields /\ o.phase = result
  BY DEF Nothing, Fields
<1>2. Goes(p, o)
  BY DEF Ends
<1> HIDE DEF o
<1>3. op'[p].phase \in AtRest
  BY <1>1, <1>2 DEF Goes, IInv, Shape
<1>4. Carries(p)'
  BY <1>3 DEF Carries, AtRest
<1>5. ~overlapped => LockWithinManifest'
  BY DEF IInv, LockWithinManifest, Members
<1> QED
  BY <1>1, <1>2, <1>4, <1>5, GoesIInv DEF IInv, Shape

\* A step that leaves both files and what is staged alone.
LEMMA KeepsIInv ==
  ASSUME IInv, NEW p \in Process, Running(p), NEW o, Goes(p, o), DOMAIN o = Fields,
         UNCHANGED <<manifest, lock, temp>>,
         ~overlapped => Carries(p)'
  PROVE  IInv'
<1>1. ~overlapped => LockWithinManifest'
  BY DEF IInv, LockWithinManifest, Members
<1> QED
  BY <1>1, GoesIInv DEF IInv, Shape

LEMMA MembersIInv ==
  ASSUME IInv, NEW p \in Process,
         \/ \E m \in Path : Clone(p, m) \/ RemoveClone(p, m) \/ MakeRepo(p, m) \/ CommitMember(p, m)
         \/ AfterClones(p) \/ AfterCommits(p) \/ CommitRoot(p)
  PROVE  IInv'
<1>1. /\ Running(p) /\ UNCHANGED <<manifest, lock, temp>>
      /\ DOMAIN op[p] = Fields /\ (~overlapped => Carries(p))
  BY DEF Clone, RemoveClone, MakeRepo, CommitMember, AfterClones, AfterCommits,
         CommitRoot, Running, AtRest, IInv, Shape, AllCarry
<1>2. ASSUME NEW o, Goes(p, o) PROVE op'[p] = o
  BY <1>2 DEF Goes, IInv, Shape
<1> USE <1>1
<1>3. ASSUME NEW m \in Path, Clone(p, m) PROVE IInv'
  <2> DEFINE rest == [op[p] EXCEPT !.todo = @ \ {m}]
             failed == [rest EXCEPT !.failed = TRUE]
             mf == Inserted(Entry(m, TRUE), op[p].mf)
             lk == Inserted(Entry(m, Cloned.commit), op[p].lk)
             done == [rest EXCEPT !.mf = mf, !.lk = lk]
  <2>1. DOMAIN mf = {m} \cup DOMAIN op[p].mf /\ DOMAIN lk = {m} \cup DOMAIN op[p].lk
    BY DEF Entry, Inserted
  <2> HIDE DEF mf, lk
  <2>2. /\ DOMAIN rest = Fields /\ rest.phase = op[p].phase /\ rest.kind = op[p].kind
        /\ rest.mf = op[p].mf /\ rest.lk = op[p].lk
    BY DEF Fields
  <2>3. op[p].phase = "clone" /\ (Goes(p, done) \/ Goes(p, failed))
    BY <1>3 DEF Clone, mf, lk
  <2> HIDE DEF rest
  <2>4. CASE Goes(p, done)
    <3>1. /\ DOMAIN done = Fields /\ done.phase = op[p].phase /\ done.kind = op[p].kind
          /\ done.mf = mf /\ done.lk = lk
      BY <2>2 DEF Fields
    <3> HIDE DEF done
    <3>2. ~overlapped => Carries(p)'
      BY <1>2, <2>1, <2>3, <2>4, <3>1 DEF Carries
    <3> QED
      BY <2>4, <3>1, <3>2, KeepsIInv
  <2>5. CASE Goes(p, failed)
    <3>1. /\ DOMAIN failed = Fields /\ failed.phase = op[p].phase
          /\ failed.kind = op[p].kind /\ failed.mf = op[p].mf /\ failed.lk = op[p].lk
      BY <2>2 DEF Fields
    <3> HIDE DEF failed
    <3>2. ~overlapped => Carries(p)'
      BY <1>2, <2>3, <2>5, <3>1 DEF Carries
    <3> QED
      BY <2>5, <3>1, <3>2, KeepsIInv
  <2> QED
    BY <2>3, <2>4, <2>5
<1>4. ASSUME NEW m \in Path, RemoveClone(p, m) PROVE IInv'
  <2> DEFINE o == [op[p] EXCEPT !.todo = @ \ {m}]
  <2>1. /\ DOMAIN o = Fields /\ o.phase = op[p].phase /\ o.kind = op[p].kind
        /\ o.mf = op[p].mf /\ o.lk = op[p].lk
    BY DEF Fields
  <2>2. op[p].phase = "rollback" /\ (Ends(p, "rejected") \/ Goes(p, o))
    BY <1>4 DEF RemoveClone
  <2> HIDE DEF o
  <2>3. CASE Goes(p, o)
    <3>1. ~overlapped => Carries(p)'
      BY <1>2, <2>1, <2>2, <2>3 DEF Carries
    <3> QED
      BY <2>1, <2>3, <3>1, KeepsIInv
  <2> QED
    BY <2>2, <2>3, EndsIInv DEF AtRest
<1>5. ASSUME NEW m \in Path, MakeRepo(p, m) PROVE IInv'
  <2> DEFINE mf == Inserted(Entry(m, Fresh.remote), op[p].mf)
             seen == Entry(m, Fresh.commit)
             o == [op[p] EXCEPT !.phase = "merge", !.mf = mf, !.seen = seen]
  <2>1. DOMAIN seen = {m} /\ DOMAIN mf = {m} \cup DOMAIN op[p].mf
    BY DEF Entry, Inserted
  <2> HIDE DEF mf, seen
  <2>2. /\ DOMAIN o = Fields /\ o.phase = "merge" /\ o.kind = op[p].kind
        /\ o.mf = mf /\ o.seen = seen
    BY DEF Fields
  <2>3. op[p].phase = "make" /\ (Ends(p, "rejected") \/ Goes(p, o))
    BY <1>5 DEF MakeRepo, mf, seen
  <2> HIDE DEF o
  <2>4. CASE Goes(p, o)
    <3>1. ~overlapped => Carries(p)'
      BY <1>2, <2>1, <2>2, <2>3, <2>4 DEF Carries, Fits
    <3> QED
      BY <2>2, <2>4, <3>1, KeepsIInv
  <2> QED
    BY <2>3, <2>4, EndsIInv DEF AtRest
<1>6. ASSUME NEW m \in Path, CommitMember(p, m) PROVE IInv'
  <2> DEFINE o == [op[p] EXCEPT !.todo = @ \ {m}, !.committed = @ \/ place[m].staged]
  <2>1. /\ DOMAIN o = Fields /\ o.phase = op[p].phase /\ o.kind = op[p].kind
        /\ o.paths = op[p].paths
    BY DEF Fields
  <2>2. op[p].phase = "commit" /\ (Ends(p, "rejected") \/ Goes(p, o))
    BY <1>6 DEF CommitMember
  <2> HIDE DEF o
  <2>3. CASE Goes(p, o)
    <3>1. ~overlapped => Carries(p)'
      BY <1>2, <2>1, <2>2, <2>3 DEF Carries, Registered, Members
    <3> QED
      BY <2>1, <2>3, <3>1, KeepsIInv
  <2> QED
    BY <2>2, <2>3, EndsIInv DEF AtRest
<1>7. ASSUME AfterClones(p) PROVE IInv'
  <2> DEFINE o == IF op[p].failed
                    THEN [op[p] EXCEPT !.phase = "rollback", !.todo = op[p].paths]
                    ELSE [op[p] EXCEPT !.phase = "stage"]
  <2>1. /\ DOMAIN o = Fields /\ o.phase \in {"rollback", "stage"} /\ o.kind = op[p].kind
        /\ o.mf = op[p].mf /\ o.lk = op[p].lk
    BY DEF Fields
  <2>2. op[p].phase = "clone" /\ Goes(p, o)
    BY <1>7 DEF AfterClones
  <2> HIDE DEF o
  <2>3. ~overlapped => Carries(p)'
    BY <1>2, <2>1, <2>2 DEF Carries, Fits, WritesManifest
  <2> QED
    BY <2>1, <2>2, <2>3, KeepsIInv
<1>8. ASSUME AfterCommits(p) PROVE IInv'
  <2> DEFINE seen == Observed(op[p].paths, op[p].lk)
             o == IF op[p].committed THEN [op[p] EXCEPT !.phase = "merge", !.seen = seen]
                                     ELSE [op[p] EXCEPT !.phase = "root"]
  <2>1. DOMAIN seen = op[p].paths
    BY DEF Observed
  <2> HIDE DEF seen
  <2>2. /\ DOMAIN o = Fields /\ o.phase \in {"merge", "root"} /\ o.kind = op[p].kind
        /\ (o.phase = "merge" => o.seen = seen)
    BY DEF Fields
  <2>3. op[p].phase = "commit" /\ Goes(p, o)
    BY <1>8 DEF AfterCommits, seen
  <2> HIDE DEF o
  <2>4. ~overlapped => Carries(p)'
    BY <1>2, <2>1, <2>2, <2>3 DEF Carries, Registered, Members
  <2> QED
    BY <2>2, <2>3, <2>4, KeepsIInv
<1>9. ASSUME CommitRoot(p) PROVE IInv'
  BY <1>9, EndsIInv DEF CommitRoot, AtRest
<1> QED
  BY <1>3, <1>4, <1>5, <1>6, <1>7, <1>8, <1>9

-----------------------------------------------------------------------------
(* The two files. *)

\* What was observed and the lock as it is stay within what the manifest has,
\* or will have once it is published.
LEMMA MergeLockIInv ==
  ASSUME IInv, NEW p \in Process, MergeLock(p)
  PROVE  IInv'
<1> DEFINE lk == Inserted(op[p].seen, LockOrEmpty)
           o == [op[p] EXCEPT !.phase = "stage", !.lk = lk]
<1>1. /\ DOMAIN lk = DOMAIN op[p].seen \cup DOMAIN LockOrEmpty
      /\ (lock = NoFile => DOMAIN LockOrEmpty = {})
      /\ (lock # NoFile => DOMAIN LockOrEmpty = DOMAIN lock)
  BY DEF Inserted, LockOrEmpty
<1> HIDE DEF lk
<1>2. /\ DOMAIN o = Fields /\ o.phase = "stage" /\ o.kind = op[p].kind
      /\ o.mf = op[p].mf /\ o.lk = lk
  BY DEF Fields, IInv, Shape
<1>3. /\ op[p].phase = "merge" /\ Running(p) /\ Goes(p, o)
      /\ UNCHANGED <<manifest, lock, temp>>
  BY DEF MergeLock, Running, AtRest, lk
<1> HIDE DEF o
<1>4. op'[p] = o
  BY <1>3 DEF Goes, IInv, Shape
<1>5. ASSUME ~overlapped PROVE Carries(p)'
  <2>1. Carries(p) /\ LockWithinManifest
    BY <1>5 DEF IInv, AllCarry
  <2>2. CASE /\ op[p].kind \in {"create_repo", "add"} /\ Fits(op[p].mf)
             /\ DOMAIN op[p].seen \subseteq DOMAIN op[p].mf
    BY <1>1, <1>2, <1>3, <1>4, <2>2 DEF Carries, Fits, WritesManifest
  <2>3. CASE op[p].kind \in {"capture", "commit"} /\ Registered(DOMAIN op[p].seen)
    BY <1>1, <1>2, <1>3, <1>4, <1>5, <2>1, <2>3
       DEF Carries, Registered, Members, LockWithinManifest, WritesManifest, WritesLock
  <2> QED
    BY <1>3, <2>1, <2>2, <2>3 DEF Carries
<1> QED
  BY <1>2, <1>3, <1>5, KeepsIInv

LEMMA StageIInv ==
  ASSUME IInv, NEW p \in Process, Stage(p)
  PROVE  IInv'
<1> DEFINE k == op[p].kind
           o == [op[p] EXCEPT !.phase = IF WritesManifest(k) THEN "manifest" ELSE "lock"]
<1>1. /\ DOMAIN o = Fields /\ o.kind = k /\ o.mf = op[p].mf /\ o.lk = op[p].lk
      /\ o.phase = IF WritesManifest(k) THEN "manifest" ELSE "lock"
  BY DEF Fields, IInv, Shape
<1>2. /\ op[p].phase = "stage" /\ Running(p) /\ Goes(p, o)
      /\ UNCHANGED <<manifest, lock>>
  BY DEF Stage, Running, AtRest
<1> HIDE DEF o
<1>3. op'[p] = o
  BY <1>2 DEF Goes, IInv, Shape
<1>4. /\ DOMAIN temp' = {"manifest", "lock"}
      /\ temp'.manifest = [q \in Process |-> temp'.manifest[q]]
      /\ temp'.lock = [q \in Process |-> temp'.lock[q]]
      /\ (WritesManifest(k) => temp'.manifest[p] = op[p].mf)
      /\ (WritesLock(k) => temp'.lock[p] = op[p].lk)
  BY DEF Stage, TempName, IInv, Shape
<1>5. ASSUME ~overlapped PROVE Carries(p)' /\ LockWithinManifest'
  <2>1. Carries(p) /\ LockWithinManifest
    BY <1>5 DEF IInv, AllCarry
  <2>2. LockWithinManifest'
    BY <1>2, <1>5, <2>1 DEF LockWithinManifest, Members, Goes
  <2>3. CASE WritesManifest(k)
    <3>1. /\ op'[p].phase = "manifest" /\ op'[p].kind = op[p].kind
          /\ op'[p].mf = op[p].mf /\ op'[p].lk = op[p].lk
      BY <1>1, <1>3, <2>3
    <3>2. /\ Fits(op[p].mf)
          /\ WritesLock(op[p].kind) => DOMAIN op[p].lk \subseteq DOMAIN op[p].mf
      BY <1>2, <2>1, <2>3 DEF Carries
    <3>3. /\ temp'.manifest[p] = op[p].mf /\ lock' = lock
          /\ WritesLock(op[p].kind) => temp'.lock[p] = op[p].lk
      BY <1>2, <1>4, <2>3
    <3> QED
      BY <2>2, <3>1, <3>2, <3>3 DEF Carries, Fits, WritesLock
  <2>4. CASE ~WritesManifest(k)
    <3>1. op'[p].phase = "lock" /\ op'[p].kind = op[p].kind /\ op'[p].lk = op[p].lk
      BY <1>1, <1>3, <2>4
    <3>2. WritesLock(op[p].kind) /\ Registered(DOMAIN op[p].lk)
      BY <1>2, <2>1, <2>4 DEF Carries
    <3>3. temp'.lock[p] = op[p].lk /\ manifest' = manifest
      BY <1>2, <1>4, <3>2
    <3> QED
      BY <2>2, <3>1, <3>2, <3>3 DEF Carries, Registered, Members
  <2> QED
    BY <2>2, <2>3, <2>4
<1> QED
  BY <1>1, <1>2, <1>4, <1>5, GoesIInv

\* The manifest comes first, with every member of the lock that is there and
\* of the one that is to come.
LEMMA PublishManifestIInv ==
  ASSUME IInv, NEW p \in Process, PublishManifest(p)
  PROVE  IInv'
<1> DEFINE o == [op[p] EXCEPT !.phase = "lock"]
<1>1. DOMAIN o = Fields /\ o.phase = "lock" /\ o.lk = op[p].lk
  BY DEF Fields, IInv, Shape
<1> DEFINE ended == [Nothing EXCEPT !.phase = "ok"]
<1>2. DOMAIN ended = Fields /\ ended.phase = "ok"
  BY DEF Nothing, Fields
<1>3. /\ op[p].phase = "manifest" /\ Running(p) /\ lock' = lock
      /\ \/ WritesLock(op[p].kind) /\ Goes(p, o)
         \/ Goes(p, ended)
  BY DEF PublishManifest, Ends, Running, AtRest
<1> HIDE DEF o, ended
<1>4. /\ DOMAIN temp' = {"manifest", "lock"} /\ temp'.lock = temp.lock
      /\ temp'.manifest = [q \in Process |-> temp'.manifest[q]]
      /\ temp'.lock = [q \in Process |-> temp'.lock[q]]
      /\ manifest' = temp.manifest[p] /\ manifest' # NoFile
  BY DEF PublishManifest, TempName, IInv, Shape
<1>5. ASSUME ~overlapped
      PROVE  /\ manifest' = op[p].mf /\ Fits(op[p].mf)
             /\ WritesLock(op[p].kind) => /\ temp.lock[p] = op[p].lk
                                          /\ DOMAIN op[p].lk \subseteq DOMAIN op[p].mf
  <2>1. Carries(p)
    BY <1>5 DEF IInv, AllCarry
  <2> QED
    BY <1>3, <1>4, <2>1 DEF Carries
<1>6. ~overlapped => LockWithinManifest'
  BY <1>3, <1>4, <1>5 DEF LockWithinManifest, Fits, Members
<1>7. CASE WritesLock(op[p].kind) /\ Goes(p, o)
  <2>1. op'[p] = o
    BY <1>7 DEF Goes, IInv, Shape
  <2>2. ~overlapped => Carries(p)'
    BY <1>1, <1>4, <1>5, <1>7, <2>1 DEF Carries, Registered, Members
  <2> QED
    BY <1>1, <1>3, <1>4, <1>6, <1>7, <2>2, GoesIInv
<1>8. CASE Goes(p, ended)
  <2>1. op'[p] = ended
    BY <1>8 DEF Goes, IInv, Shape
  <2>2. Carries(p)'
    BY <1>2, <2>1 DEF Carries
  <2> QED
    BY <1>2, <1>3, <1>4, <1>6, <1>8, <2>2, GoesIInv
<1> QED
  BY <1>3, <1>7, <1>8

LEMMA PublishLockIInv ==
  ASSUME IInv, NEW p \in Process, PublishLock(p)
  PROVE  IInv'
<1> DEFINE o == [op[p] EXCEPT !.phase = "boundary"]
<1>1. DOMAIN o = Fields /\ o.phase = "boundary"
  BY DEF Fields, IInv, Shape
<1>2. /\ op[p].phase = "lock" /\ Running(p) /\ manifest' = manifest /\ Goes(p, o)
  BY DEF PublishLock, Running, AtRest
<1> HIDE DEF o
<1>3. /\ DOMAIN temp' = {"manifest", "lock"}
      /\ temp'.manifest = [q \in Process |-> temp'.manifest[q]]
      /\ temp'.lock = [q \in Process |-> temp'.lock[q]]
      /\ lock' = temp.lock[p]
  BY DEF PublishLock, TempName, IInv, Shape
<1>4. op'[p] = o
  BY <1>2 DEF Goes, IInv, Shape
<1>5. Carries(p)'
  BY <1>1, <1>4 DEF Carries
<1>6. ASSUME ~overlapped PROVE LockWithinManifest'
  <2>1. Carries(p)
    BY <1>6 DEF IInv, AllCarry
  <2>2. lock' = op[p].lk /\ manifest # NoFile /\ DOMAIN op[p].lk \subseteq Members
    BY <1>2, <1>3, <2>1 DEF Carries, Registered
  <2> QED
    BY <1>2, <2>2 DEF LockWithinManifest, Members
<1> QED
  BY <1>1, <1>2, <1>3, <1>5, <1>6, GoesIInv

LEMMA SyncBoundaryIInv ==
  ASSUME IInv, NEW p \in Process, SyncBoundary(p)
  PROVE  IInv'
<1> DEFINE o == [op[p] EXCEPT !.phase = "root"]
<1>1. DOMAIN o = Fields /\ o.phase = "root"
  BY DEF Fields, IInv, Shape
<1>2. /\ Running(p) /\ UNCHANGED <<manifest, lock, temp>>
      /\ (Goes(p, o) \/ Ends(p, "ok"))
  BY DEF SyncBoundary, Running, AtRest
<1> HIDE DEF o
<1>3. CASE Goes(p, o)
  <2>1. op'[p] = o
    BY <1>3 DEF Goes, IInv, Shape
  <2>2. Carries(p)'
    BY <1>1, <2>1 DEF Carries
  <2> QED
    BY <1>1, <1>2, <1>3, <2>2, KeepsIInv
<1> QED
  BY <1>2, <1>3, EndsIInv DEF AtRest

-----------------------------------------------------------------------------
(* The theorem. *)

\* A death or a failed call forgets what the operation carried.
LEMMA StopIInv ==
  ASSUME IInv, NEW p \in Process, Stop(p)
  PROVE  IInv'
<1> USE DEF IInv
<1>1. /\ op' = [op EXCEPT ![p] = [Nothing EXCEPT !.phase = "stopped"]]
      /\ Running(p) /\ UNCHANGED <<manifest, lock, temp, overlapped>>
  BY DEF Stop
<1>2. /\ DOMAIN op'[p] = Fields /\ op'[p].phase = "stopped"
      /\ \A q \in Process : q # p => op'[q] = op[q]
  BY <1>1 DEF Shape, Nothing, Fields
<1>3. Shape'
  <2>1. op' = [q \in Process |-> op'[q]]
    BY <1>1 DEF Shape
  <2> QED
    BY <1>1, <1>2, <2>1 DEF Shape
<1>4. OneAtATime'
  BY <1>1, <1>2 DEF OneAtATime, Running, AtRest
<1>5. ASSUME ~overlapped, NEW q \in Process, q # p PROVE Carries(q)'
  <2>1. op'[q].phase \in AtRest
    BY <1>1, <1>2, <1>5 DEF OneAtATime, Running
  <2> QED
    BY <2>1 DEF Carries, AtRest
<1>6. Carries(p)'
  BY <1>2 DEF Carries
<1>7. AllCarry'
  BY <1>1, <1>5, <1>6 DEF AllCarry
<1>8. LockWithinManifest'
  BY <1>1 DEF LockWithinManifest, Members
<1> QED
  BY <1>3, <1>4, <1>7, <1>8

\* People touch neither file, and a stutter nothing at all.
LEMMA OthersIInv ==
  ASSUME IInv, UNCHANGED <<manifest, lock, temp, op, overlapped>>
  PROVE  IInv'
BY DEF IInv, Shape, OneAtATime, AllCarry, Carries, Fits, Registered, Members,
       LockWithinManifest, Running

LEMMA StepIInv == IInv /\ [Next]_vars => IInv'
<1> SUFFICES ASSUME IInv, [Next]_vars PROVE IInv'
  OBVIOUS
<1>1. ASSUME NEW p \in Process, Request(p) PROVE IInv'
  BY <1>1, RequestIInv
<1>2. ASSUME NEW p \in Process, Work(p) PROVE IInv'
  BY <1>2, MembersIInv, MergeLockIInv, StageIInv, PublishManifestIInv, PublishLockIInv,
     SyncBoundaryIInv DEF Work
<1>3. ASSUME NEW p \in Process, Stop(p) PROVE IInv'
  BY <1>3, StopIInv
<1>4. ASSUME NEW m \in Path, Edit(m) PROVE IInv'
  BY <1>4, OthersIInv DEF Edit
<1>5. CASE UNCHANGED vars
  BY <1>5, OthersIInv DEF vars
<1> QED
  BY <1>1, <1>2, <1>3, <1>4, <1>5 DEF Next

\* As long as operations follow one another, the lock never names a member the
\* manifest lacks, wherever a process dies or a call fails: the order of the
\* two renames is enough.
THEOREM LockStaysWithin == Spec => []LockWithinManifest
<1>1. IInv => LockWithinManifest
  BY DEF IInv
<1> QED
  BY InitIInv, StepIInv, <1>1, PTL DEF Spec
-----------------------------------------------------------------------------
(* The types, and the way of an operation. *)

\* The kinds an operation of a phase can be of, what it has staged, and that
\* the manifest is there before anyone writes a lock.
Course(p) ==
  LET o == op[p] IN
  /\ o.phase \in {"clone", "rollback"} => o.kind = "init"
  /\ o.phase = "make" => o.kind = "create_repo" /\ \A m, n \in o.paths : m = n
  /\ o.phase = "commit" => o.kind = "commit" /\ o.paths \subseteq DOMAIN o.lk
  /\ o.phase = "merge" => o.kind \in {"create_repo", "add", "capture", "commit"}
  /\ o.phase = "manifest" =>
       /\ WritesManifest(o.kind) /\ temp.manifest[p] = o.mf
       /\ WritesLock(o.kind) => temp.lock[p] = o.lk
  /\ o.phase = "lock" => WritesLock(o.kind) /\ temp.lock[p] = o.lk
  /\ o.phase = "boundary" => WritesLock(o.kind)
  /\ o.phase = "root" => o.kind = "commit"
  /\ o.kind # "commit" => ~o.committed /\ ~o.root
  /\ o.phase \in {"lock", "boundary"} => manifest # NoFile
  /\ o.phase \notin AtRest /\ o.kind \in {"capture", "commit"} => manifest # NoFile

Typed ==
  /\ TypeOK
  /\ DOMAIN root = {"index", "head", "ignored"}
  /\ \A p \in Process : Course(p)
  /\ lock # NoFile => manifest # NoFile

-----------------------------------------------------------------------------
(* An operation that nothing comes between. *)

Live(p, map) == \A m \in op[p].paths : IsRepo(m) => map[m] = place[m].commit

\* What it knows of its members is what they are at.
Lives(p) ==
  LET o == op[p] IN
  /\ o.phase = "clone" =>
       /\ \A m \in DOMAIN o.lk : place[m] = Cloned /\ o.lk[m] = Cloned.commit
       /\ ~o.failed => o.paths \ o.todo \subseteq DOMAIN o.lk
  /\ o.phase = "merge" => o.paths \subseteq DOMAIN o.seen /\ Live(p, o.seen)
  /\ o.phase \in {"stage", "manifest", "lock"} /\ o.kind # "repo_sync" => Live(p, o.lk)
  /\ o.phase = "boundary" => lock = o.lk /\ Live(p, o.lk)
  /\ o.phase = "root" /\ o.committed => Live(p, lock) /\ root.index = <<manifest, lock>>

\* An init finds no workspace and leaves none until its clones are there.
Clears(p) ==
  /\ op[p].phase \in {"clone", "rollback"} => manifest = NoFile
  /\ op[p].phase = "rollback" => \A m \in op[p].paths \ op[p].todo : place[m] = Absent

Solo ==
  \A p \in Process : alone[p] /\ Running(p) =>
    /\ \A q \in Process \ {p} : ~Running(q)
    /\ Lives(p) /\ Clears(p)

-----------------------------------------------------------------------------
(* Operations one after the other. *)

Agree ==
  IF manifest = NoFile THEN lock = NoFile
  ELSE /\ lock # NoFile /\ DOMAIN lock = Members
       /\ root.ignored = Members /\ root.index[2] = lock

\* On its way to the files an operation has the members both will name.
Follows(p) ==
  LET o == op[p] IN
  /\ o.phase \in {"clone", "rollback", "make", "commit", "merge", "stage", "root"} => Agree
  /\ o.phase \in {"clone", "rollback"} => manifest = NoFile /\ DOMAIN o.mf = DOMAIN o.lk
  /\ o.phase = "make" => manifest # NoFile /\ o.mf = manifest
  /\ o.phase = "merge" =>
       /\ manifest # NoFile
       /\ IF o.kind \in {"create_repo", "add"} THEN DOMAIN o.mf = Members \cup DOMAIN o.seen
                                               ELSE DOMAIN o.seen \subseteq Members
  /\ o.phase \in {"stage", "manifest"} =>
       CASE o.kind = "repo_sync"            -> Agree /\ manifest # NoFile /\ DOMAIN o.mf = Members
         [] o.kind \in {"capture", "commit"} -> manifest # NoFile /\ DOMAIN o.lk = Members
         [] OTHER                            -> DOMAIN o.mf = DOMAIN o.lk
  /\ o.phase = "commit" => o.paths \subseteq Members
  /\ o.phase \in {"lock", "boundary"} => manifest # NoFile /\ DOMAIN o.lk = Members
  /\ o.phase = "boundary" => lock = o.lk /\ lock # NoFile

Agreed ==
  ~overlapped /\ stops = 0 =>
    /\ \A p \in Process : Follows(p)
    /\ (\A p \in Process : ~Running(p)) => Agree

-----------------------------------------------------------------------------
(* Maps and operations. *)

LEMMA EmptyMap == ASSUME NEW S PROVE <<>> \in Maps(S) /\ DOMAIN <<>> = {}
<1>1. DOMAIN <<>> = {} /\ <<>> = [x \in {} |-> x]
  OBVIOUS
<1>2. <<>> \in [{} -> S]
  BY <1>1
<1> QED
  BY <1>1, <1>2 DEF Maps

LEMMA EntryMap ==
  ASSUME NEW S, NEW m \in Path, NEW v \in S
  PROVE  Entry(m, v) \in Maps(S) /\ DOMAIN Entry(m, v) = {m} /\ Entry(m, v)[m] = v
<1>1. Entry(m, v) \in [{m} -> S] /\ {m} \in SUBSET Path
  BY DEF Entry
<1> QED
  BY <1>1 DEF Maps, Entry

LEMMA InsertedMap ==
  ASSUME NEW S, NEW f \in Maps(S), NEW g \in Maps(S)
  PROVE  /\ Inserted(f, g) \in Maps(S)
         /\ DOMAIN Inserted(f, g) = DOMAIN f \cup DOMAIN g
         /\ \A m \in DOMAIN f : Inserted(f, g)[m] = f[m]
         /\ \A m \in DOMAIN g \ DOMAIN f : Inserted(f, g)[m] = g[m]
<1> DEFINE D == DOMAIN f \cup DOMAIN g
<1>1. D \in SUBSET Path /\ f \in [DOMAIN f -> S] /\ g \in [DOMAIN g -> S]
  BY DEF Maps
<1>2. Inserted(f, g) \in [D -> S]
  BY <1>1 DEF Inserted
<1>3. Inserted(f, g) \in Maps(S)
  BY <1>1, <1>2 DEF Maps
<1> QED
  BY <1>3 DEF Inserted

LEMMA PutMap ==
  ASSUME NEW S, NEW m \in Path, NEW v \in S, NEW g \in Maps(S)
  PROVE  Inserted(Entry(m, v), g) \in Maps(S)
<1> DEFINE D == {m} \cup DOMAIN g
<1>1. D \in SUBSET Path /\ g \in [DOMAIN g -> S]
  BY DEF Maps
<1>2. Inserted(Entry(m, v), g) \in [D -> S]
  BY <1>1 DEF Inserted, Entry
<1> QED
  BY <1>1, <1>2 DEF Maps

LEMMA MapDomain ==
  ASSUME NEW S, NEW f \in Maps(S)
  PROVE  DOMAIN f \in SUBSET Path /\ f \in [DOMAIN f -> S]
BY DEF Maps

LEMMA ObservedMap ==
  ASSUME NEW D \in SUBSET Path, NEW copy \in Maps(0..MaxCommits), D \subseteq DOMAIN copy,
         place \in [Path -> {Absent, Files} \cup Repo]
  PROVE  Observed(D, copy) \in Maps(0..MaxCommits)
<1>1. copy \in [DOMAIN copy -> 0..MaxCommits]
  BY DEF Maps
<1>2. ASSUME NEW m \in D PROVE (IF IsRepo(m) THEN place[m].commit ELSE copy[m]) \in 0..MaxCommits
  BY <1>1 DEF IsRepo, Repo
<1>3. Observed(D, copy) \in [D -> 0..MaxCommits]
  BY <1>2 DEF Observed
<1> QED
  BY <1>3 DEF Maps

LEMMA NothingType == Nothing \in Operation
<1>1. <<>> \in Maps(BOOLEAN) /\ <<>> \in Maps(0..MaxCommits)
  BY EmptyMap
<1> QED
  BY <1>1 DEF Nothing, Operation, Phases, AtRest, Kinds

LEMMA FilesOnce == NoFile \notin Maps(BOOLEAN) /\ NoFile \notin Maps(0..MaxCommits)
BY RegistryAssumption

LEMMA ReposType ==
  /\ Fresh \in Repo /\ Cloned \in Repo /\ Fresh.commit = 0 /\ Cloned.commit = 1
  /\ Fresh.remote = FALSE /\ Cloned.remote = TRUE
  /\ \A r \in Repo : r \notin {Absent, Files}
  /\ 0 \in 0..MaxCommits /\ 1 \in 0..MaxCommits
BY RegistryAssumption DEF Fresh, Cloned, Repo

-----------------------------------------------------------------------------
(* A step of one operation. *)

Records == IInv /\ Typed /\ Solo /\ Agreed

Moved(p) ==
  /\ op' \in [Process -> Operation]
  /\ \A q \in Process \ {p} : op'[q] = op[q]
  /\ UNCHANGED <<requests, edits, stops, overlapped, alone>>

LEMMA GoesMoves ==
  ASSUME op \in [Process -> Operation], NEW p \in Process, NEW o \in Operation, Goes(p, o)
  PROVE  op'[p] = o /\ Moved(p)
BY DEF Goes, Moved

LEMMA EndsMoves ==
  ASSUME op \in [Process -> Operation], NEW p \in Process, NEW result \in AtRest,
         Ends(p, result)
  PROVE  Moved(p) /\ op'[p].phase = result /\ op'[p].kind = "create"
         /\ ~op'[p].committed /\ ~op'[p].root
<1> DEFINE o == [Nothing EXCEPT !.phase = result]
<1>1. /\ o \in Operation /\ o.phase = result /\ o.kind = "create"
      /\ ~o.committed /\ ~o.root
  BY NothingType DEF Operation, Nothing, Phases
<1>2. Goes(p, o)
  BY DEF Ends
<1> HIDE DEF o
<1> QED
  BY <1>1, <1>2, GoesMoves

\* What the records need of a step of an operation under way: where the step
\* took this one.
LEMMA WorkRecords ==
  ASSUME Records, IInv', NEW p \in Process, Running(p), Moved(p),
         manifest' \in {NoFile} \cup Maps(BOOLEAN),
         lock' \in {NoFile} \cup Maps(0..MaxCommits),
         temp' \in [manifest : [Process -> {NoFile} \cup Maps(BOOLEAN)],
                    lock : [Process -> {NoFile} \cup Maps(0..MaxCommits)]],
         place' \in [Path -> {Absent, Files} \cup Repo],
         DOMAIN root' = DOMAIN root, root'.ignored \subseteq Path,
         \A q \in Process \ {p} :
           temp'.manifest[q] = temp.manifest[q] /\ temp'.lock[q] = temp.lock[q],
         manifest # NoFile => manifest' # NoFile,
         lock' # NoFile => manifest' # NoFile,
         Course(p)',
         alone[p] /\ op'[p].phase \notin AtRest => Lives(p)' /\ Clears(p)',
         ~overlapped /\ stops = 0 =>
           Follows(p)' /\ (op'[p].phase \in AtRest => Agree')
  PROVE  Records'
<1> USE DEF Records
<1>1. Typed'
  <2>1. TypeOK'
    BY DEF Typed, TypeOK, Moved
  <2>2. ASSUME NEW q \in Process \ {p} PROVE Course(q)'
    <3>1. /\ op'[q] = op[q] /\ Course(q)
          /\ temp'.manifest[q] = temp.manifest[q] /\ temp'.lock[q] = temp.lock[q]
      BY DEF Moved, Typed
    <3> QED
      BY <3>1 DEF Course
  <2> QED
    BY <2>1, <2>2 DEF Typed
<1>2. Solo'
  <2>1. ASSUME alone[p], op'[p].phase \notin AtRest, NEW q \in Process \ {p}
        PROVE  ~(Running(q)')
    BY <2>1 DEF Solo, Moved, Running
  <2>2. ASSUME NEW q \in Process \ {p}, alone[q], Running(q)' PROVE FALSE
    BY <2>2 DEF Solo, Moved, Running
  <2> QED
    BY <2>1, <2>2 DEF Solo, Moved, Running
<1>3. Agreed'
  <2> SUFFICES ASSUME ~overlapped, stops = 0
               PROVE  /\ \A q \in Process : Follows(q)'
                      /\ (\A q \in Process : ~(Running(q)')) => Agree'
    BY DEF Agreed, Moved
  <2>1. ASSUME NEW q \in Process \ {p} PROVE Follows(q)'
    <3>1. op'[q].phase \in AtRest
      BY DEF IInv, OneAtATime, Moved, Running
    <3> QED
      BY <3>1 DEF Follows, AtRest
  <2> QED
    BY <2>1 DEF Running
<1> QED
  BY <1>1, <1>2, <1>3

\* A step that leaves the files and the root alone.
LEMMA MemberRecords ==
  ASSUME Records, IInv', NEW p \in Process, Running(p), Moved(p),
         UNCHANGED <<manifest, lock, temp, root>>,
         place' \in [Path -> {Absent, Files} \cup Repo],
         Course(p)',
         alone[p] /\ op'[p].phase \notin AtRest => Lives(p)' /\ Clears(p)',
         ~overlapped /\ stops = 0 =>
           Follows(p)' /\ (op'[p].phase \in AtRest => Agree')
  PROVE  Records'
<1>1. TypeOK /\ (lock # NoFile => manifest # NoFile)
  BY DEF Records, Typed
<1> QED
  BY <1>1, WorkRecords DEF TypeOK

LEMMA SameAgree ==
  ASSUME UNCHANGED <<manifest, lock, root>>
  PROVE  Agree' <=> Agree
BY DEF Agree, Members

\* An operation that ends before it has touched the files.
LEMMA EndsRecords ==
  ASSUME Records, IInv', NEW p \in Process, Running(p), NEW result \in AtRest,
         Ends(p, result), UNCHANGED <<manifest, lock, temp, root>>,
         place' \in [Path -> {Absent, Files} \cup Repo],
         ~overlapped /\ stops = 0 => Agree
  PROVE  Records'
<1>1. /\ Moved(p) /\ op'[p].phase \in AtRest /\ op'[p].kind = "create"
      /\ ~op'[p].committed /\ ~op'[p].root
  BY EndsMoves DEF Records, Typed, TypeOK
<1>2. Course(p)'
  BY <1>1 DEF Course, AtRest
<1>3. Follows(p)'
  BY <1>1 DEF Follows, AtRest
<1> QED
  BY <1>1, <1>2, <1>3, SameAgree, MemberRecords

\* A clone that succeeds is on record with the commit it is at.
LEMMA CloneRecords ==
  ASSUME Records, IInv', NEW p \in Process, NEW m \in Path, Clone(p, m)
  PROVE  Records'
<1> DEFINE rest   == [op[p] EXCEPT !.todo = @ \ {m}]
           mf     == Inserted(Entry(m, TRUE), op[p].mf)
           lk     == Inserted(Entry(m, Cloned.commit), op[p].lk)
           failed == [rest EXCEPT !.failed = TRUE]
           done   == [rest EXCEPT !.mf = mf, !.lk = lk]
<1> USE DEF Records
<1>1. TypeOK /\ op[p] \in Operation
  BY DEF Typed, TypeOK
<1>2. /\ op[p].phase = "clone" /\ Running(p) /\ m \in op[p].todo
      /\ UNCHANGED <<manifest, lock, temp, root>>
      /\ place' = place \/ place' = [place EXCEPT ![m] = Cloned]
      /\ (Goes(p, done) /\ place' = [place EXCEPT ![m] = Cloned]) \/ Goes(p, failed)
  BY DEF Clone, Running, AtRest
<1>3. /\ mf \in Maps(BOOLEAN) /\ DOMAIN mf = {m} \cup DOMAIN op[p].mf
      /\ lk \in Maps(0..MaxCommits) /\ DOMAIN lk = {m} \cup DOMAIN op[p].lk
      /\ lk[m] = Cloned.commit /\ \A n \in DOMAIN op[p].lk \ {m} : lk[n] = op[p].lk[n]
  <2>1. PICK f \in Maps(BOOLEAN), g \in Maps(0..MaxCommits) : f = op[p].mf /\ g = op[p].lk
    BY <1>1 DEF Operation
  <2>2. PICK t \in BOOLEAN, c \in 0..MaxCommits : t = TRUE /\ c = Cloned.commit
    BY ReposType
  <2>3. mf = Inserted(Entry(m, t), f) /\ lk = Inserted(Entry(m, c), g)
    BY <2>1, <2>2
  <2>4. mf \in Maps(BOOLEAN) /\ lk \in Maps(0..MaxCommits)
    <3>1. Inserted(Entry(m, t), f) \in Maps(BOOLEAN)
      BY PutMap
    <3>2. Inserted(Entry(m, c), g) \in Maps(0..MaxCommits)
      BY PutMap
    <3> QED
      BY <2>3, <3>1, <3>2
  <2>5. DOMAIN mf = {m} \cup DOMAIN op[p].mf
    BY DEF Inserted, Entry
  <2>6. /\ DOMAIN lk = {m} \cup DOMAIN op[p].lk
        /\ lk[m] = Cloned.commit /\ \A n \in DOMAIN op[p].lk \ {m} : lk[n] = op[p].lk[n]
    BY DEF Inserted, Entry
  <2> QED
    BY <2>4, <2>5, <2>6
<1> HIDE DEF mf, lk
<1>4. /\ failed \in Operation /\ failed.phase = "clone" /\ failed.kind = op[p].kind
      /\ failed.paths = op[p].paths /\ failed.root = op[p].root
      /\ failed.committed = op[p].committed /\ failed.failed
      /\ failed.mf = op[p].mf /\ failed.lk = op[p].lk
  BY <1>1, <1>2 DEF Operation
<1>5. /\ done \in Operation /\ done.phase = "clone" /\ done.kind = op[p].kind
      /\ done.paths = op[p].paths /\ done.root = op[p].root
      /\ done.committed = op[p].committed /\ done.failed = op[p].failed
      /\ done.todo = op[p].todo \ {m} /\ done.mf = mf /\ done.lk = lk
  BY <1>1, <1>2, <1>3 DEF Operation
<1> HIDE DEF failed, done
<1>6. PICK o \in Operation :
        /\ op'[p] = o /\ Moved(p)
        /\ o = failed \/ (o = done /\ place' = [place EXCEPT ![m] = Cloned])
  <2>1. op \in [Process -> Operation]
    BY <1>1 DEF TypeOK
  <2>2. CASE Goes(p, failed)
    BY <1>4, <2>1, <2>2, GoesMoves
  <2>3. CASE Goes(p, done) /\ place' = [place EXCEPT ![m] = Cloned]
    BY <1>5, <2>1, <2>3, GoesMoves
  <2> QED
    BY <1>2, <2>2, <2>3
<1>7. /\ o.phase = "clone" /\ o.kind = op[p].kind /\ o.kind = "init"
      /\ ~o.committed /\ ~o.root
      /\ DOMAIN op[p].mf = DOMAIN op[p].lk => DOMAIN o.mf = DOMAIN o.lk
  <2>1. Course(p)
    BY DEF Typed
  <2>2. op[p].kind = "init" /\ ~op[p].committed /\ ~op[p].root
    BY <1>2, <2>1 DEF Course
  <2>3. CASE o = failed
    BY <1>4, <2>2, <2>3
  <2>4. CASE o = done
    <3>1. DOMAIN op[p].mf = DOMAIN op[p].lk => DOMAIN o.mf = DOMAIN o.lk
      BY <1>3, <1>5, <2>4
    <3> QED
      BY <1>5, <2>2, <2>4, <3>1
  <2> QED
    BY <1>6, <2>3, <2>4
<1>8. place' \in [Path -> {Absent, Files} \cup Repo]
  BY <1>1, <1>2, ReposType DEF TypeOK
<1>9. Course(p)'
  BY <1>6, <1>7 DEF Course, AtRest
<1>10. ASSUME alone[p] PROVE Lives(p)' /\ Clears(p)'
  <2>1. Lives(p) /\ Clears(p)
    BY <1>2, <1>10 DEF Solo
  <2>2. \A n \in DOMAIN op[p].lk : place[n] = Cloned /\ op[p].lk[n] = Cloned.commit
    BY <1>2, <2>1 DEF Lives
  <2>3. \A n \in DOMAIN o.lk : place'[n] = Cloned /\ o.lk[n] = Cloned.commit
    <3>1. DOMAIN op[p].lk \subseteq Path
      BY <1>1, MapDomain DEF Operation
    <3>2. \A n \in DOMAIN op[p].lk : place'[n] = Cloned
      BY <1>1, <1>2, <2>2, <3>1 DEF TypeOK
    <3>3. CASE o = failed
      BY <1>4, <2>2, <3>2, <3>3
    <3>4. CASE o = done /\ place' = [place EXCEPT ![m] = Cloned]
      <4>1. place'[m] = Cloned
        BY <1>1, <1>6, <3>4 DEF TypeOK
      <4> QED
        BY <1>3, <1>5, <2>2, <3>2, <3>4, <4>1
    <3> QED
      BY <1>6, <3>3, <3>4
  <2>4. ~o.failed => o.paths \ o.todo \subseteq DOMAIN o.lk
    BY <1>2, <1>3, <1>4, <1>5, <1>6, <2>1 DEF Lives
  <2>5. Lives(p)'
    BY <1>6, <1>7, <2>3, <2>4 DEF Lives
  <2> QED
    BY <1>2, <1>6, <1>7, <2>1, <2>5 DEF Clears
<1>11. ASSUME ~overlapped, stops = 0 PROVE Follows(p)'
  <2>1. Follows(p)
    BY <1>11 DEF Agreed
  <2> QED
    BY <1>2, <1>6, <1>7, <2>1, SameAgree DEF Follows
<1> QED
  BY <1>2, <1>6, <1>7, <1>8, <1>9, <1>10, <1>11, MemberRecords DEF AtRest

\* A failed init has removed what it has passed.
LEMMA RemoveCloneRecords ==
  ASSUME Records, IInv', NEW p \in Process, NEW m \in Path, RemoveClone(p, m)
  PROVE  Records'
<1> DEFINE o == [op[p] EXCEPT !.todo = @ \ {m}]
<1> USE DEF Records
<1>1. TypeOK /\ op[p] \in Operation /\ op \in [Process -> Operation]
  BY DEF Typed, TypeOK
<1>2. /\ op[p].phase = "rollback" /\ Running(p) /\ m \in op[p].todo
      /\ UNCHANGED <<manifest, lock, temp, root>> /\ place' = Removed(m)
      /\ Ends(p, "rejected") \/ Goes(p, o)
  BY DEF RemoveClone, Running, AtRest
<1>3. /\ place' \in [Path -> {Absent, Files} \cup Repo] /\ place'[m] = Absent
      /\ \A n \in Path : place[n] = Absent => place'[n] = Absent
  BY <1>1, <1>2 DEF TypeOK, Removed, Under
<1>4. ASSUME ~overlapped, stops = 0
      PROVE  Agree /\ manifest = NoFile /\ DOMAIN op[p].mf = DOMAIN op[p].lk
  BY <1>2, <1>4 DEF Agreed, Follows
<1>5. CASE Ends(p, "rejected")
  BY <1>2, <1>3, <1>4, <1>5, EndsRecords DEF AtRest
<1>6. CASE Goes(p, o)
  <2>1. /\ o \in Operation /\ o.phase = "rollback" /\ o.kind = op[p].kind
        /\ o.paths = op[p].paths /\ o.todo = op[p].todo \ {m}
        /\ o.root = op[p].root /\ o.committed = op[p].committed
        /\ o.mf = op[p].mf /\ o.lk = op[p].lk
    BY <1>1, <1>2 DEF Operation
  <2> HIDE DEF o
  <2>2. op'[p] = o /\ Moved(p)
    BY <1>1, <1>6, <2>1, GoesMoves
  <2>3. op[p].kind = "init" /\ ~op[p].committed /\ ~op[p].root
    BY <1>2 DEF Typed, Course
  <2>4. Course(p)'
    BY <2>1, <2>2, <2>3 DEF Course, AtRest
  <2>5. ASSUME alone[p] PROVE Lives(p)' /\ Clears(p)'
    <3>1. manifest = NoFile /\ \A n \in op[p].paths \ op[p].todo : place[n] = Absent
      BY <1>2, <2>5 DEF Solo, Clears
    <3>2. op[p].paths \subseteq Path
      BY <1>1 DEF Operation
    <3>3. \A n \in o.paths \ o.todo : place'[n] = Absent
      BY <1>3, <2>1, <3>1, <3>2
    <3> QED
      BY <1>2, <2>1, <2>2, <3>1, <3>3 DEF Lives, Clears
  <2>6. ~overlapped /\ stops = 0 => Follows(p)'
    BY <1>2, <1>4, <2>1, <2>2, SameAgree DEF Follows
  <2> QED
    BY <1>2, <1>3, <2>1, <2>2, <2>4, <2>5, <2>6, MemberRecords DEF AtRest
<1> QED
  BY <1>2, <1>5, <1>6

\* The manifest it will write has the members there are, and the new one.
LEMMA MakeRepoRecords ==
  ASSUME Records, IInv', NEW p \in Process, NEW m \in Path, MakeRepo(p, m)
  PROVE  Records'
<1> DEFINE mf   == Inserted(Entry(m, Fresh.remote), op[p].mf)
           seen == Entry(m, Fresh.commit)
           o    == [op[p] EXCEPT !.phase = "merge", !.mf = mf, !.seen = seen]
<1> USE DEF Records
<1>1. TypeOK /\ op[p] \in Operation /\ op \in [Process -> Operation]
  BY DEF Typed, TypeOK
<1>2. /\ op[p].phase = "make" /\ Running(p) /\ m \in op[p].paths
      /\ UNCHANGED <<manifest, lock, temp, root>>
      /\ place' \in {place, [place EXCEPT ![m] = Fresh]}
      /\ \/ Ends(p, "rejected")
         \/ Goes(p, o) /\ place' = [place EXCEPT ![m] = Fresh]
  BY DEF MakeRepo, Running, AtRest
<1>3. place' \in [Path -> {Absent, Files} \cup Repo]
  BY <1>1, <1>2, ReposType DEF TypeOK
<1>4. ASSUME ~overlapped, stops = 0
      PROVE  Agree /\ manifest # NoFile /\ op[p].mf = manifest
  BY <1>2, <1>4 DEF Agreed, Follows
<1>5. CASE Ends(p, "rejected")
  BY <1>2, <1>3, <1>4, <1>5, EndsRecords DEF AtRest
<1>6. CASE Goes(p, o) /\ place' = [place EXCEPT ![m] = Fresh]
  <2>1. mf \in Maps(BOOLEAN) /\ seen \in Maps(0..MaxCommits)
    <3>1. PICK f \in Maps(BOOLEAN) : f = op[p].mf
      BY <1>1 DEF Operation
    <3>2. PICK b \in BOOLEAN, c \in 0..MaxCommits : b = Fresh.remote /\ c = Fresh.commit
      BY ReposType
    <3>3. Inserted(Entry(m, b), f) \in Maps(BOOLEAN)
      BY PutMap
    <3>4. Entry(m, c) \in Maps(0..MaxCommits)
      BY EntryMap
    <3> QED
      BY <3>1, <3>2, <3>3, <3>4
  <2>2. /\ DOMAIN mf = {m} \cup DOMAIN op[p].mf
        /\ DOMAIN seen = {m} /\ seen[m] = Fresh.commit
    BY DEF Inserted, Entry
  <2> HIDE DEF mf, seen
  <2>3. /\ o \in Operation /\ o.phase = "merge" /\ o.kind = op[p].kind
        /\ o.paths = op[p].paths /\ o.root = op[p].root /\ o.committed = op[p].committed
        /\ o.mf = mf /\ o.seen = seen
    BY <1>1, <2>1 DEF Operation, Phases
  <2> HIDE DEF o
  <2>4. op'[p] = o /\ Moved(p)
    BY <1>1, <1>6, <2>3, GoesMoves
  <2>5. op[p].kind = "create_repo" /\ ~op[p].committed /\ ~op[p].root
    BY <1>2 DEF Typed, Course
  <2>6. Course(p)'
    BY <2>3, <2>4, <2>5 DEF Course, AtRest
  <2>7. ASSUME alone[p] PROVE Lives(p)' /\ Clears(p)'
    <3>1. op[p].paths = {m}
      BY <1>2 DEF Typed, Course
    <3>2. place'[m].commit = Fresh.commit
      BY <1>1, <1>6 DEF TypeOK
    <3>3. \A n \in o.paths : n \in DOMAIN seen /\ seen[n] = place'[n].commit
      BY <2>2, <2>3, <3>1, <3>2
    <3> QED
      BY <2>3, <2>4, <3>3 DEF Lives, Live, Clears
  <2>8. ~overlapped /\ stops = 0 => Follows(p)'
    BY <1>2, <1>4, <2>2, <2>3, <2>4, <2>5, SameAgree DEF Follows, Members
  <2> QED
    BY <1>2, <1>3, <2>3, <2>4, <2>6, <2>7, <2>8, MemberRecords DEF AtRest
<1> QED
  BY <1>2, <1>5, <1>6

LEMMA CommitMemberRecords ==
  ASSUME Records, IInv', NEW p \in Process, NEW m \in Path, CommitMember(p, m)
  PROVE  Records'
<1> DEFINE o == [op[p] EXCEPT !.todo = @ \ {m}, !.committed = @ \/ place[m].staged]
<1> USE DEF Records
<1>1. TypeOK /\ op[p] \in Operation /\ op \in [Process -> Operation]
  BY DEF Typed, TypeOK
<1>2. /\ op[p].phase = "commit" /\ Running(p)
      /\ UNCHANGED <<manifest, lock, temp, root>>
      /\ \/ Ends(p, "rejected") /\ place' = place
         \/ /\ IsRepo(m) /\ (place[m].staged => place[m].commit < MaxCommits)
            /\ place' = IF place[m].staged
                          THEN [place EXCEPT ![m].commit = @ + 1, ![m].staged = FALSE]
                          ELSE place
            /\ Goes(p, o)
  BY DEF CommitMember, Running, AtRest
<1>3. ASSUME ~overlapped, stops = 0 PROVE Agree /\ op[p].paths \subseteq Members
  BY <1>2, <1>3 DEF Agreed, Follows
<1>4. CASE Ends(p, "rejected") /\ place' = place
  BY <1>1, <1>2, <1>3, <1>4, EndsRecords DEF AtRest, TypeOK
<1>5. CASE /\ IsRepo(m) /\ (place[m].staged => place[m].commit < MaxCommits)
           /\ place' = IF place[m].staged
                         THEN [place EXCEPT ![m].commit = @ + 1, ![m].staged = FALSE]
                         ELSE place
           /\ Goes(p, o)
  <2>1. place[m] \in Repo /\ place[m].staged \in BOOLEAN
    BY <1>1, <1>5 DEF TypeOK, IsRepo, Repo
  <2>2. place' \in [Path -> {Absent, Files} \cup Repo]
    <3>1. CASE place[m].staged
      <4>1. PICK r : r = [place[m] EXCEPT !.commit = @ + 1, !.staged = FALSE]
        OBVIOUS
      <4>2. r \in Repo
        <5>1. place[m].commit + 1 \in 0..MaxCommits
          BY <1>5, <2>1, <3>1, RegistryAssumption DEF Repo
        <5> QED
          BY <2>1, <4>1, <5>1 DEF Repo
      <4>3. place' = [place EXCEPT ![m] = r]
        BY <1>1, <1>5, <3>1, <4>1 DEF TypeOK
      <4> QED
        BY <1>1, <4>2, <4>3 DEF TypeOK
    <3> QED
      BY <1>1, <1>5, <3>1 DEF TypeOK
  <2>3. /\ o \in Operation /\ o.phase = "commit" /\ o.kind = op[p].kind
        /\ o.paths = op[p].paths /\ o.lk = op[p].lk
    BY <1>1, <1>2, <2>1 DEF Operation
  <2> HIDE DEF o
  <2>4. op'[p] = o /\ Moved(p)
    BY <1>1, <1>5, <2>3, GoesMoves
  <2>5. Course(p)
    BY DEF Typed
  <2>6. Course(p)'
    BY <1>2, <2>3, <2>4, <2>5 DEF Course, AtRest
  <2>7. Lives(p)' /\ Clears(p)'
    BY <2>3, <2>4 DEF Lives, Clears
  <2>8. ~overlapped /\ stops = 0 => Follows(p)'
    BY <1>2, <1>3, <2>3, <2>4, SameAgree DEF Follows, Members
  <2> QED
    BY <1>2, <2>2, <2>3, <2>4, <2>6, <2>7, <2>8, MemberRecords DEF AtRest
<1> QED
  BY <1>2, <1>4, <1>5

LEMMA AfterClonesRecords ==
  ASSUME Records, IInv', NEW p \in Process, AfterClones(p)
  PROVE  Records'
<1> DEFINE o == IF op[p].failed
                  THEN [op[p] EXCEPT !.phase = "rollback", !.todo = op[p].paths]
                  ELSE [op[p] EXCEPT !.phase = "stage"]
<1> USE DEF Records
<1>1. TypeOK /\ op[p] \in Operation /\ op \in [Process -> Operation]
  BY DEF Typed, TypeOK
<1>2. /\ op[p].phase = "clone" /\ Running(p) /\ op[p].todo = {}
      /\ UNCHANGED <<manifest, lock, temp, root, place>> /\ Goes(p, o)
  BY DEF AfterClones, Running, AtRest
<1>3. /\ o \in Operation /\ o.kind = op[p].kind /\ o.paths = op[p].paths
      /\ o.root = op[p].root /\ o.committed = op[p].committed
      /\ o.mf = op[p].mf /\ o.lk = op[p].lk
      /\ \/ op[p].failed /\ o.phase = "rollback" /\ o.todo = o.paths
         \/ ~op[p].failed /\ o.phase = "stage"
  BY <1>1 DEF Operation, Phases
<1> HIDE DEF o
<1>4. op'[p] = o /\ Moved(p)
  BY <1>1, <1>2, <1>3, GoesMoves
<1>5. op[p].kind = "init" /\ ~op[p].committed /\ ~op[p].root
  BY <1>2 DEF Typed, Course
<1>6. Course(p)'
  BY <1>3, <1>4, <1>5 DEF Course, AtRest
<1>7. ASSUME alone[p] PROVE Lives(p)' /\ Clears(p)'
  <2>1. Lives(p) /\ Clears(p)
    BY <1>2, <1>7 DEF Solo
  <2>2. ~op[p].failed => \A m \in o.paths : o.lk[m] = place[m].commit
    BY <1>2, <1>3, <2>1 DEF Lives
  <2>3. Lives(p)'
    BY <1>2, <1>3, <1>4, <2>2 DEF Lives, Live
  <2> QED
    BY <1>2, <1>3, <1>4, <2>1, <2>3 DEF Clears
<1>8. ASSUME ~overlapped, stops = 0 PROVE Follows(p)'
  <2>1. Agree /\ manifest = NoFile /\ DOMAIN op[p].mf = DOMAIN op[p].lk
    BY <1>2, <1>8 DEF Agreed, Follows
  <2> QED
    BY <1>2, <1>3, <1>4, <1>5, <2>1, SameAgree DEF Follows
<1> QED
  BY <1>1, <1>2, <1>3, <1>4, <1>6, <1>7, <1>8, MemberRecords DEF AtRest, TypeOK

\* What a commit observes is where its commits have left the members.
LEMMA AfterCommitsRecords ==
  ASSUME Records, IInv', NEW p \in Process, AfterCommits(p)
  PROVE  Records'
<1> DEFINE seen == Observed(op[p].paths, op[p].lk)
           o    == IF op[p].committed THEN [op[p] EXCEPT !.phase = "merge", !.seen = seen]
                                      ELSE [op[p] EXCEPT !.phase = "root"]
<1> USE DEF Records
<1>1. TypeOK /\ op[p] \in Operation /\ op \in [Process -> Operation]
  BY DEF Typed, TypeOK
<1>2. /\ op[p].phase = "commit" /\ Running(p)
      /\ UNCHANGED <<manifest, lock, temp, root, place>> /\ Goes(p, o)
  BY DEF AfterCommits, Running, AtRest
<1>3. op[p].kind = "commit" /\ op[p].paths \subseteq DOMAIN op[p].lk /\ manifest # NoFile
  BY <1>2 DEF Typed, Course, AtRest
<1>4. seen \in Maps(0..MaxCommits)
  <2>1. /\ op[p].paths \in SUBSET Path /\ op[p].lk \in Maps(0..MaxCommits)
        /\ place \in [Path -> {Absent, Files} \cup Repo]
    BY <1>1 DEF TypeOK, Operation
  <2> QED
    BY <1>3, <2>1, ObservedMap
<1>5. /\ DOMAIN seen = op[p].paths
      /\ \A m \in op[p].paths : IsRepo(m) => seen[m] = place[m].commit
  BY DEF Observed
<1> HIDE DEF seen
<1>6. /\ o \in Operation /\ o.kind = op[p].kind /\ o.paths = op[p].paths
      /\ o.committed = op[p].committed
      /\ \/ op[p].committed /\ o.phase = "merge" /\ o.seen = seen
         \/ ~op[p].committed /\ o.phase = "root"
  BY <1>1, <1>4 DEF Operation, Phases
<1> HIDE DEF o
<1>7. op'[p] = o /\ Moved(p)
  BY <1>1, <1>2, <1>6, GoesMoves
<1>8. Course(p)'
  BY <1>2, <1>3, <1>6, <1>7 DEF Course, AtRest
<1>9. Lives(p)' /\ Clears(p)'
  BY <1>2, <1>5, <1>6, <1>7 DEF Lives, Live, Clears, IsRepo
<1>10. ASSUME ~overlapped, stops = 0 PROVE Follows(p)'
  <2>1. Agree /\ op[p].paths \subseteq Members
    BY <1>2, <1>10 DEF Agreed, Follows
  <2> QED
    BY <1>2, <1>3, <1>5, <1>6, <1>7, <2>1, SameAgree DEF Follows, Members
<1> QED
  BY <1>1, <1>2, <1>6, <1>7, <1>8, <1>9, <1>10, MemberRecords DEF AtRest, TypeOK

LEMMA CommitRootRecords ==
  ASSUME Records, IInv', NEW p \in Process, CommitRoot(p)
  PROVE  Records'
<1> USE DEF Records
<1>1. TypeOK /\ DOMAIN root = {"index", "head", "ignored"}
  BY DEF Typed
<1>2. /\ op[p].phase = "root" /\ Running(p) /\ Ends(p, "ok")
      /\ UNCHANGED <<manifest, lock, temp, place>>
      /\ root' = IF op[p].root THEN [root EXCEPT !.head = root.index] ELSE root
  BY DEF CommitRoot, Running, AtRest
<1>3. DOMAIN root' = DOMAIN root /\ root'.ignored = root.ignored /\ root'.index = root.index
  BY <1>1, <1>2
<1>4. /\ Moved(p) /\ op'[p].phase \in AtRest /\ op'[p].kind = "create"
      /\ ~op'[p].committed /\ ~op'[p].root
  BY <1>1, <1>2, EndsMoves DEF TypeOK, AtRest
<1>5. Course(p)' /\ Follows(p)'
  BY <1>4 DEF Course, Follows, AtRest
<1>6. ASSUME ~overlapped, stops = 0 PROVE Agree'
  <2>1. Agree
    BY <1>2, <1>6 DEF Agreed, Follows
  <2> QED
    BY <1>2, <1>3, <2>1 DEF Agree, Members
<1> QED
  BY <1>1, <1>2, <1>3, <1>4, <1>5, <1>6, WorkRecords DEF Typed, TypeOK

\* What was observed goes over what the lock has.
LEMMA MergeLockRecords ==
  ASSUME Records, IInv', NEW p \in Process, MergeLock(p)
  PROVE  Records'
<1> DEFINE lk == Inserted(op[p].seen, LockOrEmpty)
           o  == [op[p] EXCEPT !.phase = "stage", !.lk = lk]
<1> USE DEF Records
<1>1. TypeOK /\ op[p] \in Operation /\ op \in [Process -> Operation]
  BY DEF Typed, TypeOK
<1>2. /\ op[p].phase = "merge" /\ Running(p)
      /\ UNCHANGED <<manifest, lock, temp, root, place>> /\ Goes(p, o)
  BY DEF MergeLock, Running, AtRest
<1>3. lk \in Maps(0..MaxCommits)
  <2>1. PICK f \in Maps(0..MaxCommits) : f = op[p].seen
    BY <1>1 DEF Operation
  <2>2. PICK g \in Maps(0..MaxCommits) : g = LockOrEmpty
    <3>1. <<>> \in Maps(0..MaxCommits)
      BY EmptyMap
    <3> QED
      BY <1>1, <3>1 DEF TypeOK, LockOrEmpty
  <2>3. Inserted(f, g) \in Maps(0..MaxCommits)
    BY InsertedMap
  <2> QED
    BY <2>1, <2>2, <2>3
<1>4. /\ DOMAIN lk = DOMAIN op[p].seen \cup DOMAIN LockOrEmpty
      /\ \A m \in DOMAIN op[p].seen : lk[m] = op[p].seen[m]
  BY DEF Inserted
<1>5. lock # NoFile => LockOrEmpty = lock
  BY DEF LockOrEmpty
<1> HIDE DEF lk
<1>6. /\ o \in Operation /\ o.phase = "stage" /\ o.kind = op[p].kind /\ o.paths = op[p].paths
      /\ o.root = op[p].root /\ o.committed = op[p].committed
      /\ o.mf = op[p].mf /\ o.lk = lk
  BY <1>1, <1>3 DEF Operation, Phases
<1> HIDE DEF o
<1>7. op'[p] = o /\ Moved(p)
  BY <1>1, <1>2, <1>6, GoesMoves
<1>8. Course(p)
  BY DEF Typed
<1>9. Course(p)'
  BY <1>2, <1>6, <1>7, <1>8 DEF Course, AtRest
<1>10. ASSUME alone[p] PROVE Lives(p)' /\ Clears(p)'
  <2>1. op[p].paths \subseteq DOMAIN op[p].seen /\ Live(p, op[p].seen)
    BY <1>2, <1>10 DEF Solo, Lives
  <2>2. \A m \in o.paths : IsRepo(m) => lk[m] = place[m].commit
    BY <1>4, <1>6, <2>1 DEF Live
  <2> QED
    BY <1>2, <1>6, <1>7, <2>2 DEF Lives, Live, Clears, IsRepo
<1>11. ASSUME ~overlapped, stops = 0 PROVE Follows(p)'
  <2>1. /\ Agree /\ manifest # NoFile
        /\ IF op[p].kind \in {"create_repo", "add"}
             THEN DOMAIN op[p].mf = Members \cup DOMAIN op[p].seen
             ELSE DOMAIN op[p].seen \subseteq Members
    BY <1>2, <1>11 DEF Agreed, Follows
  <2>2. DOMAIN lk = DOMAIN op[p].seen \cup Members
    BY <1>4, <1>5, <2>1 DEF Agree
  <2>3. op[p].kind \in {"create_repo", "add", "capture", "commit"}
    BY <1>2, <1>8 DEF Course
  <2>4. Agree'
    BY <1>2, <2>1, SameAgree
  <2>5. CASE op[p].kind \in {"create_repo", "add"}
    BY <1>2, <1>6, <1>7, <2>1, <2>2, <2>4, <2>5 DEF Follows, Members
  <2>6. CASE op[p].kind \in {"capture", "commit"}
    BY <1>2, <1>6, <1>7, <2>1, <2>2, <2>4, <2>6 DEF Follows, Members
  <2> QED
    BY <2>3, <2>5, <2>6
<1> QED
  BY <1>1, <1>2, <1>6, <1>7, <1>9, <1>10, <1>11, MemberRecords DEF AtRest, TypeOK

LEMMA StageRecords ==
  ASSUME Records, IInv', NEW p \in Process, Stage(p)
  PROVE  Records'
<1> DEFINE k == op[p].kind
           o == [op[p] EXCEPT !.phase = IF WritesManifest(k) THEN "manifest" ELSE "lock"]
<1> USE DEF Records
<1>1. TypeOK /\ op[p] \in Operation /\ op \in [Process -> Operation]
  BY DEF Typed, TypeOK
<1>2. /\ op[p].phase = "stage" /\ Running(p)
      /\ UNCHANGED <<manifest, lock, root, place>> /\ Goes(p, o)
      /\ temp' = [manifest |-> IF WritesManifest(k)
                                THEN [temp.manifest EXCEPT ![p] = op[p].mf]
                                ELSE temp.manifest,
                  lock |-> IF WritesLock(k)
                             THEN [temp.lock EXCEPT ![p] = op[p].lk]
                             ELSE temp.lock]
  BY DEF Stage, TempName, Running, AtRest
<1>3. /\ temp' \in [manifest : [Process -> {NoFile} \cup Maps(BOOLEAN)],
                    lock : [Process -> {NoFile} \cup Maps(0..MaxCommits)]]
      /\ \A q \in Process \ {p} :
           temp'.manifest[q] = temp.manifest[q] /\ temp'.lock[q] = temp.lock[q]
      /\ WritesManifest(k) => temp'.manifest[p] = op[p].mf
      /\ WritesLock(k) => temp'.lock[p] = op[p].lk
  <2>1. op[p].mf \in Maps(BOOLEAN) /\ op[p].lk \in Maps(0..MaxCommits)
    BY <1>1 DEF Operation
  <2> QED
    BY <1>1, <1>2, <2>1 DEF TypeOK
<1>4. /\ o \in Operation /\ o.kind = k /\ o.paths = op[p].paths
      /\ o.root = op[p].root /\ o.committed = op[p].committed
      /\ o.mf = op[p].mf /\ o.lk = op[p].lk
      /\ \/ WritesManifest(k) /\ o.phase = "manifest"
         \/ ~WritesManifest(k) /\ o.phase = "lock"
  BY <1>1 DEF Operation, Phases
<1> HIDE DEF o
<1>5. op'[p] = o /\ Moved(p)
  BY <1>1, <1>2, <1>4, GoesMoves
<1>6. Course(p) /\ (k \notin {"capture", "commit"} => WritesManifest(k))
      /\ (k \in {"capture", "commit"} => WritesLock(k) /\ ~WritesManifest(k))
  BY <1>1 DEF Typed, Operation, Kinds, WritesManifest, WritesLock
<1>7. Course(p)'
  BY <1>2, <1>3, <1>4, <1>5, <1>6 DEF Course, AtRest
<1>8. ASSUME alone[p] PROVE Lives(p)' /\ Clears(p)'
  <2>1. k # "repo_sync" => \A m \in o.paths : IsRepo(m) => o.lk[m] = place[m].commit
    BY <1>2, <1>4, <1>8 DEF Solo, Lives, Live
  <2> QED
    BY <1>2, <1>4, <1>5, <2>1 DEF Lives, Live, Clears, IsRepo
<1>9. ASSUME ~overlapped, stops = 0 PROVE Follows(p)'
  <2>1. Follows(p) /\ (Agree' <=> Agree) /\ Members' = Members
    BY <1>2, <1>9, SameAgree DEF Agreed, Members
  <2>2. CASE k = "repo_sync"
    BY <1>2, <1>4, <1>5, <1>6, <2>1, <2>2 DEF Follows
  <2>3. CASE k \in {"capture", "commit"}
    BY <1>2, <1>4, <1>5, <1>6, <2>1, <2>3 DEF Follows
  <2>4. CASE k \notin {"repo_sync", "capture", "commit"}
    BY <1>2, <1>4, <1>5, <1>6, <2>1, <2>4 DEF Follows
  <2> QED
    BY <2>2, <2>3, <2>4
<1> QED
  BY <1>1, <1>2, <1>3, <1>4, <1>5, <1>7, <1>8, <1>9, WorkRecords DEF AtRest, Typed, TypeOK

\* The manifest that is published is the one that was staged.
LEMMA PublishManifestRecords ==
  ASSUME Records, IInv', NEW p \in Process, PublishManifest(p)
  PROVE  Records'
<1> DEFINE o == [op[p] EXCEPT !.phase = "lock"]
<1> USE DEF Records
<1>1. TypeOK /\ op[p] \in Operation /\ op \in [Process -> Operation]
  BY DEF Typed, TypeOK
<1>2. /\ op[p].phase = "manifest" /\ Running(p) /\ UNCHANGED <<lock, root, place>>
      /\ temp.manifest[p] # NoFile /\ manifest' = temp.manifest[p]
      /\ temp' = [temp EXCEPT !.manifest[p] = NoFile]
      /\ \/ WritesLock(op[p].kind) /\ Goes(p, o)
         \/ ~WritesLock(op[p].kind) /\ Ends(p, "ok")
  BY DEF PublishManifest, TempName, Running, AtRest
<1>3. /\ WritesManifest(op[p].kind) /\ temp.manifest[p] = op[p].mf
      /\ WritesLock(op[p].kind) => temp.lock[p] = op[p].lk
      /\ op[p].kind # "commit" /\ ~op[p].committed /\ ~op[p].root
  <2>1. Course(p)
    BY DEF Typed
  <2> QED
    BY <1>2, <2>1 DEF Course, WritesManifest
<1>4. /\ manifest' \in Maps(BOOLEAN) /\ manifest' = op[p].mf /\ manifest' # NoFile
      /\ temp' \in [manifest : [Process -> {NoFile} \cup Maps(BOOLEAN)],
                    lock : [Process -> {NoFile} \cup Maps(0..MaxCommits)]]
      /\ temp'.lock = temp.lock
      /\ \A q \in Process \ {p} : temp'.manifest[q] = temp.manifest[q]
  <2>1. op[p].mf \in Maps(BOOLEAN)
    BY <1>1 DEF Operation
  <2> QED
    BY <1>1, <1>2, <1>3, <2>1 DEF TypeOK
<1>5. ASSUME ~overlapped, stops = 0
      PROVE  IF op[p].kind = "repo_sync"
               THEN Agree /\ manifest # NoFile /\ DOMAIN op[p].mf = Members
               ELSE DOMAIN op[p].mf = DOMAIN op[p].lk
  <2>1. Follows(p) /\ op[p].kind \notin {"capture", "commit"}
    BY <1>3, <1>5 DEF Agreed, WritesManifest
  <2> QED
    BY <1>2, <2>1 DEF Follows
<1>6. CASE WritesLock(op[p].kind) /\ Goes(p, o)
  <2>1. /\ o \in Operation /\ o.phase = "lock" /\ o.kind = op[p].kind
        /\ o.paths = op[p].paths /\ o.root = op[p].root
        /\ o.committed = op[p].committed /\ o.lk = op[p].lk
    BY <1>1 DEF Operation, Phases
  <2> HIDE DEF o
  <2>2. op'[p] = o /\ Moved(p)
    BY <1>1, <1>6, <2>1, GoesMoves
  <2>3. Course(p)'
    BY <1>3, <1>4, <1>6, <2>1, <2>2 DEF Course, AtRest
  <2>4. ASSUME alone[p] PROVE Lives(p)' /\ Clears(p)'
    <3>1. \A m \in o.paths : IsRepo(m) => o.lk[m] = place[m].commit
      BY <1>2, <1>6, <2>1, <2>4 DEF Solo, Lives, Live, WritesLock
    <3> QED
      BY <1>2, <2>1, <2>2, <3>1 DEF Lives, Live, Clears, IsRepo
  <2>5. ~overlapped /\ stops = 0 => Follows(p)'
    BY <1>4, <1>5, <1>6, <2>1, <2>2 DEF Follows, Members, WritesLock
  <2> QED
    BY <1>1, <1>2, <1>4, <2>1, <2>2, <2>3, <2>4, <2>5, WorkRecords DEF AtRest, Typed, TypeOK
<1>7. CASE ~WritesLock(op[p].kind) /\ Ends(p, "ok")
  <2>1. /\ Moved(p) /\ op'[p].phase \in AtRest /\ op'[p].kind = "create"
        /\ ~op'[p].committed /\ ~op'[p].root
    BY <1>1, <1>7, EndsMoves DEF AtRest
  <2>2. Course(p)' /\ Follows(p)'
    BY <2>1 DEF Course, Follows, AtRest
  <2>3. ASSUME ~overlapped, stops = 0 PROVE Agree'
    <3>1. Agree /\ manifest # NoFile /\ DOMAIN op[p].mf = Members
      BY <1>5, <1>7, <2>3 DEF WritesLock
    <3> QED
      BY <1>2, <1>4, <3>1 DEF Agree, Members
  <2> QED
    BY <1>1, <1>2, <1>4, <2>1, <2>2, <2>3, WorkRecords DEF Typed, TypeOK
<1> QED
  BY <1>2, <1>6, <1>7

LEMMA PublishLockRecords ==
  ASSUME Records, IInv', NEW p \in Process, PublishLock(p)
  PROVE  Records'
<1> DEFINE o == [op[p] EXCEPT !.phase = "boundary"]
<1> USE DEF Records
<1>1. TypeOK /\ op[p] \in Operation /\ op \in [Process -> Operation]
  BY DEF Typed, TypeOK
<1>2. /\ op[p].phase = "lock" /\ Running(p) /\ UNCHANGED <<manifest, root, place>>
      /\ temp.lock[p] # NoFile /\ lock' = temp.lock[p] /\ Goes(p, o)
      /\ temp' = [temp EXCEPT !.lock[p] = NoFile]
  BY DEF PublishLock, TempName, Running, AtRest
<1>3. Course(p) /\ temp.lock[p] = op[p].lk /\ WritesLock(op[p].kind) /\ manifest # NoFile
  <2>1. Course(p)
    BY DEF Typed
  <2> QED
    BY <1>2, <2>1 DEF Course
<1>4. /\ lock' \in Maps(0..MaxCommits) /\ lock' = op[p].lk /\ lock' # NoFile
      /\ temp' \in [manifest : [Process -> {NoFile} \cup Maps(BOOLEAN)],
                    lock : [Process -> {NoFile} \cup Maps(0..MaxCommits)]]
      /\ temp'.manifest = temp.manifest
      /\ \A q \in Process \ {p} : temp'.lock[q] = temp.lock[q]
  <2>1. op[p].lk \in Maps(0..MaxCommits)
    BY <1>1 DEF Operation
  <2> QED
    BY <1>1, <1>2, <1>3, <2>1 DEF TypeOK
<1>5. /\ o \in Operation /\ o.phase = "boundary" /\ o.kind = op[p].kind
      /\ o.paths = op[p].paths /\ o.root = op[p].root
      /\ o.committed = op[p].committed /\ o.lk = op[p].lk
  BY <1>1 DEF Operation, Phases
<1> HIDE DEF o
<1>6. op'[p] = o /\ Moved(p)
  BY <1>1, <1>2, <1>5, GoesMoves
<1>7. Course(p)'
  BY <1>2, <1>3, <1>5, <1>6 DEF Course, AtRest
<1>8. ASSUME alone[p] PROVE Lives(p)' /\ Clears(p)'
  <2>1. \A m \in o.paths : IsRepo(m) => o.lk[m] = place[m].commit
    BY <1>2, <1>3, <1>5, <1>8 DEF Solo, Lives, Live, WritesLock
  <2> QED
    BY <1>2, <1>4, <1>5, <1>6, <2>1 DEF Lives, Live, Clears, IsRepo
<1>9. ASSUME ~overlapped, stops = 0 PROVE Follows(p)'
  <2>1. DOMAIN op[p].lk = Members
    BY <1>2, <1>9 DEF Agreed, Follows
  <2> QED
    BY <1>2, <1>3, <1>4, <1>5, <1>6, <2>1 DEF Follows, Members
<1> QED
  BY <1>1, <1>2, <1>3, <1>4, <1>5, <1>6, <1>7, <1>8, <1>9, WorkRecords DEF AtRest, Typed, TypeOK

\* The root is told of the lock that was written.
LEMMA SyncBoundaryRecords ==
  ASSUME Records, IInv', NEW p \in Process, SyncBoundary(p)
  PROVE  Records'
<1> DEFINE o == [op[p] EXCEPT !.phase = "root"]
<1> USE DEF Records
<1>1. TypeOK /\ op[p] \in Operation /\ op \in [Process -> Operation]
  BY DEF Typed, TypeOK
<1>2. /\ op[p].phase = "boundary" /\ Running(p) /\ UNCHANGED <<manifest, lock, temp, place>>
      /\ root' = [root EXCEPT !.ignored = DOMAIN op[p].lk, !.index = <<manifest, lock>>]
      /\ \/ op[p].kind = "commit" /\ Goes(p, o)
         \/ op[p].kind # "commit" /\ Ends(p, "ok")
  BY DEF SyncBoundary, Running, AtRest
<1>3. /\ DOMAIN root' = DOMAIN root /\ root'.ignored = DOMAIN op[p].lk
      /\ root'.index = <<manifest, lock>>
  BY <1>2 DEF Typed
<1>4. root'.ignored \subseteq Path
  <2>1. op[p].lk \in Maps(0..MaxCommits)
    BY <1>1 DEF Operation
  <2> QED
    BY <1>3, <2>1 DEF Maps
<1>5. Course(p) /\ manifest # NoFile
  BY <1>2 DEF Typed, Course
<1>6. ASSUME ~overlapped, stops = 0 PROVE Agree'
  <2>1. lock # NoFile /\ lock = op[p].lk /\ DOMAIN op[p].lk = Members
    BY <1>2, <1>6 DEF Agreed, Follows
  <2> QED
    BY <1>2, <1>3, <1>5, <2>1 DEF Agree, Members
<1>7. CASE op[p].kind = "commit" /\ Goes(p, o)
  <2>1. /\ o \in Operation /\ o.phase = "root" /\ o.kind = "commit"
        /\ o.paths = op[p].paths /\ o.lk = op[p].lk
    BY <1>1, <1>7 DEF Operation, Phases
  <2> HIDE DEF o
  <2>2. op'[p] = o /\ Moved(p)
    BY <1>1, <1>7, <2>1, GoesMoves
  <2>3. Course(p)'
    BY <1>2, <1>5, <2>1, <2>2 DEF Course, AtRest
  <2>4. ASSUME alone[p] PROVE Lives(p)' /\ Clears(p)'
    <3>1. \A m \in o.paths : IsRepo(m) => lock[m] = place[m].commit
      BY <1>2, <2>1, <2>4 DEF Solo, Lives, Live
    <3> QED
      BY <1>2, <1>3, <2>1, <2>2, <3>1 DEF Lives, Live, Clears, IsRepo
  <2>5. ~overlapped /\ stops = 0 => Follows(p)'
    BY <1>6, <2>1, <2>2 DEF Follows
  <2> QED
    BY <1>1, <1>2, <1>3, <1>4, <1>5, <2>1, <2>2, <2>3, <2>4, <2>5, WorkRecords
       DEF AtRest, Typed, TypeOK
<1>8. CASE op[p].kind # "commit" /\ Ends(p, "ok")
  <2>1. /\ Moved(p) /\ op'[p].phase \in AtRest /\ op'[p].kind = "create"
        /\ ~op'[p].committed /\ ~op'[p].root
    BY <1>1, <1>8, EndsMoves DEF AtRest
  <2>2. Course(p)' /\ Follows(p)'
    BY <2>1 DEF Course, Follows, AtRest
  <2> QED
    BY <1>1, <1>2, <1>3, <1>4, <1>5, <1>6, <2>1, <2>2, WorkRecords DEF Typed, TypeOK
<1> QED
  BY <1>2, <1>7, <1>8

-----------------------------------------------------------------------------
(* The operations begin, and everything else. *)

LEMMA BeginRecords ==
  ASSUME Records, IInv', NEW p \in Process, NEW o \in Operation, Begin(p, o),
         op'[p] = o => Course(p)',
         op'[p] = o => Lives(p)' /\ Clears(p)',
         op'[p] = o /\ Agree => Follows(p)'
  PROVE  Records'
<1> USE DEF Records
<1>1. TypeOK
  BY DEF Typed
<1>2. /\ UNCHANGED <<manifest, lock, temp, place, root, edits, stops>>
      /\ requests < MaxRequests /\ requests' = requests + 1
      /\ op' = [op EXCEPT ![p] = o] /\ ~Running(p)
      /\ overlapped' = (overlapped \/ \E q \in Process : Running(q))
      /\ alone' = [q \in Process |-> q = p /\ ~\E r \in Process : Running(r)]
  BY DEF Begin
<1>3. /\ op' \in [Process -> Operation] /\ op'[p] = o
      /\ \A q \in Process \ {p} : op'[q] = op[q]
  BY <1>1, <1>2 DEF TypeOK
<1>4. Typed'
  <2>1. requests' \in 0..MaxRequests /\ overlapped' \in BOOLEAN /\ alone' \in [Process -> BOOLEAN]
    <3>1. requests' \in 0..MaxRequests
      BY <1>1, <1>2, RegistryAssumption DEF TypeOK
    <3>2. overlapped' \in BOOLEAN
      BY <1>1, <1>2 DEF TypeOK
    <3>3. alone' \in [Process -> BOOLEAN]
      BY <1>2
    <3> QED
      BY <3>1, <3>2, <3>3
  <2>2. TypeOK'
    BY <1>1, <1>2, <1>3, <2>1 DEF TypeOK
  <2>3. ASSUME NEW q \in Process \ {p} PROVE Course(q)'
    <3>1. Course(q)
      BY DEF Typed
    <3> QED
      BY <1>2, <1>3, <3>1 DEF Course
  <2> QED
    BY <1>2, <1>3, <2>2, <2>3 DEF Typed
<1>5. Solo'
  <2>1. ASSUME NEW q \in Process, alone'[q] PROVE q = p /\ ~\E r \in Process : Running(r)
    BY <1>2, <2>1
  <2> QED
    BY <1>3, <2>1 DEF Solo, Running
<1>6. Agreed'
  <2> SUFFICES ASSUME ~overlapped', stops = 0
               PROVE  (\A q \in Process : Follows(q)') /\ Agree'
    BY <1>2 DEF Agreed
  <2>1. ~overlapped /\ \A q \in Process : ~Running(q)
    BY <1>2
  <2>2. Agree /\ Agree'
    BY <1>2, <2>1, SameAgree DEF Agreed
  <2>3. \A q \in Process \ {p} : Follows(q)'
    BY <1>3, <2>1 DEF Running, Follows, AtRest
  <2> QED
    BY <1>3, <2>2, <2>3
<1> QED
  BY <1>4, <1>5, <1>6

LEMMA RequestRecords ==
  ASSUME Records, IInv', NEW p \in Process, Request(p)
  PROVE  Records'
<1> USE DEF Records
<1>1. TypeOK
  BY DEF Typed
<1>2. ASSUME NEW o, Begin(p, o) PROVE UNCHANGED <<manifest, lock, temp, place, root>>
  BY <1>2 DEF Begin
<1>3. NoFile \notin Maps(BOOLEAN) /\ Agree <=> Agree
  BY RegistryAssumption
<1>4. ASSUME CreateWorkspace(p) PROVE Records'
  <2> DEFINE o == [Nothing EXCEPT !.phase = "stage"]
  <2>1. /\ o \in Operation /\ o.phase = "stage" /\ o.kind = "create" /\ o.paths = {}
        /\ o.mf = <<>> /\ o.lk = <<>> /\ ~o.committed /\ ~o.root
    BY NothingType DEF Nothing, Operation, Phases
  <2>2. Begin(p, o) /\ manifest = NoFile
    BY <1>4 DEF CreateWorkspace
  <2> HIDE DEF o
  <2>3. op'[p] = o => Course(p)' /\ Lives(p)' /\ Clears(p)'
    BY <2>1 DEF Course, Lives, Live, Clears, AtRest
  <2>4. op'[p] = o /\ Agree => Follows(p)'
    BY <1>2, <2>1, <2>2, SameAgree DEF Follows
  <2> QED
    BY <2>1, <2>2, <2>3, <2>4, BeginRecords
<1>5. ASSUME NEW S \in SUBSET Path, InitFromSources(p, S) PROVE Records'
  <2> DEFINE o == [Nothing EXCEPT !.phase = "clone", !.kind = "init", !.paths = S, !.todo = S]
  <2>1. /\ o \in Operation /\ o.phase = "clone" /\ o.kind = "init"
        /\ o.paths = S /\ o.todo = S
        /\ o.mf = <<>> /\ o.lk = <<>> /\ ~o.committed /\ ~o.root
    BY NothingType DEF Nothing, Operation, Phases, Kinds
  <2>2. Begin(p, o) /\ manifest = NoFile
    BY <1>5 DEF InitFromSources
  <2> HIDE DEF o
  <2>3. op'[p] = o => Course(p)' /\ Lives(p)' /\ Clears(p)'
    <3>1. DOMAIN o.lk = {} /\ o.paths \ o.todo = {}
      BY <2>1, EmptyMap
    <3> QED
      BY <1>2, <2>1, <2>2, <3>1 DEF Course, Lives, Clears, AtRest
  <2>4. op'[p] = o /\ Agree => Follows(p)'
    BY <1>2, <2>1, <2>2, SameAgree DEF Follows
  <2> QED
    BY <2>1, <2>2, <2>3, <2>4, BeginRecords
<1>6. ASSUME NEW m \in Path, CreateRepo(p, m) PROVE Records'
  <2> DEFINE o == [Nothing EXCEPT !.phase = "make", !.kind = "create_repo", !.paths = {m},
                                  !.mf = manifest]
  <2>1. manifest \in Maps(BOOLEAN) /\ manifest # NoFile
    BY <1>1, <1>6 DEF TypeOK, CreateRepo
  <2>2. /\ o \in Operation /\ o.phase = "make" /\ o.kind = "create_repo" /\ o.paths = {m}
        /\ o.mf = manifest /\ ~o.committed /\ ~o.root
    BY <2>1, NothingType DEF Nothing, Operation, Phases, Kinds
  <2>3. Begin(p, o)
    BY <1>6 DEF CreateRepo
  <2> HIDE DEF o
  <2>4. op'[p] = o => Course(p)' /\ Lives(p)' /\ Clears(p)'
    BY <2>2 DEF Course, Lives, Clears, AtRest
  <2>5. op'[p] = o /\ Agree => Follows(p)'
    BY <1>2, <2>1, <2>2, <2>3, SameAgree DEF Follows
  <2> QED
    BY <2>2, <2>3, <2>4, <2>5, BeginRecords
<1>7. ASSUME NEW m \in Path, AddExistingRepo(p, m) PROVE Records'
  <2> DEFINE mf   == Inserted(Entry(m, place[m].remote), manifest)
             seen == Entry(m, place[m].commit)
             o    == [Nothing EXCEPT !.phase = "merge", !.kind = "add", !.paths = {m},
                                     !.mf = mf, !.seen = seen]
  <2>1. mf \in Maps(BOOLEAN) /\ seen \in Maps(0..MaxCommits) /\ manifest # NoFile
    <3>1. PICK f \in Maps(BOOLEAN) : f = manifest
      BY <1>1, <1>7 DEF TypeOK, AddExistingRepo
    <3>2. place[m] \in Repo
      BY <1>1, <1>7 DEF TypeOK, AddExistingRepo, IsRepo
    <3>3. PICK b \in BOOLEAN, c \in 0..MaxCommits : b = place[m].remote /\ c = place[m].commit
      BY <3>2 DEF Repo
    <3>4. Inserted(Entry(m, b), f) \in Maps(BOOLEAN)
      BY PutMap
    <3>5. Entry(m, c) \in Maps(0..MaxCommits)
      BY EntryMap
    <3> QED
      BY <1>7, <3>1, <3>3, <3>4, <3>5 DEF AddExistingRepo
  <2>2. /\ DOMAIN mf = {m} \cup Members
        /\ DOMAIN seen = {m} /\ seen[m] = place[m].commit
    BY DEF Inserted, Entry, Members
  <2> HIDE DEF mf, seen
  <2>3. /\ o \in Operation /\ o.phase = "merge" /\ o.kind = "add" /\ o.paths = {m}
        /\ o.mf = mf /\ o.seen = seen /\ ~o.committed /\ ~o.root
    BY <2>1, NothingType DEF Nothing, Operation, Phases, Kinds
  <2>4. Begin(p, o)
    BY <1>7 DEF AddExistingRepo, mf, seen
  <2> HIDE DEF o
  <2>5. op'[p] = o => Course(p)' /\ Lives(p)' /\ Clears(p)'
    BY <1>2, <2>2, <2>3, <2>4 DEF Course, Lives, Live, Clears, AtRest, IsRepo
  <2>6. op'[p] = o /\ Agree => Follows(p)'
    BY <1>2, <2>1, <2>2, <2>3, <2>4, SameAgree DEF Follows, Members
  <2> QED
    BY <2>3, <2>4, <2>5, <2>6, BeginRecords
<1>8. ASSUME NEW S \in SUBSET Path, RepoSync(p, S) PROVE Records'
  <2> DEFINE new == [m \in S |-> manifest[m] \/ place[m].remote]
             mf  == Inserted(new, manifest)
             o   == [Nothing EXCEPT !.phase = "stage", !.kind = "repo_sync", !.paths = S,
                                    !.mf = mf]
  <2>1. /\ manifest \in Maps(BOOLEAN) /\ manifest # NoFile /\ S \subseteq Members
        /\ \A m \in S : IsRepo(m)
    BY <1>1, <1>8 DEF TypeOK, RepoSync
  <2>2. mf \in Maps(BOOLEAN)
    <3>1. PICK f \in Maps(BOOLEAN) : f = manifest
      BY <2>1
    <3>2. new \in [S -> BOOLEAN]
      <4>1. ASSUME NEW m \in S PROVE (manifest[m] \/ place[m].remote) \in BOOLEAN
        OBVIOUS
      <4> QED
        BY <4>1
    <3>3. PICK g \in Maps(BOOLEAN) : g = new
      BY <3>2 DEF Maps
    <3>4. Inserted(g, f) \in Maps(BOOLEAN)
      BY InsertedMap
    <3> QED
      BY <3>1, <3>3, <3>4
  <2>3. DOMAIN mf = Members
    BY <2>1 DEF Inserted, Members
  <2> HIDE DEF mf
  <2>4. /\ o \in Operation /\ o.phase = "stage" /\ o.kind = "repo_sync" /\ o.paths = S
        /\ o.mf = mf /\ ~o.committed /\ ~o.root
    BY <2>2, NothingType DEF Nothing, Operation, Phases, Kinds
  <2>5. Begin(p, o)
    BY <1>8 DEF RepoSync, mf
  <2> HIDE DEF o
  <2>6. op'[p] = o => Course(p)' /\ Lives(p)' /\ Clears(p)'
    BY <2>4 DEF Course, Lives, Clears, AtRest
  <2>7. op'[p] = o /\ Agree => Follows(p)'
    BY <1>2, <2>1, <2>3, <2>4, <2>5, SameAgree DEF Follows, Members
  <2> QED
    BY <2>4, <2>5, <2>6, <2>7, BeginRecords
<1>9. ASSUME NEW S \in SUBSET Path, Capture(p, S) PROVE Records'
  <2> DEFINE seen == Observed(S, lock)
             o    == [Nothing EXCEPT !.phase = "merge", !.kind = "capture", !.paths = S,
                                     !.seen = seen]
  <2>1. /\ manifest # NoFile /\ lock \in Maps(0..MaxCommits)
        /\ S \subseteq Members /\ S \subseteq DOMAIN lock
    BY <1>1, <1>9 DEF TypeOK, Capture
  <2>2. seen \in Maps(0..MaxCommits)
    BY <1>1, <2>1, ObservedMap DEF TypeOK
  <2>3. DOMAIN seen = S /\ \A m \in S : IsRepo(m) => seen[m] = place[m].commit
    BY DEF Observed
  <2> HIDE DEF seen
  <2>4. /\ o \in Operation /\ o.phase = "merge" /\ o.kind = "capture" /\ o.paths = S
        /\ o.seen = seen /\ ~o.committed /\ ~o.root
    BY <2>2, NothingType DEF Nothing, Operation, Phases, Kinds
  <2>5. Begin(p, o)
    BY <1>9 DEF Capture, seen
  <2> HIDE DEF o
  <2>6. op'[p] = o => Course(p)' /\ Lives(p)' /\ Clears(p)'
    BY <1>2, <2>1, <2>3, <2>4, <2>5 DEF Course, Lives, Live, Clears, AtRest, IsRepo
  <2>7. op'[p] = o /\ Agree => Follows(p)'
    BY <1>2, <2>1, <2>3, <2>4, <2>5, SameAgree DEF Follows, Members
  <2> QED
    BY <2>4, <2>5, <2>6, <2>7, BeginRecords
<1>10. ASSUME NEW S \in SUBSET Path, NEW withRoot \in BOOLEAN, Commit(p, S, withRoot)
       PROVE  Records'
  <2> DEFINE o == [Nothing EXCEPT !.phase = "commit", !.kind = "commit", !.paths = S,
                                  !.todo = S, !.root = withRoot, !.lk = lock]
  <2>1. /\ manifest # NoFile /\ lock \in Maps(0..MaxCommits)
        /\ S \subseteq Members /\ S \subseteq DOMAIN lock
    BY <1>1, <1>10 DEF TypeOK, Commit
  <2>2. /\ o \in Operation /\ o.phase = "commit" /\ o.kind = "commit" /\ o.paths = S
        /\ o.lk = lock
    BY <2>1, NothingType DEF Nothing, Operation, Phases, Kinds
  <2>3. Begin(p, o)
    BY <1>10 DEF Commit
  <2> HIDE DEF o
  <2>4. op'[p] = o => Course(p)' /\ Lives(p)' /\ Clears(p)'
    BY <1>2, <2>1, <2>2, <2>3 DEF Course, Lives, Clears, AtRest
  <2>5. op'[p] = o /\ Agree => Follows(p)'
    BY <1>2, <2>1, <2>2, <2>3, SameAgree DEF Follows, Members
  <2> QED
    BY <2>2, <2>3, <2>4, <2>5, BeginRecords
<1> QED
  BY <1>4, <1>5, <1>6, <1>7, <1>8, <1>9, <1>10 DEF Request

\* A death leaves what the others carry, and is the end of the agreement.
LEMMA StopRecords ==
  ASSUME Records, IInv', NEW p \in Process, Stop(p)
  PROVE  Records'
<1> DEFINE o == [Nothing EXCEPT !.phase = "stopped"]
<1> USE DEF Records
<1>1. TypeOK
  BY DEF Typed
<1>2. /\ o \in Operation /\ o.phase = "stopped" /\ o.kind = "create"
      /\ ~o.committed /\ ~o.root
  BY NothingType DEF Nothing, Operation, Phases, AtRest
<1>3. /\ Running(p) /\ stops < MaxStops /\ stops' = stops + 1 /\ op' = [op EXCEPT ![p] = o]
      /\ UNCHANGED <<manifest, lock, temp, place, root, requests, edits, overlapped, alone>>
  BY DEF Stop
<1> HIDE DEF o
<1>4. /\ op' \in [Process -> Operation] /\ op'[p] = o
      /\ \A q \in Process \ {p} : op'[q] = op[q]
  BY <1>1, <1>2, <1>3 DEF TypeOK
<1>5. stops' \in 0..MaxStops /\ stops' # 0
  BY <1>1, <1>3, RegistryAssumption DEF TypeOK
<1>6. Typed'
  <2>1. TypeOK'
    BY <1>1, <1>3, <1>4, <1>5 DEF TypeOK
  <2>2. ASSUME NEW q \in Process \ {p} PROVE Course(q)'
    <3>1. Course(q)
      BY DEF Typed
    <3> QED
      BY <1>3, <1>4, <3>1 DEF Course
  <2>3. Course(p)'
    BY <1>2, <1>4 DEF Course, AtRest
  <2> QED
    BY <1>3, <2>1, <2>2, <2>3 DEF Typed
<1>7. Solo'
  <2>1. ASSUME NEW q \in Process, alone[q], Running(q)' PROVE FALSE
    <3>1. q # p
      BY <1>2, <1>4, <2>1 DEF Running, AtRest
    <3> QED
      BY <1>3, <1>4, <2>1, <3>1 DEF Solo, Running
  <2> QED
    BY <1>3, <2>1 DEF Solo
<1>8. Agreed'
  BY <1>5 DEF Agreed
<1> QED
  BY <1>6, <1>7, <1>8

\* What people do leaves nobody alone, and the files as they are.
LEMMA EditRecords ==
  ASSUME Records, IInv', NEW m \in Path, Edit(m)
  PROVE  Records'
<1> USE DEF Records
<1>1. TypeOK
  BY DEF Typed
<1>2. /\ UNCHANGED <<manifest, lock, temp, root, op, requests, stops, overlapped>>
      /\ edits < MaxEdits /\ edits' = edits + 1
      /\ alone' = [p \in Process |-> FALSE]
  BY DEF Edit
<1>3. place' \in [Path -> {Absent, Files} \cup Repo]
  <2>1. CASE IsRepo(m)
    <3>1. place[m] \in Repo
      BY <1>1, <2>1 DEF TypeOK, IsRepo
    <3>2. place' = Removed(m) => place' \in [Path -> {Absent, Files} \cup Repo]
      BY <1>1 DEF Removed, TypeOK
    <3>3. ASSUME NEW r \in Repo, place' = [place EXCEPT ![m] = r]
          PROVE  place' \in [Path -> {Absent, Files} \cup Repo]
      BY <1>1, <3>3 DEF TypeOK
    <3>4. [place[m] EXCEPT !.staged = TRUE] \in Repo /\ [place[m] EXCEPT !.remote = TRUE] \in Repo
      BY <3>1 DEF Repo
    <3>5. place[m].commit < MaxCommits => [place[m] EXCEPT !.commit = @ + 1] \in Repo
      BY <3>1, RegistryAssumption DEF Repo
    <3>6. \/ place' = [place EXCEPT ![m] = [place[m] EXCEPT !.staged = TRUE]]
          \/ place' = [place EXCEPT ![m] = [place[m] EXCEPT !.remote = TRUE]]
          \/ /\ place[m].commit < MaxCommits
             /\ place' = [place EXCEPT ![m] = [place[m] EXCEPT !.commit = @ + 1]]
          \/ place' = Removed(m)
          \/ \E new \in {Files, Fresh, Cloned} : place' = [place EXCEPT ![m] = new]
      BY DEF Edit
    <3>7. (\E new \in {Files, Fresh, Cloned} : place' = [place EXCEPT ![m] = new])
            => place' \in [Path -> {Absent, Files} \cup Repo]
      BY <1>1, ReposType DEF TypeOK
    <3> QED
      BY <3>2, <3>3, <3>4, <3>5, <3>6, <3>7
  <2>2. CASE ~IsRepo(m)
    BY <1>1, <2>2, ReposType DEF Edit, TypeOK
  <2> QED
    BY <2>1, <2>2
<1>4. edits' \in 0..MaxEdits /\ alone' \in [Process -> BOOLEAN]
  BY <1>1, <1>2, RegistryAssumption DEF TypeOK
<1>5. Typed'
  <2>1. TypeOK'
    BY <1>1, <1>2, <1>3, <1>4 DEF TypeOK
  <2>2. \A p \in Process : Course(p)' <=> Course(p)
    BY <1>2 DEF Course
  <2> QED
    BY <1>2, <2>1, <2>2 DEF Typed
<1>6. Solo'
  BY <1>2 DEF Solo
<1>7. Agreed'
  BY <1>2 DEF Agreed, Follows, Agree, Members, Running
<1> QED
  BY <1>5, <1>6, <1>7

LEMMA InitRecords == Init => Records
<1> SUFFICES ASSUME Init PROVE Records
  OBVIOUS
<1>1. IInv
  BY InitIInv
<1>2. /\ op = [p \in Process |-> Nothing] /\ requests = 0 /\ edits = 0 /\ stops = 0
      /\ overlapped = FALSE /\ alone = [p \in Process |-> FALSE]
      /\ temp = [manifest |-> [p \in Process |-> NoFile], lock |-> [p \in Process |-> NoFile]]
  BY DEF Init
<1>3. \A p \in Process : op[p].phase = "ok" /\ op[p].kind = "create"
                         /\ ~op[p].committed /\ ~op[p].root
  BY <1>2 DEF Nothing
<1>4. /\ manifest \in {NoFile} \cup Maps(BOOLEAN) /\ lock \in {NoFile} \cup Maps(0..MaxCommits)
      /\ place \in [Path -> {Absent, Files} \cup Repo]
      /\ DOMAIN root = {"index", "head", "ignored"} /\ root.ignored \subseteq Path
      /\ (lock # NoFile => manifest # NoFile) /\ Agree
  <2>1. PICK s \in Starts :
          IF s = NoFile
            THEN /\ manifest = NoFile /\ lock = NoFile
                 /\ place = [m \in Path |-> Absent]
                 /\ root = [index |-> <<NoFile, NoFile>>, head |-> <<NoFile, NoFile>>,
                            ignored |-> {}]
            ELSE /\ manifest = [m \in s |-> TRUE] /\ lock = [m \in s |-> 1]
                 /\ place = [m \in Path |-> IF m \in s THEN Cloned ELSE Absent]
                 /\ root = [index |-> <<manifest, lock>>, head |-> <<manifest, lock>>,
                            ignored |-> s]
    BY DEF Init
  <2>2. CASE s = NoFile
    BY <2>1, <2>2 DEF Agree
  <2>3. CASE s # NoFile
    <3>1. s \in SUBSET Path
      BY <2>3, RegistryAssumption
    <3>2. manifest \in [s -> BOOLEAN] /\ lock \in [s -> 0..MaxCommits]
      BY <2>1, <2>3, ReposType
    <3>3. manifest \in Maps(BOOLEAN) /\ lock \in Maps(0..MaxCommits)
      BY <3>1, <3>2 DEF Maps
    <3>4. manifest # NoFile /\ lock # NoFile
      BY <3>3, FilesOnce
    <3>5. place \in [Path -> {Absent, Files} \cup Repo]
      BY <2>1, <2>3, ReposType
    <3> QED
      BY <2>1, <2>3, <3>1, <3>3, <3>4, <3>5 DEF Agree, Members
  <2> QED
    BY <2>2, <2>3
<1>5. Typed
  <2>1. op \in [Process -> Operation] /\ alone \in [Process -> BOOLEAN] /\ overlapped \in BOOLEAN
    BY <1>2, NothingType
  <2>2. temp \in [manifest : [Process -> {NoFile} \cup Maps(BOOLEAN)],
                  lock : [Process -> {NoFile} \cup Maps(0..MaxCommits)]]
    BY <1>2
  <2>3. requests \in 0..MaxRequests /\ edits \in 0..MaxEdits /\ stops \in 0..MaxStops
    BY <1>2, RegistryAssumption
  <2>4. TypeOK
    BY <1>4, <2>1, <2>2, <2>3 DEF TypeOK
  <2>5. \A p \in Process : Course(p)
    BY <1>3 DEF Course, AtRest
  <2> QED
    BY <1>4, <2>4, <2>5 DEF Typed
<1>6. Solo
  BY <1>2 DEF Solo
<1>7. Agreed
  BY <1>3, <1>4 DEF Agreed, Follows
<1> QED
  BY <1>1, <1>5, <1>6, <1>7 DEF Records

LEMMA StepRecords == Records /\ [Next]_vars => Records'
<1> SUFFICES ASSUME Records, [Next]_vars PROVE Records'
  OBVIOUS
<1>0. IInv'
  BY StepIInv DEF Records
<1>1. ASSUME NEW p \in Process, Request(p) PROVE Records'
  BY <1>0, <1>1, RequestRecords
<1>2. ASSUME NEW p \in Process, Work(p) PROVE Records'
  BY <1>0, <1>2, CloneRecords, RemoveCloneRecords, MakeRepoRecords, CommitMemberRecords,
     AfterClonesRecords, AfterCommitsRecords, CommitRootRecords, MergeLockRecords,
     StageRecords, PublishManifestRecords, PublishLockRecords, SyncBoundaryRecords DEF Work
<1>3. ASSUME NEW p \in Process, Stop(p) PROVE Records'
  BY <1>0, <1>3, StopRecords
<1>4. ASSUME NEW m \in Path, Edit(m) PROVE Records'
  BY <1>0, <1>4, EditRecords
<1>5. CASE UNCHANGED vars
  <2>1. UNCHANGED <<manifest, lock, temp, place, root, op, requests, edits, stops,
                    overlapped, alone>>
    BY <1>5 DEF vars
  <2>2. Typed'
    BY <2>1 DEF Records, Typed, TypeOK, Course
  <2>3. Solo'
    BY <2>1 DEF Records, Solo, Lives, Live, Clears, Running, IsRepo
  <2>4. Agreed'
    BY <2>1 DEF Records, Agreed, Follows, Agree, Members, Running
  <2> QED
    BY <1>0, <2>2, <2>3, <2>4 DEF Records
<1> QED
  BY <1>1, <1>2, <1>3, <1>4, <1>5 DEF Next

\* The files, the staged files and what every operation carries keep their
\* types, for any processes, paths and bounds.
THEOREM TypeCorrect == Spec => []TypeOK
<1>1. Records => TypeOK
  BY DEF Records, Typed
<1> QED
  BY InitRecords, StepRecords, <1>1, PTL DEF Spec

\* As long as operations follow one another and none is cut short, the
\* manifest, the lock, the root's index and its exclude block name the same
\* members whenever nobody is at work, for any sequence of operations, the
\* rejected ones and what people do in the members included.
THEOREM FilesAgree == Spec => []RecordsAgree
<1>1. Records => RecordsAgree
  BY DEF Records, Agreed, Agree, RecordsAgree, OnRecord
<1> QED
  BY InitRecords, StepRecords, <1>1, PTL DEF Spec

-----------------------------------------------------------------------------
(* How an operation ends. *)

\* What a step of an operation does to the operations.
LEMMA WorkGoes ==
  ASSUME NEW p \in Process, Work(p)
  PROVE  \E o : Goes(p, o)
<1>1. ASSUME NEW m \in Path, Clone(p, m) \/ RemoveClone(p, m) \/ MakeRepo(p, m) \/ CommitMember(p, m)
      PROVE  \E o : Goes(p, o)
  <2>1. Clone(p, m) => \E o : Goes(p, o)
    BY DEF Clone
  <2>2. RemoveClone(p, m) => \E o : Goes(p, o)
    BY DEF RemoveClone, Ends
  <2>3. MakeRepo(p, m) => \E o : Goes(p, o)
    BY DEF MakeRepo, Ends
  <2>4. CommitMember(p, m) => \E o : Goes(p, o)
    BY DEF CommitMember, Ends
  <2> QED
    BY <1>1, <2>1, <2>2, <2>3, <2>4
<1>2. AfterClones(p) \/ AfterCommits(p) \/ CommitRoot(p) => \E o : Goes(p, o)
  BY DEF AfterClones, AfterCommits, CommitRoot, Ends
<1>3. MergeLock(p) \/ Stage(p) => \E o : Goes(p, o)
  BY DEF MergeLock, Stage
<1>4. PublishManifest(p) \/ PublishLock(p) \/ SyncBoundary(p) => \E o : Goes(p, o)
  BY DEF PublishManifest, PublishLock, SyncBoundary, Ends
<1> QED
  BY <1>1, <1>2, <1>3, <1>4 DEF Work

\* An operation under way goes on by its own steps, or is cut short.
LEMMA OwnStep ==
  ASSUME Records, [Next]_vars, NEW p \in Process, Running(p),
         op'[p].phase \notin {op[p].phase, "stopped"}
  PROVE  Work(p)
<1>1. op \in [Process -> Operation]
  BY DEF Records, Typed, TypeOK
<1>2. ASSUME NEW q \in Process, Request(q) PROVE q # p /\ \E o : op' = [op EXCEPT ![q] = o]
  <2>1. PICK o : Begin(q, o)
    <3>1. CASE CreateWorkspace(q)
      BY <3>1 DEF CreateWorkspace
    <3>2. ASSUME NEW S \in SUBSET Path, InitFromSources(q, S) PROVE \E o : Begin(q, o)
      BY <3>2 DEF InitFromSources
    <3>3. ASSUME NEW S \in SUBSET Path, RepoSync(q, S) PROVE \E o : Begin(q, o)
      BY <3>3 DEF RepoSync
    <3>4. ASSUME NEW S \in SUBSET Path, Capture(q, S) PROVE \E o : Begin(q, o)
      BY <3>4 DEF Capture
    <3>5. ASSUME NEW S \in SUBSET Path, NEW b \in BOOLEAN, Commit(q, S, b)
          PROVE  \E o : Begin(q, o)
      BY <3>5 DEF Commit
    <3>6. ASSUME NEW m \in Path, CreateRepo(q, m) PROVE \E o : Begin(q, o)
      BY <3>6 DEF CreateRepo
    <3>7. ASSUME NEW m \in Path, AddExistingRepo(q, m) PROVE \E o : Begin(q, o)
      BY <3>7 DEF AddExistingRepo
    <3> QED
      BY <1>2, <3>1, <3>2, <3>3, <3>4, <3>5, <3>6, <3>7 DEF Request
  <2> QED
    BY <2>1 DEF Begin
<1>3. ASSUME NEW q \in Process, Work(q), q # p PROVE FALSE
  <2>1. PICK o : op' = [op EXCEPT ![q] = o]
    BY <1>3, WorkGoes DEF Goes
  <2> QED
    BY <1>1, <1>3, <2>1
<1>4. ASSUME NEW q \in Process, Request(q) PROVE FALSE
  BY <1>1, <1>2, <1>4
<1>5. ASSUME NEW q \in Process, Stop(q) PROVE FALSE
  BY <1>1, <1>5 DEF Stop, Nothing
<1>6. ASSUME NEW m \in Path, Edit(m) PROVE FALSE
  BY <1>6 DEF Edit
<1>7. op' # op
  OBVIOUS
<1> QED
  BY <1>3, <1>4, <1>5, <1>6, <1>7 DEF Next, vars

\* What an operation publishes under the name of the manifest or the lock is
\* its own copy: no other process stages under its temporary name, and it
\* stages nothing more itself until the rename.
THEOREM OwnArtifacts == Spec => PublishesOwnArtifact
<1> DEFINE Own(p) ==
      /\ (op[p].phase = "manifest" /\ op'[p].phase \in {"lock", "ok"}) => manifest' = op[p].mf
      /\ (op[p].phase = "lock" /\ op'[p].phase = "boundary") => lock' = op[p].lk
<1>1. Records /\ [Next]_vars => [\A p \in Process : Own(p)]_vars
  <2> SUFFICES ASSUME Records, [Next]_vars, NEW p \in Process PROVE Own(p)
    OBVIOUS
  <2>1. Course(p)
    BY DEF Records, Typed
  <2>2. ASSUME op[p].phase = "manifest", op'[p].phase \in {"lock", "ok"}
        PROVE  manifest' = op[p].mf
    <3>1. Work(p)
      BY <2>2, OwnStep DEF Running, AtRest
    <3>2. PublishManifest(p)
      BY <2>2, <3>1 DEF Work, Clone, RemoveClone, MakeRepo, CommitMember, AfterClones,
         AfterCommits, CommitRoot, MergeLock, Stage, PublishLock, SyncBoundary
    <3> QED
      BY <2>1, <2>2, <3>2 DEF PublishManifest, TempName, Course
  <2>3. ASSUME op[p].phase = "lock", op'[p].phase = "boundary" PROVE lock' = op[p].lk
    <3>1. Work(p)
      BY <2>3, OwnStep DEF Running, AtRest
    <3>2. PublishLock(p)
      BY <2>3, <3>1 DEF Work, Clone, RemoveClone, MakeRepo, CommitMember, AfterClones,
         AfterCommits, CommitRoot, MergeLock, Stage, PublishManifest, SyncBoundary
    <3> QED
      BY <2>1, <2>3, <3>2 DEF PublishLock, TempName, Course
  <2> QED
    BY <2>2, <2>3
<1> QED
  BY InitRecords, StepRecords, <1>1, PTL DEF Spec, PublishesOwnArtifact, Own

\* Between these steps an operation neither ends nor fails.
LEMMA CloneGoesOn ==
  ASSUME op \in [Process -> Operation], NEW p \in Process, NEW m \in Path, Clone(p, m)
  PROVE  op'[p].phase = "clone"
<1> DEFINE rest   == [op[p] EXCEPT !.todo = @ \ {m}]
           failed == [rest EXCEPT !.failed = TRUE]
           done   == [rest EXCEPT !.mf = Inserted(Entry(m, TRUE), @),
                                  !.lk = Inserted(Entry(m, Cloned.commit), @)]
<1>1. op[p].phase = "clone" /\ (Goes(p, done) \/ Goes(p, failed))
  BY DEF Clone
<1>2. op[p] \in Operation
  OBVIOUS
<1>3. failed.phase = "clone" /\ done.phase = "clone"
  BY <1>1, <1>2 DEF Operation
<1> HIDE DEF failed, done
<1> QED
  BY <1>1, <1>3 DEF Goes

LEMMA MakeRepoGoesOn ==
  ASSUME op \in [Process -> Operation], NEW p \in Process, NEW m \in Path, MakeRepo(p, m)
  PROVE  op'[p].phase \in {"rejected", "merge"}
<1> DEFINE made == [op[p] EXCEPT !.phase = "merge",
                                 !.mf = Inserted(Entry(m, Fresh.remote), @),
                                 !.seen = Entry(m, Fresh.commit)]
<1>1. Ends(p, "rejected") \/ Goes(p, made)
  BY DEF MakeRepo
<1>2. op[p] \in Operation
  OBVIOUS
<1>3. made.phase = "merge" /\ [Nothing EXCEPT !.phase = "rejected"].phase = "rejected"
  BY <1>2 DEF Operation, Nothing
<1> HIDE DEF made
<1> QED
  BY <1>1, <1>3 DEF Goes, Ends

LEMMA CommitMemberGoesOn ==
  ASSUME op \in [Process -> Operation], NEW p \in Process, NEW m \in Path, CommitMember(p, m)
  PROVE  op'[p].phase \in {"rejected", "commit"}
<1> DEFINE rest == [op[p] EXCEPT !.todo = @ \ {m}, !.committed = @ \/ place[m].staged]
<1>1. op[p].phase = "commit" /\ (Ends(p, "rejected") \/ Goes(p, rest))
  BY DEF CommitMember
<1>2. op[p] \in Operation
  OBVIOUS
<1>3. rest.phase = "commit" /\ [Nothing EXCEPT !.phase = "rejected"].phase = "rejected"
  BY <1>1, <1>2 DEF Operation, Nothing
<1> HIDE DEF rest
<1> QED
  BY <1>1, <1>3 DEF Goes, Ends

LEMMA AfterGoesOn ==
  ASSUME op \in [Process -> Operation], NEW p \in Process, AfterClones(p) \/ AfterCommits(p)
  PROVE  op'[p].phase \in {"rollback", "stage", "merge", "root"}
<1>1. op[p] \in Operation
  OBVIOUS
<1>2. CASE AfterClones(p)
  BY <1>1, <1>2 DEF AfterClones, Goes, Operation
<1>3. CASE AfterCommits(p)
  <2> DEFINE seen == [op[p] EXCEPT !.phase = "merge", !.seen = Observed(op[p].paths, op[p].lk)]
             none == [op[p] EXCEPT !.phase = "root"]
  <2>1. Goes(p, seen) \/ Goes(p, none)
    BY <1>3 DEF AfterCommits
  <2>2. seen.phase = "merge" /\ none.phase = "root"
    BY <1>1 DEF Operation
  <2> HIDE DEF seen, none
  <2> QED
    BY <2>1, <2>2 DEF Goes
<1> QED
  BY <1>2, <1>3

\* The steps that end an operation well.
LEMMA WellEnded ==
  ASSUME Records, NEW p \in Process, Work(p), op'[p].phase = "ok"
  PROVE  CommitRoot(p) \/ PublishManifest(p) \/ SyncBoundary(p)
<1>1. op \in [Process -> Operation] /\ op[p] \in Operation
  BY DEF Records, Typed, TypeOK
<1>2. ASSUME NEW m \in Path, Clone(p, m) PROVE FALSE
  BY <1>1, <1>2, CloneGoesOn
<1>3. ASSUME NEW m \in Path, RemoveClone(p, m) PROVE FALSE
  BY <1>1, <1>3 DEF RemoveClone, Goes, Ends, Nothing, Operation
<1>4. ASSUME NEW m \in Path, MakeRepo(p, m) PROVE FALSE
  BY <1>1, <1>4, MakeRepoGoesOn
<1>5. ASSUME NEW m \in Path, CommitMember(p, m) PROVE FALSE
  BY <1>1, <1>5, CommitMemberGoesOn
<1>6. ASSUME AfterClones(p) \/ AfterCommits(p) PROVE FALSE
  BY <1>1, <1>6, AfterGoesOn
<1>7. ASSUME MergeLock(p) \/ Stage(p) \/ PublishLock(p) PROVE FALSE
  <2>1. CASE MergeLock(p)
    BY <1>1, <2>1 DEF MergeLock, Goes, Operation
  <2>2. CASE Stage(p)
    BY <1>1, <2>2 DEF Stage, Goes, Operation
  <2>3. CASE PublishLock(p)
    BY <1>1, <2>3 DEF PublishLock, Goes, Operation
  <2> QED
    BY <1>7, <2>1, <2>2, <2>3
<1> QED
  BY <1>2, <1>3, <1>4, <1>5, <1>6, <1>7 DEF Work

\* Only a repo_sync ends with its manifest, and a commit goes on to the root.
LEMMA WellPublished ==
  ASSUME Records, NEW p \in Process, op'[p].phase = "ok"
  PROVE  /\ PublishManifest(p) => op[p].kind = "repo_sync"
         /\ SyncBoundary(p) => op[p].kind # "commit"
<1>1. op \in [Process -> Operation] /\ op[p] \in Operation
  BY DEF Records, Typed, TypeOK
<1>2. PublishManifest(p) => op[p].kind = "repo_sync"
  BY <1>1 DEF PublishManifest, WritesLock, Goes, Operation
<1>3. SyncBoundary(p) => op[p].kind # "commit"
  BY <1>1 DEF SyncBoundary, Goes, Operation
<1> QED
  BY <1>2, <1>3

\* An init is rejected when the last of its paths has been removed.
LEMMA InitRejected ==
  ASSUME Records, NEW p \in Process, Work(p), op[p].kind = "init",
         op'[p].phase = "rejected"
  PROVE  \E m \in Path : RemoveClone(p, m)
<1>1. op \in [Process -> Operation] /\ op[p] \in Operation /\ Course(p)
  BY DEF Records, Typed, TypeOK
<1>2. ASSUME NEW m \in Path, Clone(p, m) PROVE FALSE
  BY <1>1, <1>2, CloneGoesOn
<1>3. ASSUME NEW m \in Path, MakeRepo(p, m) \/ CommitMember(p, m) PROVE FALSE
  BY <1>1, <1>3 DEF MakeRepo, CommitMember, Course
<1>4. ASSUME AfterClones(p) \/ AfterCommits(p) PROVE FALSE
  BY <1>1, <1>4, AfterGoesOn
<1>5. ASSUME MergeLock(p) \/ Stage(p) \/ PublishLock(p) PROVE FALSE
  <2>1. CASE MergeLock(p)
    BY <1>1, <2>1 DEF MergeLock, Goes, Operation
  <2>2. CASE Stage(p)
    BY <1>1, <2>2 DEF Stage, Goes, Operation
  <2>3. CASE PublishLock(p)
    BY <1>1, <2>3 DEF PublishLock, Goes, Operation
  <2> QED
    BY <1>5, <2>1, <2>2, <2>3
<1>6. ASSUME CommitRoot(p) PROVE FALSE
  BY <1>1, <1>6 DEF CommitRoot, Course
<1>7. ASSUME PublishManifest(p) \/ SyncBoundary(p) PROVE FALSE
  BY <1>1, <1>7 DEF PublishManifest, SyncBoundary, Goes, Ends, Nothing, Operation
<1> QED
  BY <1>2, <1>3, <1>4, <1>5, <1>6, <1>7 DEF Work

\* An operation that nothing came between has, when it ends, the commits its
\* members are at in the lock, and a commit of the root holds that lock: what
\* it observed is not out of date while it is alone, the merge keeps it, and
\* the root is committed after the boundary has put both files in its index.
THEOREM LiveCommits == Spec => RecordsLiveCommits
<1> DEFINE Recorded(p) ==
      (Running(p) /\ alone[p] /\ op'[p].phase = "ok"
         /\ (op[p].committed \/ op[p].kind \in {"capture", "create_repo", "add", "init"}))
        => /\ \A m \in op[p].paths : IsRepo(m) => lock'[m] = place'[m].commit
           /\ op[p].root => root'.head = <<manifest', lock'>>
<1>1. Records /\ [Next]_vars => [\A p \in Process : Recorded(p)]_vars
  <2> SUFFICES ASSUME Records, [Next]_vars, NEW p \in Process,
                      Running(p), alone[p], op'[p].phase = "ok",
                      op[p].committed \/ op[p].kind \in {"capture", "create_repo", "add", "init"}
               PROVE  /\ \A m \in op[p].paths : IsRepo(m) => lock'[m] = place'[m].commit
                      /\ op[p].root => root'.head = <<manifest', lock'>>
    OBVIOUS
  <2>1. Course(p) /\ Lives(p) /\ DOMAIN root = {"index", "head", "ignored"}
    BY DEF Records, Typed, Solo
  <2>2. CommitRoot(p) \/ PublishManifest(p) \/ SyncBoundary(p)
    BY OwnStep, WellEnded DEF Running, AtRest
  <2>3. CASE CommitRoot(p)
    <3>1. /\ op[p].phase = "root" /\ op[p].kind = "commit"
          /\ UNCHANGED <<manifest, lock, place>>
          /\ op[p].root => root' = [root EXCEPT !.head = root.index]
      BY <2>1, <2>3 DEF CommitRoot, Course
    <3>2. Live(p, lock) /\ root.index = <<manifest, lock>>
      BY <2>1, <3>1 DEF Lives
    <3> QED
      BY <2>1, <3>1, <3>2 DEF Live
  <2>4. CASE PublishManifest(p)
    <3>1. op[p].phase = "manifest" /\ op[p].kind = "repo_sync"
      BY <2>1, <2>4, WellPublished DEF PublishManifest
    <3> QED
      BY <2>1, <3>1 DEF Course
  <2>5. CASE SyncBoundary(p)
    <3>1. op[p].phase = "boundary" /\ UNCHANGED <<manifest, lock, place>>
      BY <2>5 DEF SyncBoundary
    <3>2. lock = op[p].lk /\ Live(p, op[p].lk)
      BY <2>1, <3>1 DEF Lives
    <3>3. op[p].kind # "commit"
      BY <2>5, <3>1, WellPublished DEF SyncBoundary
    <3> QED
      BY <2>1, <3>1, <3>2, <3>3 DEF Live, Course
  <2> QED
    BY <2>2, <2>3, <2>4, <2>5
<1> QED
  BY InitRecords, StepRecords, <1>1, PTL DEF Spec, RecordsLiveCommits, Recorded

\* An init that fails, if nobody came in between, leaves no file and nothing
\* at any of its paths: the rollback takes every path, a clone that failed
\* after it was made included.
THEOREM FailedInit == Spec => FailedInitLeavesNothing
<1> DEFINE Nought(p) ==
      (op[p].kind = "init" /\ Running(p) /\ alone[p] /\ op'[p].phase = "rejected")
        => /\ manifest' = NoFile /\ lock' = NoFile
           /\ \A m \in op[p].paths : place'[m] = Absent
<1>1. Records /\ [Next]_vars => [\A p \in Process : Nought(p)]_vars
  <2> SUFFICES ASSUME Records, [Next]_vars, NEW p \in Process, op[p].kind = "init",
                      Running(p), alone[p], op'[p].phase = "rejected"
               PROVE  /\ manifest' = NoFile /\ lock' = NoFile
                      /\ \A m \in op[p].paths : place'[m] = Absent
    OBVIOUS
  <2>1. Course(p) /\ Clears(p) /\ (lock # NoFile => manifest # NoFile)
    BY DEF Records, Typed, Solo
  <2>2. TypeOK /\ op[p] \in Operation
    BY DEF Records, Typed, TypeOK
  <2>3. \E m \in Path : RemoveClone(p, m)
    <3>1. Work(p)
      BY OwnStep DEF Running, AtRest
    <3> QED
      BY <2>1, <2>2, <3>1, InitRejected
  <2>4. PICK m \in Path : RemoveClone(p, m)
    BY <2>3
  <2>5. op[p].phase = "rollback" /\ UNCHANGED <<manifest, lock>> /\ place' = Removed(m)
    BY <2>4 DEF RemoveClone
  <2>6. op[p].todo = {m}
    BY <2>2, <2>4, <2>5 DEF RemoveClone, Goes, TypeOK, Operation
  <2>7. manifest = NoFile /\ \A n \in op[p].paths \ {m} : place[n] = Absent
    BY <2>1, <2>5, <2>6 DEF Clears
  <2>8. \A n \in op[p].paths : place'[n] = Absent
    BY <2>2, <2>5, <2>7 DEF Removed, Under, Operation
  <2> QED
    BY <2>1, <2>5, <2>7, <2>8
<1> QED
  BY InitRecords, StepRecords, <1>1, PTL DEF Spec, FailedInitLeavesNothing, Nought
=============================================================================
