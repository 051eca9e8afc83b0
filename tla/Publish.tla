------------------------------- MODULE Publish -------------------------------
(***************************************************************************)
(* gwz push and gwz tag (workspace_ops/push_member.rs, handle_tag.rs) over *)
(* the members of a workspace and its root, with people at work in the     *)
(* repositories and on the remotes.  A push looks at every target before   *)
(* it pushes any, and then at each of them again.  A tag operation takes   *)
(* one member after the other and leaves at the first error.               *)
(***************************************************************************)
EXTENDS Targets, MemberRepo, Naturals

CONSTANTS
  Tag,          \* tag names
  Trunk,        \* the branch a given refspec names
  Locked,       \* members with a record in the lock file
  Plain,        \* members that are no git members: an archive, a package
  Starts,       \* what is at each target and on its remote at first
  Asked,        \* the requests people make
  Selections,   \* what people select
  NoRemote,     \* a target without a push remote
  Absent,       \* no repository at the path
  Disturbed,    \* people were at work since the operation began
  MaxTurns      \* bound on the operations and on what people do, together

Published == [refs : [Branch -> Ref], tags : [Tag -> Ref]]
Checkout  == [refs : [Branch -> Ref], head : Branch \cup {Detached}, tip : Commit,
              tags : [Tag -> Ref]]

\* kind: what is asked.  skip: policy.unsupported_member.  named: the request
\* names the remote.  spec: no refspec, a refspec of the trunk, a forced one.
Request ==
  [kind : {"push"}, dry : BOOLEAN, skip : BOOLEAN, named : BOOLEAN,
   spec : {"head", "given", "forced"}]
  \cup [kind : {"create", "delete", "delete_remote", "fetch_tags"}, tag : Tag]
  \cup [kind : {"push_tags"}, tags : {{t} : t \in Tag} \cup {Tag}]

ASSUME PublishAssumption ==
  /\ Trunk \in Branch
  /\ Plain \subseteq Member /\ Locked \subseteq Member
  /\ Starts \subseteq [Target -> [place : {Absent} \cup Checkout,
                              remote : {NoRemote} \cup Published]]
  /\ Asked \subseteq Request /\ Selections \subseteq Selection
  /\ Absent \notin Checkout /\ NoRemote \notin Published
  /\ MaxTurns \in Nat

VARIABLES
  place,    \* the repository of each target
  remote,   \* the repository behind its push remote
  op,       \* where the process is
  request,  \* what it was asked
  chosen,   \* the targets the request selects
  status,   \* what is known of each target
  onto,     \* the branch a target is being pushed on
  reply,    \* the aggregate status of the last operation
  refused,  \* history: targets whose remote refused a ref of this operation
  start,    \* history: places and remotes when it began, unless Disturbed
  turns     \* operations begun and things people did

publish == <<place, remote, op, request, chosen, status, onto, reply, refused,
             start, turns>>

IsRepo(t)    == place[t] # Absent
HasRemote(t) == remote[t] # NoRemote

NoRequest == [kind |-> "none"]
NoStatus  == [t \in Target |-> "none"]
Nowhere   == [t \in Target |-> NoRef]
Statuses  == {"none", "todo", "planned", "skipped", "rejected", "failed", "ok"}

PublishTypeOK ==
  /\ place \in [Target -> {Absent} \cup Checkout]
  /\ remote \in [Target -> {NoRemote} \cup Published]
  /\ op \in {"idle", "preflight", "push", "tag"}
  /\ request \in {NoRequest} \cup Asked
  /\ chosen \subseteq Target /\ refused \subseteq Target
  /\ status \in [Target -> Statuses]
  /\ onto \in [Target -> {NoRef} \cup Branch]
  /\ reply \in {"none", "ok", "noop", "partial", "rejected", "failed", "error"}
  /\ start \in {Disturbed} \cup [place : [Target -> {Absent} \cup Checkout],
                                 remote : [Target -> {NoRemote} \cup Published]]
  /\ turns \in 0 .. MaxTurns

PublishInit ==
  /\ \E s \in Starts :
       /\ place = [t \in Target |-> s[t].place]
       /\ remote = [t \in Target |-> s[t].remote]
  /\ op = "idle" /\ request = NoRequest /\ chosen = {}
  /\ status = NoStatus /\ onto = Nowhere
  /\ reply = "none" /\ refused = {} /\ start = Disturbed
  /\ turns = 0

\* An operation that got past the selection.
Begins(asked, targets, phase) ==
  /\ op = "idle" /\ turns < MaxTurns
  /\ op' = phase
  /\ request' = asked
  /\ chosen' = targets
  /\ status' = [t \in Target |-> IF t \in targets THEN "todo" ELSE "none"]
  /\ reply' = "none" /\ refused' = {}
  /\ start' = [place |-> place, remote |-> remote]
  /\ turns' = turns + 1
  /\ UNCHANGED <<place, remote, onto>>

Stay == UNCHANGED <<op, request, chosen, reply, start, turns>>

Returns(answer) ==
  /\ op' = "idle"
  /\ reply' = answer
  /\ request' = NoRequest /\ chosen' = {}
  /\ status' = NoStatus /\ onto' = Nowhere
  /\ refused' = {} /\ start' = Disturbed
  /\ UNCHANGED turns

-----------------------------------------------------------------------------
(* Push. *)

PushBegins ==
  \E asked \in Asked, sel \in Selections :
    /\ asked.kind = "push"
    /\ Resolves(Member, Target, TRUE, sel)
    /\ Begins(asked, Selected(Member, Target, sel), "preflight")

\* push_policy_member_error; the root has no policy.
Unsupported(t) == IF request.skip /\ t # Root THEN "skipped" ELSE "rejected"

\* resolve_push_remote and resolve_root_push_remote, as far as they look.
RemoteResolves(t) == request.named \/ HasRemote(t)

\* resolve_push_refspec
RefspecResolves(r) ==
  request.spec # "head" \/ (r.head # Detached /\ HeadCommit(r) # NoRef)

\* push_member and push_root up to the push: a member's remote is looked for
\* before its repository, the root's after it.
Looked(t) ==
  IF t \in Plain \/ (t # Root /\ ~RemoteResolves(t)) THEN Unsupported(t)
  ELSE IF ~IsRepo(t) \/ ~RemoteResolves(t) THEN "rejected"
  ELSE IF ~RefspecResolves(place[t]) THEN Unsupported(t)
  ELSE "planned"

\* Nothing is read of a member that needs no look at its repository.
MayFail(t) == t = Root \/ (t \notin Plain /\ RemoteResolves(t))

PushLooks(t) ==
  /\ op = "preflight" /\ status[t] = "todo"
  /\ \E found \in {Looked(t)} \cup (IF MayFail(t) THEN {"failed"} ELSE {}) :
       status' = [status EXCEPT ![t] = found]
  /\ Stay
  /\ UNCHANGED <<place, remote, onto, refused>>

\* Mutant: what was skipped counts for nothing.
AggregateIgnoringSkips(found) ==
  IF "ok" \in found /\ found \cap {"failed", "rejected"} # {} THEN "partial"
  ELSE IF "failed" \in found THEN "failed"
  ELSE IF "rejected" \in found THEN "rejected"
  ELSE IF found = {} THEN "noop"
  ELSE "ok"

\* push_aggregate_status
Aggregate(found) ==
  IF "ok" \in found /\ found \cap {"failed", "rejected", "skipped"} # {} THEN "partial"
  ELSE IF "failed" \in found THEN "failed"
  ELSE IF "rejected" \in found THEN "rejected"
  ELSE IF "skipped" \in found \/ found = {} THEN "noop"
  ELSE "ok"

Found == {status[t] : t \in chosen}

PushEndsEarly ==
  /\ op = "preflight" /\ "todo" \notin Found
  /\ request.dry \/ Found \cap {"rejected", "failed"} # {}
  /\ Returns(Aggregate(Found))
  /\ UNCHANGED <<place, remote>>

\* Mutant: the targets that are ready are pushed, whatever the others are.
PushGoesOnWithReady ==
  /\ op = "preflight" /\ "todo" \notin Found
  /\ ~request.dry
  /\ op' = "push"
  /\ status' = [t \in Target |-> IF t \in chosen THEN "todo" ELSE "none"]
  /\ UNCHANGED <<place, remote, request, chosen, onto, reply, refused, start, turns>>

PushGoesOn ==
  /\ op = "preflight" /\ "todo" \notin Found
  /\ ~request.dry /\ Found \cap {"rejected", "failed"} = {}
  /\ op' = "push"
  /\ status' = [t \in Target |-> IF t \in chosen THEN "todo" ELSE "none"]
  /\ UNCHANGED <<place, remote, request, chosen, onto, reply, refused, start, turns>>

\* The root's turn comes when the members are done.
RootLast(t) == t = Root => \A m \in chosen \ {Root} : status[m] \notin {"todo", "planned"}

\* A worker looks again, and settles on the branch it will push ...
PushReads(t) ==
  /\ op = "push" /\ status[t] = "todo" /\ RootLast(t)
  /\ \E found \in {Looked(t)} \cup (IF MayFail(t) THEN {"failed"} ELSE {}) :
       /\ status' = [status EXCEPT ![t] = found]
       /\ onto' = IF found # "planned" THEN onto
                  ELSE [onto EXCEPT ![t] = IF request.spec = "head" THEN place[t].head
                                           ELSE Trunk]
  /\ Stay
  /\ UNCHANGED <<place, remote, refused>>

\* Mutant: the refspec of a push is forced.
AcceptedAlways(theirs, ours, forced) == ours # NoRef

\* What libgit2 sends: a ref that exists, onto none or onto one that it
\* descends from.
Accepted(theirs, ours, forced) ==
  ours # NoRef /\ (forced \/ theirs = NoRef \/ Within(theirs, ours))

\* ... and pushes what that branch is at by then.  The call may fail, with
\* the ref moved if only the answer is lost.  A remote may refuse the ref: the
\* call then succeeds, as no callback asks for the outcome of each ref.
PushSends(t) ==
  LET b    == onto[t]
      ours == IF IsRepo(t) THEN place[t].refs[b] ELSE NoRef
  IN  /\ op = "push" /\ status[t] = "planned"
      /\ \/ /\ status' = [status EXCEPT ![t] = "failed"]
            /\ UNCHANGED <<remote, refused>>
         \/ /\ HasRemote(t)
            /\ Accepted(remote[t].refs[b], ours, request.spec = "forced")
            /\ \/ /\ remote' = [remote EXCEPT ![t].refs[b] = ours]
                  /\ \E found \in {"ok", "failed"} :
                       status' = [status EXCEPT ![t] = found]
                  /\ UNCHANGED refused
               \/ /\ status' = [status EXCEPT ![t] = "ok"]
                  /\ refused' = refused \cup {t}
                  /\ UNCHANGED remote
      /\ onto' = [onto EXCEPT ![t] = NoRef]
      /\ Stay
      /\ UNCHANGED place

PushReturns ==
  /\ op = "push" /\ Found \cap {"todo", "planned"} = {}
  /\ Returns(Aggregate(Found))
  /\ UNCHANGED <<place, remote>>

-----------------------------------------------------------------------------
(* Tags.  A call on a member's repository r and its remote u is the set of  *)
(* its outcomes.                                                           *)

After(error, r, u) == [error |-> error, place |-> r, remote |-> u, refused |-> FALSE]
Refusal(r, u) == [After(FALSE, r, u) EXCEPT !.refused = TRUE]

\* A call that does what it should, or fails before or after it did.
Does(r, u, r2, u2) == {After(FALSE, r2, u2), After(TRUE, r, u), After(TRUE, r2, u2)}

\* Mutant: a tag that is there is moved to HEAD.
TaggedAnew(r, u, x) ==
  IF HeadCommit(r) = NoRef THEN Does(r, u, r, u)
  ELSE Does(r, u, [r EXCEPT !.tags[x] = HeadCommit(r)], u)

\* create: a repository that has a commit and has not the tag gets it.
Tagged(r, u, x) ==
  IF HeadCommit(r) = NoRef \/ r.tags[x] # NoRef THEN Does(r, u, r, u)
  ELSE Does(r, u, [r EXCEPT !.tags[x] = HeadCommit(r)], u)

\* delete without a remote
Untagged(r, u, x) == Does(r, u, [r EXCEPT !.tags[x] = NoRef], u)

\* delete on a remote that advertises the tag
UntaggedThere(r, u, x) ==
  IF u = NoRemote THEN {After(TRUE, r, u)}
  ELSE Does(r, u, r, [u EXCEPT !.tags[x] = NoRef])
         \cup (IF u.tags[x] = NoRef THEN {} ELSE {Refusal(r, u)})

\* push: each tag in a call of its own, so that an error leaves some pushed.
TagsPushed(r, u, tags) ==
  LET here     == {x \in tags : r.tags[x] # NoRef}
      taken    == {x \in here : Accepted(u.tags[x], r.tags[x], FALSE)}
      moved(S) == [u EXCEPT !.tags = [x \in Tag |-> IF x \in S THEN r.tags[x] ELSE @[x]]]
  IN  IF here = {} THEN {After(FALSE, r, u)}
      ELSE IF u = NoRemote THEN {After(TRUE, r, u)}
      ELSE {After(TRUE, r, moved(S)) : S \in SUBSET taken}
             \cup (IF taken # here THEN {}
                   ELSE {After(FALSE, r, moved(here))}
                          \cup {Refusal(r, moved(S)) : S \in (SUBSET here) \ {here}})

\* fetch: the remote's tags, over what there is of the same name.
TagsFetched(r, u) ==
  IF u = NoRemote THEN {After(TRUE, r, u)}
  ELSE Does(r, u, [r EXCEPT !.tags = [x \in Tag |-> IF u.tags[x] # NoRef THEN u.tags[x]
                                                    ELSE @[x]]], u)

TagCall(r, u) ==
  CASE request.kind = "create"        -> Tagged(r, u, request.tag)
    [] request.kind = "delete"        -> Untagged(r, u, request.tag)
    [] request.kind = "delete_remote" -> UntaggedThere(r, u, request.tag)
    [] request.kind = "push_tags"     -> TagsPushed(r, u, request.tags)
    [] request.kind = "fetch_tags"    -> TagsFetched(r, u)

\* The root is no target of a tag, and every member must have a lock record.
TagBegins ==
  \E asked \in Asked, sel \in Selections :
    /\ asked.kind # "push"
    /\ Resolves(Member, Member, FALSE, sel)
    /\ Selected(Member, Member, sel) \subseteq Locked
    /\ Begins(asked, Selected(Member, Member, sel), "tag")

\* One member; one without a repository is passed over.
TagMember(m) ==
  /\ op = "tag" /\ status[m] = "todo"
  /\ \E out \in IF IsRepo(m) THEN TagCall(place[m], remote[m])
                ELSE {After(FALSE, place[m], remote[m])} :
       /\ place' = [place EXCEPT ![m] = out.place]
       /\ remote' = [remote EXCEPT ![m] = out.remote]
       /\ IF out.error THEN Returns("error")
          ELSE /\ status' = [status EXCEPT ![m] = "ok"]
               /\ refused' = IF out.refused THEN refused \cup {m} ELSE refused
               /\ Stay
               /\ UNCHANGED onto

TagReturns ==
  /\ op = "tag" /\ "todo" \notin Found
  /\ Returns("ok")
  /\ UNCHANGED <<place, remote>>

-----------------------------------------------------------------------------
\* The process is killed, or leaves at an error of par_map or of a file.
Die == op # "idle" /\ Returns("none") /\ UNCHANGED <<place, remote>>

\* Somebody commits to HEAD, detaches it, goes to the trunk, or tags.
Worked(r) ==
  (IF HeadCommit(r) = NoRef THEN {}
   ELSE {MoveHead(r, HeadCommit(r) \cup {c}) : c \in Change}
          \cup {Detach(r, HeadCommit(r))}
          \cup {[r EXCEPT !.tags[x] = HeadCommit(r)] : x \in Tag})
  \cup {Attach(r, b) : b \in {y \in Branch : r.refs[y] # NoRef}}

\* Somebody else pushes to a remote.
Pushed(u) ==
  {[u EXCEPT !.refs[b] = u.refs[b] \cup {c}] :
     b \in {y \in Branch : u.refs[y] # NoRef}, c \in Change}
  \cup {[u EXCEPT !.tags[x] = u.refs[b]] :
          x \in Tag, b \in {y \in Branch : u.refs[y] # NoRef}}

Meddling ==
  /\ turns < MaxTurns
  /\ turns' = turns + 1
  /\ start' = Disturbed
  /\ UNCHANGED <<op, request, chosen, status, onto, reply, refused>>

People ==
  /\ Meddling
  /\ \E t \in Target :
       \/ /\ IsRepo(t)
          /\ \E r \in Worked(place[t]) \cup {Absent} : place' = [place EXCEPT ![t] = r]
          /\ UNCHANGED remote
       \/ /\ HasRemote(t)
          /\ \E u \in Pushed(remote[t]) : remote' = [remote EXCEPT ![t] = u]
          /\ UNCHANGED place

PublishStep ==
  \/ PushBegins \/ PushEndsEarly \/ PushGoesOn \/ PushReturns
  \/ \E t \in Target : PushLooks(t) \/ PushReads(t) \/ PushSends(t)
  \/ TagBegins \/ TagReturns \/ \E m \in Member : TagMember(m)
  \/ Die \/ People

PublishSpec == PublishInit /\ [][PublishStep]_publish

-----------------------------------------------------------------------------
(* Properties. *)

PushBranch(t) == IF request.spec = "head" THEN place[t].head ELSE Trunk

\* The remote has what the target was to push.
Landed(t) ==
  /\ IsRepo(t) /\ HasRemote(t) /\ PushBranch(t) # Detached
  /\ remote[t].refs[PushBranch(t)] = place[t].refs[PushBranch(t)]

\* What a push reports as a whole is true of the remotes, if nobody else was
\* at work: after ok every target has landed; after noop or rejected, or a dry
\* run, no remote has moved; after partial some have landed and some have not
\* been pushed.  What a remote refused behind the call's back is left out.
ReportTellsPush ==
  [][(PushReturns \/ PushEndsEarly) /\ start # Disturbed =>
       LET landed == {t \in chosen : t \in refused \/ Landed(t)}
       IN  /\ reply' = "ok" /\ ~request.dry => landed = chosen
           /\ reply' \in {"noop", "rejected"} \/ request.dry => remote = start.remote
           /\ reply' = "partial" =>
                landed # {} /\ \E t \in chosen : status[t] # "ok"]_publish

\* A push does not move a first remote while one of its targets could not be
\* pushed at all: the other remotes are left alone.
ReadyBeforeAnyMoves ==
  [][\A t \in Target :
       PushSends(t) /\ start # Disturbed =>
         \A n \in chosen : Looked(n) \in {"planned", "skipped"}]_publish

Grows(theirs, after) == theirs # NoRef => after # NoRef /\ Within(theirs, after)

\* Whatever people do meanwhile, gwz drops no commit from a branch or a tag of
\* a remote, unless it was asked to force or to delete.
PublishedOnlyGrows ==
  [][\A t \in Target :
       /\ HasRemote(t)
       /\ \/ PushSends(t) /\ request.spec # "forced"
          \/ t \in Member /\ TagMember(t) /\ request.kind # "delete_remote"
       => /\ \A b \in Branch : Grows(remote[t].refs[b], remote'[t].refs[b])
          /\ \A x \in Tag : Grows(remote[t].tags[x], remote'[t].tags[x])]_publish

\* What the operation asks of a member's repository and its remote is so.
TagReached(m) ==
  CASE request.kind = "create" ->
         /\ HeadCommit(place[m]) # NoRef => place[m].tags[request.tag] # NoRef
         /\ start.place[m].tags[request.tag] \in {NoRef, place[m].tags[request.tag]}
    [] request.kind = "delete" -> place[m].tags[request.tag] = NoRef
    [] request.kind = "delete_remote" ->
         m \in refused \/ remote[m].tags[request.tag] = NoRef
    [] request.kind = "push_tags" ->
         \A x \in request.tags :
           place[m].tags[x] # NoRef => m \in refused \/ remote[m].tags[x] = place[m].tags[x]
    [] request.kind = "fetch_tags" ->
         \A x \in Tag : remote[m].tags[x] \in {NoRef, place[m].tags[x]}

\* A tag operation that succeeds with nobody else at work has reached every
\* repository it selected, also when it repeats one that failed half way; and
\* to create a tag moves none that is there.
TagReachesEveryMember ==
  [][TagReturns /\ start # Disturbed =>
       \A m \in {n \in chosen : IsRepo(n)} : TagReached(m)]_publish
=============================================================================
