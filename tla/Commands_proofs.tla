--------------------------- MODULE Commands_proofs ---------------------------
(***************************************************************************)
(* gwz push and tag, gwz add, and gwz pull in the root, for any members,   *)
(* repositories, histories, requests, bounds and people.  Nothing          *)
(* published is lost, and what a push or tag reports is true as long as    *)
(* nobody else was at work; gwz add stages what its request covers in the  *)
(* repositories that own it; no pull of the root but a reset drops a       *)
(* commit of its branch, and what the repair of the lock file commits      *)
(* takes nothing else from the remote.                                     *)
(***************************************************************************)
EXTENDS Publish, Staging, RootPull, WellFoundedInduction, TLAPS

(* gwz push and gwz tag (Publish).                                         *)

Remote == {NoRemote} \cup Published
Place  == {Absent} \cup Checkout

\* What is asked fits the phase the process is in.
Asking ==
  /\ op \in {"preflight", "push"} => request \in Asked /\ request.kind = "push"
  /\ op = "tag" => request \in Asked /\ request.kind # "push" /\ chosen \subseteq Member
  /\ \A t \in Target : (status[t] = "none") <=> (t \notin chosen)
  /\ op = "push" => \A t \in Target : status[t] = "planned" => onto[t] \in Branch

Undisturbed == start # Disturbed

\* Before the first push all is as it was found.
LooksHold ==
  Undisturbed /\ op = "preflight" =>
    /\ place = start.place /\ remote = start.remote
    /\ \A t \in chosen : status[t] \in {"todo", "failed", Looked(t)}

\* A target is pushed on the branch that was found, and a remote moves for a
\* push that was made.
PushesHold ==
  Undisturbed /\ op = "push" =>
    /\ ~request.dry
    /\ \A t \in chosen : Looked(t) \in {"planned", "skipped"}
    /\ \A t \in Target : status[t] \notin {"ok", "failed"} => remote[t] = start.remote[t]
    /\ \A t \in chosen :
         /\ status[t] = "planned" => IsRepo(t) /\ PushBranch(t) \in Branch /\ onto[t] = PushBranch(t)
         /\ status[t] = "ok" => t \in refused \/ Landed(t)

\* TagReached, of a repository that was old, its remote, and whether the
\* remote refused.
Meets(old, r, u, dropped) ==
  /\ request.kind = "create" =>
       /\ HeadCommit(r) # NoRef => r.tags[request.tag] # NoRef
       /\ old.tags[request.tag] \in {NoRef, r.tags[request.tag]}
  /\ request.kind = "delete" => r.tags[request.tag] = NoRef
  /\ request.kind = "delete_remote" => dropped \/ u.tags[request.tag] = NoRef
  /\ request.kind = "push_tags" =>
       \A x \in request.tags : r.tags[x] # NoRef => dropped \/ u.tags[x] = r.tags[x]
  /\ request.kind = "fetch_tags" => \A x \in Tag : u.tags[x] \in {NoRef, r.tags[x]}

TagsHold ==
  Undisturbed /\ op = "tag" =>
    \A m \in chosen :
      /\ status[m] = "todo" => place[m] = start.place[m]
      /\ status[m] # "todo" /\ IsRepo(m) =>
           Meets(start.place[m], place[m], remote[m], m \in refused)

PublishInv == PublishTypeOK /\ Asking /\ LooksHold /\ PushesHold /\ TagsHold

-----------------------------------------------------------------------------
(* The calls on a member's repository keep the types of both sides. *)

LEMMA TagAsked ==
  ASSUME request \in Asked, request.kind # "push"
  PROVE  /\ request.kind \in {"create", "delete", "delete_remote", "fetch_tags", "push_tags"}
         /\ request.kind \in {"create", "delete", "delete_remote"} => request.tag \in Tag
         /\ request.kind = "push_tags" => request.tags \subseteq Tag
BY PublishAssumption DEF Request

LEMMA DoesOutcome ==
  ASSUME NEW r, NEW u, NEW r2, NEW u2, NEW out \in Does(r, u, r2, u2)
  PROVE  \/ out.place = r2 /\ out.remote = u2
         \/ out.place = r /\ out.remote = u /\ out.error
BY DEF Does, After

LEMMA HeadIsCommit ==
  ASSUME NEW r \in Checkout, HeadCommit(r) # NoRef
  PROVE  HeadCommit(r) \in Commit
BY DEF HeadCommit, Checkout, Ref

LEMMA TagsSet ==
  ASSUME NEW r \in Checkout, NEW f \in [Tag -> Ref]
  PROVE  [r EXCEPT !.tags = f] \in Checkout
BY DEF Checkout

LEMMA TagSet ==
  ASSUME NEW r \in Checkout, NEW x \in Tag, NEW c \in Ref
  PROVE  /\ [r EXCEPT !.tags[x] = c] \in Checkout
         /\ [r EXCEPT !.tags[x] = c].tags[x] = c
BY DEF Checkout

LEMMA RemoteTagSet ==
  ASSUME NEW u \in Published, NEW x \in Tag, NEW c \in Ref
  PROVE  /\ [u EXCEPT !.tags[x] = c] \in Published
         /\ [u EXCEPT !.tags[x] = c].tags[x] = c
         /\ [u EXCEPT !.tags[x] = c].refs = u.refs
BY DEF Published

\* Some of the tags that are here, on the remote.
LEMMA MovedTags ==
  ASSUME NEW r \in Checkout, NEW u \in Published, NEW S \in SUBSET Tag,
         NEW v, v = [u EXCEPT !.tags = [x \in Tag |-> IF x \in S THEN r.tags[x] ELSE @[x]]]
  PROVE  /\ v \in Published /\ v.refs = u.refs
         /\ \A x \in Tag : v.tags[x] = IF x \in S THEN r.tags[x] ELSE u.tags[x]
BY DEF Published, Checkout

LEMMA Creates ==
  ASSUME NEW r \in Checkout, NEW u, NEW x \in Tag, NEW out \in Tagged(r, u, x)
  PROVE  /\ out.place \in Checkout /\ out.remote = u
         /\ ~out.error => /\ HeadCommit(out.place) # NoRef => out.place.tags[x] # NoRef
                          /\ r.tags[x] \in {NoRef, out.place.tags[x]}
<1>1. CASE HeadCommit(r) = NoRef \/ r.tags[x] # NoRef
  <2>1. out \in Does(r, u, r, u)
    BY <1>1 DEF Tagged
  <2>2. out.place = r /\ out.remote = u
    BY <2>1, DoesOutcome
  <2> QED
    BY <1>1, <2>2
<1>2. CASE HeadCommit(r) # NoRef /\ r.tags[x] = NoRef
  <2> DEFINE s == [r EXCEPT !.tags[x] = HeadCommit(r)]
  <2>1. out \in Does(r, u, s, u)
    BY <1>2 DEF Tagged
  <2>2. s \in Checkout /\ s.tags[x] = HeadCommit(r)
    BY <1>2, HeadIsCommit, TagSet DEF Ref
  <2> HIDE DEF s
  <2>3. \/ out.place = s /\ out.remote = u
        \/ out.place = r /\ out.remote = u /\ out.error
    BY <2>1, DoesOutcome
  <2> QED
    BY <1>2, <2>2, <2>3
<1> QED
  BY <1>1, <1>2

LEMMA Deletes ==
  ASSUME NEW r \in Checkout, NEW u, NEW x \in Tag, NEW out \in Untagged(r, u, x)
  PROVE  /\ out.place \in Checkout /\ out.remote = u
         /\ ~out.error => out.place.tags[x] = NoRef
<1> DEFINE s == [r EXCEPT !.tags[x] = NoRef]
<1>1. out \in Does(r, u, s, u)
  BY DEF Untagged
<1>2. s \in Checkout /\ s.tags[x] = NoRef
  BY TagSet DEF Ref
<1> HIDE DEF s
<1>3. \/ out.place = s /\ out.remote = u
      \/ out.place = r /\ out.remote = u /\ out.error
  BY <1>1, DoesOutcome
<1> QED
  BY <1>2, <1>3

LEMMA DeletesThere ==
  ASSUME NEW r, NEW u \in Remote, NEW x \in Tag, NEW out \in UntaggedThere(r, u, x)
  PROVE  /\ out.place = r /\ out.remote \in Remote /\ (out.remote = NoRemote <=> u = NoRemote)
         /\ ~out.error => out.refused \/ out.remote.tags[x] = NoRef
<1>1. CASE u = NoRemote
  BY <1>1 DEF UntaggedThere, After, Remote
<1>2. CASE u # NoRemote
  <2> DEFINE v == [u EXCEPT !.tags[x] = NoRef]
  <2>1. u \in Published
    BY <1>2 DEF Remote
  <2>2. v \in Published /\ v.tags[x] = NoRef
    BY <2>1, RemoteTagSet DEF Ref
  <2>3. out \in Does(r, u, r, v) \/ out = Refusal(r, u)
    BY <1>2 DEF UntaggedThere
  <2> HIDE DEF v
  <2>4. CASE out = Refusal(r, u)
    BY <2>4, <1>2 DEF Refusal, After
  <2>5. CASE out \in Does(r, u, r, v)
    <3>1. \/ out.place = r /\ out.remote = v
          \/ out.place = r /\ out.remote = u /\ out.error
      BY <2>5, DoesOutcome
    <3> QED
      BY <3>1, <2>1, <2>2, PublishAssumption DEF Remote
  <2> QED
    BY <2>3, <2>4, <2>5
<1> QED
  BY <1>1, <1>2

LEMMA Fetches ==
  ASSUME NEW r \in Checkout, NEW u \in Remote, NEW out \in TagsFetched(r, u)
  PROVE  /\ out.place \in Checkout /\ out.remote = u
         /\ ~out.error => \A x \in Tag : u.tags[x] \in {NoRef, out.place.tags[x]}
<1>1. CASE u = NoRemote
  BY <1>1 DEF TagsFetched, After
<1>2. CASE u # NoRemote
  <2> DEFINE f == [x \in Tag |-> IF u.tags[x] # NoRef THEN u.tags[x] ELSE r.tags[x]]
             s == [r EXCEPT !.tags = f]
  <2>1. f \in [Tag -> Ref]
    BY <1>2 DEF Remote, Published, Checkout
  <2>2. s \in Checkout /\ s.tags = f
    BY <2>1, TagsSet DEF Checkout
  <2>3. out \in Does(r, u, s, u)
    BY <1>2 DEF TagsFetched
  <2> HIDE DEF s
  <2>4. \/ out.place = s /\ out.remote = u
        \/ out.place = r /\ out.remote = u /\ out.error
    BY <2>3, DoesOutcome
  <2> QED
    BY <2>2, <2>4
<1> QED
  BY <1>1, <1>2

LEMMA PushesTags ==
  ASSUME NEW r \in Checkout, NEW u \in Remote, NEW tags \in SUBSET Tag,
         NEW out \in TagsPushed(r, u, tags)
  PROVE  /\ out.place = r /\ out.remote \in Remote /\ (out.remote = NoRemote <=> u = NoRemote)
         /\ u # NoRemote => /\ out.remote.refs = u.refs
                            /\ \A x \in Tag : Grows(u.tags[x], out.remote.tags[x])
         /\ ~out.error => \A x \in tags :
              r.tags[x] # NoRef => out.refused \/ out.remote.tags[x] = r.tags[x]
<1> DEFINE here  == {x \in tags : r.tags[x] # NoRef}
           taken == {x \in here : Accepted(u.tags[x], r.tags[x], FALSE)}
           withTags(S) == [u EXCEPT !.tags = [x \in Tag |-> IF x \in S THEN r.tags[x] ELSE @[x]]]
<1>1. CASE here = {} \/ u = NoRemote
  <2>1. out.place = r /\ out.remote = u /\ (here # {} => out.error)
    <3>1. CASE here = {}
      <4>1. out = After(FALSE, r, u)
        BY <3>1 DEF TagsPushed
      <4> QED
        BY <3>1, <4>1 DEF After
    <3>2. CASE here # {}
      <4>1. out = After(TRUE, r, u)
        BY <1>1, <3>2 DEF TagsPushed
      <4> QED
        BY <4>1 DEF After
    <3> QED
      BY <3>1, <3>2
  <2>2. u # NoRemote => \A x \in Tag : Grows(u.tags[x], u.tags[x])
    BY DEF Grows, Within
  <2> QED
    BY <2>1, <2>2
<1>2. CASE here # {} /\ u # NoRemote
  <2>1. u \in Published
    BY <1>2 DEF Remote
  <2>2. PICK S \in SUBSET Tag :
          /\ S \subseteq taken
          /\ out.place = r /\ out.remote = withTags(S)
          /\ out.error \/ out.refused \/ S = here
    <3> HIDE DEF withTags
    <3>1. ASSUME NEW S \in SUBSET taken, out = After(TRUE, r, withTags(S))
          PROVE  out.place = r /\ out.remote = withTags(S) /\ out.error
      BY <3>1 DEF After
    <3>2. ASSUME out = After(FALSE, r, withTags(here))
          PROVE  out.place = r /\ out.remote = withTags(here)
      BY <3>2 DEF After
    <3>3. ASSUME NEW S, out = Refusal(r, withTags(S))
          PROVE  out.place = r /\ out.remote = withTags(S) /\ out.refused
      BY <3>3 DEF After, Refusal
    <3>4. \/ \E S \in SUBSET taken : out = After(TRUE, r, withTags(S))
          \/ taken = here /\ out = After(FALSE, r, withTags(here))
          \/ taken = here /\ \E S \in (SUBSET here) \ {here} : out = Refusal(r, withTags(S))
      BY <1>2 DEF TagsPushed, withTags
    <3>5. taken \subseteq here /\ here \subseteq Tag
      OBVIOUS
    <3> QED
      BY <3>1, <3>2, <3>3, <3>4, <3>5
  <2>3. /\ out.remote \in Published /\ out.remote.refs = u.refs
        /\ \A x \in Tag : out.remote.tags[x] = IF x \in S THEN r.tags[x] ELSE u.tags[x]
    BY <2>1, <2>2, MovedTags
  <2>4. \A x \in Tag : Grows(u.tags[x], out.remote.tags[x])
    BY <2>2, <2>3 DEF Grows, Within, Accepted
  <2> QED
    BY <1>2, <2>2, <2>3, <2>4, PublishAssumption DEF Remote
<1> QED
  BY <1>1, <1>2

LEMMA MeetsIsReached ==
  ASSUME request \in Asked, request.kind # "push", NEW m,
         Meets(start.place[m], place[m], remote[m], m \in refused)
  PROVE  TagReached(m)
<1>1. request.kind \in {"create", "delete", "delete_remote", "fetch_tags", "push_tags"}
  BY TagAsked
<1>2. CASE request.kind = "create"
  BY <1>2 DEF Meets, TagReached
<1>3. CASE request.kind = "delete"
  BY <1>3 DEF Meets, TagReached
<1>4. CASE request.kind = "delete_remote"
  BY <1>4 DEF Meets, TagReached
<1>5. CASE request.kind = "push_tags"
  BY <1>5 DEF Meets, TagReached
<1>6. CASE request.kind = "fetch_tags"
  BY <1>6 DEF Meets, TagReached
<1> QED
  BY <1>1, <1>2, <1>3, <1>4, <1>5, <1>6

\* What any tag call does to a member and its remote.
LEMMA TagCallOutcome ==
  ASSUME NEW r \in Checkout, NEW u \in Remote, request \in Asked, request.kind # "push",
         NEW out \in TagCall(r, u)
  PROVE  /\ out.place \in Checkout /\ out.remote \in Remote
         /\ out.remote = NoRemote <=> u = NoRemote
         /\ u # NoRemote /\ request.kind # "delete_remote" =>
              /\ out.remote.refs = u.refs
              /\ \A x \in Tag : Grows(u.tags[x], out.remote.tags[x])
         /\ ~out.error => Meets(r, out.place, out.remote, out.refused)
<1>1. /\ request.kind \in {"create", "delete", "delete_remote", "fetch_tags", "push_tags"}
      /\ request.kind \in {"create", "delete", "delete_remote"} => request.tag \in Tag
      /\ request.kind = "push_tags" => request.tags \subseteq Tag
  BY TagAsked
<1>2. \A x \in Tag : Grows(u.tags[x], u.tags[x])
  BY DEF Grows, Within
<1>3. CASE request.kind = "create"
  <2>1. out \in Tagged(r, u, request.tag)
    BY <1>3 DEF TagCall
  <2> QED
    BY <1>1, <1>2, <1>3, <2>1, Creates DEF Meets
<1>4. CASE request.kind = "delete"
  <2>1. out \in Untagged(r, u, request.tag)
    BY <1>4 DEF TagCall
  <2> QED
    BY <1>1, <1>2, <1>4, <2>1, Deletes DEF Meets
<1>5. CASE request.kind = "delete_remote"
  <2>1. out \in UntaggedThere(r, u, request.tag)
    BY <1>5 DEF TagCall
  <2> QED
    BY <1>1, <1>5, <2>1, DeletesThere DEF Meets
<1>6. CASE request.kind = "push_tags"
  <2>1. out \in TagsPushed(r, u, request.tags)
    BY <1>6 DEF TagCall
  <2> QED
    BY <1>1, <1>6, <2>1, PushesTags DEF Meets
<1>7. CASE request.kind = "fetch_tags"
  <2>1. out \in TagsFetched(r, u)
    BY <1>7 DEF TagCall
  <2> QED
    BY <1>1, <1>2, <1>7, <2>1, Fetches DEF Meets
<1> QED
  BY <1>1, <1>3, <1>4, <1>5, <1>6, <1>7

-----------------------------------------------------------------------------
(* What a look at a target finds. *)

LEMMA LookedPlanned ==
  ASSUME PublishTypeOK, NEW t \in Target, Looked(t) = "planned"
  PROVE  IsRepo(t) /\ PushBranch(t) \in Branch
<1>1. IsRepo(t) /\ RefspecResolves(place[t])
  BY DEF Looked, Unsupported
<1>2. place[t] \in Checkout
  BY <1>1 DEF PublishTypeOK, IsRepo
<1>3. place[t].head \in Branch \cup {Detached}
  BY <1>2 DEF Checkout
<1> QED
  BY <1>1, <1>3, PublishAssumption DEF RefspecResolves, PushBranch

LEMMA LookedRange ==
  ASSUME NEW t
  PROVE  Looked(t) \in {"skipped", "rejected", "planned"}
BY DEF Looked, Unsupported

\* What a request selects is a target.
LEMMA SelectedIsTarget ==
  ASSUME NEW default \in SUBSET Target, NEW allowed \in BOOLEAN, NEW sel,
         Resolves(Member, default, allowed, sel)
  PROVE  Selected(Member, default, sel) \subseteq Member \cup {Root}
<1>1. ASSUME NEW t \in Includes(sel) PROVE Expand(Member, default, t) \subseteq Member \cup {Root}
  <2>1. t \in {"@root", "@all", "@default"} \cup Member
    BY <1>1 DEF Resolves, Selector
  <2>2. CASE t = "@root"
    BY <2>2 DEF Expand
  <2>3. CASE t = "@all"
    BY <2>3 DEF Expand
  <2>4. CASE t = "@default"
    BY <2>4 DEF Expand, Target
  <2>5. CASE t \in Member /\ t \notin {"@root", "@all", "@default"}
    BY <2>5 DEF Expand
  <2> QED
    BY <2>1, <2>2, <2>3, <2>4, <2>5
<1> QED
  BY <1>1 DEF Selected

-----------------------------------------------------------------------------
(* The invariant is inductive. *)

LEMMA InitPublishInv == PublishInit => PublishInv
<1> SUFFICES ASSUME PublishInit PROVE PublishInv
  OBVIOUS
<1>1. /\ place \in [Target -> Place] /\ remote \in [Target -> Remote]
  <2>1. PICK s \in Starts : /\ place = [t \in Target |-> s[t].place]
                            /\ remote = [t \in Target |-> s[t].remote]
    BY DEF PublishInit
  <2>2. \A t \in Target : s[t] \in [place : Place, remote : Remote]
    BY PublishAssumption DEF Place, Remote
  <2> QED
    BY <2>1, <2>2
<1>2. turns \in 0 .. MaxTurns
  BY PublishAssumption DEF PublishInit
<1>3. PublishTypeOK
  BY <1>1, <1>2 DEF PublishInit, PublishTypeOK, NoStatus, Nowhere, Statuses, Place, Remote
<1> QED
  BY <1>3 DEF PublishInit, PublishInv, Asking, LooksHold, PushesHold, TagsHold, NoStatus, Undisturbed

\* An operation that begins.
LEMMA BeginsPublishInv ==
  ASSUME PublishInv, NEW asked \in Asked, NEW targets \in SUBSET Target,
         NEW phase \in {"preflight", "tag"}, Begins(asked, targets, phase),
         asked.kind = "push" <=> phase = "preflight",
         phase = "tag" => targets \subseteq Member
  PROVE  PublishInv'
<1>1. turns' \in 0 .. MaxTurns
  BY PublishAssumption DEF Begins, PublishInv, PublishTypeOK
<1>2. PublishTypeOK'
  BY <1>1 DEF Begins, PublishInv, PublishTypeOK, Statuses
<1>3. Asking'
  BY DEF Begins, PublishInv, Asking
<1>4. LooksHold' /\ PushesHold' /\ TagsHold'
  BY DEF Begins, LooksHold, PushesHold, TagsHold
<1> QED
  BY <1>2, <1>3, <1>4 DEF PublishInv

\* An operation that returns.
LEMMA ReturnsPublishInv ==
  ASSUME PublishInv, NEW answer \in {"none", "ok", "noop", "partial", "rejected", "failed", "error"},
         Returns(answer), place' \in [Target -> Place], remote' \in [Target -> Remote]
  PROVE  PublishInv'
<1>1. PublishTypeOK'
  BY DEF Returns, PublishInv, PublishTypeOK, NoStatus, Nowhere, Statuses, Place, Remote
<1> QED
  BY <1>1 DEF Returns, PublishInv, Asking, LooksHold, PushesHold, TagsHold, NoStatus

LEMMA LooksPublishInv == ASSUME PublishInv, NEW t \in Target, PushLooks(t) PROVE PublishInv'
<1> USE DEF PublishInv
<1>1. PICK found \in {Looked(t), "failed"} : status' = [status EXCEPT ![t] = found]
  BY DEF PushLooks
<1>2. /\ UNCHANGED <<place, remote, onto, refused, op, request, chosen, reply, start, turns>>
      /\ op = "preflight" /\ status[t] = "todo"
  BY DEF PushLooks, Stay
<1>3. found \in Statuses /\ found # "none"
  BY LookedRange DEF Statuses
<1>4. PublishTypeOK'
  BY <1>1, <1>2, <1>3 DEF PublishTypeOK
<1>5. Asking'
  BY <1>1, <1>2, <1>3 DEF Asking, PublishTypeOK
<1>6. \A n \in Target : Looked(n)' = Looked(n)
  BY <1>2 DEF Looked, Unsupported, RemoteResolves, RefspecResolves, HasRemote, IsRepo
<1>7. LooksHold'
  BY <1>1, <1>2, <1>6 DEF LooksHold, PublishTypeOK, Undisturbed
<1> QED
  BY <1>2, <1>4, <1>5, <1>7 DEF PushesHold, TagsHold

LEMMA GoesOnPublishInv == ASSUME PublishInv, PushGoesOn PROVE PublishInv'
<1> USE DEF PublishInv
<1>1. /\ UNCHANGED <<place, remote, request, chosen, onto, reply, refused, start, turns>>
      /\ op = "preflight" /\ op' = "push" /\ ~request.dry
      /\ status' = [t \in Target |-> IF t \in chosen THEN "todo" ELSE "none"]
      /\ \A t \in chosen : status[t] \notin {"todo", "rejected", "failed"}
  BY DEF PushGoesOn, Found
<1>2. PublishTypeOK' /\ Asking'
  BY <1>1 DEF PublishTypeOK, Asking, Statuses
<1>3. \A n \in Target : Looked(n)' = Looked(n)
  BY <1>1 DEF Looked, Unsupported, RemoteResolves, RefspecResolves, HasRemote, IsRepo
<1>4. Undisturbed => \A t \in chosen : Looked(t) \in {"planned", "skipped"}
  BY <1>1, LookedRange DEF LooksHold
<1>5. PushesHold'
  BY <1>1, <1>3, <1>4 DEF PushesHold, LooksHold, Undisturbed, PublishTypeOK
<1> QED
  BY <1>1, <1>2, <1>5 DEF LooksHold, TagsHold

LEMMA ReadsPublishInv == ASSUME PublishInv, NEW t \in Target, PushReads(t) PROVE PublishInv'
<1> USE DEF PublishInv
<1>1. PICK found \in {Looked(t), "failed"} :
        /\ status' = [status EXCEPT ![t] = found]
        /\ onto' = IF found # "planned" THEN onto
                   ELSE [onto EXCEPT ![t] = IF request.spec = "head" THEN place[t].head
                                            ELSE Trunk]
  BY DEF PushReads
<1>2. /\ UNCHANGED <<place, remote, refused, op, request, chosen, reply, start, turns>>
      /\ op = "push" /\ status[t] = "todo"
  BY DEF PushReads, Stay
<1>3. found \in Statuses /\ found \notin {"none", "ok"}
  BY LookedRange DEF Statuses
<1>4. found = "planned" => /\ IsRepo(t) /\ PushBranch(t) \in Branch
                           /\ onto' = [onto EXCEPT ![t] = PushBranch(t)]
  BY <1>1, LookedPlanned DEF PushBranch
<1>5. PublishTypeOK'
  BY <1>1, <1>2, <1>3, <1>4 DEF PublishTypeOK
<1>6. Asking'
  BY <1>1, <1>2, <1>3, <1>4 DEF Asking, PublishTypeOK
<1>7. \A n \in Target : /\ Looked(n)' = Looked(n) /\ PushBranch(n)' = PushBranch(n)
                        /\ IsRepo(n)' = IsRepo(n) /\ Landed(n)' = Landed(n)
  BY <1>2 DEF Looked, Unsupported, RemoteResolves, RefspecResolves, HasRemote, IsRepo,
     PushBranch, Landed
<1>8. \A n \in Target \ {t} : status'[n] = status[n] /\ onto'[n] = onto[n]
  BY <1>1, <1>4 DEF PublishTypeOK
<1>9. status'[t] = found /\ (found = "planned" => onto'[t] = PushBranch(t))
  BY <1>1, <1>4 DEF PublishTypeOK
<1>10. PushesHold'
  BY <1>2, <1>3, <1>4, <1>7, <1>8, <1>9 DEF PushesHold, Undisturbed, PublishTypeOK
<1> QED
  BY <1>2, <1>5, <1>6, <1>10 DEF LooksHold, TagsHold

\* A push leaves the other remotes alone, and on its own the branch was there
\* to be moved.
LEMMA Sent ==
  ASSUME PublishInv, NEW t \in Target, PushSends(t)
  PROVE  /\ remote' \in [Target -> Remote]
         /\ \A n \in Target \ {t} : remote'[n] = remote[n]
         /\ HasRemote(t)' = HasRemote(t)
         /\ \/ remote'[t] = remote[t] /\ (status'[t] = "failed" \/ t \in refused')
            \/ /\ HasRemote(t) /\ onto[t] \in Branch
               /\ remote[t] \in Published
               /\ remote'[t] = [remote[t] EXCEPT !.refs[onto[t]] =
                                  IF IsRepo(t) THEN place[t].refs[onto[t]] ELSE NoRef]
               /\ Accepted(remote[t].refs[onto[t]],
                           IF IsRepo(t) THEN place[t].refs[onto[t]] ELSE NoRef,
                           request.spec = "forced")
<1> DEFINE ours == IF IsRepo(t) THEN place[t].refs[onto[t]] ELSE NoRef
<1>1. onto[t] \in Branch
  BY DEF PushSends, PublishInv, Asking
<1>2. ours \in Ref
  BY <1>1 DEF PublishInv, PublishTypeOK, IsRepo, Checkout, Ref
<1>3. CASE UNCHANGED remote /\ (status'[t] = "failed" \/ t \in refused')
  BY <1>3 DEF PublishInv, PublishTypeOK, HasRemote, Remote
<1>4. CASE /\ HasRemote(t)
           /\ remote' = [remote EXCEPT ![t].refs[onto[t]] = ours]
           /\ Accepted(remote[t].refs[onto[t]], ours, request.spec = "forced")
  <2> HIDE DEF ours
  <2>1. remote[t] \in Published
    BY <1>4 DEF PublishInv, PublishTypeOK, HasRemote
  <2>2. [remote[t] EXCEPT !.refs[onto[t]] = ours] \in Published
    BY <1>1, <1>2, <2>1 DEF Published
  <2>3. /\ remote'[t] = [remote[t] EXCEPT !.refs[onto[t]] = ours]
        /\ \A n \in Target \ {t} : remote'[n] = remote[n]
        /\ remote' \in [Target -> Remote]
    BY <1>4, <2>2 DEF PublishInv, PublishTypeOK, Remote
  <2>4. HasRemote(t)'
    BY <2>2, <2>3, PublishAssumption DEF HasRemote
  <2> QED
    BY <1>1, <1>4, <2>1, <2>3, <2>4 DEF ours
<1> QED
  BY <1>3, <1>4 DEF PushSends, PublishInv, PublishTypeOK

LEMMA SendsPublishInv == ASSUME PublishInv, NEW t \in Target, PushSends(t) PROVE PublishInv'
<1> USE DEF PublishInv
<1>1. PICK found \in {"ok", "failed"} : status' = [status EXCEPT ![t] = found]
  BY DEF PushSends
<1>2. /\ UNCHANGED <<place, op, request, chosen, reply, start, turns>>
      /\ op = "push" /\ status[t] = "planned"
      /\ onto' = [onto EXCEPT ![t] = NoRef]
      /\ refused' \in {refused, refused \cup {t}}
  BY DEF PushSends, Stay
<1>3. remote' \in [Target -> Remote] /\ \A n \in Target : HasRemote(n)' = HasRemote(n)
  BY Sent DEF HasRemote
<1>4. PublishTypeOK'
  BY <1>1, <1>2, <1>3 DEF PublishTypeOK, Statuses, Remote
<1>5. Asking'
  BY <1>1, <1>2 DEF Asking, PublishTypeOK
<1>6. \A n \in Target : /\ Looked(n)' = Looked(n) /\ PushBranch(n)' = PushBranch(n)
                        /\ IsRepo(n)' = IsRepo(n)
  BY <1>2, <1>3 DEF Looked, Unsupported, RemoteResolves, RefspecResolves, IsRepo, PushBranch
<1>7. \A n \in Target \ {t} : /\ status'[n] = status[n] /\ onto'[n] = onto[n]
                              /\ remote'[n] = remote[n] /\ Landed(n)' = Landed(n)
  <2>1. \A n \in Target \ {t} : status'[n] = status[n] /\ onto'[n] = onto[n]
    BY <1>1, <1>2 DEF PublishTypeOK
  <2>2. \A n \in Target \ {t} : remote'[n] = remote[n]
    BY Sent
  <2>3. \A n \in Target \ {t} : Landed(n)' = Landed(n)
    BY <1>2, <1>3, <1>6, <2>2 DEF Landed
  <2> QED
    BY <2>1, <2>2, <2>3
<1>8. status'[t] \in {"ok", "failed"}
  BY <1>1 DEF PublishTypeOK
<1>9. Undisturbed /\ status'[t] = "ok" => t \in refused' \/ Landed(t)'
  <2> SUFFICES ASSUME Undisturbed, status'[t] = "ok", t \notin refused' PROVE Landed(t)'
    OBVIOUS
  <2>1. IsRepo(t) /\ PushBranch(t) \in Branch /\ onto[t] = PushBranch(t)
    BY <1>2 DEF PushesHold, Asking, PublishTypeOK
  <2>2. /\ HasRemote(t) /\ remote[t] \in Published
        /\ remote'[t] = [remote[t] EXCEPT !.refs[PushBranch(t)] = place[t].refs[PushBranch(t)]]
    BY <2>1, Sent
  <2>3. remote'[t].refs[PushBranch(t)] = place[t].refs[PushBranch(t)]
    BY <2>1, <2>2 DEF Published
  <2> QED
    BY <1>2, <1>3, <1>6, <2>1, <2>2, <2>3, RepoAssumption DEF Landed
<1>10. PushesHold'
  BY <1>2, <1>6, <1>7, <1>8, <1>9 DEF PushesHold, Undisturbed, PublishTypeOK
<1> QED
  BY <1>2, <1>4, <1>5, <1>10 DEF LooksHold, TagsHold

\* One member's turn in a tag operation.
LEMMA Turn ==
  ASSUME PublishInv, NEW m \in Member, TagMember(m)
  PROVE  \E out :
           /\ place' = [place EXCEPT ![m] = out.place]
           /\ remote' = [remote EXCEPT ![m] = out.remote]
           /\ out.place \in Place /\ out.remote \in Remote
           /\ HasRemote(m) /\ request.kind # "delete_remote" =>
                /\ out.remote # NoRemote /\ out.remote.refs = remote[m].refs
                /\ \A x \in Tag : Grows(remote[m].tags[x], out.remote.tags[x])
           /\ \/ Returns("error")
              \/ /\ Stay /\ UNCHANGED onto
                 /\ status' = [status EXCEPT ![m] = "ok"]
                 /\ refused' \in {refused, refused \cup {m}}
                 /\ out.place # Absent =>
                      Meets(place[m], out.place, out.remote, m \in refused')
<1> USE DEF PublishInv
<1>1. m \in Target /\ request \in Asked /\ request.kind # "push"
  BY DEF TagMember, Asking, Target
<1>2. PICK out \in IF IsRepo(m) THEN TagCall(place[m], remote[m])
                   ELSE {After(FALSE, place[m], remote[m])} :
        /\ place' = [place EXCEPT ![m] = out.place]
        /\ remote' = [remote EXCEPT ![m] = out.remote]
        /\ IF out.error THEN Returns("error")
           ELSE /\ status' = [status EXCEPT ![m] = "ok"]
                /\ refused' = IF out.refused THEN refused \cup {m} ELSE refused
                /\ Stay
                /\ UNCHANGED onto
  BY DEF TagMember
<1>3. remote[m] \in Remote
  BY <1>1 DEF PublishTypeOK, Remote
<1>4. CASE IsRepo(m)
  <2>1. place[m] \in Checkout
    BY <1>1, <1>4 DEF PublishTypeOK, IsRepo
  <2>2. /\ out.place \in Checkout /\ out.remote \in Remote
        /\ out.remote = NoRemote <=> remote[m] = NoRemote
        /\ remote[m] # NoRemote /\ request.kind # "delete_remote" =>
             /\ out.remote.refs = remote[m].refs
             /\ \A x \in Tag : Grows(remote[m].tags[x], out.remote.tags[x])
        /\ ~out.error => Meets(place[m], out.place, out.remote, out.refused)
    BY <1>1, <1>2, <1>3, <1>4, <2>1, TagCallOutcome
  <2>3. ~out.error => Meets(place[m], out.place, out.remote, m \in refused')
    BY <1>2, <2>2 DEF Meets
  <2> QED
    BY <1>2, <2>2, <2>3 DEF Place, HasRemote
<1>5. CASE ~IsRepo(m)
  <2>1. out.place = Absent /\ out.remote = remote[m] /\ out.error = FALSE
    BY <1>2, <1>5 DEF After, IsRepo
  <2>2. \A x \in Tag : Grows(remote[m].tags[x], remote[m].tags[x])
    BY DEF Grows, Within
  <2> QED
    BY <1>2, <1>3, <2>1, <2>2 DEF Place, HasRemote
<1> QED
  BY <1>4, <1>5

LEMMA TagMemberPublishInv == ASSUME PublishInv, NEW m \in Member, TagMember(m) PROVE PublishInv'
<1> USE DEF PublishInv
<1>1. m \in Target /\ op = "tag" /\ status[m] = "todo" /\ request \in Asked
      /\ request.kind # "push"
  BY DEF TagMember, Asking, Target
<1>2. PICK out :
           /\ place' = [place EXCEPT ![m] = out.place]
           /\ remote' = [remote EXCEPT ![m] = out.remote]
           /\ out.place \in Place /\ out.remote \in Remote
           /\ \/ Returns("error")
              \/ /\ Stay /\ UNCHANGED onto
                 /\ status' = [status EXCEPT ![m] = "ok"]
                 /\ refused' \in {refused, refused \cup {m}}
                 /\ out.place # Absent =>
                      Meets(place[m], out.place, out.remote, m \in refused')
  BY Turn
<1>3. place' \in [Target -> Place] /\ remote' \in [Target -> Remote]
  BY <1>1, <1>2 DEF PublishTypeOK, Place, Remote
<1>4. CASE Returns("error")
  BY <1>3, <1>4, ReturnsPublishInv
<1>5. CASE /\ Stay /\ UNCHANGED onto
           /\ status' = [status EXCEPT ![m] = "ok"]
           /\ refused' \in {refused, refused \cup {m}}
           /\ out.place # Absent => Meets(place[m], out.place, out.remote, m \in refused')
  <2>1. UNCHANGED <<op, request, chosen, reply, start, turns, onto>>
    BY <1>5 DEF Stay
  <2>2. PublishTypeOK' /\ Asking'
    BY <1>1, <1>3, <1>5, <2>1 DEF PublishTypeOK, Asking, Statuses, Place, Remote
  <2>3. /\ place'[m] = out.place /\ remote'[m] = out.remote /\ status'[m] = "ok"
        /\ \A n \in Target \ {m} : /\ place'[n] = place[n] /\ remote'[n] = remote[n]
                                   /\ status'[n] = status[n]
                                   /\ n \in refused' <=> n \in refused
    BY <1>1, <1>2, <1>5 DEF PublishTypeOK
  <2>4. ASSUME Undisturbed, NEW n \in chosen
        PROVE  /\ status'[n] = "todo" => place'[n] = start.place[n]
               /\ status'[n] # "todo" /\ IsRepo(n)' =>
                    Meets(start.place[n], place'[n], remote'[n], n \in refused')
    <3>1. CASE n = m
      BY <1>1, <1>5, <2>3, <2>4, <3>1 DEF TagsHold, IsRepo
    <3>2. CASE n # m
      <4>1. n \in Target
        BY DEF PublishTypeOK
      <4> QED
        BY <1>1, <2>3, <2>4, <3>2, <4>1 DEF TagsHold, IsRepo, Meets
    <3> QED
      BY <3>1, <3>2
  <2>5. TagsHold'
    BY <2>1, <2>4 DEF TagsHold, Undisturbed, Meets
  <2> QED
    BY <1>1, <2>1, <2>2, <2>5 DEF LooksHold, PushesHold
<1> QED
  BY <1>2, <1>4, <1>5

LEMMA PeoplePublishInv == PublishInv /\ People => PublishInv'
<1> SUFFICES ASSUME PublishInv, People PROVE PublishInv'
  OBVIOUS
<1> USE DEF PublishInv
<1>1. /\ turns' \in 0 .. MaxTurns /\ start' = Disturbed
      /\ UNCHANGED <<op, request, chosen, status, onto, reply, refused>>
  BY PublishAssumption DEF People, Meddling, PublishTypeOK
<1>2. ASSUME NEW r \in Checkout, NEW s \in Worked(r) PROVE s \in Checkout
  <2>1. CASE \E b \in Branch : s = Attach(r, b)
    BY <2>1 DEF Attach, Checkout, Commit
  <2>2. CASE HeadCommit(r) # NoRef
    <3>1. HeadCommit(r) \in Commit
      BY <2>2, HeadIsCommit
    <3>2. CASE \E c \in Change : s = MoveHead(r, HeadCommit(r) \cup {c})
      <4>1. PICK k \in Commit : s = MoveHead(r, k)
        BY <3>1, <3>2 DEF Commit
      <4> QED
        BY <4>1 DEF MoveHead, Checkout, Ref
    <3>3. CASE s = Detach(r, HeadCommit(r))
      BY <3>1, <3>3 DEF Detach, Checkout
    <3>4. CASE \E x \in Tag : s = [r EXCEPT !.tags[x] = HeadCommit(r)]
      BY <3>1, <3>4, TagSet DEF Ref
    <3> QED
      BY <1>2, <2>1, <2>2, <3>2, <3>3, <3>4 DEF Worked
  <2> QED
    BY <1>2, <2>1, <2>2 DEF Worked
<1>3. ASSUME NEW u \in Published, NEW v \in Pushed(u) PROVE v \in Published
  <2>1. CASE \E b \in Branch, k \in Commit : v = [u EXCEPT !.refs[b] = k]
    BY <2>1 DEF Published, Ref
  <2>2. CASE \E x \in Tag, b \in Branch : v = [u EXCEPT !.tags[x] = u.refs[b]]
    BY <2>2 DEF Published
  <2>3. \A b \in Branch, c \in Change : u.refs[b] # NoRef => u.refs[b] \cup {c} \in Commit
    BY DEF Published, Ref, Commit
  <2>4. \/ \E b \in Branch, c \in Change :
             u.refs[b] # NoRef /\ v = [u EXCEPT !.refs[b] = u.refs[b] \cup {c}]
        \/ \E x \in Tag, b \in Branch : v = [u EXCEPT !.tags[x] = u.refs[b]]
    BY <1>3 DEF Pushed
  <2> QED
    BY <2>1, <2>2, <2>3, <2>4
<1>4. place' \in [Target -> Place] /\ remote' \in [Target -> Remote]
  <2>1. PICK t \in Target :
          \/ /\ IsRepo(t)
             /\ \E r \in Worked(place[t]) \cup {Absent} : place' = [place EXCEPT ![t] = r]
             /\ UNCHANGED remote
          \/ /\ HasRemote(t)
             /\ \E u \in Pushed(remote[t]) : remote' = [remote EXCEPT ![t] = u]
             /\ UNCHANGED place
    BY DEF People
  <2> QED
    BY <1>2, <1>3, <2>1 DEF PublishTypeOK, IsRepo, HasRemote, Place, Remote
<1>5. PublishTypeOK'
  BY <1>1, <1>4 DEF PublishTypeOK, Place, Remote
<1> QED
  BY <1>1, <1>5 DEF Asking, LooksHold, PushesHold, TagsHold, Undisturbed

LEMMA NextPublishInv == PublishInv /\ [PublishStep]_publish => PublishInv'
<1> SUFFICES ASSUME PublishInv, [PublishStep]_publish PROVE PublishInv'
  OBVIOUS
<1>1. place \in [Target -> Place] /\ remote \in [Target -> Remote]
  BY DEF PublishInv, PublishTypeOK, Place, Remote
<1>2. CASE PushBegins
  <2>1. PICK asked \in Asked, sel \in Selections :
          /\ asked.kind = "push" /\ Resolves(Member, Target, TRUE, sel)
          /\ Begins(asked, Selected(Member, Target, sel), "preflight")
    BY <1>2 DEF PushBegins
  <2>2. Selected(Member, Target, sel) \subseteq Target
    BY <2>1, SelectedIsTarget DEF Target
  <2> QED
    BY <2>1, <2>2, BeginsPublishInv
<1>3. CASE TagBegins
  <2>1. PICK asked \in Asked, sel \in Selections :
          /\ asked.kind # "push" /\ Resolves(Member, Member, FALSE, sel)
          /\ Begins(asked, Selected(Member, Member, sel), "tag")
    BY <1>3 DEF TagBegins
  <2>2. Selected(Member, Member, sel) \subseteq Member
    <3>1. Selected(Member, Member, sel) \subseteq Member \cup {Root}
      BY <2>1, SelectedIsTarget DEF Target
    <3>2. Root \notin Selected(Member, Member, sel)
      BY <2>1 DEF Resolves
    <3> QED
      BY <3>1, <3>2
  <2> QED
    BY <2>1, <2>2, BeginsPublishInv DEF Target
<1>4. CASE PushEndsEarly \/ PushReturns
  <2>1. PICK found : Returns(Aggregate(found)) /\ UNCHANGED <<place, remote>>
    BY <1>4 DEF PushEndsEarly, PushReturns
  <2>2. Aggregate(found) \in {"ok", "noop", "partial", "rejected", "failed"}
    BY DEF Aggregate
  <2> QED
    BY <1>1, <2>1, <2>2, ReturnsPublishInv
<1>5. CASE TagReturns \/ Die
  BY <1>1, <1>5, ReturnsPublishInv DEF TagReturns, Die
<1>6. CASE PushGoesOn
  BY <1>6, GoesOnPublishInv
<1>7. ASSUME NEW t \in Target, PushLooks(t) \/ PushReads(t) \/ PushSends(t) PROVE PublishInv'
  BY <1>7, LooksPublishInv, ReadsPublishInv, SendsPublishInv
<1>8. ASSUME NEW m \in Member, TagMember(m) PROVE PublishInv'
  BY <1>8, TagMemberPublishInv
<1>9. CASE People
  BY <1>9, PeoplePublishInv
<1>10. CASE UNCHANGED publish
  <2>1. UNCHANGED <<place, remote, op, request, chosen, status, onto, reply, refused, start,
                    turns>>
    BY <1>10 DEF publish
  <2>2. \A t \in Target : /\ Looked(t)' = Looked(t) /\ PushBranch(t)' = PushBranch(t)
                          /\ IsRepo(t)' = IsRepo(t) /\ Landed(t)' = Landed(t)
    BY <2>1 DEF Looked, Unsupported, RemoteResolves, RefspecResolves, HasRemote, IsRepo,
       PushBranch, Landed
  <2>3. PublishTypeOK' /\ Asking'
    BY <2>1 DEF PublishInv, PublishTypeOK, Asking
  <2>4. LooksHold' /\ PushesHold'
    BY <2>1, <2>2 DEF PublishInv, LooksHold, PushesHold, Undisturbed, PublishTypeOK
  <2>5. TagsHold'
    BY <2>1 DEF PublishInv, TagsHold, Undisturbed, Meets, IsRepo
  <2> QED
    BY <2>3, <2>4, <2>5 DEF PublishInv
<1> QED
  BY <1>2, <1>3, <1>4, <1>5, <1>6, <1>7, <1>8, <1>9, <1>10 DEF PublishStep

-----------------------------------------------------------------------------
(* The theorems. *)

\* Repositories, remotes and the operation's own state keep their types.
THEOREM PublishTypeCorrect == PublishSpec => []PublishTypeOK
<1>1. PublishInv => PublishTypeOK
  BY DEF PublishInv
<1> QED
  BY InitPublishInv, NextPublishInv, <1>1, PTL DEF PublishSpec

\* No push that is not forced and no tag operation that does not delete drops
\* a commit from a branch or a tag of a remote, whatever people do meanwhile.
THEOREM NothingPublishedIsLost == PublishSpec => PublishedOnlyGrows
<1>1. ASSUME PublishInv, NEW t \in Target, HasRemote(t),
             PushSends(t) /\ request.spec # "forced"
      PROVE  /\ \A b \in Branch : Grows(remote[t].refs[b], remote'[t].refs[b])
             /\ \A x \in Tag : Grows(remote[t].tags[x], remote'[t].tags[x])
  <2>1. remote[t] \in Published
    BY <1>1 DEF PublishInv, PublishTypeOK, HasRemote
  <2>2. CASE remote'[t] = remote[t]
    BY <2>2 DEF Grows, Within
  <2>3. CASE remote'[t] # remote[t]
    <3>1. PICK ours :
            /\ remote'[t] = [remote[t] EXCEPT !.refs[onto[t]] = ours]
            /\ Accepted(remote[t].refs[onto[t]], ours, request.spec = "forced")
      BY <1>1, <2>3, Sent
    <3>2. remote'[t].tags = remote[t].tags
      BY <2>1, <3>1 DEF Published
    <3>3. \A b \in Branch : remote'[t].refs[b] = IF b = onto[t] THEN ours ELSE remote[t].refs[b]
      BY <2>1, <3>1 DEF Published
    <3> QED
      BY <1>1, <3>1, <3>2, <3>3 DEF Accepted, Grows, Within
  <2> QED
    BY <2>2, <2>3
<1>2. ASSUME PublishInv, NEW t \in Target, HasRemote(t),
             t \in Member /\ TagMember(t) /\ request.kind # "delete_remote"
      PROVE  /\ \A b \in Branch : Grows(remote[t].refs[b], remote'[t].refs[b])
             /\ \A x \in Tag : Grows(remote[t].tags[x], remote'[t].tags[x])
  <2>1. PICK out : /\ remote' = [remote EXCEPT ![t] = out.remote]
                   /\ out.remote.refs = remote[t].refs
                   /\ \A x \in Tag : Grows(remote[t].tags[x], out.remote.tags[x])
    BY <1>2, Turn
  <2>2. remote'[t] = out.remote
    BY <1>2, <2>1 DEF PublishInv, PublishTypeOK
  <2> QED
    BY <2>1, <2>2 DEF Grows, Within
<1>3. PublishInv => \A t \in Target :
        /\ HasRemote(t)
        /\ \/ PushSends(t) /\ request.spec # "forced"
           \/ t \in Member /\ TagMember(t) /\ request.kind # "delete_remote"
        => /\ \A b \in Branch : Grows(remote[t].refs[b], remote'[t].refs[b])
           /\ \A x \in Tag : Grows(remote[t].tags[x], remote'[t].tags[x])
  BY <1>1, <1>2
<1> QED
  BY InitPublishInv, NextPublishInv, <1>3, PTL DEF PublishSpec, PublishedOnlyGrows

\* No remote is moved while a selected target is known not to be ready.
THEOREM ReadyBefore == PublishSpec => ReadyBeforeAnyMoves
<1>1. PublishInv => \A t \in Target :
        PushSends(t) /\ start # Disturbed =>
          \A n \in chosen : Looked(n) \in {"planned", "skipped"}
  BY DEF PublishInv, PushSends, PushesHold, Undisturbed
<1> QED
  BY InitPublishInv, NextPublishInv, <1>1, PTL DEF PublishSpec, ReadyBeforeAnyMoves

\* The aggregate status of a push is true of the remotes, whichever targets
\* it had, and whichever of its calls failed with or without an effect.
THEOREM ReportIsTrue == PublishSpec => ReportTellsPush
<1>1. ASSUME PublishInv, start # Disturbed, PushReturns \/ PushEndsEarly
      PROVE  LET landed == {t \in chosen : t \in refused \/ Landed(t)}
             IN  /\ reply' = "ok" /\ ~request.dry => landed = chosen
                 /\ reply' \in {"noop", "rejected"} \/ request.dry => remote = start.remote
                 /\ reply' = "partial" =>
                      landed # {} /\ \E t \in chosen : status[t] # "ok"
  <2>1. reply' = Aggregate(Found) /\ chosen \subseteq Target
    BY <1>1 DEF PushReturns, PushEndsEarly, Returns, PublishInv, PublishTypeOK
  <2>2. CASE PushEndsEarly
    <3>1. remote = start.remote
      BY <1>1, <2>2 DEF PushEndsEarly, PublishInv, LooksHold, Undisturbed
    <3>2. "ok" \notin Found
      BY <1>1, <2>2, <2>1, LookedRange DEF PushEndsEarly, PublishInv, LooksHold, Undisturbed, Found
    <3>3. reply' # "partial" /\ (~request.dry => reply' # "ok")
      BY <2>1, <2>2, <3>2 DEF PushEndsEarly, Aggregate
    <3> QED
      BY <3>1, <3>3
  <2>3. CASE PushReturns
    <3>1. /\ ~request.dry /\ Found \cap {"todo", "planned"} = {}
          /\ \A t \in Target : status[t] \notin {"ok", "failed"} => remote[t] = start.remote[t]
          /\ \A t \in chosen : status[t] = "ok" => t \in refused \/ Landed(t)
      BY <1>1, <2>3 DEF PushReturns, PublishInv, PushesHold, Undisturbed
    <3>2. Found \subseteq {"ok", "failed", "rejected", "skipped"}
      BY <1>1, <2>1, <3>1 DEF PublishInv, PublishTypeOK, Statuses, Asking, Found
    <3>3. CASE reply' = "ok"
      <4>1. \A t \in chosen : status[t] = "ok"
        BY <2>1, <3>2, <3>3 DEF Aggregate, Found
      <4> QED
        BY <3>1, <3>3, <4>1
    <3>4. CASE reply' \in {"noop", "rejected"}
      <4>1. \A t \in chosen : status[t] \notin {"ok", "failed"}
        BY <2>1, <3>2, <3>4 DEF Aggregate, Found
      <4>2. \A t \in Target \ chosen : status[t] = "none"
        BY <1>1 DEF PublishInv, Asking
      <4>3. \A t \in Target : remote[t] = start.remote[t]
        BY <3>1, <4>1, <4>2
      <4>4. remote = start.remote
        BY <1>1, <4>3 DEF PublishInv, PublishTypeOK
      <4> QED
        BY <3>1, <3>4, <4>4
    <3>5. CASE reply' = "partial"
      <4>1. "ok" \in Found /\ Found \cap {"failed", "rejected", "skipped"} # {}
        BY <2>1, <3>5 DEF Aggregate
      <4> QED
        BY <3>1, <3>5, <4>1 DEF Found
    <3> QED
      BY <3>1, <3>3, <3>4, <3>5
  <2> QED
    BY <1>1, <2>2, <2>3
<1>2. PublishInv => ((PushReturns \/ PushEndsEarly) /\ start # Disturbed =>
                LET landed == {t \in chosen : t \in refused \/ Landed(t)}
                IN  /\ reply' = "ok" /\ ~request.dry => landed = chosen
                    /\ reply' \in {"noop", "rejected"} \/ request.dry => remote = start.remote
                    /\ reply' = "partial" =>
                         landed # {} /\ \E t \in chosen : status[t] # "ok")
  BY <1>1
<1> QED
  BY InitPublishInv, NextPublishInv, <1>2, PTL DEF PublishSpec, ReportTellsPush

\* A tag operation that says ok has done its work in every repository.
THEOREM TagsReachAll == PublishSpec => TagReachesEveryMember
<1>1. ASSUME PublishInv, TagReturns, start # Disturbed, NEW m \in chosen, IsRepo(m)
      PROVE  TagReached(m)
  <2>1. request \in Asked /\ request.kind # "push"
    BY <1>1 DEF TagReturns, PublishInv, Asking
  <2>2. status[m] # "todo"
    BY <1>1 DEF TagReturns, Found
  <2>3. Meets(start.place[m], place[m], remote[m], m \in refused)
    BY <1>1, <2>2 DEF TagReturns, PublishInv, TagsHold, Undisturbed
  <2> QED
    BY <2>1, <2>3, MeetsIsReached
<1>2. PublishInv => (TagReturns /\ start # Disturbed =>
                 \A m \in {n \in chosen : IsRepo(n)} : TagReached(m))
  BY <1>1
<1> QED
  BY InitPublishInv, NextPublishInv, <1>2, PTL DEF PublishSpec, TagReachesEveryMember

-----------------------------------------------------------------------------
(* gwz add (Staging): paths.                                               *)

\* What holds of 0, and of the next number up to a bound, holds up to it.
LEMMA UpTo ==
  ASSUME NEW n \in Nat, NEW S, 0 \in S, \A i \in 1 .. n : i - 1 \in S => i \in S
  PROVE  \A i \in 0 .. n : i \in S
<1> DEFINE T == {i \in 0 .. n : i \notin S}
           R == OpToRel(<, Nat)
<1> SUFFICES ASSUME T # {} PROVE FALSE
  OBVIOUS
<1>1. T \subseteq Nat
  OBVIOUS
<1>2. IsWellFoundedOn(R, Nat)
  BY NatLessThanWellFounded
<1> HIDE DEF T
<1>3. PICK x \in T : \A y \in T : ~(<<y, x>> \in R)
  BY <1>1, <1>2, WFMin
<1>4. x \in 1 .. n /\ x \notin S
  BY DEF T
<1>5. x - 1 \notin T
  <2>1. x - 1 \in T => x - 1 \in Nat /\ x \in Nat /\ x - 1 < x
    BY <1>1, <1>4
  <2> QED
    BY <1>3, <2>1 DEF OpToRel
<1>6. x - 1 \in S
  BY <1>4, <1>5 DEF T
<1> QED
  BY <1>4, <1>6

\* Taking ".." out of a path leaves a path.
LEMMA NormalizedType ==
  ASSUME NEW p \in Path PROVE Normalized(p) \in Path
<1> DEFINE n == Len(p)
           Step(g, i) ==
             IF i = 0 THEN <<>>
             ELSE IF p[i] # ".." THEN Append(g[i - 1], p[i])
             ELSE SubSeq(g[i - 1], 1, Len(g[i - 1]) - 1)
           Good(k, g) == g = [i \in 0 .. k |-> Step(g, i)]
           S == {k \in 0 .. n : \E g : Good(k, g)}
           upTo == CHOOSE g : Good(n, g)
<1>1. n \in Nat /\ \A i \in 1 .. n : p[i] \in STRING
  BY DEF Path
<1>2. Normalized(p) = upTo[n]
  BY DEF Normalized
<1>3. \E g : Good(n, g)
  <2>1. 0 \in S
    <3> DEFINE empty == [i \in 0 .. 0 |-> <<>>]
    <3>1. Good(0, empty)
      OBVIOUS
    <3>2. 0 \in 0 .. n
      BY <1>1
    <3> HIDE DEF Good, empty, n
    <3> QED
      BY <3>1, <3>2
  <2>2. ASSUME NEW k \in 1 .. n, k - 1 \in S PROVE k \in S
    <3>1. PICK g : Good(k - 1, g)
      BY <2>2
    <3> DEFINE last == Step(g, k)
               h    == [i \in 0 .. k |-> IF i = k THEN last ELSE g[i]]
    <3>2. \A i \in 0 .. k - 1 : h[i] = g[i] /\ g[i] = Step(g, i)
      <4>1. \A i \in 0 .. k - 1 : g[i] = Step(g, i)
        BY <3>1
      <4>2. \A i \in 0 .. k - 1 : i \in 0 .. k /\ i # k
        BY <1>1
      <4> HIDE DEF Step, last
      <4> QED
        BY <4>1, <4>2
    <3>5. h[k] = last
      BY <1>1
    <3> HIDE DEF last, h
    <3>3. \A i \in 0 .. k : h[i] = Step(h, i)
      <4> TAKE i \in 0 .. k
      <4>1. CASE i = k
        <5>1. h[k - 1] = g[k - 1] /\ k # 0
          BY <1>1, <3>2
        <5> QED
          BY <3>5, <4>1, <5>1 DEF last
      <4>2. CASE i = 0
        BY <1>1, <3>2, <4>2
      <4>3. CASE i # k /\ i # 0
        <5>1. i \in 0 .. k - 1 /\ i - 1 \in 0 .. k - 1
          BY <1>1, <4>3
        <5>2. h[i] = g[i] /\ h[i - 1] = g[i - 1] /\ g[i] = Step(g, i)
          BY <3>2, <5>1
        <5> QED
          BY <4>3, <5>2
      <4> QED
        BY <4>1, <4>2, <4>3
    <3>4. Good(k, h)
      <4>1. h = [i \in 0 .. k |-> h[i]]
        BY DEF h
      <4> HIDE DEF Step
      <4> QED
        BY <3>3, <4>1
    <3> HIDE DEF Good
    <3> QED
      BY <1>1, <3>4
  <2> HIDE DEF S
  <2>3. \A k \in 1 .. n : k - 1 \in S => k \in S
    BY <2>2
  <2> HIDE DEF n
  <2>4. \A k \in 0 .. n : k \in S
    BY <1>1, <2>1, <2>3, UpTo
  <2>5. n \in S
    BY <1>1, <2>4
  <2> QED
    BY <2>5 DEF S
<1>4. Good(n, upTo)
  <2> HIDE DEF Good
  <2> QED
    BY <1>3
<1> HIDE DEF upTo
<1>5. \A i \in 0 .. n : upTo[i] = Step(upTo, i)
  BY <1>4
<1> HIDE DEF Good
<1> DEFINE T == {i \in 0 .. n : upTo[i] \in Path}
<1>6. 0 \in T
  <2>1. 0 \in 0 .. n
    BY <1>1
  <2>2. upTo[0] = <<>>
    BY <1>5, <2>1
  <2>3. <<>> \in Path
    BY DEF Path
  <2> HIDE DEF n, Step
  <2> QED
    BY <2>1, <2>2, <2>3
<1>7. ASSUME NEW k \in 1 .. n, k - 1 \in T PROVE k \in T
  <2> DEFINE s == upTo[k - 1]
  <2>1. /\ s \in Seq(STRING) /\ p[k] \in STRING /\ k \in 0 .. n
        /\ upTo[k] = IF p[k] # ".." THEN Append(s, p[k]) ELSE SubSeq(s, 1, Len(s) - 1)
    BY <1>1, <1>5, <1>7 DEF Path
  <2> HIDE DEF s
  <2>2. Append(s, p[k]) \in Seq(STRING)
    BY <2>1
  <2>3. SubSeq(s, 1, Len(s) - 1) \in Seq(STRING)
    BY <2>1
  <2> QED
    BY <2>1, <2>2, <2>3 DEF Path
<1> HIDE DEF T, n
<1>8. \A k \in 0 .. n : k \in T
  <2>1. \A k \in 1 .. n : k - 1 \in T => k \in T
    BY <1>7
  <2> QED
    BY <1>1, <1>6, <2>1, UpTo
<1>9. n \in T
  BY <1>1, <1>8
<1> QED
  BY <1>2, <1>9 DEF T

LEMMA UnderPoints ==
  ASSUME NEW p \in Path, NEW q \in Path
  PROVE  /\ Under(p, q) <=> Len(p) <= Len(q) /\ \A i \in 1 .. Len(p) : p[i] = q[i]
         /\ Len(p) \in Nat /\ Len(q) \in Nat
<1>1. /\ p \in Seq(STRING) /\ q \in Seq(STRING) /\ Len(p) \in Nat /\ Len(q) \in Nat
  BY DEF Path
<1> DEFINE s == SubSeq(q, 1, Len(p))
<1>2. ASSUME Len(p) <= Len(q)
      PROVE  /\ s \in Seq(STRING) /\ Len(s) = Len(p)
             /\ \A i \in 1 .. Len(p) : s[i] = q[i]
  BY <1>1, <1>2
<1>3. ASSUME Len(p) <= Len(q), \A i \in 1 .. Len(p) : p[i] = q[i] PROVE s = p
  <2> HIDE DEF s
  <2> QED
    BY <1>1, <1>2, <1>3
<1>4. ASSUME Len(p) <= Len(q), s = p PROVE \A i \in 1 .. Len(p) : p[i] = q[i]
  <2> HIDE DEF s
  <2> QED
    BY <1>1, <1>2, <1>4
<1> QED
  BY <1>1, <1>3, <1>4 DEF Under

LEMMA ConcatType ==
  ASSUME NEW p \in Path, NEW q \in Path
  PROVE  /\ p \o q \in Path /\ Len(p \o q) = Len(p) + Len(q)
         /\ \A i \in 1 .. Len(p) : (p \o q)[i] = p[i]
         /\ \A i \in 1 .. Len(q) : (p \o q)[Len(p) + i] = q[i]
BY DEF Path

\* What is under a path is the path and the rest.
LEMMA RelativeRest ==
  ASSUME NEW p \in Path, NEW q \in Path, Under(p, q)
  PROVE  Relative(p, q) \in Path /\ p \o Relative(p, q) = q
<1> DEFINE s == SubSeq(q, Len(p) + 1, Len(q))
<1>1. /\ Len(p) <= Len(q) /\ \A i \in 1 .. Len(p) : p[i] = q[i]
      /\ Len(p) \in Nat /\ Len(q) \in Nat
      /\ p \in Seq(STRING) /\ q \in Seq(STRING)
  BY UnderPoints DEF Path
<1>2. /\ s \in Seq(STRING) /\ Len(s) = Len(q) - Len(p)
      /\ \A i \in 1 .. Len(q) - Len(p) : s[i] = q[Len(p) + i]
  BY <1>1
<1> HIDE DEF s
<1>3. p \o s = q
  <2> DEFINE ps == p \o s
  <2>1. /\ ps \in Seq(STRING) /\ Len(ps) = Len(q)
        /\ \A i \in 1 .. Len(p) : ps[i] = p[i]
        /\ \A i \in 1 .. Len(s) : ps[Len(p) + i] = s[i]
    BY <1>1, <1>2
  <2> HIDE DEF ps
  <2>2. ASSUME NEW i \in 1 .. Len(q) PROVE ps[i] = q[i]
    <3>1. CASE i \in 1 .. Len(p)
      BY <1>1, <2>1, <3>1
    <3>2. CASE i > Len(p)
      <4>1. i - Len(p) \in 1 .. Len(q) - Len(p) /\ Len(p) + (i - Len(p)) = i
        BY <1>1, <3>2
      <4>2. ps[Len(p) + (i - Len(p))] = s[i - Len(p)]
        BY <1>2, <2>1, <4>1
      <4>3. s[i - Len(p)] = q[Len(p) + (i - Len(p))]
        BY <1>2, <4>1
      <4> QED
        BY <4>1, <4>2, <4>3
    <3> QED
      BY <1>1, <3>1, <3>2
  <2>3. ps = q
    BY <1>1, <2>1, <2>2
  <2> QED
    BY <2>3 DEF ps
<1> QED
  BY <1>2, <1>3 DEF Relative, s, Path

LEMMA UnderSelf == \A p \in Path : Under(p, p) /\ Under(<<>>, p) /\ p \o <<>> = p /\ <<>> \o p = p
<1> TAKE p \in Path
<1>1. <<>> \in Path /\ Len(<<>>) = 0
  BY DEF Path
<1>2. Under(p, p)
  BY UnderPoints
<1>3. Under(<<>>, p)
  BY <1>1, UnderPoints
<1>4. p \o <<>> = p /\ <<>> \o p = p
  BY DEF Path
<1> QED
  BY <1>2, <1>3, <1>4

LEMMA UnderTrans ==
  ASSUME NEW p \in Path, NEW q \in Path, NEW r \in Path, Under(p, q), Under(q, r)
  PROVE  Under(p, r)
<1>1. /\ Len(p) <= Len(q) /\ \A i \in 1 .. Len(p) : p[i] = q[i]
      /\ Len(q) <= Len(r) /\ \A i \in 1 .. Len(q) : q[i] = r[i]
      /\ Len(p) \in Nat /\ Len(q) \in Nat /\ Len(r) \in Nat
  BY UnderPoints
<1>2. \A i \in 1 .. Len(p) : i \in 1 .. Len(q)
  BY <1>1
<1>3. Len(p) <= Len(r) /\ \A i \in 1 .. Len(p) : p[i] = r[i]
  BY <1>1, <1>2
<1> QED
  BY <1>3, UnderPoints

\* Of two paths above a third, one is above the other.
LEMMA UnderComparable ==
  ASSUME NEW p \in Path, NEW q \in Path, NEW r \in Path, Under(p, r), Under(q, r)
  PROVE  Under(p, q) \/ Under(q, p)
<1>1. /\ Len(p) <= Len(r) /\ \A i \in 1 .. Len(p) : p[i] = r[i]
      /\ Len(q) <= Len(r) /\ \A i \in 1 .. Len(q) : q[i] = r[i]
      /\ Len(p) \in Nat /\ Len(q) \in Nat
  BY UnderPoints
<1>2. CASE Len(p) <= Len(q)
  <2>1. \A i \in 1 .. Len(p) : p[i] = q[i]
    <3> TAKE i \in 1 .. Len(p)
    <3>1. i \in 1 .. Len(q)
      BY <1>1, <1>2
    <3> QED
      BY <1>1, <3>1
  <2> QED
    BY <1>2, <2>1, UnderPoints
<1>3. CASE Len(q) <= Len(p)
  <2>1. \A i \in 1 .. Len(q) : q[i] = p[i]
    <3> TAKE i \in 1 .. Len(q)
    <3>1. i \in 1 .. Len(p)
      BY <1>1, <1>3
    <3> QED
      BY <1>1, <3>1
  <2> QED
    BY <1>3, <2>1, UnderPoints
<1> QED
  BY <1>1, <1>2, <1>3

LEMMA UnderBehind ==
  ASSUME NEW p \in Path, NEW a \in Path, NEW b \in Path
  PROVE  Under(p \o a, p \o b) <=> Under(a, b)
<1> DEFINE pa == p \o a
           pb == p \o b
<1>1. /\ pa \in Path /\ Len(pa) = Len(p) + Len(a)
      /\ \A i \in 1 .. Len(p) : pa[i] = p[i]
      /\ \A i \in 1 .. Len(a) : pa[Len(p) + i] = a[i]
      /\ pb \in Path /\ Len(pb) = Len(p) + Len(b)
      /\ \A i \in 1 .. Len(p) : pb[i] = p[i]
      /\ \A i \in 1 .. Len(b) : pb[Len(p) + i] = b[i]
  BY ConcatType
<1> HIDE DEF pa, pb
<1>2. Len(p) \in Nat /\ Len(a) \in Nat /\ Len(b) \in Nat
  BY UnderPoints
<1>3. ASSUME Under(pa, pb) PROVE Under(a, b)
  <2>1. Len(pa) <= Len(pb) /\ \A i \in 1 .. Len(pa) : pa[i] = pb[i]
    BY <1>1, <1>3, UnderPoints
  <2>2. Len(a) <= Len(b)
    BY <1>1, <1>2, <2>1
  <2>3. \A i \in 1 .. Len(a) : a[i] = b[i]
    <3> TAKE i \in 1 .. Len(a)
    <3>1. i \in 1 .. Len(b) /\ Len(p) + i \in 1 .. Len(pa)
      BY <1>1, <1>2, <2>2
    <3> QED
      BY <1>1, <2>1, <3>1
  <2> QED
    BY <2>2, <2>3, UnderPoints
<1>4. ASSUME Under(a, b) PROVE Under(pa, pb)
  <2>1. Len(a) <= Len(b) /\ \A i \in 1 .. Len(a) : a[i] = b[i]
    BY <1>4, UnderPoints
  <2>2. Len(pa) <= Len(pb)
    BY <1>1, <1>2, <2>1
  <2>3. \A i \in 1 .. Len(pa) : pa[i] = pb[i]
    <3> TAKE i \in 1 .. Len(pa)
    <3>1. CASE i \in 1 .. Len(p)
      BY <1>1, <3>1
    <3>2. CASE i > Len(p)
      <4>1. /\ i - Len(p) \in 1 .. Len(a) /\ i - Len(p) \in 1 .. Len(b)
            /\ Len(p) + (i - Len(p)) = i
        BY <1>1, <1>2, <2>1, <3>2
      <4>2. /\ pa[Len(p) + (i - Len(p))] = a[i - Len(p)]
            /\ pb[Len(p) + (i - Len(p))] = b[i - Len(p)]
        BY <1>1, <4>1
      <4> QED
        BY <2>1, <4>1, <4>2
    <3> QED
      BY <1>2, <3>1, <3>2
  <2> QED
    BY <1>1, <2>2, <2>3, UnderPoints
<1> QED
  BY <1>3, <1>4 DEF pa, pb

-----------------------------------------------------------------------------
(* Owners.                                                                 *)

LEMMA RepoPaths ==
  ASSUME NEW t \in Target
  PROVE  /\ RepoPath(t) \in Path
         /\ t = Root => RepoPath(t) = <<>>
         /\ t \in Member => t # Root /\ RepoPath(t) = PathOf[t] /\ PathOf[t] \in Path
<1>1. <<>> \in Path
  BY DEF Path
<1> QED
  BY <1>1, TargetsAssumption, StagingAssumption DEF RepoPath, Target

LEMMA FilesOfMember ==
  ASSUME NEW m \in Member
  PROVE  \A f \in File : f \in FilesOf(m) <=> Under(PathOf[m], f)
BY TargetsAssumption DEF FilesOf, RepoPath

LEMMA FilesOfType == \A t : FilesOf(t) \subseteq File
BY DEF FilesOf

LEMMA FileType == File \subseteq Path /\ WorkspaceRoot \in Path
BY StagingAssumption

\* Every file belongs to one repository, and to one only.
LEMMA SomeOwner ==
  ASSUME NEW f \in File PROVE \E t : t \in Target /\ f \in FilesOf(t)
<1>1. CASE \E m \in Member : Under(PathOf[m], f)
  BY <1>1, FilesOfMember DEF Target
<1>2. CASE \A m \in Member : ~Under(PathOf[m], f)
  <2>1. f \in FilesOf(Root)
    BY <1>2, FileType, UnderSelf DEF FilesOf, RepoPath
  <2> QED
    BY <2>1 DEF Target
<1> QED
  BY <1>1, <1>2

LEMMA OneOwner ==
  ASSUME NEW t \in Target, NEW u \in Target, NEW f, f \in FilesOf(t), f \in FilesOf(u)
  PROVE  t = u
<1>1. f \in File /\ f \in Path
  BY FilesOfType, FileType
<1>2. ASSUME NEW m \in Member, NEW n \in Member, f \in FilesOf(m), f \in FilesOf(n)
      PROVE  m = n
  <2>1. Under(PathOf[m], f) /\ Under(PathOf[n], f)
    BY <1>1, <1>2, FilesOfMember
  <2>2. PathOf[m] \in Path /\ PathOf[n] \in Path
    BY RepoPaths DEF Target
  <2>3. Under(PathOf[m], PathOf[n]) \/ Under(PathOf[n], PathOf[m])
    BY <1>1, <2>1, <2>2, UnderComparable
  <2> QED
    BY <2>3, StagingAssumption
<1>3. ASSUME NEW m \in Member, f \in FilesOf(m), f \in FilesOf(Root) PROVE FALSE
  BY <1>1, <1>3, FilesOfMember DEF FilesOf
<1> QED
  BY <1>2, <1>3 DEF Target

-----------------------------------------------------------------------------
(* A request's routes are what it covers.                                  *)

\* Covered, of any request.
Covers(q, f) ==
  IF q.all
  THEN q.narrow =>
         \E t \in Target :
           /\ f \in FilesOf(t)
           /\ q.selection.include # {} =>
                \E token \in q.selection.include : Names(token, t)
           /\ \A token \in q.selection.exclude : ~Names(token, t)
  ELSE \E spec \in q.specs : Under(Absolute(q, spec), WorkspaceRoot \o f)

\* One of the routes rs stages f in the repository t.
Reaches(rs, t, f) == \E r \in rs : r.repo = t /\ Under(RepoPath(t) \o r.path, f)

\* A path goes to the owners of what is under it.
LEMMA RoutedReaches ==
  ASSUME NEW p \in Path, NEW t \in Target, NEW f \in FilesOf(t)
  PROVE  Under(p, f) <=> Reaches(Routed(p), t, f)
<1> DEFINE owners == {m \in Member : Under(PathOf[m], p)}
           below  == {n \in Member : Under(p, PathOf[n])}
<1>1. f \in File /\ f \in Path
  BY FilesOfType, FileType
<1>2. CASE owners # {}
  <2>1. Routed(p) = {Route(m, Relative(PathOf[m], p), TRUE) : m \in owners}
    BY <1>2 DEF Routed
  <2>2. ASSUME NEW m \in owners
        PROVE  /\ m \in Member /\ m \in Target /\ PathOf[m] \in Path
               /\ RepoPath(m) \o Relative(PathOf[m], p) = p
    <3>1. m \in Member /\ m \in Target /\ PathOf[m] \in Path /\ RepoPath(m) = PathOf[m]
      BY RepoPaths DEF Target
    <3> QED
      BY <3>1, RelativeRest
  <2>3. ASSUME Under(p, f) PROVE Reaches(Routed(p), t, f)
    <3>1. PICK m \in owners : TRUE
      BY <1>2
    <3>2. Under(PathOf[m], f)
      BY <1>1, <2>2, <2>3, UnderTrans
    <3>3. m = t
      BY <1>1, <2>2, <3>2, FilesOfMember, OneOwner
    <3> DEFINE r == Route(m, Relative(PathOf[m], p), TRUE)
    <3>4. r \in Routed(p) /\ r.repo = t /\ r.path = Relative(PathOf[m], p)
      BY <2>1, <3>3 DEF Route
    <3>5. Under(RepoPath(t) \o r.path, f)
      BY <2>2, <2>3, <3>3, <3>4
    <3> QED
      BY <3>4, <3>5 DEF Reaches
  <2>4. ASSUME Reaches(Routed(p), t, f) PROVE Under(p, f)
    <3>1. PICK r \in Routed(p) : r.repo = t /\ Under(RepoPath(t) \o r.path, f)
      BY <2>4 DEF Reaches
    <3>2. PICK m \in owners : r = Route(m, Relative(PathOf[m], p), TRUE)
      BY <2>1, <3>1
    <3>3. m = t /\ r.path = Relative(PathOf[m], p)
      BY <3>1, <3>2 DEF Route
    <3> QED
      BY <2>2, <3>1, <3>3
  <2> QED
    BY <2>3, <2>4
<1>3. CASE owners = {}
  <2>1. Routed(p) = {Route(Root, p, TRUE)} \cup {Route(m, <<>>, FALSE) : m \in below}
    BY <1>3 DEF Routed
  <2>2. ASSUME Under(p, f) PROVE Reaches(Routed(p), t, f)
    <3>1. CASE t = Root
      <4> DEFINE r == Route(Root, p, TRUE)
      <4>1. r \in Routed(p) /\ r.repo = t /\ r.path = p
        BY <2>1, <3>1 DEF Route
      <4>2. RepoPath(t) \o p = p
        BY <3>1, RepoPaths, UnderSelf
      <4> QED
        BY <2>2, <4>1, <4>2 DEF Reaches
    <3>2. CASE t \in Member
      <4>1. /\ PathOf[t] \in Path /\ RepoPath(t) = PathOf[t] /\ Under(PathOf[t], f)
        BY <1>1, <3>2, RepoPaths, FilesOfMember
      <4>2. Under(p, PathOf[t])
        BY <1>1, <1>3, <2>2, <3>2, <4>1, UnderComparable
      <4> DEFINE r == Route(t, <<>>, FALSE)
      <4>3. r \in Routed(p) /\ r.repo = t /\ r.path = <<>>
        BY <2>1, <3>2, <4>2 DEF Route
      <4>4. RepoPath(t) \o <<>> = PathOf[t]
        BY <4>1, UnderSelf
      <4> QED
        BY <4>1, <4>3, <4>4 DEF Reaches
    <3> QED
      BY <3>1, <3>2 DEF Target
  <2>3. ASSUME Reaches(Routed(p), t, f) PROVE Under(p, f)
    <3>1. PICK r \in Routed(p) : r.repo = t /\ Under(RepoPath(t) \o r.path, f)
      BY <2>3 DEF Reaches
    <3>2. CASE r = Route(Root, p, TRUE)
      <4>1. t = Root /\ r.path = p
        BY <3>1, <3>2 DEF Route
      <4>2. RepoPath(t) \o p = p
        BY <4>1, RepoPaths, UnderSelf
      <4> QED
        BY <3>1, <4>1, <4>2
    <3>3. CASE \E m \in below : r = Route(m, <<>>, FALSE)
      <4>1. PICK m \in below : r = Route(m, <<>>, FALSE)
        BY <3>3
      <4>2. m = t /\ r.path = <<>> /\ m \in Member
        BY <3>1, <4>1 DEF Route
      <4>3. PathOf[t] \in Path /\ RepoPath(t) = PathOf[t]
        BY <4>2, RepoPaths
      <4>4. Under(PathOf[t], f)
        BY <3>1, <4>2, <4>3, UnderSelf
      <4> QED
        BY <1>1, <4>1, <4>2, <4>3, <4>4, UnderTrans
    <3> QED
      BY <2>1, <3>1, <3>2, <3>3
  <2> QED
    BY <2>2, <2>3
<1> QED
  BY <1>2, <1>3

\* A token of a selection that resolves stands for the targets it names.
LEMMA ExpandsToNamed ==
  ASSUME NEW token \in Selector \cup Member, NEW t \in Target
  PROVE  t \in Expand(Member, Target, token) <=> Names(token, t)
<1>1. CASE token \in Selector
  <2>1. token # t
    BY <1>1, TargetsAssumption
  <2>2. CASE token = "@root"
    BY <2>1, <2>2 DEF Expand, Names
  <2>3. CASE token = "@all"
    BY <2>1, <2>3 DEF Expand, Names, Target
  <2>4. CASE token = "@default"
    BY <2>1, <2>4 DEF Expand, Names
  <2> QED
    BY <1>1, <2>2, <2>3, <2>4 DEF Selector
<1>2. CASE token \in Member
  <2>1. token \notin Selector
    BY <1>2, TargetsAssumption DEF Target
  <2>2. token # "@root" /\ token # "@all" /\ token # "@default"
    BY <2>1 DEF Selector
  <2> QED
    BY <2>2 DEF Expand, Names
<1> QED
  BY <1>1, <1>2

LEMMA SelectedIsNamed ==
  ASSUME NEW sel \in Selection, Resolves(Member, Target, TRUE, sel), NEW t \in Target
  PROVE  t \in Selected(Member, Target, sel) <=>
           /\ sel.include # {} => \E token \in sel.include : Names(token, t)
           /\ \A token \in sel.exclude : ~Names(token, t)
<1>1. Includes(sel) \subseteq Selector \cup Member /\ sel.exclude \subseteq Selector \cup Member
  BY DEF Resolves
<1>2. t \in UNION {Expand(Member, Target, k) : k \in Includes(sel)} <=>
        \E token \in Includes(sel) : Names(token, t)
  BY <1>1, ExpandsToNamed
<1>3. t \in UNION {Expand(Member, Target, k) : k \in sel.exclude} <=>
        \E token \in sel.exclude : Names(token, t)
  BY <1>1, ExpandsToNamed
<1>4. (\E token \in Includes(sel) : Names(token, t)) <=>
        (sel.include # {} => \E token \in sel.include : Names(token, t))
  <2>1. Names("@default", t)
    BY DEF Names
  <2> QED
    BY <2>1 DEF Includes
<1> QED
  BY <1>2, <1>3, <1>4 DEF Selected

\* A route to all of a repository.
LEMMA WholeRepository ==
  ASSUME NEW t \in Target, NEW f \in FilesOf(t)
  PROVE  Under(RepoPath(t) \o <<>>, f)
BY RepoPaths, UnderSelf DEF FilesOf

\* Where the path of a pathspec leads.
LEMMA SpecRouted ==
  ASSUME NEW q, StageRequest(q), NEW spec \in q.specs, InWorkspace(q, spec),
         NEW t \in Target, NEW f \in FilesOf(t)
  PROVE  Under(Absolute(q, spec), WorkspaceRoot \o f) <=>
           Reaches(Routed(Relative(WorkspaceRoot, Absolute(q, spec))), t, f)
<1> DEFINE a == Absolute(q, spec)
           p == Relative(WorkspaceRoot, a)
<1>1. f \in Path /\ WorkspaceRoot \in Path
  BY FilesOfType, FileType
<1>2. a \in Path
  <2>1. spec.absolute \in BOOLEAN /\ spec.names \in Path /\ q.cwd \in Path
    BY DEF StageRequest
  <2>2. q.cwd \o spec.names \in Path
    BY <2>1, ConcatType
  <2> QED
    BY <2>1, <2>2, NormalizedType DEF Absolute
<1>3. p \in Path /\ WorkspaceRoot \o p = a
  BY <1>1, <1>2, RelativeRest DEF InWorkspace
<1>4. Under(a, WorkspaceRoot \o f) <=> Under(p, f)
  <2> HIDE DEF a, p
  <2> QED
    BY <1>1, <1>3, UnderBehind
<1>5. Under(p, f) <=> Reaches(Routed(p), t, f)
  <2> HIDE DEF p
  <2> QED
    BY <1>3, RoutedReaches
<1> QED
  BY <1>4, <1>5

\* The routes of a request reach the files it covers, in the repositories
\* that own them.
LEMMA RoutesReachCovered ==
  ASSUME NEW q, StageRequest(q), Routable(q), NEW t \in Target, NEW f \in FilesOf(t)
  PROVE  Covers(q, f) <=> Reaches(Routes(q), t, f)
<1>1. CASE q.all /\ ~q.narrow
  <2> DEFINE r == Route(t, <<>>, FALSE)
  <2>1. r \in Routes(q) /\ r.repo = t /\ r.path = <<>>
    BY <1>1 DEF Routes, Route
  <2>2. Reaches(Routes(q), t, f)
    BY <2>1, WholeRepository DEF Reaches
  <2> QED
    BY <1>1, <2>2 DEF Covers
<1>2. CASE q.all /\ q.narrow
  <2>1. q.selection \in Selection /\ Resolves(Member, Target, TRUE, q.selection)
    BY <1>2 DEF StageRequest, Routable
  <2>2. Covers(q, f) <=> t \in Selected(Member, Target, q.selection)
    <3>1. Covers(q, f) <=>
            \E u \in Target : f \in FilesOf(u) /\ u \in Selected(Member, Target, q.selection)
      BY <1>2, <2>1, SelectedIsNamed DEF Covers
    <3> QED
      BY <3>1, OneOwner
  <2>3. Routes(q) = {Route(u, <<>>, TRUE) : u \in Selected(Member, Target, q.selection)}
    BY <1>2 DEF Routes
  <2>4. ASSUME t \in Selected(Member, Target, q.selection) PROVE Reaches(Routes(q), t, f)
    <3> DEFINE r == Route(t, <<>>, TRUE)
    <3>1. r \in Routes(q) /\ r.repo = t /\ r.path = <<>>
      BY <2>3, <2>4 DEF Route
    <3> QED
      BY <3>1, WholeRepository DEF Reaches
  <2>5. ASSUME Reaches(Routes(q), t, f) PROVE t \in Selected(Member, Target, q.selection)
    BY <2>3, <2>5 DEF Reaches, Route
  <2> QED
    BY <2>2, <2>4, <2>5
<1>3. CASE ~q.all
  <2> DEFINE To(spec) == Routed(Relative(WorkspaceRoot, Absolute(q, spec)))
  <2>1. \A spec \in q.specs : InWorkspace(q, spec)
    BY <1>3 DEF Routable
  <2>2. \A spec \in q.specs :
          Under(Absolute(q, spec), WorkspaceRoot \o f) <=> Reaches(To(spec), t, f)
    BY <2>1, SpecRouted
  <2>3. Covers(q, f) <=> \E spec \in q.specs : Reaches(To(spec), t, f)
    BY <1>3, <2>2 DEF Covers
  <2>4. Routes(q) = UNION {To(spec) : spec \in q.specs}
    BY <1>3 DEF Routes
  <2>5. Reaches(Routes(q), t, f) <=> \E spec \in q.specs : Reaches(To(spec), t, f)
    <3> HIDE DEF To
    <3> QED
      BY <2>4 DEF Reaches
  <2> QED
    BY <2>3, <2>5
<1>4. q.all \in BOOLEAN /\ q.narrow \in BOOLEAN
  BY DEF StageRequest
<1> QED
  BY <1>1, <1>2, <1>3, <1>4

-----------------------------------------------------------------------------
(* The invariant: what is staged is what the request covers in the         *)
(* repositories that had their turn.                                       *)

HadTurn(t) == \A r \in routes : r.repo # t

StagingState ==
  /\ stager \in {"idle", "stages"}
  /\ stager = "idle" => routes = {} /\ before = Meddled
  /\ cloned \subseteq Member /\ changed \subseteq File
  /\ before = Meddled \/ before \subseteq File

\* A repository that is not there has no file that differs.
AbsentIsClean == \A m \in Member \ cloned : \A f \in FilesOf(m) : f \notin changed

\* A repository has all its routes before it, or none.
RoutesLeft ==
  stager = "stages" =>
    /\ ask \in Asks /\ Routable(ask) /\ routes \subseteq Routes(ask)
    /\ \A t \in Target : HadTurn(t) \/ \A r \in Routes(ask) : r.repo = t => r \in routes

StagedSoFar ==
  stager = "stages" /\ before # Meddled =>
    \A t \in Target : \A f \in FilesOf(t) :
      f \in changed <=> f \in before /\ ~(HadTurn(t) /\ Covers(ask, f))

StagingInv == StagingState /\ AbsentIsClean /\ RoutesLeft /\ StagedSoFar

LEMMA AsksAreRequests == \A q \in Asks : StageRequest(q)
BY StagingAssumption

LEMMA StagingInit == StageInit => StagingInv
<1> SUFFICES ASSUME StageInit PROVE StagingInv
  OBVIOUS
<1>1. StagingState /\ RoutesLeft /\ StagedSoFar
  BY DEF StageInit, StagingState, RoutesLeft, StagedSoFar
<1>2. AbsentIsClean
  BY FilesOfMember, FilesOfType DEF StageInit, AbsentIsClean
<1> QED
  BY <1>1, <1>2 DEF StagingInv

LEMMA BeginsStaging ==
  ASSUME StagingInv, StageBegins PROVE StagingInv'
<1>1. PICK q \in Asks : Routable(q) /\ ask' = q /\ routes' = Routes(q)
  BY DEF StageBegins
<1>2. /\ stager' = "stages" /\ before' = changed
      /\ cloned' = cloned /\ changed' = changed
  BY DEF StageBegins
<1>3. StagingState' /\ AbsentIsClean'
  BY <1>2 DEF StagingInv, StagingState, AbsentIsClean
<1>4. RoutesLeft'
  BY <1>1, <1>2 DEF RoutesLeft
<1>5. ASSUME NEW t \in Target, NEW f \in FilesOf(t)
      PROVE  ~(HadTurn(t)' /\ Covers(q, f))
  <2>1. StageRequest(q)
    BY AsksAreRequests
  <2>2. Covers(q, f) => \E r \in Routes(q) : r.repo = t
    BY <1>1, <1>5, <2>1, RoutesReachCovered DEF Reaches
  <2> QED
    BY <1>1, <2>2 DEF HadTurn
<1>6. StagedSoFar'
  BY <1>1, <1>2, <1>5 DEF StagedSoFar
<1> QED
  BY <1>3, <1>4, <1>5, <1>6 DEF StagingInv

LEMMA EndsStaging ==
  ASSUME StagingInv, StageEnds, routes' = {}, changed' \subseteq changed
  PROVE  StagingInv'
<1>1. stager' = "idle" /\ before' = Meddled /\ cloned' = cloned
  BY DEF StageEnds
<1>2. StagingState' /\ RoutesLeft' /\ StagedSoFar'
  BY <1>1 DEF StagingInv, StagingState, RoutesLeft, StagedSoFar
<1>3. AbsentIsClean'
  BY <1>1 DEF StagingInv, AbsentIsClean
<1> QED
  BY <1>2, <1>3 DEF StagingInv

\* What is staged in a repository on its turn is what the request covers there.
LEMMA PartIsCovered ==
  ASSUME StagingInv, stager = "stages", NEW t \in Target
  PROVE  /\ Part(t) \subseteq {f \in FilesOf(t) : Covers(ask, f)}
         /\ ~HadTurn(t) => Part(t) = {f \in FilesOf(t) : Covers(ask, f)}
<1>1. /\ ask \in Asks /\ Routable(ask) /\ routes \subseteq Routes(ask)
      /\ HadTurn(t) \/ \A r \in Routes(ask) : r.repo = t => r \in routes
  BY DEF StagingInv, RoutesLeft
<1>2. StageRequest(ask)
  BY <1>1, AsksAreRequests
<1>3. \A f \in FilesOf(t) : Covers(ask, f) <=> Reaches(Routes(ask), t, f)
  BY <1>1, <1>2, RoutesReachCovered
<1>4. \A f \in FilesOf(t) : f \in Part(t) <=> Reaches(routes, t, f)
  BY DEF Part, Reaches
<1>5. \A f : Reaches(routes, t, f) => Reaches(Routes(ask), t, f)
  BY <1>1 DEF Reaches
<1>6. ~HadTurn(t) => \A f : Reaches(Routes(ask), t, f) => Reaches(routes, t, f)
  BY <1>1 DEF Reaches
<1>7. Part(t) \subseteq FilesOf(t)
  BY DEF Part
<1> QED
  BY <1>3, <1>4, <1>5, <1>6, <1>7

\* A turn takes the routes of one repository away, and nobody else's.
LEMMA TakesTurn ==
  ASSUME NEW t, routes' = {r \in routes : r.repo # t}
  PROVE  HadTurn(t)' /\ \A u : u # t => (HadTurn(u)' <=> HadTurn(u))
BY DEF HadTurn

LEMMA TurnKeepsRoutes ==
  ASSUME StagingInv, stager = "stages", NEW t, routes' = {r \in routes : r.repo # t},
         UNCHANGED <<stager, ask>>
  PROVE  RoutesLeft'
<1>1. /\ ask \in Asks /\ Routable(ask) /\ routes \subseteq Routes(ask)
      /\ \A u \in Target : HadTurn(u) \/ \A r \in Routes(ask) : r.repo = u => r \in routes
  BY DEF StagingInv, RoutesLeft
<1>2. ask' = ask /\ routes' \subseteq routes
  OBVIOUS
<1>3. ASSUME NEW u \in Target
      PROVE  HadTurn(u)' \/ \A r \in Routes(ask) : r.repo = u => r \in routes'
  BY <1>1, TakesTurn
<1> QED
  BY <1>1, <1>2, <1>3 DEF RoutesLeft

LEMMA RepoIsStaged ==
  ASSUME StagingInv, NEW t \in Target, StageRepo(t) PROVE StagingInv'
<1>1. /\ stager = "stages" /\ ~HadTurn(t)
      /\ changed' = changed \ Part(t) /\ routes' = {r \in routes : r.repo # t}
      /\ stager' = stager /\ ask' = ask /\ cloned' = cloned /\ before' = before
  BY DEF StageRepo, StageTurn, HadTurn
<1>2. StagingState' /\ AbsentIsClean'
  BY <1>1 DEF StagingInv, StagingState, AbsentIsClean
<1>3. RoutesLeft'
  BY <1>1, TurnKeepsRoutes
<1>4. Part(t) = {f \in FilesOf(t) : Covers(ask, f)}
  BY <1>1, PartIsCovered
<1>5. ASSUME before # Meddled, NEW u \in Target, NEW f \in FilesOf(u)
      PROVE  f \in changed' <=> f \in before /\ ~(HadTurn(u)' /\ Covers(ask, f))
  <2>1. f \in changed <=> f \in before /\ ~(HadTurn(u) /\ Covers(ask, f))
    BY <1>1, <1>5 DEF StagingInv, StagedSoFar
  <2>2. CASE u = t
    BY <1>1, <1>4, <2>1, <2>2, TakesTurn
  <2>3. CASE u # t
    <3>1. f \notin Part(t)
      BY <1>4, <2>3, OneOwner
    <3> QED
      BY <1>1, <2>1, <2>3, <3>1, TakesTurn
  <2> QED
    BY <2>2, <2>3
<1>6. StagedSoFar'
  BY <1>1, <1>5 DEF StagedSoFar
<1> QED
  BY <1>2, <1>3, <1>6 DEF StagingInv

\* There is nothing to stage in a member that is not there.
LEMMA MemberIsPassed ==
  ASSUME StagingInv, NEW t \in Target, StagePasses(t) PROVE StagingInv'
<1>1. /\ stager = "stages" /\ ~HadTurn(t) /\ t \in Member \ cloned
      /\ routes' = {r \in routes : r.repo # t}
      /\ stager' = stager /\ ask' = ask /\ cloned' = cloned
      /\ changed' = changed /\ before' = before
  BY DEF StagePasses, StageTurn, HadTurn
<1>2. StagingState' /\ AbsentIsClean'
  BY <1>1 DEF StagingInv, StagingState, AbsentIsClean
<1>3. RoutesLeft'
  BY <1>1, TurnKeepsRoutes
<1>4. ASSUME before # Meddled, NEW u \in Target, NEW f \in FilesOf(u)
      PROVE  f \in changed <=> f \in before /\ ~(HadTurn(u)' /\ Covers(ask, f))
  <2>1. f \in changed <=> f \in before /\ ~(HadTurn(u) /\ Covers(ask, f))
    BY <1>1, <1>4 DEF StagingInv, StagedSoFar
  <2>2. CASE u = t
    <3>1. f \notin changed
      BY <1>1, <2>2 DEF StagingInv, AbsentIsClean
    <3> QED
      BY <1>1, <2>1, <2>2, <3>1
  <2>3. CASE u # t
    BY <1>1, <2>1, <2>3, TakesTurn
  <2> QED
    BY <2>2, <2>3
<1>5. StagedSoFar'
  BY <1>1, <1>4 DEF StagedSoFar
<1> QED
  BY <1>2, <1>3, <1>5 DEF StagingInv

LEMMA StageFailed ==
  ASSUME StagingInv, NEW t \in Target, StageFails(t) PROVE StagingInv'
<1>1. routes' = {} /\ StageEnds /\ changed' \subseteq changed
  BY DEF StageFails
<1> QED
  BY <1>1, EndsStaging

LEMMA PeopleMeddle ==
  ASSUME StagingInv, Meddle PROVE StagingInv'
<1>1. /\ before' = Meddled /\ stager' = stager /\ ask' = ask /\ routes' = routes
      /\ stager = "stages"
  BY DEF Meddle
<1>2. RoutesLeft' /\ StagedSoFar'
  BY <1>1 DEF StagingInv, RoutesLeft, StagedSoFar, HadTurn
<1>3. StagingState' /\ AbsentIsClean'
  <2>1. CASE /\ \E t \in cloned \cup {Root} : \E f \in FilesOf(t) : changed' = changed \cup {f}
             /\ UNCHANGED cloned
    <3>0. PICK t \in cloned \cup {Root} : \E f \in FilesOf(t) : changed' = changed \cup {f}
      BY <2>1
    <3>1. PICK f \in FilesOf(t) : changed' = changed \cup {f}
      BY <3>0
    <3>2. t \in Target /\ cloned' = cloned /\ f \in File
      BY <2>1, FilesOfType DEF StagingInv, StagingState, Target
    <3>3. ASSUME NEW m \in Member \ cloned PROVE f \notin FilesOf(m)
      <4>1. m \in Target /\ m # t
        BY TargetsAssumption DEF Target
      <4> QED
        BY <3>2, <4>1, OneOwner
    <3>4. StagingState'
      BY <1>1, <3>1, <3>2 DEF StagingInv, StagingState
    <3>5. AbsentIsClean'
      BY <3>1, <3>2, <3>3 DEF StagingInv, AbsentIsClean
    <3> QED
      BY <3>4, <3>5
  <2>2. CASE \E m \in Member :
               /\ cloned' = IF m \in cloned THEN cloned \ {m} ELSE cloned \cup {m}
               /\ changed' = changed \ FilesOf(m)
    <3>1. PICK m \in Member :
            /\ cloned' = IF m \in cloned THEN cloned \ {m} ELSE cloned \cup {m}
            /\ changed' = changed \ FilesOf(m)
      BY <2>2
    <3>2. cloned' \subseteq Member /\ \A n \in Member : n \notin cloned' => n = m \/ n \notin cloned
      BY <3>1 DEF StagingInv, StagingState
    <3>3. StagingState'
      BY <1>1, <3>1, <3>2 DEF StagingInv, StagingState
    <3>4. AbsentIsClean'
      BY <3>1, <3>2 DEF StagingInv, AbsentIsClean
    <3> QED
      BY <3>3, <3>4
  <2> QED
    BY <2>1, <2>2 DEF Meddle
<1> QED
  BY <1>2, <1>3 DEF StagingInv

LEMMA StagingNext == StagingInv /\ [StageStep]_stage => StagingInv'
<1> SUFFICES ASSUME StagingInv, [StageStep]_stage PROVE StagingInv'
  OBVIOUS
<1>1. CASE StageBegins
  BY <1>1, BeginsStaging
<1>2. CASE StageSucceeds
  <2>1. routes' = {} /\ StageEnds /\ changed' \subseteq changed
    BY <1>2 DEF StageSucceeds
  <2> QED
    BY <2>1, EndsStaging
<1>3. CASE Meddle
  BY <1>3, PeopleMeddle
<1>4. CASE \E t \in Target : StageRepo(t)
  BY <1>4, RepoIsStaged
<1>5. CASE \E t \in Target : StagePasses(t)
  BY <1>5, MemberIsPassed
<1>6. CASE \E t \in Target : StageFails(t)
  BY <1>6, StageFailed
<1>7. CASE UNCHANGED stage
  BY <1>7 DEF stage, StagingInv, StagingState, AbsentIsClean, RoutesLeft, StagedSoFar, HadTurn
<1> QED
  BY <1>1, <1>2, <1>3, <1>4, <1>5, <1>6, <1>7 DEF StageStep

\* gwz add stages what its pathspecs or its selection cover, in the
\* repositories that own it: all of it when it succeeds and nobody else was at
\* work, and never anything else.
THEOREM StagesWhatIsCovered == StageSpec => StagedWhereOwned
<1>1. \A f : Covered(f) <=> Covers(ask, f)
  BY DEF Covered, Covers
<1>2. ASSUME StagingInv, StageSucceeds, before # Meddled
      PROVE  changed = {f \in before : ~Covered(f)}
  <2>1. stager = "stages" /\ routes = {} /\ before \subseteq File /\ changed \subseteq File
    BY <1>2 DEF StageSucceeds, StagingInv, StagingState
  <2>2. ASSUME NEW f \in File PROVE f \in changed <=> f \in before /\ ~Covered(f)
    <3>1. PICK t : t \in Target /\ f \in FilesOf(t)
      BY SomeOwner
    <3>2. HadTurn(t)
      BY <2>1 DEF HadTurn
    <3> QED
      BY <1>1, <1>2, <2>1, <3>1, <3>2 DEF StagingInv, StagedSoFar
  <2> QED
    BY <2>1, <2>2
<1>3. ASSUME StagingInv, NEW t \in Target, StageRepo(t) \/ StageFails(t),
             NEW f \in changed \ changed'
      PROVE  Covered(f)
  <2>1. stager = "stages" /\ f \in Part(t)
    BY <1>3 DEF StageRepo, StageFails
  <2> QED
    BY <1>1, <1>3, <2>1, PartIsCovered
<1>4. StagingInv =>
        /\ StageSucceeds /\ before # Meddled => changed = {f \in before : ~Covered(f)}
        /\ \A t \in Target : StageRepo(t) \/ StageFails(t) =>
             \A f \in changed \ changed' : Covered(f)
  BY <1>2, <1>3
<1> QED
  BY StagingInit, StagingNext, <1>4, PTL DEF StageSpec, StagedWhereOwned

-----------------------------------------------------------------------------
(* gwz pull in the root (RootPull).                                        *)

Working == {"looked", "fetched", "rewrite", "resolve", "commit"}

\* Every history has a version of the lock, and only versions that exist.
Versioned(c) == 1 \in c /\ c \cap Nat \subseteq 1 .. Len(written)

Histories ==
  /\ Versioned(head) /\ Versioned(Current) /\ Versioned(origin) /\ Versioned(theirs)
  /\ merging # NoMerge => Versioned(merging.onto)

\* The commit that was looked at is still in the branch when the integration
\* is decided, and a merge of a repair into the branch changes nothing but the lock.
Decided ==
  /\ puller \in Working => looked \in [commit : RootCommit, lock : Lock]
  /\ puller \in {"looked", "fetched"} => looked.commit \subseteq head
  /\ puller \in {"resolve", "commit"} /\ how.sync = "ff_only" /\ merging # NoMerge
       /\ attached =>
       Touched(head, merging.onto) \subseteq {"lock"}

\* There are conflict markers only as long as the conflict is open.
MarkersOfConflict ==
  lock \in Lock \/ (merging # NoMerge /\ "lock" \in merging.conflicts)

RootInv == RootTypeOK /\ Histories /\ Decided /\ MarkersOfConflict

-----------------------------------------------------------------------------
(* The lock file of a commit. *)

\* A bounded set of numbers has a maximum.
LEMMA HasMax ==
  ASSUME NEW n \in Nat, NEW S \in SUBSET (1 .. n), S # {}
  PROVE  Max(S) \in S
<1> DEFINE T == {n - x : x \in S}
           R == OpToRel(<, Nat)
<1>1. PICK e \in S : TRUE
  OBVIOUS
<1>2. T \subseteq Nat /\ T # {}
  <2>1. T \subseteq Nat
    OBVIOUS
  <2>2. n - e \in T
    OBVIOUS
  <2> QED
    BY <2>1, <2>2
<1>3. IsWellFoundedOn(R, Nat)
  BY NatLessThanWellFounded
<1> HIDE DEF T
<1>4. PICK x \in T : \A y \in T : ~(<<y, x>> \in R)
  BY <1>2, <1>3, WFMin
<1>5. \A y \in T : ~(y < x)
  BY <1>2, <1>4 DEF OpToRel
<1>6. PICK z \in S : x = n - z
  BY DEF T
<1>7. ASSUME NEW y \in S PROVE z >= y
  <2>1. n - y \in T
    BY DEF T
  <2>2. ~(n - y < n - z)
    BY <2>1, <1>5, <1>6
  <2>3. y \in 1 .. n /\ z \in 1 .. n
    OBVIOUS
  <2> QED
    BY <2>2, <2>3
<1> QED
  BY <1>7 DEF Max

LEMMA LockAtType ==
  ASSUME NEW c \in RootCommit, Versioned(c), written \in Seq(Lock), Len(written) <= MaxWrites
  PROVE  LockAt(c) \in Lock
<1> DEFINE S == c \cap Edits("lock")
<1>1. Edits("lock") = 1 .. MaxWrites /\ MaxWrites \in Nat /\ MaxWrites >= 3
  BY RootPullAssumption DEF Edits
<1>2. S \in SUBSET (1 .. MaxWrites) /\ 1 \in S
  BY <1>1 DEF Versioned
<1>3. Max(S) \in S
  BY <1>1, <1>2, HasMax
<1>4. Max(S) \in 1 .. Len(written)
  BY <1>1, <1>3 DEF Versioned
<1> QED
  BY <1>4 DEF LockAt

\* Two commits together have a version each has.
LEMMA VersionedUnion ==
  ASSUME NEW a, NEW b, Versioned(a), Versioned(b)
  PROVE  Versioned(a \cup b)
BY DEF Versioned

-----------------------------------------------------------------------------
(* What a commit changes. *)

LEMMA TouchedWithin ==
  ASSUME NEW a, NEW b, NEW c, NEW d, b \ a \subseteq d \ c
  PROVE  Touched(a, b) \subseteq Touched(c, d)
BY DEF Touched

\* A version of the lock is a change of the lock.
LEMMA TouchedByVersion ==
  ASSUME NEW a, NEW b, NEW n \in Nat, Touched(a, b) \subseteq {"lock"}
  PROVE  Touched(a, a \cup b \cup {n}) \subseteq {"lock"}
<1> SUFFICES ASSUME NEW f \in RootFile, f # "lock",
                    ((a \cup b \cup {n}) \ a) \cap Edits(f) # {}
             PROVE  FALSE
  BY DEF Touched
<1>1. n \notin Edits(f)
  BY RootPullAssumption DEF Edits
<1>2. (b \ a) \cap Edits(f) # {}
  BY <1>1
<1> QED
  BY <1>2 DEF Touched

\* What the remote has that the branch has not, it had not at the commit that
\* was looked at.
LEMMA RepairIsOfLock ==
  ASSUME Repairable, looked.commit \subseteq head
  PROVE  Touched(head, origin) \subseteq {"lock"}
<1>1. Touched(head, origin) \subseteq Touched(MergeBase(looked.commit, origin), origin)
  BY TouchedWithin DEF MergeBase
<1> QED
  BY <1>1 DEF Repairable

-----------------------------------------------------------------------------
(* The invariant is inductive: type correctness first. *)

LEMMA ObservedType ==
  ASSUME RootInv, puller \in Working
  PROVE  ObservedLock \in Lock
<1>1. Fallback \in Lock
  BY DEF Fallback, RootInv, RootTypeOK, Decided
<1> QED
  BY <1>1 DEF ObservedLock, RootInv, RootTypeOK, Lock

LEMMA InitRootInv == RootInit => RootInv
<1> SUFFICES ASSUME RootInit PROVE RootInv
  OBVIOUS
<1>1. PICK s \in RootStarts :
        /\ head = s.here /\ theirs = s.there
        /\ written = <<[m \in Member |-> IF m = Joins THEN NoRecord ELSE s.old],
                       [m \in Member |-> IF m \in InManifest(head) THEN s.old ELSE NoRecord],
                       [m \in Member |-> IF m \in InManifest(theirs) THEN s.new ELSE NoRecord]>>
  BY DEF RootInit
<1>2. /\ s.here \in RootCommit /\ s.there \in RootCommit
      /\ s.old \in Version /\ s.new \in Version
      /\ 1 \in s.here /\ s.here \cap Nat \subseteq {1, 2}
      /\ 1 \in s.there /\ s.there \cap Nat \subseteq {1, 3}
      /\ MaxWrites \in Nat /\ MaxWrites >= 3 /\ MaxMoves \in Nat
  BY RootPullAssumption
<1>3. written \in Seq(Lock) /\ Len(written) = 3
  BY <1>1, <1>2 DEF Lock
<1>4. /\ head \in RootCommit /\ theirs \in RootCommit /\ origin \in RootCommit
      /\ Versioned(head) /\ Versioned(theirs) /\ Versioned(origin)
  BY <1>1, <1>2, <1>3 DEF RootInit, MergeBase, Versioned, RootCommit
<1>5. lock \in Lock
  BY <1>2, <1>3, <1>4, LockAtType DEF RootInit
<1>6. RootTypeOK
  <2>1. live \in [Member -> Version \cup {Gone}]
    BY DEF RootInit
  <2>2. moves \in 0 .. MaxMoves
    BY <1>2 DEF RootInit
  <2>3. written \in Seq(Lock) /\ Len(written) <= MaxWrites
    BY <1>2, <1>3
  <2> QED
    BY <1>4, <1>5, <2>1, <2>2, <2>3 DEF RootInit, RootTypeOK, RootCommit
<1> QED
  BY <1>4, <1>5, <1>6 DEF RootInit, RootInv, Histories, Current, Decided, Working,
     MarkersOfConflict

\* A safe checkout of a commit that has a version of the lock.
LEMMA CheckOutType ==
  ASSUME RootTypeOK, lock \in Lock, NEW c \in RootCommit, Versioned(c), CheckOut(c)
  PROVE  lock' \in Lock
BY LockAtType DEF CheckOut, RootTypeOK

\* Where HEAD is when what it is on was moved to a commit.
LEMMA RootMovesType ==
  ASSUME RootTypeOK, NEW c \in RootCommit, RootMoves(c)
  PROVE  /\ head' \in {head, c} /\ head' \in RootCommit /\ away' \in RootCommit
         /\ attached' \in BOOLEAN /\ Current' = c /\ (attached => head' = c)
BY DEF RootMoves, RootTypeOK, Current

LEMMA IntegratesRootInv == RootInv /\ RootIntegrates => RootInv'
<1> SUFFICES ASSUME RootInv, RootIntegrates PROVE RootInv'
  OBVIOUS
<1> USE DEF RootInv
<1>1. /\ Current \in RootCommit /\ origin \in RootCommit /\ Current \cup origin \in RootCommit
      /\ Versioned(head) /\ Versioned(Current) /\ Versioned(origin)
      /\ Versioned(Current \cup origin)
  BY VersionedUnion DEF RootTypeOK, RootCommit, Histories, Current
<1>2. /\ UNCHANGED <<origin, theirs, live, written, moves>>
      /\ puller = "fetched" /\ looked \in [commit : RootCommit, lock : Lock]
      /\ \/ UNCHANGED <<how, looked, moved, calm>> /\ puller' \in {"rewrite", "resolve"}
         \/ Leave
  BY DEF RootIntegrates, RootResets, RootFastForwards, RootMerges, RootRebases, IfOnBranch, Goto,
     Leave, Decided, Working, tree
<1>3. CASE RootResets
  <2>1. RootMoves(origin) /\ lock' = LockAt(origin) /\ dirty' = FALSE /\ merging' = NoMerge
    BY <1>3 DEF RootResets
  <2>2. puller' # "resolve"
    BY <1>3 DEF RootResets, IfOnBranch, Goto, Leave
  <2>3. lock' \in Lock
    BY <1>1, <2>1, LockAtType DEF RootTypeOK
  <2>4. /\ head' \in RootCommit /\ away' \in RootCommit /\ attached' \in BOOLEAN
        /\ head' \in {head, origin} /\ Current' = origin
    BY <1>1, <2>1, RootMovesType
  <2>5. RootTypeOK'
    BY <1>2, <2>1, <2>3, <2>4 DEF Leave, RootTypeOK
  <2>6. Histories'
    BY <1>1, <1>2, <2>1, <2>4 DEF Histories, Versioned
  <2> QED
    BY <1>2, <2>1, <2>2, <2>3, <2>5, <2>6 DEF Decided, Leave, Working, MarkersOfConflict
<1>4. CASE RootFastForwards
  <2>1. CASE UNCHANGED tree /\ Goto("rewrite")
    BY <1>2, <2>1 DEF Goto, tree, RootTypeOK, Histories, Versioned, Current, Decided, Working,
       MarkersOfConflict
  <2>2. CASE /\ CheckOut(origin) /\ merging = NoMerge
             /\ head' = origin /\ attached' = TRUE /\ away' = {}
             /\ puller' # "resolve" /\ UNCHANGED <<dirty, merging, written>>
    <3>1. lock \in Lock
      BY <2>2 DEF MarkersOfConflict
    <3>2. lock' \in Lock
      BY <1>1, <2>2, <3>1, CheckOutType
    <3>3. Current' = origin /\ {} \in RootCommit
      BY <2>2 DEF Current, RootCommit
    <3>4. RootTypeOK'
      BY <1>1, <1>2, <2>2, <3>2, <3>3 DEF Leave, RootTypeOK
    <3>5. Histories'
      BY <1>1, <1>2, <2>2, <3>3 DEF Histories, Versioned
    <3> QED
      BY <1>2, <2>2, <3>2, <3>4, <3>5 DEF Decided, Leave, Working, MarkersOfConflict
  <2> QED
    BY <1>4, <2>1, <2>2 DEF RootFastForwards, Goto, Leave
<1>5. CASE /\ RootMoves(Current \cup origin) /\ CheckOut(Current \cup origin)
           /\ merging = NoMerge /\ UNCHANGED <<dirty, merging, written>>
           /\ puller' # "resolve"
  <2>1. lock' \in Lock
    BY <1>1, <1>5, CheckOutType DEF MarkersOfConflict
  <2>2. /\ head' \in RootCommit /\ away' \in RootCommit /\ attached' \in BOOLEAN
        /\ head' \in {head, Current \cup origin} /\ Current' = Current \cup origin
    BY <1>1, <1>5, RootMovesType
  <2>3. RootTypeOK'
    BY <1>2, <1>5, <2>1, <2>2 DEF Leave, RootTypeOK
  <2>4. Histories'
    BY <1>1, <1>2, <1>5, <2>2 DEF Histories, Versioned
  <2> QED
    BY <1>2, <1>5, <2>1, <2>3, <2>4 DEF Decided, Leave, Working, MarkersOfConflict
<1>6. CASE \E conflicts \in SUBSET RootFile, to \in {origin, Current \cup origin} :
             /\ merging = NoMerge /\ UNCHANGED <<dirty, written>>
             /\ StopsAt(conflicts, to)
             /\ head' = head
             /\ \/ /\ UNCHANGED <<attached, away>>
                   /\ how.sync = "ff_only" => Repairable
                \/ attached' = FALSE /\ away' = origin /\ puller' = "idle"
  <2>1. PICK conflicts \in SUBSET RootFile, to \in {origin, Current \cup origin} :
             /\ merging = NoMerge /\ UNCHANGED <<dirty, written>>
             /\ StopsAt(conflicts, to)
             /\ head' = head
             /\ \/ /\ UNCHANGED <<attached, away>>
                   /\ how.sync = "ff_only" => Repairable
                \/ attached' = FALSE /\ away' = origin /\ puller' = "idle"
    BY <1>6
  <2>2. /\ merging' = [onto |-> origin, conflicts |-> conflicts]
        /\ merging' \in [onto : RootCommit, conflicts : SUBSET RootFile]
        /\ merging'.onto = origin /\ merging'.conflicts = conflicts
    BY <1>1, <2>1 DEF StopsAt
  <2>3. /\ "lock" \in conflicts => lock' = Markers
        /\ "lock" \notin conflicts => lock' \in Lock
    <3>1. to \in RootCommit /\ Versioned(to) /\ lock \in Lock
      BY <1>1, <2>1 DEF MarkersOfConflict
    <3>2. CASE "lock" \in conflicts
      BY <2>1, <3>2 DEF StopsAt
    <3>3. CASE "lock" \notin conflicts
      <4>1. CheckOut(to)
        BY <2>1, <3>3 DEF StopsAt
      <4> QED
        BY <3>1, <3>3, <4>1, CheckOutType
    <3> QED
      BY <3>2, <3>3
  <2>4. attached' \in BOOLEAN /\ away' \in RootCommit /\ Current' \in {Current, origin}
    <3>1. CASE UNCHANGED <<attached, away>>
      <4>1. attached' = attached /\ away' = away /\ head' = head
        BY <2>1, <3>1
      <4>2. Current' = Current
        BY <4>1 DEF Current
      <4> QED
        BY <4>1, <4>2 DEF RootTypeOK
    <3>2. CASE attached' = FALSE /\ away' = origin
      BY <1>1, <3>2 DEF Current
    <3> QED
      BY <2>1, <3>1, <3>2
  <2>5. RootTypeOK'
    BY <1>2, <2>1, <2>2, <2>3, <2>4 DEF Leave, RootTypeOK
  <2>6. Histories'
    BY <1>1, <1>2, <2>1, <2>2, <2>4 DEF Histories, Versioned
  <2>7. ASSUME puller' = "resolve", how'.sync = "ff_only", attached'
        PROVE  Touched(head', merging'.onto) \subseteq {"lock"}
    <3>1. how.sync = "ff_only" /\ Repairable
      BY <1>2, <2>1, <2>7 DEF Leave
    <3>2. looked.commit \subseteq head
      BY <1>2 DEF Decided
    <3> QED
      BY <2>1, <2>2, <3>1, <3>2, RepairIsOfLock
  <2>8. Decided'
    <3>1. puller' \in Working => looked' \in [commit : RootCommit, lock : Lock]
      BY <1>2 DEF Working, Leave
    <3>2. puller' \notin {"looked", "fetched", "commit"}
      BY <1>2 DEF Leave
    <3>3. (/\ puller \in {"resolve", "commit"} /\ how.sync = "ff_only" /\ merging # NoMerge
              /\ attached => Touched(head, merging.onto) \subseteq {"lock"})'
      BY <2>7, <3>2 DEF Touched, Edits
    <3> QED
      BY <1>2, <3>1, <3>2, <3>3 DEF Decided, Working
  <2>9. MarkersOfConflict'
    <3>1. merging' # NoMerge
      BY <2>2, RootPullAssumption
    <3> QED
      BY <2>2, <2>3, <3>1 DEF MarkersOfConflict
  <2> QED
    BY <2>5, <2>6, <2>8, <2>9
<1>7. CASE RootMerges /\ (how.sync = "ff_only" => Repairable)
  <2>1. CASE \E conflicts \in (SUBSET Disputed) \ {{}} :
               /\ StopsAt(conflicts, Current \cup origin)
               /\ UNCHANGED <<head, attached, away>>
    <3>1. Disputed \subseteq RootFile
      BY DEF Disputed, Touched
    <3> QED
      BY <1>7, <2>1, <3>1, <1>6 DEF RootMerges
  <2>2. CASE RootMoves(Current \cup origin) /\ CheckOut(Current \cup origin)
             /\ UNCHANGED merging /\ Goto("rewrite")
    BY <1>7, <2>2, <1>5 DEF RootMerges, Goto
  <2> QED
    BY <1>7, <2>1, <2>2 DEF RootMerges
<1>8. CASE RootRebases
  <2>1. CASE \E conflicts \in (SUBSET Disputed) \ {{}} :
               /\ StopsAt(conflicts, origin)
               /\ attached' = FALSE /\ away' = origin /\ UNCHANGED head
               /\ Leave
    <3>1. Disputed \subseteq RootFile
      BY DEF Disputed, Touched
    <3> QED
      BY <1>8, <2>1, <3>1, <1>6 DEF RootRebases, Leave
  <2>2. CASE RootMoves(Current \cup origin) /\ CheckOut(Current \cup origin)
             /\ UNCHANGED merging /\ IfOnBranch("rewrite")
    BY <1>8, <2>2, <1>5 DEF RootRebases, IfOnBranch, Goto, Leave
  <2> QED
    BY <1>8, <2>1, <2>2 DEF RootRebases
<1> QED
  BY <1>3, <1>4, <1>7, <1>8 DEF RootIntegrates

LEMMA ResolveRootInv == RootInv /\ ResolveLock => RootInv'
<1> SUFFICES ASSUME RootInv, ResolveLock PROVE RootInv'
  OBVIOUS
<1> USE DEF RootInv
<1>1. lock' \in Lock \cup {Markers}
  BY ObservedType DEF ResolveLock, Working, RootTypeOK
<1>2. merging' \in [onto : RootCommit, conflicts : SUBSET RootFile] /\ merging'.onto = merging.onto
  <2>1. merging \in [onto : RootCommit, conflicts : SUBSET RootFile]
    BY DEF ResolveLock, RootTypeOK
  <2> QED
    BY <2>1 DEF ResolveLock
<1>3. RootTypeOK'
  BY <1>1, <1>2 DEF ResolveLock, Leave, Goto, RootTypeOK
<1>4. Histories'
  BY <1>2 DEF ResolveLock, Histories, Versioned, Current
<1>5. Decided'
  BY <1>2 DEF ResolveLock, Leave, Goto, Decided, Working, Touched, Edits
<1>6. MarkersOfConflict'
  BY <1>2, ObservedType DEF ResolveLock, Working, MarkersOfConflict
<1> QED
  BY <1>3, <1>4, <1>5, <1>6

\* A commit of the lock as it is.
LEMMA NextVersion ==
  ASSUME RootInv, lock \in Lock, Len(written) < MaxWrites, written' = Append(written, lock)
  PROVE  /\ written' \in Seq(Lock) /\ Len(written') \in 1 .. MaxWrites
         /\ Len(written') = Len(written) + 1
BY RootPullAssumption DEF RootInv, RootTypeOK

LEMMA CommitRootInv == RootInv /\ CommitMerge => RootInv'
<1> SUFFICES ASSUME RootInv, CommitMerge PROVE RootInv'
  OBVIOUS
<1> USE DEF RootInv
<1>1. lock \in Lock
  BY DEF CommitMerge, MarkersOfConflict
<1>2. /\ written' \in Seq(Lock) /\ Len(written') \in 1 .. MaxWrites
      /\ Len(written') = Len(written) + 1 /\ Len(written) \in Nat
  BY <1>1, NextVersion DEF CommitMerge, RootTypeOK
<1> DEFINE c == Current \cup merging.onto \cup {Len(written')}
<1>3. /\ c \in RootCommit /\ RootMoves(c)
      /\ 1 \in c /\ c \cap Nat \subseteq 1 .. Len(written')
  <2>1. merging.onto \in RootCommit /\ Versioned(merging.onto)
    BY DEF CommitMerge, RootTypeOK, Histories
  <2>2. Current \in RootCommit /\ Versioned(Current)
    BY DEF RootTypeOK, Histories, Current
  <2> QED
    BY <1>2, <2>1, <2>2 DEF CommitMerge, Versioned, RootCommit, RootEdit
<1>4. /\ head' \in RootCommit /\ away' \in RootCommit /\ attached' \in BOOLEAN
      /\ head' \in {head, c} /\ Current' = c
  <2> HIDE DEF c
  <2> QED
    BY <1>3, RootMovesType
<1>5. RootTypeOK'
  BY <1>2, <1>4 DEF CommitMerge, ToMembers, RootTypeOK
<1>6. Histories'
  <2>1. Versioned(head)' /\ Versioned(Current)'
    BY <1>2, <1>3, <1>4 DEF Histories, Versioned
  <2> QED
    BY <1>2, <2>1 DEF CommitMerge, Histories, Versioned
<1> QED
  BY <1>1, <1>5, <1>6 DEF CommitMerge, ToMembers, Decided, Working, MarkersOfConflict

LEMMA MembersRootInv == RootInv /\ MembersPull => RootInv'
<1> SUFFICES ASSUME RootInv, MembersPull PROVE RootInv'
  OBVIOUS
<1> USE DEF RootInv
<1>1. live' \in [Member -> Version \cup {Gone}]
  BY DEF MembersPull
<1>2. PICK pulled \in SUBSET Manifest :
        /\ \A m \in Member : live'[m] # live[m] => m \in pulled /\ live[m] # Gone /\ live'[m] # Gone
        /\ lock' = [m \in Member |-> IF m \in pulled /\ live[m] # Gone THEN live'[m]
                                     ELSE lock[m]]
  BY DEF MembersPull
<1>3. lock' \in Lock
  <2>1. lock \in Lock
    BY DEF MembersPull, RootTypeOK
  <2>2. ASSUME NEW m \in Member, live[m] # Gone PROVE live'[m] \in Version
    BY <1>1, <1>2, <2>2
  <2> QED
    BY <1>2, <2>1, <2>2 DEF Lock
<1> QED
  BY <1>1, <1>3 DEF MembersPull, Leave, RootTypeOK, Histories, Versioned, Current, Decided, Working,
     MarkersOfConflict

LEMMA PeopleRootInv == RootInv /\ RootPeople => RootInv'
<1> SUFFICES ASSUME RootInv, RootPeople PROVE RootInv'
  OBVIOUS
<1> USE DEF RootInv
<1>1. /\ moves' \in 0 .. MaxMoves /\ calm' = FALSE
      /\ UNCHANGED <<puller, how, looked, moved>>
  BY RootPullAssumption DEF RootPeople, RootTypeOK
<1>2. CASE SomebodyCommits
  <2>1. lock \in Lock
    BY <1>2 DEF SomebodyCommits, RootTypeOK
  <2>2. /\ written' \in Seq(Lock) /\ Len(written') \in 1 .. MaxWrites
        /\ Len(written') = Len(written) + 1 /\ Len(written) \in Nat
    BY <1>2, <2>1, NextVersion DEF SomebodyCommits, RootTypeOK
  <2>3. PICK more \in {{}} \cup {{e} : e \in UserEdit} :
          RootMoves(Current \cup more \cup {Len(written')}
                      \cup (IF merging = NoMerge THEN {} ELSE merging.onto))
    BY <1>2 DEF SomebodyCommits
  <2> DEFINE c == Current \cup more \cup {Len(written')}
                    \cup (IF merging = NoMerge THEN {} ELSE merging.onto)
  <2>4. more \subseteq UserEdit /\ more \cap Nat = {}
    BY RootPullAssumption
  <2>5. c \in RootCommit
    <3>1. merging # NoMerge => merging.onto \subseteq RootEdit
      BY DEF RootTypeOK, RootCommit
    <3> QED
      BY <2>2, <2>4, <3>1 DEF RootTypeOK, RootCommit, RootEdit, Current
  <2>6. 1 \in c /\ c \cap Nat \subseteq 1 .. Len(written') /\ Current \subseteq c
    <3>1. Versioned(Current) /\ (merging # NoMerge => Versioned(merging.onto))
      BY DEF Histories
    <3> QED
      BY <2>2, <2>4, <3>1 DEF Versioned
  <2>7. /\ head' \in RootCommit /\ away' \in RootCommit /\ attached' \in BOOLEAN
        /\ head' \in {head, c} /\ Current' = c /\ head \subseteq head'
    <3>1. RootMoves(c)
      BY <2>3
    <3>2. attached => head \subseteq c
      BY <2>6 DEF Current
    <3> HIDE DEF c
    <3> QED
      BY <2>5, <3>1, <3>2, RootMovesType DEF RootMoves
  <2> HIDE DEF c
  <2>8. RootTypeOK'
    <3>1. /\ UNCHANGED <<lock, origin, theirs, live>>
          /\ dirty' = FALSE /\ merging' = NoMerge
      BY <1>2 DEF SomebodyCommits
    <3>2. Len(written') <= MaxWrites
      BY <2>2, RootPullAssumption
    <3> QED
      BY <1>1, <2>1, <2>2, <2>7, <3>1, <3>2 DEF RootTypeOK
  <2>9. Histories'
    <3>1. Versioned(head)
      BY DEF Histories
    <3>2. Versioned(head)' /\ Versioned(Current)'
      BY <2>2, <2>6, <2>7, <3>1 DEF Versioned
    <3> QED
      BY <1>2, <2>2, <3>2 DEF SomebodyCommits, Histories, Versioned
  <2>10. Decided'
    BY <1>1, <1>2, <2>7 DEF SomebodyCommits, Decided
  <2> QED
    BY <1>2, <2>1, <2>8, <2>9, <2>10 DEF SomebodyCommits, MarkersOfConflict
<1>3. CASE SomebodyWorks
  <2>1. /\ dirty' \in BOOLEAN
        /\ UNCHANGED <<head, attached, away, merging, lock, written, origin, theirs, live>>
    BY <1>3 DEF SomebodyWorks
  <2>2. RootTypeOK'
    BY <1>1, <2>1 DEF RootTypeOK
  <2> QED
    BY <1>1, <2>1, <2>2 DEF Histories, Versioned, Current, Decided, MarkersOfConflict, Touched,
       Edits
<1>4. CASE SomebodyGivesUp
  <2>1. lock' \in Lock
    BY <1>4, LockAtType DEF SomebodyGivesUp, RootTypeOK, Histories
  <2>2. /\ attached' = TRUE /\ away' = {} /\ dirty' = FALSE /\ merging' = NoMerge
        /\ UNCHANGED <<head, written, origin, theirs, live>>
    BY <1>4 DEF SomebodyGivesUp
  <2>3. RootTypeOK'
    BY <1>1, <2>1, <2>2 DEF RootTypeOK, RootCommit
  <2>4. Histories'
    <3>1. Current' = head
      BY <2>2 DEF Current
    <3> QED
      BY <2>2, <3>1 DEF Histories, Versioned
  <2> QED
    BY <1>1, <2>1, <2>2, <2>3, <2>4 DEF Decided, MarkersOfConflict
<1>5. CASE SomebodyPushes
  <2>1. /\ written' \in Seq(Lock) /\ Len(written') <= MaxWrites
        /\ Len(written) \in Nat /\ Len(written') \in Nat /\ Len(written') >= Len(written)
        /\ theirs' \in RootCommit
        /\ Versioned(theirs)'
    <3>1. CASE \E e \in UserEdit : theirs' = theirs \cup {e} /\ UNCHANGED written
      BY <3>1, RootPullAssumption DEF RootTypeOK, RootCommit, RootEdit, Histories, Versioned
    <3>2. CASE \E v \in Version :
                 /\ Len(written) < MaxWrites
                 /\ written' = Append(written, [m \in Member |->
                                 IF m \in InManifest(theirs) THEN v ELSE NoRecord])
                 /\ theirs' = theirs \cup {Len(written')}
      <4>1. PICK l \in Lock : /\ Len(written) < MaxWrites
                              /\ written' = Append(written, l)
                              /\ theirs' = theirs \cup {Len(written')}
        BY <3>2 DEF Lock
      <4>2. /\ written' \in Seq(Lock) /\ Len(written') = Len(written) + 1
            /\ Len(written) \in Nat /\ Len(written') \in 1 .. MaxWrites
        BY <4>1, RootPullAssumption DEF RootTypeOK
      <4> QED
        BY <4>1, <4>2 DEF RootTypeOK, RootCommit, RootEdit, Histories, Versioned
    <3> QED
      BY <1>5, <3>1, <3>2 DEF SomebodyPushes
  <2>2. RootTypeOK'
    BY <1>1, <1>5, <2>1 DEF SomebodyPushes, RootTypeOK
  <2>3. Histories'
    BY <1>5, <2>1 DEF SomebodyPushes, Histories, Versioned, Current
  <2> QED
    BY <1>1, <1>5, <2>2, <2>3 DEF SomebodyPushes, Decided, MarkersOfConflict, Touched,
       Edits
<1>6. CASE SomebodyMovesMember
  <2>1. live' \in [Member -> Version \cup {Gone}] /\ UNCHANGED <<tree, origin, theirs>>
    BY <1>6 DEF SomebodyMovesMember, RootTypeOK
  <2>2. RootTypeOK'
    BY <1>1, <2>1 DEF tree, RootTypeOK
  <2> QED
    BY <1>1, <2>1, <2>2 DEF tree, Histories, Versioned, Current, Decided, MarkersOfConflict,
       Touched, Edits
<1>7. CASE SomebodySwitches
  <2>1. PICK c \in {head, MergeBase(head, origin), origin} : CheckOut(c) /\ away' = c
    BY <1>7 DEF SomebodySwitches
  <2>2. c \in RootCommit /\ Versioned(c)
    BY DEF RootTypeOK, RootCommit, Histories, Versioned, MergeBase
  <2>3. /\ attached' = FALSE /\ merging' = NoMerge /\ dirty' \in BOOLEAN
        /\ UNCHANGED <<head, written, origin, theirs, live>>
        /\ merging # NoMerge => merging.conflicts = {}
    BY <1>7 DEF SomebodySwitches, RootTypeOK
  <2>4. lock' \in Lock
    BY <2>1, <2>2, <2>3, CheckOutType DEF MarkersOfConflict
  <2>5. RootTypeOK'
    BY <1>1, <2>1, <2>2, <2>3, <2>4 DEF RootTypeOK
  <2>6. Histories'
    <3>1. Current' = c
      BY <2>1, <2>3 DEF Current
    <3> QED
      BY <2>2, <2>3, <3>1 DEF Histories, Versioned
  <2>7. Decided'
    BY <1>1, <2>3 DEF Decided
  <2> QED
    BY <2>4, <2>5, <2>6, <2>7 DEF MarkersOfConflict
<1> QED
  BY <1>2, <1>3, <1>4, <1>5, <1>6, <1>7 DEF RootPeople

LEMMA NextRootInv == RootInv /\ [RootPullStep]_rootVars => RootInv'
<1> SUFFICES ASSUME RootInv, [RootPullStep]_rootVars PROVE RootInv'
  OBVIOUS
<1> USE DEF RootInv
<1>1. MaxWrites \in Nat /\ MaxMoves \in Nat
  BY RootPullAssumption
<1>2. CASE RootLooks
  <2>1. PICK policy \in Policies :
          attached /\ lock # Markers /\ PullBegins(policy, "looked")
    BY <1>2 DEF RootLooks
  <2>2. RootTypeOK'
    <3>1. looked' \in {Nothing} \cup [commit : RootCommit, lock : Lock]
      BY <2>1 DEF PullBegins, RootTypeOK
    <3>2. moves' \in 0 .. MaxMoves
      BY <1>1, <2>1 DEF PullBegins, RootTypeOK
    <3> QED
      BY <2>1, <3>1, <3>2 DEF PullBegins, RootTypeOK, tree
  <2> QED
    BY <2>1, <2>2 DEF PullBegins, RootTypeOK, tree, Histories, Versioned, Current, Decided, Working, MarkersOfConflict
<1>3. CASE RootPassedOver
  <2>1. PICK policy \in Policies : PullBegins(policy, "members")
    BY <1>3 DEF RootPassedOver
  <2>2. RootTypeOK'
    <3>1. looked' \in {Nothing} \cup [commit : RootCommit, lock : Lock]
      BY <2>1 DEF PullBegins, RootTypeOK
    <3>2. moves' \in 0 .. MaxMoves
      BY <1>1, <2>1 DEF PullBegins, RootTypeOK
    <3> QED
      BY <2>1, <3>1, <3>2 DEF PullBegins, RootTypeOK, tree
  <2> QED
    BY <2>1, <2>2 DEF PullBegins, tree, Histories, Versioned, Current, Decided, Working, MarkersOfConflict
<1>4. CASE RootFetches
  BY <1>4 DEF RootFetches, Goto, tree, RootTypeOK, Histories, Versioned, Current, Decided, Working, MarkersOfConflict
<1>5. CASE RootIntegrates
  BY <1>5, IntegratesRootInv
<1>6. CASE RewriteLock
  <2>1. ObservedLock \in Lock
    BY <1>6, ObservedType DEF RewriteLock, Working
  <2> QED
    BY <1>6, <2>1 DEF RewriteLock, ToMembers, Leave, RootTypeOK, Histories, Versioned, Current, Decided,
       Working, MarkersOfConflict
<1>7. CASE ResolveLock
  BY <1>7, ResolveRootInv
<1>8. CASE CommitMerge
  BY <1>8, CommitRootInv
<1>9. CASE MembersPull
  BY <1>9, MembersRootInv
<1>10. CASE PullStops
  BY <1>10 DEF PullStops, Leave, tree, RootTypeOK, Histories, Versioned, Current, Decided, Working, MarkersOfConflict
<1>11. CASE RootPeople
  BY <1>11, PeopleRootInv
<1>12. CASE UNCHANGED rootVars
  BY <1>12 DEF rootVars, tree, pulling, RootTypeOK, Histories, Versioned, Current, Decided, Touched,
     MarkersOfConflict
<1> QED
  BY <1>2, <1>3, <1>4, <1>5, <1>6, <1>7, <1>8, <1>9, <1>10, <1>11, <1>12 DEF RootPullStep

-----------------------------------------------------------------------------
(* The theorems. *)

\* What a repository of the workspace holds is always of its type: the lock
\* file in the worktree is a lock or marked as a conflict, and every commit
\* has a version of it.
THEOREM RootTypeCorrect == RootSpec => []RootTypeOK
<1>1. RootInit => RootInv
  BY InitRootInv
<1>2. RootInv /\ [RootPullStep]_rootVars => RootInv'
  BY NextRootInv
<1>3. RootInv => RootTypeOK
  BY DEF RootInv
<1> QED
  BY <1>1, <1>2, <1>3, PTL DEF RootSpec

\* Whatever people do meanwhile, HEAD switched included, a pull that is not a
\* reset drops a commit from the branch only where fast_forward, going by a
\* HEAD that was switched to a commit behind the remote's, sets the branch to
\* that; and what HEAD is at goes on being there, or HEAD is left by a rebase
\* that stopped, with the branch as it was.
THEOREM PullKeepsRootWork == RootSpec => RootKeepsWork
<1> DEFINE Kept ==
       /\ \/ head \subseteq head'
          \/ ~attached /\ Current \subseteq origin /\ head' = origin
       /\ \/ Current \subseteq Current'
          \/ how.sync = "rebase" /\ ~attached' /\ UNCHANGED head
<1>1. ASSUME NEW c, RootMoves(c), Current \subseteq c
      PROVE  Kept
  BY <1>1 DEF RootMoves, Current
<1>2. ASSUME RootFastForwards PROVE Kept
  BY <1>2 DEF RootFastForwards, Current, tree
<1>3. ASSUME RootMerges PROVE Kept
  <2>1. CASE RootMoves(Current \cup origin)
    BY <2>1, <1>1
  <2>2. CASE UNCHANGED <<head, attached, away>>
    BY <2>2 DEF Current
  <2> QED
    BY <1>3, <2>1, <2>2 DEF RootMerges
<1>4. ASSUME RootRebases, how.sync = "rebase" PROVE Kept
  <2>1. CASE RootMoves(Current \cup origin)
    BY <2>1, <1>1
  <2>2. CASE attached' = FALSE /\ UNCHANGED head
    BY <2>2, <1>4
  <2> QED
    BY <1>4, <2>1, <2>2 DEF RootRebases
<1>5. ASSUME CommitMerge PROVE Kept
  BY <1>5, <1>1 DEF CommitMerge
<1>6. (RootIntegrates \/ CommitMerge) /\ how.sync # "reset" => Kept
  BY <1>2, <1>3, <1>4, <1>5 DEF RootIntegrates
<1> QED
  BY <1>6, PTL DEF RootKeepsWork

\* What a pull of the default policy commits by itself takes nothing from the
\* remote but versions of the lock, whatever people pushed or committed
\* between its look at the branch and its commit.
THEOREM RepairIsConfined == RootSpec => RepairTakesOnlyLock
<1>1. ASSUME RootInv, RootIntegrates, how.sync = "ff_only", head' \notin {head, origin}
      PROVE  Touched(head, head') \subseteq {"lock"}
  <2>1. RootMerges /\ Repairable
    BY <1>1 DEF RootIntegrates, RootFastForwards, tree
  <2>2. looked.commit \subseteq head
    BY <1>1 DEF RootIntegrates, RootInv, Decided
  <2>3. head' = head \cup origin
    BY <1>1, <2>1 DEF RootMerges, RootMoves, Current
  <2>4. Touched(head, head') \subseteq Touched(head, origin)
    BY <2>3, TouchedWithin
  <2> QED
    BY <2>1, <2>2, <2>4, RepairIsOfLock
<1>2. ASSUME RootInv, CommitMerge, how.sync = "ff_only", head' # head
      PROVE  Touched(head, head') \subseteq {"lock"}
  <2>1. attached
    BY <1>2 DEF CommitMerge, RootMoves
  <2>2. Touched(head, merging.onto) \subseteq {"lock"}
    BY <1>2, <2>1 DEF CommitMerge, RootInv, Decided
  <2>3. Len(written') \in Nat
    BY <1>2, NextRootInv DEF RootInv, RootTypeOK, RootPullStep
  <2>4. head' = head \cup merging.onto \cup {Len(written')}
    BY <1>2, <2>1 DEF CommitMerge, RootMoves, Current
  <2> QED
    BY <2>2, <2>3, <2>4, TouchedByVersion
<1>3. RootInit => RootInv
  BY InitRootInv
<1>4. RootInv /\ [RootPullStep]_rootVars => RootInv'
  BY NextRootInv
<1>5. RootInv => (/\ RootIntegrates \/ CommitMerge
               /\ how.sync = "ff_only" /\ head' \notin {head, origin}
               => Touched(head, head') \subseteq {"lock"})
  BY <1>1, <1>2
<1> QED
  BY <1>3, <1>4, <1>5, PTL DEF RootSpec, RepairTakesOnlyLock

-----------------------------------------------------------------------------
(* What a pull has reached, as long as nobody else is at work. *)

\* The lock has what every member in M is at, or was recorded at.
Recorded(M) == \A m \in M : lock[m] \in IF live[m] # Gone THEN {live[m]} ELSE Version

Reached ==
  calm =>
    /\ puller \in Working => attached /\ ~moved
    /\ puller = "looked" /\ how.sync \notin {"reset", "fetch_only"} => merging = NoMerge
    /\ puller = "fetched" => how.sync # "fetch_only"
    /\ puller = "fetched" /\ how.sync # "reset" => merging = NoMerge
    /\ puller = "rewrite" => merging = NoMerge /\ origin \subseteq head
    /\ puller = "resolve" => merging.onto = origin /\ merging.conflicts # {}
    /\ puller = "commit" => merging.onto = origin /\ Recorded(InManifest(head \cup merging.onto))
    /\ puller = "members" /\ moved =>
         attached /\ merging = NoMerge /\ origin \subseteq head /\ Recorded(InManifest(head))

\* What gwz writes from the members is right, if it can be written at all.
LEMMA ObservedIsRecorded ==
  ASSUME RootInv, puller \in Working, Observable, lock' = ObservedLock, live' = live
  PROVE  \A m \in Manifest : lock'[m] \in IF live'[m] # Gone THEN {live'[m]} ELSE Version
<1>1. Fallback \in Lock
  BY DEF Fallback, RootInv, RootTypeOK, Decided
<1>2. Manifest \subseteq Member
  BY DEF Manifest, InManifest
<1> QED
  BY <1>1, <1>2 DEF Observable, ObservedLock, Lock, RootInv, RootTypeOK

\* A version of the lock is no edit of the manifest.
LEMMA ManifestOfVersion ==
  ASSUME NEW c, NEW n \in Nat
  PROVE  InManifest(c \cup {n}) = InManifest(c)
<1>1. n \notin Edits("manifest")
  BY RootPullAssumption DEF Edits
<1> QED
  BY <1>1 DEF InManifest

LEMMA ReachedNext == RootInv /\ Reached /\ [RootPullStep]_rootVars => Reached'
<1> SUFFICES ASSUME RootInv, Reached, [RootPullStep]_rootVars, calm' PROVE Reached'
  BY DEF Reached
<1>1. CASE RootLooks
  <2>1. PICK policy \in Policies :
          attached /\ RootTolerated(policy) /\ PullBegins(policy, "looked")
    BY <1>1 DEF RootLooks
  <2> QED
    BY <2>1 DEF PullBegins, RootTolerated, Reached, Working, tree
<1>2. CASE RootPassedOver
  BY <1>2 DEF RootPassedOver, PullBegins, Reached, Working
<1>3. CASE RootFetches
  BY <1>3 DEF RootFetches, Goto, Reached, Working, tree
<1>4. CASE RootIntegrates
  <2>1. /\ calm /\ attached /\ ~moved /\ puller = "fetched" /\ UNCHANGED <<origin, how, moved>>
        /\ puller' \in {"rewrite", "resolve"} /\ Current = head
        /\ how.sync # "reset" => merging = NoMerge
    BY <1>4 DEF RootIntegrates, RootResets, RootFastForwards, RootMerges, RootRebases, IfOnBranch,
       Goto, Leave, Reached, Working, Current
  <2>2. CASE RootMerges \/ RootRebases
    <3>1. CASE RootMoves(Current \cup origin) /\ UNCHANGED merging /\ puller' = "rewrite"
      <4>1. attached' /\ head' = head \cup origin /\ merging' = NoMerge
        BY <2>1, <2>2, <3>1 DEF RootMoves, RootMerges, RootRebases
      <4> QED
        BY <2>1, <3>1, <4>1 DEF Reached, Working
    <3>2. CASE /\ \E conflicts \in (SUBSET Disputed) \ {{}} : StopsAt(conflicts, Current \cup origin)
               /\ UNCHANGED <<head, attached, away>> /\ puller' = "resolve"
      <4>1. PICK conflicts \in (SUBSET Disputed) \ {{}} :
              merging' = [onto |-> origin, conflicts |-> conflicts]
        BY <3>2 DEF StopsAt
      <4>2. merging'.onto = origin /\ merging'.conflicts = conflicts
        BY <4>1
      <4> QED
        BY <2>1, <3>2, <4>1, <4>2 DEF Reached, Working
    <3>3. RootMerges => \/ RootMoves(Current \cup origin) /\ UNCHANGED merging
                           /\ puller' = "rewrite"
                        \/ /\ \E conflicts \in (SUBSET Disputed) \ {{}} :
                                StopsAt(conflicts, Current \cup origin)
                           /\ UNCHANGED <<head, attached, away>> /\ puller' = "resolve"
      BY DEF RootMerges, Goto
    <3>4. RootRebases => \/ RootMoves(Current \cup origin) /\ UNCHANGED merging
                            /\ puller' = "rewrite"
                         \/ calm' = FALSE
      BY <2>1 DEF RootRebases, IfOnBranch, Goto, Leave
    <3> QED
      BY <2>2, <3>1, <3>2, <3>3, <3>4
  <2>3. CASE RootResets
    BY <2>1, <2>3 DEF RootResets, RootMoves, IfOnBranch, Goto, Reached, Working
  <2>4. CASE RootFastForwards /\ how.sync # "reset"
    BY <2>1, <2>4 DEF RootFastForwards, Goto, Leave, Reached, Working, tree
  <2> QED
    BY <1>4, <2>2, <2>3, <2>4 DEF RootIntegrates
<1>5. CASE RewriteLock
  <2>1. /\ \A m \in Manifest : lock'[m] \in IF live'[m] # Gone THEN {live'[m]} ELSE Version
        /\ puller = "rewrite"
    BY <1>5, ObservedIsRecorded DEF RewriteLock, Working
  <2> QED
    BY <1>5, <2>1 DEF RewriteLock, ToMembers, Leave, Reached, Recorded, Working, Manifest,
       Current, InManifest
<1>6. CASE ResolveLock
  <2>1. CASE "lock" \in merging.conflicts
    <3>1. \A m \in Manifest : lock'[m] \in IF live'[m] # Gone THEN {live'[m]} ELSE Version
      BY <1>6, <2>1, ObservedIsRecorded DEF ResolveLock, Working
    <3>2. \/ puller' = "idle"
          \/ /\ puller' = "commit" /\ merging'.onto = merging.onto
             /\ UNCHANGED <<head, attached, origin, live, moved>>
      <4>1. merging \in [onto : RootCommit, conflicts : SUBSET RootFile]
        BY <1>6 DEF ResolveLock, RootInv, RootTypeOK
      <4> QED
        BY <1>6, <2>1, <4>1 DEF ResolveLock, Goto, Leave
    <3>3. calm /\ attached /\ ~moved /\ merging # NoMerge /\ merging.onto = origin
      BY <1>6 DEF ResolveLock, Goto, Leave, Reached, Working
    <3>4. Manifest = InManifest(head \cup merging.onto)
      BY <3>3 DEF Manifest, Current
    <3> QED
      BY <3>1, <3>2, <3>3, <3>4 DEF Reached, Recorded, Working, InManifest
  <2>2. CASE "lock" \notin merging.conflicts
    BY <1>6, <2>2 DEF ResolveLock, Goto, Leave, Reached, Working
  <2> QED
    BY <2>1, <2>2
<1>7. CASE CommitMerge
  <2>1. Len(written') \in Nat
    BY <1>7, NextRootInv DEF RootInv, RootTypeOK, RootPullStep
  <2>2. attached /\ Current = head
    BY <1>7 DEF CommitMerge, ToMembers, Reached, Working, Current
  <2>3. head' = head \cup merging.onto \cup {Len(written')} /\ attached'
    BY <1>7, <2>2 DEF CommitMerge, RootMoves
  <2>4. InManifest(head)' = InManifest(head \cup merging.onto)
    <3>1. InManifest(head)' = InManifest(head \cup merging.onto \cup {Len(written')})
      BY <2>3 DEF InManifest
    <3> QED
      BY <2>1, <3>1, ManifestOfVersion
  <2> QED
    BY <1>7, <2>3, <2>4 DEF CommitMerge, ToMembers, Reached, Recorded, Working
<1>8. CASE MembersPull \/ PullStops
  BY <1>8 DEF MembersPull, PullStops, Leave
<1>9. CASE RootPeople
  BY <1>9 DEF RootPeople
<1>10. CASE UNCHANGED rootVars
  BY <1>10 DEF rootVars, tree, pulling, Reached, Recorded, InManifest
<1> QED
  BY <1>1, <1>2, <1>3, <1>4, <1>5, <1>6, <1>7, <1>8, <1>9, <1>10 DEF RootPullStep

\* A pull that changed the root with nobody else at work comes to the members
\* with all of the remote, no open merge and a lock that is true of them.
THEOREM PullSettlesRoot == RootSpec => RootSettled
<1>1. RootInit => RootInv
  BY InitRootInv
<1>2. RootInv /\ [RootPullStep]_rootVars => RootInv'
  BY NextRootInv
<1>3. RootInit => Reached
  BY DEF RootInit, Reached
<1>4. RootInv /\ Reached /\ [RootPullStep]_rootVars => Reached'
  BY ReachedNext
<1>5. Reached => (MembersPull /\ moved /\ calm =>
                    /\ attached /\ merging = NoMerge
                    /\ origin \subseteq head
                    /\ \A m \in InManifest(head) :
                         lock[m] \in IF live[m] # Gone THEN {live[m]} ELSE Version)
  BY DEF Reached, Recorded, MembersPull
<1> QED
  BY <1>1, <1>2, <1>3, <1>4, <1>5, PTL DEF RootSpec, RootSettled
=============================================================================
