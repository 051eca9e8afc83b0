---------------------------- MODULE EventEmitter ----------------------------
(***************************************************************************)
(* The events of a handler that works on its members with                  *)
(* par_map_per_host (operation/push_event.rs, impl EventEmitter): the call *)
(* f of a worker emits member_started, progress and member_finished, and   *)
(* the caller's thread operation_started before the call and               *)
(* operation_finished after it.  To emit is to take a number from an       *)
(* atomic counter and then, in a second step, to deliver to the sink.      *)
(***************************************************************************)
EXTENDS ParMapPerHost

CONSTANTS
  MaxUpdates,  \* bound: progress events of the call that pass the rate limit
  NoEvent      \* no event is on its way

Event == [kind : {"started", "progress", "finished"}, number : Nat]

ASSUME EmitterAssumption == MaxUpdates \in Nat /\ NoEvent \notin Event

VARIABLES
  sequence,  \* the AtomicI64
  inside,    \* worker -> how far its f is
  flying,    \* worker -> the event it has numbered and not delivered yet
  heard,     \* item -> the kinds of events of its member the sink was given
  latest,    \* worker -> the number its f delivered last, 0 for none
  got,       \* the numbers the sink was given
  failed,    \* items whose f returned an error
  closing,   \* the caller's thread after the call
  last       \* the number of operation_finished

sink    == <<heard, latest, got>>
emitter == <<sequence, inside, flying, sink, failed, closing, last>>
allVars == <<vars, emitter>>

EmitterInit ==
  /\ sequence = 1  \* operation_started was number 0
  /\ inside = [w \in Worker |-> "out"]
  /\ flying = [w \in Worker |-> NoEvent]
  /\ heard = [i \in Item |-> <<>>]
  /\ latest = [w \in Worker |-> 0]
  /\ got = {0}
  /\ failed = {}
  /\ closing = "waits"
  /\ last = 0

Updates ==
  Cardinality({w \in Worker : flying[w] # NoEvent /\ flying[w].kind = "progress"})
  + Cardinality({p \in Item \X (1 .. MaxUpdates + 2) :
                   p[2] \in DOMAIN heard[p[1]] /\ heard[p[1]][p[2]] = "progress"})

\* What f may emit next.  An update that should_emit_progress drops is no
\* step; the first one of a member is never dropped.
MayEmit(w, kind) ==
  CASE kind = "started"  -> inside[w] = "begun"
    [] kind = "progress" -> inside[w] = "working" /\ Updates < MaxUpdates
    [] kind = "finished" -> inside[w] = "working"

\* Mutant: the counter is read in one step and stored in a later one, and
\* what others took in between is taken again.
TakeNumberTorn(w, kind) ==
  /\ at[w] = "run" /\ flying[w] = NoEvent /\ MayEmit(w, kind)
  /\ flying' = [flying EXCEPT ![w] = [kind |-> kind, number |-> sequence]]
  /\ \E n \in 1 .. sequence + 1 : sequence' = n
  /\ UNCHANGED <<vars, inside, sink, failed, closing, last>>

\* sequence.fetch_add(1)
TakeNumber(w, kind) ==
  /\ at[w] = "run" /\ flying[w] = NoEvent /\ MayEmit(w, kind)
  /\ flying' = [flying EXCEPT ![w] = [kind |-> kind, number |-> sequence]]
  /\ sequence' = sequence + 1
  /\ UNCHANGED <<vars, inside, sink, failed, closing, last>>

\* What the sink is given of the event a worker has on its way.
Hears(w) ==
  /\ heard' = [heard EXCEPT ![has[w]] = Append(@, flying[w].kind)]
  /\ latest' = [latest EXCEPT ![w] = flying[w].number]
  /\ got' = got \cup {flying[w].number}

\* Mutant: an event that finds the sink busy is dropped.
DeliverIfFree(w) ==
  /\ at[w] = "run" /\ flying[w] # NoEvent
  /\ IF \E v \in Worker \ {w} : flying[v] # NoEvent THEN UNCHANGED sink ELSE Hears(w)
  /\ flying' = [flying EXCEPT ![w] = NoEvent]
  /\ inside' = [inside EXCEPT ![w] = IF flying[w].kind = "finished" THEN "over"
                                     ELSE "working"]
  /\ UNCHANGED <<vars, sequence, failed, closing, last>>

\* self.sink.deliver(event)
Deliver(w) ==
  /\ at[w] = "run" /\ flying[w] # NoEvent
  /\ Hears(w)
  /\ flying' = [flying EXCEPT ![w] = NoEvent]
  /\ inside' = [inside EXCEPT ![w] = IF flying[w].kind = "finished" THEN "over"
                                     ELSE "working"]
  /\ UNCHANGED <<vars, sequence, failed, closing, last>>

-----------------------------------------------------------------------------
(* The steps of par_map_per_host, with f in the middle. *)

Enter(w) ==
  /\ Acquire(w)
  /\ inside' = [inside EXCEPT ![w] = "begun"]
  /\ UNCHANGED <<sequence, flying, sink, failed, closing, last>>

\* f returns: after member_finished, or with the error of a clone or a pull,
\* which emits nothing more.
Leave(w) ==
  /\ flying[w] = NoEvent
  /\ \/ inside[w] = "over" /\ UNCHANGED failed
     \/ inside[w] = "working" /\ failed' = failed \cup {has[w]}
  /\ Release(w)
  /\ inside' = [inside EXCEPT ![w] = "out"]
  /\ latest' = [latest EXCEPT ![w] = 0]
  /\ UNCHANGED <<sequence, flying, heard, got, closing, last>>

\* f panics, before, between or after its events, or inside the sink.
Unwind(w) ==
  /\ RunPanics(w)
  /\ inside' = [inside EXCEPT ![w] = "out"]
  /\ flying' = [flying EXCEPT ![w] = NoEvent]
  /\ latest' = [latest EXCEPT ![w] = 0]
  /\ UNCHANGED <<sequence, heard, got, failed, closing, last>>

Around(w) ==
  /\ Claim(w) \/ Take(w) \/ AcquireSleeps(w) \/ Notify(w) \/ Store(w)
       \/ SpuriousWakeup(w)
  /\ UNCHANGED emitter

JoinAll == Join /\ UNCHANGED emitter

\* Mutant: the end is announced while workers are still at it.
NumberLastUnjoined ==
  /\ closing = "waits"
  /\ closing' = "numbered"
  /\ last' = sequence
  /\ sequence' = sequence + 1
  /\ UNCHANGED <<vars, inside, flying, sink, failed>>

\* operation_finished; a pull with an error in one of its results leaves
\* without it.
NumberLast ==
  /\ caller = "returned" /\ closing = "waits"
  /\ closing' = "numbered"
  /\ last' = sequence
  /\ sequence' = sequence + 1
  /\ UNCHANGED <<vars, inside, flying, sink, failed>>

DeliverLast ==
  /\ closing = "numbered"
  /\ closing' = "closed"
  /\ UNCHANGED <<vars, sequence, inside, flying, sink, failed, last>>

LeaveUnclosed ==
  /\ caller = "returned" /\ closing = "waits" /\ failed # {}
  /\ closing' = "left"
  /\ UNCHANGED <<vars, sequence, inside, flying, sink, failed, last>>

-----------------------------------------------------------------------------
InsideF(w) ==
  \/ \E kind \in {"started", "progress", "finished"} : TakeNumber(w, kind)
  \/ Deliver(w)

EmitInit == Init /\ EmitterInit

EmitNext ==
  \/ \E w \in Worker : Enter(w) \/ InsideF(w) \/ Leave(w) \/ Unwind(w) \/ Around(w)
  \/ JoinAll \/ NumberLast \/ DeliverLast \/ LeaveUnclosed

\* A worker that is not asleep goes on; each of these steps changes where it is
\* or what it has on its way.
Goes(w) ==
  \/ Enter(w) \/ InsideF(w) \/ Leave(w)
  \/ at[w] # "asleep" /\ Around(w)

\* No worker beyond the limit of its group is ever spawned.
MaySpawn == {w \in Worker : w[2] <= GroupLimit(w[1])}

EmitSpec ==
  /\ EmitInit /\ [][EmitNext]_allVars
  /\ WF_caller(JoinAll) /\ \A w \in MaySpawn : WF_<<at[w], flying[w]>>(Goes(w))

-----------------------------------------------------------------------------
(* Properties. *)

\* The events of one member reach the sink in the order of its work and of
\* their numbers, whatever other members do: started, progress, finished.
MemberOrder ==
  /\ \A i \in Item : \A n \in DOMAIN heard[i] :
       /\ (heard[i][n] = "started") <=> (n = 1)
       /\ heard[i][n] = "finished" => n = Len(heard[i])
  /\ \A w \in Worker : flying[w] # NoEvent => latest[w] < flying[w].number

\* No number is given twice, and once operation_finished is delivered the
\* sink has 0 .. n without a gap, operation_finished with the last one: a
\* consumer that has to sort events can tell that it has them all.
NumbersComplete ==
  /\ \A v, w \in Worker :
       flying[w] # NoEvent =>
         /\ flying[w].number \notin got
         /\ v # w /\ flying[v] # NoEvent => flying[v].number # flying[w].number
  /\ closing = "closed" => /\ got \cup {last} = 0 .. sequence - 1
                           /\ last = sequence - 1

\* A sink that has heard operation_finished has heard every member start, and
\* finish unless its result is an error.
EveryMemberHeard ==
  closing = "closed" =>
    \A i \in Item :
      /\ heard[i] # <<>>
      /\ (heard[i][Len(heard[i])] = "finished") <=> i \notin failed
=============================================================================
