-------------------------- MODULE OperationRuntime --------------------------
(***************************************************************************)
(* OperationRuntime (operation/push_event.rs, now_ms.rs,                   *)
(* impl_operationrecord.rs, eventsubscription.rs): submit runs a handler   *)
(* on a thread of its own and files its events in a bounded buffer;        *)
(* subscribers drain the buffer, waiters sleep on a condition variable     *)
(* until the result is there.  Every action is one critical section of the *)
(* registry's or of a record's mutex.                                      *)
(***************************************************************************)
EXTENDS Naturals, Sequences, FiniteSets

CONSTANTS
  OperationId,    \* ids callers submit operations under
  Subscriber,     \* threads that subscribe and drain
  Waiter,         \* threads that wait for a result
  EventCapacity,  \* the argument of OperationRuntime::new
  Panics,         \* TRUE: a handler may panic
  MaxSubmits,     \* bound: operations submitted in a behaviour
  MaxEmits        \* bound: events one handler emits

ASSUME RuntimeAssumption ==
  /\ EventCapacity \in Nat
  /\ Panics \in BOOLEAN
  /\ MaxSubmits \in Nat
  /\ MaxEmits \in Nat

\* The records made by submit, in order; 0 stands for none.
Record == 1 .. MaxSubmits

VARIABLES
  registry,  \* operation id -> the record it names
  submits,   \* number of records made
  records,   \* record -> OperationState: events, nextSequence, result
  thread,    \* record -> where the thread of its operation is
  emitted,   \* record -> events its handler has emitted
  sub,       \* subscriber -> EventSubscription: record, nextSequence
  batch,     \* subscriber -> what its last drain returned
  waiter     \* waiter -> where its wait is, and on which record

vars == <<registry, submits, records, thread, emitted, sub, batch, waiter>>

-----------------------------------------------------------------------------
EventKind == {"started", "handler", "finished", "reset"}
Event == [sequence : Nat, kind : EventKind]

NewRecord == [events |-> <<>>, nextSequence |-> 0, result |-> FALSE]

\* OperationRuntime::new: a reset and the event that follows it must fit.
Capacity == IF EventCapacity < 2 THEN 2 ELSE EventCapacity

\* The next event of a record, filed behind earlier ones.
File(state, earlier, kind) ==
  [events |-> Append(earlier, [sequence |-> state.nextSequence, kind |-> kind]),
   nextSequence |-> state.nextSequence + 1,
   result |-> state.result]

\* Mutant: the oldest event makes room for the new one.
DropOldest(state) ==
  IF Len(state.events) < Capacity THEN state
  ELSE [state EXCEPT !.events = Tail(@)]

\* push_event: a full buffer is emptied and starts again with a reset.
MakeRoom(state) ==
  IF Len(state.events) < Capacity THEN state
  ELSE File(state, <<>>, "reset")

\* RuntimeEventSink::emit
Emit(r, kind) ==
  LET room == MakeRoom(records[r])
  IN  records' = [records EXCEPT ![r] = File(room, room.events, kind)]

-----------------------------------------------------------------------------
\* submit: a new record takes the place of the one its id named before.
Submit(o) ==
  /\ submits < MaxSubmits
  /\ submits' = submits + 1
  /\ registry' = [registry EXCEPT ![o] = submits']
  /\ thread' = [thread EXCEPT ![submits'] = "spawned"]
  /\ UNCHANGED <<records, emitted, sub, batch, waiter>>

EmitStarted(r) ==
  /\ thread[r] = "spawned"
  /\ Emit(r, "started")
  /\ thread' = [thread EXCEPT ![r] = "handler"]
  /\ UNCHANGED <<registry, submits, emitted, sub, batch, waiter>>

\* The handler, or a worker it shares its sink with, emits an event.
HandlerEmits(r) ==
  /\ thread[r] = "handler"
  /\ emitted[r] < MaxEmits
  /\ emitted' = [emitted EXCEPT ![r] = @ + 1]
  /\ Emit(r, "handler")
  /\ UNCHANGED <<registry, submits, thread, sub, batch, waiter>>

\* Mutant: the thread completes its record without the last event.
HandlerReturnsUnannounced(r) ==
  /\ thread[r] = "handler"
  /\ thread' = [thread EXCEPT ![r] = "finished"]
  /\ UNCHANGED <<registry, submits, records, emitted, sub, batch, waiter>>

HandlerReturns(r) ==
  /\ thread[r] = "handler"
  /\ thread' = [thread EXCEPT ![r] = "returned"]
  /\ UNCHANGED <<registry, submits, records, emitted, sub, batch, waiter>>

\* A panic unwinds the thread; nothing catches it and nothing is recorded.
HandlerPanics(r) ==
  /\ Panics
  /\ thread[r] = "handler"
  /\ thread' = [thread EXCEPT ![r] = "panicked"]
  /\ UNCHANGED <<registry, submits, records, emitted, sub, batch, waiter>>

EmitFinished(r) ==
  /\ thread[r] = "returned"
  /\ Emit(r, "finished")
  /\ thread' = [thread EXCEPT ![r] = "finished"]
  /\ UNCHANGED <<registry, submits, emitted, sub, batch, waiter>>

\* Mutant: notify_one.
CompleteWakesOne(r) ==
  LET asleep == {w \in Waiter : waiter[w] = [at |-> "asleep", on |-> r]}
  IN  /\ thread[r] = "finished"
      /\ records' = [records EXCEPT ![r].result = TRUE]
      /\ IF asleep = {} THEN UNCHANGED waiter
         ELSE \E w \in asleep : waiter' = [waiter EXCEPT ![w].at = "awake"]
      /\ thread' = [thread EXCEPT ![r] = "done"]
      /\ UNCHANGED <<registry, submits, emitted, sub, batch>>

\* OperationRecord::complete stores the result and wakes every sleeper.
Complete(r) ==
  /\ thread[r] = "finished"
  /\ records' = [records EXCEPT ![r].result = TRUE]
  /\ waiter' = [w \in Waiter |->
                  IF waiter[w] = [at |-> "asleep", on |-> r]
                  THEN [at |-> "awake", on |-> r] ELSE waiter[w]]
  /\ thread' = [thread EXCEPT ![r] = "done"]
  /\ UNCHANGED <<registry, submits, emitted, sub, batch>>

-----------------------------------------------------------------------------
\* subscribe: to the record the id names now, from its first event.
Subscribe(s, o) ==
  /\ sub[s].record = 0
  /\ registry[o] # 0
  /\ sub' = [sub EXCEPT ![s].record = registry[o]]
  /\ UNCHANGED <<registry, submits, records, thread, emitted, batch, waiter>>

\* The events that a cursor has not passed, in the order of the buffer.
From(events, cursor) ==
  LET kept  == {i \in DOMAIN events : events[i].sequence >= cursor}
      order == CHOOSE s \in [1 .. Cardinality(kept) -> kept] :
                 \A j, k \in DOMAIN s : j < k => s[j] < s[k]
  IN  [j \in 1 .. Cardinality(kept) |-> events[order[j]]]

\* drain: the buffered events from the cursor on; an empty drain changes
\* nothing and is left out.
Drain(s) ==
  LET events == From(records[sub[s].record].events, sub[s].nextSequence)
  IN  /\ sub[s].record # 0
      /\ events # <<>>
      /\ batch' = [batch EXCEPT ![s] = events]
      /\ sub' = [sub EXCEPT ![s].nextSequence =
                               events[Len(events)].sequence + 1]
      /\ UNCHANGED <<registry, submits, records, thread, emitted, waiter>>

\* wait: find the record, then look at the result under its mutex.
Wait(w, o) ==
  /\ waiter[w].at = "idle"
  /\ registry[o] # 0
  /\ waiter' = [waiter EXCEPT ![w] = [at |-> "awake", on |-> registry[o]]]
  /\ UNCHANGED <<registry, submits, records, thread, emitted, sub, batch>>

WaitSleeps(w) ==
  /\ waiter[w].at = "awake"
  /\ ~records[waiter[w].on].result
  /\ waiter' = [waiter EXCEPT ![w].at = "asleep"]
  /\ UNCHANGED <<registry, submits, records, thread, emitted, sub, batch>>

WaitReturns(w) ==
  /\ waiter[w].at = "awake"
  /\ records[waiter[w].on].result
  /\ waiter' = [waiter EXCEPT ![w].at = "returned"]
  /\ UNCHANGED <<registry, submits, records, thread, emitted, sub, batch>>

\* A condition variable may wake a sleeper for no reason.
SpuriousWakeup(w) ==
  /\ waiter[w].at = "asleep"
  /\ waiter' = [waiter EXCEPT ![w].at = "awake"]
  /\ UNCHANGED <<registry, submits, records, thread, emitted, sub, batch>>

-----------------------------------------------------------------------------
Init ==
  /\ registry = [o \in OperationId |-> 0]
  /\ submits = 0
  /\ records = [r \in Record |-> NewRecord]
  /\ thread = [r \in Record |-> "none"]
  /\ emitted = [r \in Record |-> 0]
  /\ sub = [s \in Subscriber |-> [record |-> 0, nextSequence |-> 0]]
  /\ batch = [s \in Subscriber |-> <<>>]
  /\ waiter = [w \in Waiter |-> [at |-> "idle", on |-> 0]]

\* What the thread of an operation does when its handler returns in the end.
ThreadStep(r) ==
  EmitStarted(r) \/ HandlerReturns(r) \/ EmitFinished(r) \/ Complete(r)

WaiterStep(w) == WaitSleeps(w) \/ WaitReturns(w)

Next ==
  \/ \E o \in OperationId : Submit(o)
  \/ \E r \in Record : ThreadStep(r) \/ HandlerEmits(r) \/ HandlerPanics(r)
  \/ \E s \in Subscriber : Drain(s) \/ \E o \in OperationId : Subscribe(s, o)
  \/ \E w \in Waiter : \/ WaiterStep(w) \/ SpuriousWakeup(w)
                       \/ \E o \in OperationId : Wait(w, o)

Spec == Init /\ [][Next]_vars

\* Threads that can run do run, and handlers return or panic.
FairSpec ==
  /\ Spec
  /\ \A r \in Record : WF_vars(ThreadStep(r))
  /\ \A w \in Waiter : WF_vars(WaiterStep(w))

-----------------------------------------------------------------------------
(* Properties. *)

\* Of what a drain moves, the cursors and the batches, NoSilentGap speaks.
TypeOK ==
  /\ registry \in [OperationId -> Record \cup {0}]
  /\ submits \in 0 .. MaxSubmits
  /\ records \in [Record -> [events : Seq(Event), nextSequence : Nat,
                             result : BOOLEAN]]
  /\ thread \in [Record -> {"none", "spawned", "handler", "returned",
                            "panicked", "finished", "done"}]
  /\ emitted \in [Record -> 0 .. MaxEmits]
  /\ waiter \in [Waiter -> [at : {"idle", "awake", "asleep", "returned"},
                            on : Record \cup {0}]]

\* The history an operation keeps is bounded, whatever its handler emits.
BufferBounded == \A r \in Record : Len(records[r].events) <= Capacity

\* Whoever has the result and then drains finds the end of the history: the
\* last event is still in the buffer, however often it overflowed.
ResultAfterFinished ==
  \A r \in Record : records[r].result =>
    LET events == records[r].events
    IN  events # <<>> /\ events[Len(events)].kind = "finished"

\* A subscriber never misses events without being told: what a drain returns
\* continues what the subscriber has, or starts with a reset, and has no
\* holes; nothing is returned twice.
NoSilentGap ==
  [][\A s \in Subscriber :
       batch'[s] # batch[s] =>
         LET events == batch'[s]
         IN  /\ \/ events[1].sequence = sub[s].nextSequence
                \/ /\ events[1].sequence > sub[s].nextSequence
                   /\ events[1].kind = "reset"
             /\ \A i \in 1 .. Len(events) - 1 :
                  events[i + 1].sequence = events[i].sequence + 1]_vars

\* Sleepers are sleeping for a reason: once a result is stored, nobody who
\* waits for it is left asleep, whatever the order of look, sleep and notify.
NoLostWakeup ==
  \A w \in Waiter, r \in Record :
    waiter[w] = [at |-> "asleep", on |-> r] => ~records[r].result

\* Every wait on an operation whose handler returns comes back.
WaitComesBack ==
  \A w \in Waiter, r \in Record :
    waiter[w] = [at |-> "awake", on |-> r] ~>
      (waiter[w].at = "returned" \/ thread[r] = "panicked")
=============================================================================
