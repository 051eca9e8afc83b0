----------------------- MODULE OperationRuntime_proofs -----------------------
(***************************************************************************)
(* The bounds of an operation's history and the safety of wait, for any    *)
(* numbers of operations, subscribers, waiters and events.                 *)
(***************************************************************************)
EXTENDS OperationRuntime, FiniteSetTheorems, TLAPS

State == [events : Seq(Event), nextSequence : Nat, result : BOOLEAN]
WaiterState == [at : {"idle", "awake", "asleep", "returned"},
                on : Record \cup {0}]
Place == {"none", "spawned", "handler", "returned", "panicked", "finished",
          "done"}

Types ==
  /\ registry \in [OperationId -> Record \cup {0}]
  /\ submits \in 0 .. MaxSubmits
  /\ records \in [Record -> State]
  /\ thread \in [Record -> Place]
  /\ waiter \in [Waiter -> WaiterState]

EndsFinished(events) == events # <<>> /\ events[Len(events)].kind = "finished"

\* A thread that has announced the end of its operation files nothing more,
\* and only such a thread stores a result.
EndIsLast ==
  \A r \in Record :
    /\ thread[r] \in {"finished", "done"} => EndsFinished(records[r].events)
    /\ records[r].result => thread[r] = "done"

\* Submit makes a record nobody has used.
FreshIsUnused == \A r \in Record : r > submits => thread[r] = "none"

IInv == Types /\ BufferBounded /\ NoLostWakeup /\ EndIsLast /\ FreshIsUnused

-----------------------------------------------------------------------------
(* What emitting does to the state of a record. *)

LEMMA CapacityType == Capacity \in Nat /\ Capacity >= 2
BY RuntimeAssumption DEF Capacity

LEMMA FileType ==
  ASSUME NEW state \in State, NEW earlier \in Seq(Event), NEW kind \in EventKind
  PROVE  LET new == File(state, earlier, kind)
         IN  /\ new \in State
             /\ Len(new.events) = Len(earlier) + 1
             /\ new.events[Len(new.events)].kind = kind
             /\ new.result = state.result
<1> DEFINE e == [sequence |-> state.nextSequence, kind |-> kind]
<1>1. e \in Event /\ e.kind = kind
  BY DEF State, Event
<1> HIDE DEF e
<1>2. /\ Append(earlier, e) \in Seq(Event)
      /\ Len(Append(earlier, e)) = Len(earlier) + 1
      /\ Append(earlier, e)[Len(earlier) + 1] = e
  BY <1>1
<1>3. File(state, earlier, kind) = [events |-> Append(earlier, e),
                                    nextSequence |-> state.nextSequence + 1,
                                    result |-> state.result]
  BY DEF File, e
<1> QED
  BY <1>1, <1>2, <1>3 DEF State

LEMMA MakeRoomType ==
  ASSUME NEW state \in State, Len(state.events) <= Capacity
  PROVE  /\ MakeRoom(state) \in State
         /\ Len(MakeRoom(state).events) < Capacity
         /\ MakeRoom(state).result = state.result
<1> DEFINE none == <<>>
           new  == File(state, none, "reset")
<1>1. none \in Seq(Event) /\ Len(none) = 0
  OBVIOUS
<1> HIDE DEF none
<1>2. new \in State /\ Len(new.events) = 1 /\ new.result = state.result
  <2>1. "reset" \in EventKind
    BY DEF EventKind
  <2>2. /\ new \in State
        /\ Len(new.events) = Len(none) + 1
        /\ new.result = state.result
    BY <1>1, <2>1, FileType
  <2> QED
    BY <1>1, <2>2
<1>3. Len(state.events) \in Nat
  BY DEF State
<1> QED
  BY <1>2, <1>3, CapacityType DEF MakeRoom, none

\* One event more, within the capacity, and at the end.
LEMMA EmitType ==
  ASSUME NEW state \in State, Len(state.events) <= Capacity,
         NEW kind \in EventKind
  PROVE  LET new == File(MakeRoom(state), MakeRoom(state).events, kind)
         IN  /\ new \in State
             /\ Len(new.events) <= Capacity
             /\ new.events # <<>>
             /\ new.events[Len(new.events)].kind = kind
             /\ new.result = state.result
<1> DEFINE room == MakeRoom(state)
           new  == File(room, room.events, kind)
<1>1. /\ room \in State /\ room.events \in Seq(Event)
      /\ Len(room.events) < Capacity /\ room.result = state.result
  BY MakeRoomType DEF State
<1> HIDE DEF room
<1>2. /\ new \in State
      /\ Len(new.events) = Len(room.events) + 1
      /\ new.events[Len(new.events)].kind = kind
      /\ new.result = room.result
  BY <1>1, FileType
<1>3. Len(room.events) \in Nat
  BY <1>1 DEF State
<1>4. Len(new.events) <= Capacity /\ new.events # <<>>
  BY <1>1, <1>2, <1>3, CapacityType
<1> QED
  BY <1>1, <1>2, <1>4 DEF room

-----------------------------------------------------------------------------
LEMMA InitIInv == Init => IInv
<1> SUFFICES ASSUME Init PROVE IInv
  OBVIOUS
<1>1. NewRecord \in State /\ Len(NewRecord.events) = 0 /\ ~NewRecord.result
  BY DEF NewRecord, State
<1>2. Types
  BY <1>1, RuntimeAssumption DEF Init, Types, Place, WaiterState
<1>3. BufferBounded
  BY <1>1, CapacityType DEF Init, BufferBounded
<1> QED
  BY <1>1, <1>2, <1>3 DEF Init, IInv, NoLostWakeup, EndIsLast, FreshIsUnused

\* A thread emits an event and moves on, short of the end or at it.
LEMMA EmitIInv ==
  ASSUME IInv, NEW r \in Record, NEW kind \in EventKind, Emit(r, kind),
         NEW l \in {"handler", "finished"}, l = "finished" => kind = "finished",
         thread[r] \in {"spawned", "handler", "returned"},
         thread' = [thread EXCEPT ![r] = l],
         UNCHANGED <<registry, submits, waiter>>
  PROVE  IInv'
<1> USE DEF IInv
<1> DEFINE new == File(MakeRoom(records[r]), MakeRoom(records[r]).events, kind)
<1>1. records[r] \in State /\ Len(records[r].events) <= Capacity
  BY DEF Types, BufferBounded
<1>2. /\ new \in State
      /\ Len(new.events) <= Capacity
      /\ EndsFinished(new.events) <=> kind = "finished"
      /\ new.result = records[r].result
  BY <1>1, EmitType DEF EndsFinished
<1>3. records' = [records EXCEPT ![r] = new]
  BY DEF Emit
<1> HIDE DEF new
<1>4. Types'
  BY <1>2, <1>3 DEF Types, Place
<1>5. BufferBounded'
  BY <1>2, <1>3 DEF BufferBounded, Types
<1>6. NoLostWakeup'
  BY <1>2, <1>3 DEF NoLostWakeup, Types
<1>7. EndIsLast'
  BY <1>2, <1>3 DEF EndIsLast, Types
<1>8. FreshIsUnused'
  BY DEF FreshIsUnused, Types
<1> QED
  BY <1>4, <1>5, <1>6, <1>7, <1>8

LEMMA CompleteIInv ==
  ASSUME IInv, NEW r \in Record, Complete(r) PROVE IInv'
<1> USE DEF IInv, Complete
<1>1. Types'
  BY DEF Types, State, Place, WaiterState
<1>2. \A q \in Record : /\ records'[q].events = records[q].events
                        /\ records'[q].result <=> (records[q].result \/ q = r)
  BY DEF Types, State
<1>3. BufferBounded' /\ EndIsLast' /\ FreshIsUnused'
  BY <1>2 DEF BufferBounded, EndIsLast, FreshIsUnused, Types
<1>4. NoLostWakeup'
  \* Whoever slept on r is awake, and the other records did not change.
  BY <1>2 DEF NoLostWakeup, Types, WaiterState
<1> QED
  BY <1>1, <1>3, <1>4

\* Steps of waiters: only a look at a missing result puts one to sleep.
LEMMA WaiterIInv ==
  ASSUME IInv, NEW w \in Waiter,
         \/ WaiterStep(w) \/ SpuriousWakeup(w)
         \/ \E o \in OperationId : Wait(w, o)
  PROVE  IInv'
<1> USE DEF IInv, WaiterStep, WaitSleeps, WaitReturns, SpuriousWakeup, Wait
<1>1. UNCHANGED <<registry, submits, records, thread>>
  OBVIOUS
<1>2. waiter' \in [Waiter -> WaiterState]
  BY DEF Types, WaiterState
<1>3. NoLostWakeup'
  BY <1>1 DEF NoLostWakeup, Types, WaiterState
<1> QED
  BY <1>1, <1>2, <1>3 DEF Types, BufferBounded, EndIsLast, FreshIsUnused

LEMMA StepIInv == IInv /\ [Next]_vars => IInv'
<1> SUFFICES ASSUME IInv, [Next]_vars PROVE IInv'
  OBVIOUS
<1>1. ASSUME NEW o \in OperationId, Submit(o) PROVE IInv'
  <2>1. submits' \in Record /\ thread[submits'] = "none"
    BY <1>1, RuntimeAssumption DEF Submit, Record, IInv, Types, FreshIsUnused
  <2> QED
    BY <1>1, <2>1 DEF Submit, IInv, Types, Place, BufferBounded, NoLostWakeup,
                      EndIsLast, FreshIsUnused, Record
<1>2. ASSUME NEW r \in Record,
             EmitStarted(r) \/ HandlerEmits(r) \/ EmitFinished(r)
      PROVE  IInv'
  <2>1. CASE EmitStarted(r)
    BY <2>1, EmitIInv DEF EmitStarted, EventKind
  <2>2. CASE HandlerEmits(r)
    <3>1. thread' = [thread EXCEPT ![r] = "handler"]
      BY <2>2 DEF HandlerEmits, IInv, Types
    <3> QED
      BY <2>2, <3>1, EmitIInv DEF HandlerEmits, EventKind
  <2>3. CASE EmitFinished(r)
    BY <2>3, EmitIInv DEF EmitFinished, EventKind
  <2> QED
    BY <1>2, <2>1, <2>2, <2>3
<1>3. ASSUME NEW r \in Record, HandlerReturns(r) \/ HandlerPanics(r) PROVE IInv'
  BY <1>3 DEF HandlerReturns, HandlerPanics, IInv, Types, Place, BufferBounded,
              NoLostWakeup, EndIsLast, FreshIsUnused
<1>4. ASSUME NEW r \in Record, Complete(r) PROVE IInv'
  BY <1>4, CompleteIInv
<1>5. ASSUME NEW s \in Subscriber,
             Drain(s) \/ \E o \in OperationId : Subscribe(s, o)
      PROVE  IInv'
  <2>1. UNCHANGED <<registry, submits, records, thread, waiter>>
    BY <1>5 DEF Drain, Subscribe
  <2> QED
    BY <2>1 DEF IInv, Types, BufferBounded, NoLostWakeup, EndIsLast, FreshIsUnused
<1>6. ASSUME NEW w \in Waiter,
             \/ WaiterStep(w) \/ SpuriousWakeup(w)
             \/ \E o \in OperationId : Wait(w, o)
      PROVE  IInv'
  BY <1>6, WaiterIInv
<1>7. CASE UNCHANGED vars
  BY <1>7 DEF vars, IInv, Types, BufferBounded, NoLostWakeup, EndIsLast,
              FreshIsUnused
<1> QED
  BY <1>1, <1>2, <1>3, <1>4, <1>5, <1>6, <1>7 DEF Next, ThreadStep

\* Only the handler's own events are counted, up to their bound.
LEMMA EmittedType ==
  ASSUME emitted \in [Record -> 0 .. MaxEmits], [Next]_vars
  PROVE  emitted' \in [Record -> 0 .. MaxEmits]
<1>1. ASSUME NEW r \in Record, HandlerEmits(r)
      PROVE  emitted' \in [Record -> 0 .. MaxEmits]
  BY <1>1, RuntimeAssumption DEF HandlerEmits
<1>2. CASE UNCHANGED emitted
  BY <1>2
<1>3. UNCHANGED emitted \/ \E r \in Record : HandlerEmits(r)
  BY DEF Next, ThreadStep, WaiterStep, Submit, EmitStarted, HandlerReturns,
         HandlerPanics, EmitFinished, Complete, Subscribe, Drain, Wait, WaitSleeps,
         WaitReturns, SpuriousWakeup, vars
<1> QED
  BY <1>1, <1>2, <1>3

\* The registry, the records with their buffers, the threads and the waiters
\* keep their types, for any numbers of them.
THEOREM TypeCorrect == Spec => []TypeOK
<1> DEFINE Counted == emitted \in [Record -> 0 .. MaxEmits]
<1>1. Init => Counted
  BY RuntimeAssumption DEF Init
<1>2. Counted /\ [Next]_vars => Counted'
  BY EmittedType
<1>3. IInv /\ Counted => TypeOK
  BY DEF IInv, Types, State, Place, WaiterState, TypeOK
<1> QED
  BY InitIInv, StepIInv, <1>1, <1>2, <1>3, PTL DEF Spec

\* The history of an operation never outgrows its capacity, whoever emits.
THEOREM BoundedHistory == Spec => []BufferBounded
<1>1. IInv => BufferBounded
  BY DEF IInv
<1> QED
  BY InitIInv, StepIInv, <1>1, PTL DEF Spec

\* No order of look, sleep, store and notify leaves a waiter asleep on a
\* result that is there.
THEOREM WakeupsAreKept == Spec => []NoLostWakeup
<1>1. IInv => NoLostWakeup
  BY DEF IInv
<1> QED
  BY InitIInv, StepIInv, <1>1, PTL DEF Spec

\* A result is never visible before the last event of its operation, and no
\* overflow drops that event.
THEOREM ResultComesLast == Spec => []ResultAfterFinished
<1>1. IInv => ResultAfterFinished
  BY DEF IInv, EndIsLast, EndsFinished, ResultAfterFinished
<1> QED
  BY InitIInv, StepIInv, <1>1, PTL DEF Spec

-----------------------------------------------------------------------------
(* What a subscriber hears.                                                *)

\* A buffer holds the latest events of its operation, numbered without holes
\* up to the next number; once earlier ones are gone, a reset is in front.
Whole(state) ==
  LET size == Len(state.events)
  IN  /\ size <= state.nextSequence
      /\ \A i \in 1 .. size :
           state.events[i].sequence = state.nextSequence - size + i - 1
      /\ size < state.nextSequence =>
           size > 0 /\ state.events[1].kind = "reset"

BuffersWhole == \A r \in Record : Whole(records[r])

Cursors ==
  /\ sub \in [Subscriber -> [record : Record \cup {0}, nextSequence : Nat]]
  /\ batch \in [Subscriber -> Seq(Event)]

Heard == IInv /\ BuffersWhole /\ Cursors

\* A list filed into the order of its numbers, whatever was put aside before.
LEMMA FileWhole ==
  ASSUME NEW state \in State, Whole(state), NEW kind \in EventKind
  PROVE  Whole(File(state, state.events, kind))
<1> DEFINE e   == [sequence |-> state.nextSequence, kind |-> kind]
           es  == state.events
           new == File(state, es, kind)
<1>1. /\ e \in Event /\ e.sequence = state.nextSequence
      /\ es \in Seq(Event) /\ Len(es) \in Nat /\ state.nextSequence \in Nat
  BY DEF State, Event
<1> HIDE DEF e
<1>2. new.events = Append(es, e) /\ new.nextSequence = state.nextSequence + 1
  BY DEF File, e
<1> HIDE DEF new
<1>3. /\ Len(new.events) = Len(es) + 1
      /\ new.events[Len(es) + 1] = e
      /\ \A i \in 1 .. Len(es) : new.events[i] = es[i]
  BY <1>1, <1>2
<1>4. Len(new.events) <= new.nextSequence
  BY <1>1, <1>2, <1>3 DEF Whole
<1>5. \A i \in 1 .. Len(new.events) :
        new.events[i].sequence = new.nextSequence - Len(new.events) + i - 1
  <2> TAKE i \in 1 .. Len(new.events)
  <2>1. CASE i = Len(es) + 1
    BY <1>1, <1>2, <1>3, <2>1
  <2>2. CASE i \in 1 .. Len(es)
    BY <1>1, <1>2, <1>3, <2>2 DEF Whole
  <2> QED
    BY <1>1, <1>3, <2>1, <2>2
<1>6. Len(new.events) < new.nextSequence =>
        Len(new.events) > 0 /\ new.events[1].kind = "reset"
  BY <1>1, <1>2, <1>3 DEF Whole
<1> QED
  BY <1>4, <1>5, <1>6 DEF Whole, new

\* A full buffer starts again with a reset that has the next number.
LEMMA MakeRoomWhole ==
  ASSUME NEW state \in State, Whole(state)
  PROVE  Whole(MakeRoom(state))
<1> DEFINE none == <<>>
           e    == [sequence |-> state.nextSequence, kind |-> "reset"]
           new  == File(state, none, "reset")
<1>1. e.sequence = state.nextSequence /\ e.kind = "reset" /\ state.nextSequence \in Nat
  BY DEF State
<1> HIDE DEF e
<1>2. new.events = <<e>> /\ new.nextSequence = state.nextSequence + 1
  BY DEF File, e
<1> HIDE DEF new
<1>3. Len(new.events) = 1 /\ new.events[1] = e
  BY <1>2
<1>4. Whole(new)
  <2>1. ASSUME NEW i \in 1 .. 1
        PROVE  new.events[i].sequence = new.nextSequence - 1 + i - 1
    <3>1. i = 1
      OBVIOUS
    <3> QED
      BY <1>1, <1>2, <1>3, <3>1
  <2> QED
    BY <1>1, <1>2, <1>3, <2>1 DEF Whole
<1> QED
  BY <1>4 DEF MakeRoom, new

\* Emitting keeps every buffer whole.
LEMMA EmitWhole ==
  ASSUME IInv, BuffersWhole, NEW r \in Record, NEW kind \in EventKind, Emit(r, kind)
  PROVE  BuffersWhole'
<1> DEFINE room == MakeRoom(records[r])
           new  == File(room, room.events, kind)
<1>1. records[r] \in State /\ Len(records[r].events) <= Capacity /\ Whole(records[r])
  BY DEF IInv, Types, BufferBounded, BuffersWhole
<1>2. room \in State /\ Whole(room)
  BY <1>1, MakeRoomType, MakeRoomWhole
<1>3. records' = [records EXCEPT ![r] = new]
  BY DEF Emit
<1> HIDE DEF room
<1>4. Whole(new)
  BY <1>2, FileWhole
<1> HIDE DEF new
<1>5. \A q \in Record : records'[q] = IF q = r THEN new ELSE records[q]
  BY <1>3 DEF IInv, Types
<1> QED
  BY <1>4, <1>5 DEF BuffersWhole

\* From a whole buffer a cursor takes the tail that begins at it, or all of
\* the buffer when it begins later.
LEMMA FromWhole ==
  ASSUME NEW state \in State, Whole(state), NEW cursor \in Nat,
         From(state.events, cursor) # <<>>
  PROVE  LET events == From(state.events, cursor)
         IN  /\ events \in Seq(Event) /\ Len(events) \in Nat \ {0}
             /\ \/ events[1].sequence = cursor
                \/ events[1].sequence > cursor /\ events[1].kind = "reset"
             /\ \A i \in 1 .. Len(events) - 1 :
                  events[i + 1].sequence = events[i].sequence + 1
<1> DEFINE es    == state.events
           n     == Len(es)
           low   == state.nextSequence - n
           k     == IF low >= cursor THEN 1 ELSE cursor - low + 1
           kept  == {i \in DOMAIN es : es[i].sequence >= cursor}
           size  == Cardinality(kept)
           Up(s) == \A i, j \in DOMAIN s : i < j => s[i] < s[j]
           order == CHOOSE s \in [1 .. size -> kept] : Up(s)
           out   == From(es, cursor)
<1>1. /\ es \in Seq(Event) /\ n \in Nat /\ DOMAIN es = 1 .. n
      /\ state.nextSequence \in Nat
  BY DEF State
<1>2. /\ low \in Nat
      /\ \A i \in 1 .. n : es[i].sequence = low + i - 1
      /\ low > 0 => n > 0 /\ es[1].kind = "reset"
  BY <1>1 DEF Whole
<1>3. out = [j \in 1 .. size |-> es[order[j]]]
  BY DEF From
<1> HIDE DEF n, low, out
<1>4. k \in Nat /\ k >= 1
  BY <1>2
<1>5. kept = k .. n
  <2>1. ASSUME NEW i \in 1 .. n PROVE es[i].sequence >= cursor <=> i >= k
    BY <1>2, <2>1
  <2> HIDE DEF k
  <2>2. \A i : i \in kept <=> i \in 1 .. n /\ i >= k
    BY <1>1, <2>1
  <2>3. \A i : i \in k .. n <=> i \in 1 .. n /\ i >= k
    BY <1>1, <1>4
  <2> HIDE DEF kept
  <2> QED
    BY <2>2, <2>3
<1> HIDE DEF kept
<1>6. IsFiniteSet(kept) /\ size = IF k <= n THEN n - k + 1 ELSE 0
  <2> HIDE DEF k
  <2> QED
    BY <1>1, <1>4, <1>5, FS_Interval
<1>7. k <= n /\ size = n - k + 1 /\ size \in Nat \ {0}
  <2>1. CASE size = 0
    <3>1. out = <<>>
      BY <1>3, <2>1
    <3> QED
      BY <3>1 DEF out
  <2> HIDE DEF k
  <2> QED
    BY <1>1, <1>4, <1>6, <2>1
<1> HIDE DEF k, size
<1>8. order \in [1 .. size -> kept] /\ Up(order)
  <2> DEFINE s == [j \in 1 .. size |-> k + j - 1]
  <2>1. s \in [1 .. size -> kept]
    BY <1>1, <1>4, <1>5, <1>7
  <2>2. Up(s)
    BY <1>4, <1>7
  <2> HIDE DEF s
  <2>3. \E t \in [1 .. size -> kept] : Up(t)
    BY <2>1, <2>2
  <2> HIDE DEF Up
  <2> QED
    BY <2>3
<1> HIDE DEF order
<1>9. \A i, j \in 1 .. size : order[i] = order[j] => i = j
  <2> SUFFICES ASSUME NEW i \in 1 .. size, NEW j \in 1 .. size, order[i] = order[j], i < j
               PROVE  FALSE
    BY <1>7
  <2>1. order[i] < order[j] /\ order[i] \in Nat
    BY <1>4, <1>5, <1>8
  <2> QED
    BY <2>1
<1>10. \A x \in kept : \E j \in 1 .. size : order[j] = x
  <2>1. order \in Injection(1 .. size, kept)
    BY <1>8, <1>9 DEF Injection, IsInjective
  <2>2. Cardinality(1 .. size) = size
    BY <1>7, FS_Interval
  <2>3. order \in Surjection(1 .. size, kept)
    BY <1>6, <2>1, <2>2, FS_Injection DEF size
  <2> QED
    BY <2>3 DEF Surjection
<1>11. order[1] = k
  <2>1. PICK j \in 1 .. size : order[j] = k
    BY <1>1, <1>4, <1>5, <1>7, <1>10
  <2>2. order[1] \in Nat /\ order[1] >= k
    BY <1>4, <1>5, <1>7, <1>8
  <2>3. j > 1 => order[1] < order[j]
    BY <1>7, <1>8
  <2> QED
    BY <1>4, <1>7, <2>1, <2>2, <2>3
<1>12. \A i \in 1 .. size - 1 : order[i + 1] = order[i] + 1
  <2> TAKE i \in 1 .. size - 1
  <2>1. /\ i \in 1 .. size /\ i + 1 \in 1 .. size
        /\ order[i] \in k .. n /\ order[i + 1] \in k .. n /\ order[i] < order[i + 1]
    BY <1>5, <1>7, <1>8
  <2>2. order[i] + 1 \in kept
    BY <1>1, <1>4, <1>5, <2>1
  <2>3. PICK j \in 1 .. size : order[j] = order[i] + 1
    BY <1>10, <2>2
  <2>4. j > i
    <3>1. j < i => order[j] < order[i]
      BY <1>8, <2>1
    <3>2. order[i] \in Nat
      BY <1>4, <2>1
    <3> QED
      BY <1>7, <2>1, <2>3, <3>1, <3>2
  <2>5. j > i + 1 => order[i + 1] < order[j]
    BY <1>7, <1>8, <2>1
  <2> QED
    BY <1>4, <2>1, <2>3, <2>4, <2>5, <1>7
<1>13. /\ DOMAIN out = 1 .. size
       /\ \A j \in 1 .. size : out[j] = es[order[j]] /\ order[j] \in 1 .. n
  BY <1>1, <1>3, <1>4, <1>5, <1>8
<1>14. out \in Seq(Event) /\ Len(out) = size
  <2>1. out \in [1 .. size -> Event]
    BY <1>1, <1>3, <1>13
  <2> QED
    BY <1>7, <2>1
<1>15. out[1].sequence = low + k - 1 /\ (k = 1 => out[1] = es[1])
  BY <1>2, <1>7, <1>11, <1>13
<1>16. \/ out[1].sequence = cursor
       \/ out[1].sequence > cursor /\ out[1].kind = "reset"
  <2>1. CASE low > cursor
    <3>1. k = 1
      BY <1>2, <2>1 DEF k
    <3> QED
      BY <1>2, <1>15, <2>1, <3>1
  <2>2. CASE low <= cursor
    <3>1. low + k - 1 = cursor
      BY <1>2, <2>2 DEF k
    <3> QED
      BY <1>15, <3>1
  <2> QED
    BY <1>2, <2>1, <2>2
<1>17. ASSUME NEW i \in 1 .. size - 1
       PROVE  out[i + 1].sequence = out[i].sequence + 1
  <2>1. i \in 1 .. size /\ i + 1 \in 1 .. size
    BY <1>7
  <2>2. /\ out[i].sequence = low + order[i] - 1
        /\ out[i + 1].sequence = low + order[i + 1] - 1
        /\ order[i] \in Nat
    BY <1>2, <1>13, <2>1
  <2> QED
    BY <1>2, <1>12, <2>2
<1> QED
  BY <1>7, <1>14, <1>16, <1>17 DEF out

LEMMA HeardInit == Init => Heard
<1> SUFFICES ASSUME Init PROVE Heard
  OBVIOUS
<1>1. Whole(NewRecord)
  BY DEF NewRecord, Whole
<1>2. BuffersWhole
  BY <1>1 DEF Init, BuffersWhole
<1>3. Cursors
  BY DEF Init, Cursors
<1> QED
  BY InitIInv, <1>2, <1>3 DEF Heard

\* A drain and a subscription leave the cursors in their types, and only a
\* drain changes what a subscriber has, to what its cursor had not passed.
LEMMA DrainHears ==
  ASSUME Heard, NEW s \in Subscriber, Drain(s)
  PROVE  /\ Cursors'
         /\ \A x \in Subscriber : batch'[x] # batch[x] => x = s
         /\ LET events == batch'[s]
            IN  /\ \/ events[1].sequence = sub[s].nextSequence
                   \/ /\ events[1].sequence > sub[s].nextSequence
                      /\ events[1].kind = "reset"
                /\ \A i \in 1 .. Len(events) - 1 :
                     events[i + 1].sequence = events[i].sequence + 1
<1> DEFINE r      == sub[s].record
           cursor == sub[s].nextSequence
           events == From(records[r].events, cursor)
           next   == events[Len(events)].sequence + 1
<1>1. /\ r \in Record /\ cursor \in Nat
      /\ sub \in [Subscriber -> [record : Record \cup {0}, nextSequence : Nat]]
      /\ batch \in [Subscriber -> Seq(Event)]
  BY DEF Heard, Cursors, Drain
<1>2. records[r] \in State /\ Whole(records[r])
  BY <1>1 DEF Heard, IInv, Types, BuffersWhole
<1>3. /\ events # <<>>
      /\ batch' = [batch EXCEPT ![s] = events]
      /\ sub' = [sub EXCEPT ![s].nextSequence = next]
  BY DEF Drain
<1> HIDE DEF r, cursor
<1>4. /\ events \in Seq(Event) /\ Len(events) \in Nat \ {0}
      /\ \/ events[1].sequence = cursor
         \/ events[1].sequence > cursor /\ events[1].kind = "reset"
      /\ \A i \in 1 .. Len(events) - 1 :
           events[i + 1].sequence = events[i].sequence + 1
  BY <1>1, <1>2, <1>3, FromWhole
<1> HIDE DEF events
<1>5. next \in Nat
  <2>1. events[Len(events)] \in Event
    BY <1>4
  <2> QED
    BY <2>1 DEF Event
<1> HIDE DEF next
<1>6. Cursors'
  BY <1>1, <1>3, <1>4, <1>5 DEF Cursors
<1>7. \A x \in Subscriber : batch'[x] = IF x = s THEN events ELSE batch[x]
  BY <1>1, <1>3
<1> QED
  BY <1>4, <1>6, <1>7 DEF cursor

LEMMA HeardStep == Heard /\ [Next]_vars => Heard'
<1> SUFFICES ASSUME Heard, [Next]_vars PROVE Heard'
  OBVIOUS
<1>1. IInv'
  BY StepIInv DEF Heard
<1>2. BuffersWhole'
  <2>1. ASSUME NEW r \in Record,
               EmitStarted(r) \/ HandlerEmits(r) \/ EmitFinished(r)
        PROVE  BuffersWhole'
    BY <2>1, EmitWhole DEF EmitStarted, HandlerEmits, EmitFinished, Heard, EventKind
  <2>2. ASSUME NEW r \in Record, Complete(r) PROVE BuffersWhole'
    <3>1. \A q \in Record : /\ records'[q].events = records[q].events
                            /\ records'[q].nextSequence = records[q].nextSequence
      BY <2>2 DEF Complete, Heard, IInv, Types, State
    <3> QED
      BY <3>1 DEF BuffersWhole, Whole, Heard
  <2>3. CASE UNCHANGED records
    BY <2>3 DEF BuffersWhole, Heard
  <2> QED
    BY <2>1, <2>2, <2>3 DEF Next, ThreadStep, WaiterStep, Submit, HandlerReturns,
       HandlerPanics, Subscribe, Drain, Wait, WaitSleeps, WaitReturns,
       SpuriousWakeup, vars
<1>3. Cursors'
  <2>1. ASSUME NEW s \in Subscriber, Drain(s) PROVE Cursors'
    BY <2>1, DrainHears
  <2>2. ASSUME NEW s \in Subscriber, NEW o \in OperationId, Subscribe(s, o)
        PROVE  Cursors'
    <3>1. registry[o] \in Record \cup {0}
      BY DEF Heard, IInv, Types
    <3> QED
      BY <2>2, <3>1 DEF Subscribe, Heard, Cursors
  <2>3. CASE UNCHANGED <<sub, batch>>
    BY <2>3 DEF Cursors, Heard
  <2> QED
    BY <2>1, <2>2, <2>3 DEF Next, ThreadStep, WaiterStep, Submit, EmitStarted,
       HandlerEmits, HandlerReturns, HandlerPanics, EmitFinished, Complete, Wait,
       WaitSleeps, WaitReturns, SpuriousWakeup, vars
<1> QED
  BY <1>1, <1>2, <1>3 DEF Heard

\* Whatever overflows between two drains, what a drain returns continues what
\* the subscriber has or says with a reset that something is missing.
THEOREM GapsAreTold == Spec => NoSilentGap
<1> DEFINE Told ==
      \A s \in Subscriber :
        batch'[s] # batch[s] =>
          LET events == batch'[s]
          IN  /\ \/ events[1].sequence = sub[s].nextSequence
                 \/ /\ events[1].sequence > sub[s].nextSequence
                    /\ events[1].kind = "reset"
              /\ \A i \in 1 .. Len(events) - 1 :
                   events[i + 1].sequence = events[i].sequence + 1
<1>1. ASSUME Heard, [Next]_vars PROVE [Told]_vars
  <2>1. ASSUME NEW s \in Subscriber, Drain(s) PROVE Told
    BY <1>1, <2>1, DrainHears
  <2>2. CASE UNCHANGED batch
    BY <2>2
  <2> HIDE DEF Told
  <2> QED
    BY <1>1, <2>1, <2>2 DEF Next, ThreadStep, WaiterStep, Submit, EmitStarted,
       HandlerEmits, HandlerReturns, HandlerPanics, EmitFinished, Complete,
       Subscribe, Wait, WaitSleeps, WaitReturns, SpuriousWakeup, vars
<1>2. NoSilentGap <=> [][Told]_vars
  BY DEF NoSilentGap
<1> HIDE DEF Told
<1> QED
  BY HeardInit, HeardStep, <1>1, <1>2, PTL DEF Spec
=============================================================================
