--------------------------- MODULE ParMapPerHost ---------------------------
(***************************************************************************)
(* par_map_per_host (operation/par_map_per_host.rs): scoped worker threads *)
(* apply f to every item, at most GlobalLimit at a time and at most        *)
(* PerHostLimit at a time per host.  The workers of a host share a cursor  *)
(* over the host's items; all workers share a counting semaphore made of a *)
(* mutex and a condition variable.  Each action is one atomic operation or *)
(* one critical section.                                                   *)
(***************************************************************************)
EXTENDS Naturals, Sequences, FiniteSets

CONSTANTS
  Count,         \* number of items; an item is its index in the input
  Host,          \* the hosts items can name
  NoHost,        \* the host of an item that has none (a local path)
  GlobalLimit,   \* --jobs
  PerHostLimit,  \* connections to one host
  Panics         \* TRUE: f may panic

ASSUME ParMapAssumption ==
  /\ Count \in Nat
  /\ NoHost \notin Host
  /\ GlobalLimit \in Nat
  /\ PerHostLimit \in Nat
  /\ Panics \in BOOLEAN

Item   == 1 .. Count
Group  == Host \cup {NoHost}
Worker == Group \X Item
NoItem == 0

VARIABLES
  hostOf,   \* item -> its group, the argument of the call
  cursor,   \* group -> the AtomicUsize its workers share
  slots,    \* items still in their slot
  permits,  \* permits of the semaphore
  results,  \* items with a result
  at,       \* worker -> where it is
  has,      \* worker -> the item it works on
  caller    \* the thread inside thread::scope

vars == <<hostOf, cursor, slots, permits, results, at, has, caller>>

-----------------------------------------------------------------------------
\* .max(1)
AtLeastOne(n) == IF n = 0 THEN 1 ELSE n

ItemsOf(g) == {i \in Item : hostOf[i] = g}

\* The items of a group in input order.
Indices(g) ==
  CHOOSE s \in [1 .. Cardinality(ItemsOf(g)) -> ItemsOf(g)] :
    \A n, k \in DOMAIN s : n < k => s[n] < s[k]

\* Mutant: hosts are bounded by the global ceiling only.
GroupLimitGlobal(g) == AtLeastOne(GlobalLimit)

\* A hosted group gets its own limit, local items only the global one.
GroupLimit(g) == AtLeastOne(IF g = NoHost THEN GlobalLimit ELSE PerHostLimit)

\* A group gets no more workers than it has items.
Spawned(w) == w[2] <= GroupLimit(w[1]) /\ w[2] <= Len(Indices(w[1]))

Goto(w, l) == at' = [at EXCEPT ![w] = l]

-----------------------------------------------------------------------------
(* Workers. *)

\* Mutant: the cursor is read and advanced in two steps, and another worker
\* reads it in between.
ClaimTorn(w) ==
  LET items == Indices(w[1])
      next  == cursor[w[1]] + 1
  IN  /\ at[w] = "loop"
      /\ \E n \in {next - 1, next} : cursor' = [cursor EXCEPT ![w[1]] = n]
      /\ IF next > Len(items)
         THEN Goto(w, "done") /\ UNCHANGED has
         ELSE Goto(w, "claimed") /\ has' = [has EXCEPT ![w] = items[next]]
      /\ UNCHANGED <<hostOf, slots, permits, results, caller>>

\* cursor.fetch_add(1): the next position, or the end of the loop.
Claim(w) ==
  LET items == Indices(w[1])
      next  == cursor[w[1]] + 1
  IN  /\ at[w] = "loop"
      /\ cursor' = [cursor EXCEPT ![w[1]] = next]
      /\ IF next > Len(items)
         THEN Goto(w, "done") /\ UNCHANGED has
         ELSE Goto(w, "claimed") /\ has' = [has EXCEPT ![w] = items[next]]
      /\ UNCHANGED <<hostOf, slots, permits, results, caller>>

\* slots[index].take().expect("each item is taken once")
Take(w) ==
  /\ at[w] = "claimed"
  /\ IF has[w] \in slots THEN Goto(w, "acquire") ELSE Goto(w, "panicked")
  /\ slots' = slots \ {has[w]}
  /\ UNCHANGED <<hostOf, cursor, permits, results, has, caller>>

\* Mutant: a worker takes the permit another one is about to take.
AcquireUnchecked(w) ==
  /\ at[w] = "acquire"
  /\ permits' = IF permits = 0 THEN 0 ELSE permits - 1
  /\ Goto(w, "run")
  /\ UNCHANGED <<hostOf, cursor, slots, results, has, caller>>

\* Semaphore::acquire, the look at the permits under the mutex.
Acquire(w) ==
  /\ at[w] = "acquire"
  /\ permits > 0
  /\ permits' = permits - 1
  /\ Goto(w, "run")
  /\ UNCHANGED <<hostOf, cursor, slots, results, has, caller>>

AcquireSleeps(w) ==
  /\ at[w] = "acquire"
  /\ permits = 0
  /\ Goto(w, "asleep")
  /\ UNCHANGED <<hostOf, cursor, slots, permits, results, has, caller>>

SpuriousWakeup(w) ==
  /\ at[w] = "asleep"
  /\ Goto(w, "acquire")
  /\ UNCHANGED <<hostOf, cursor, slots, permits, results, has, caller>>

\* f(item) returned, and release: the permit is back ...
Release(w) ==
  /\ at[w] = "run"
  /\ permits' = permits + 1
  /\ Goto(w, "notify")
  /\ UNCHANGED <<hostOf, cursor, slots, results, has, caller>>

\* Mutant: release forgets the sleepers.
ReleaseQuietly(w) ==
  /\ at[w] = "notify"
  /\ Goto(w, "store")
  /\ UNCHANGED <<hostOf, cursor, slots, permits, results, has, caller>>

\* ... and, with the mutex unlocked, one sleeper is woken.
Notify(w) ==
  LET asleep == {v \in Worker : at[v] = "asleep"}
  IN  /\ at[w] = "notify"
      /\ IF asleep = {} THEN Goto(w, "store")
         ELSE \E v \in asleep : at' = [at EXCEPT ![w] = "store", ![v] = "acquire"]
      /\ UNCHANGED <<hostOf, cursor, slots, permits, results, has, caller>>

\* f panicked: the worker unwinds, and the permit with it.
RunPanics(w) ==
  /\ Panics
  /\ at[w] = "run"
  /\ Goto(w, "panicked")
  /\ UNCHANGED <<hostOf, cursor, slots, permits, results, has, caller>>

\* results[index] = Some(result), and the next turn of the loop.
Store(w) ==
  /\ at[w] = "store"
  /\ results' = results \cup {has[w]}
  /\ has' = [has EXCEPT ![w] = NoItem]
  /\ Goto(w, "loop")
  /\ UNCHANGED <<hostOf, cursor, slots, permits, caller>>

\* The end of thread::scope joins every worker; a panic of one is passed on.
Join ==
  /\ caller = "blocked"
  /\ \A w \in Worker : at[w] \in {"none", "done", "panicked"}
  /\ caller' = IF \E w \in Worker : at[w] = "panicked"
               THEN "panicked" ELSE "returned"
  /\ UNCHANGED <<hostOf, cursor, slots, permits, results, at, has>>

-----------------------------------------------------------------------------
Init ==
  /\ hostOf \in [Item -> Group]
  /\ cursor = [g \in Group |-> 0]
  /\ slots = Item
  /\ permits = AtLeastOne(GlobalLimit)
  /\ results = {}
  /\ at = [w \in Worker |-> IF Spawned(w) THEN "loop" ELSE "none"]
  /\ has = [w \in Worker |-> NoItem]
  /\ caller = "blocked"

WorkerStep(w) ==
  \/ Claim(w) \/ Take(w)
  \/ Acquire(w) \/ AcquireSleeps(w)
  \/ Release(w) \/ Notify(w) \/ Store(w)

Next ==
  \/ \E w \in Worker : WorkerStep(w) \/ SpuriousWakeup(w) \/ RunPanics(w)
  \/ Join

Spec == Init /\ [][Next]_vars

\* Threads run, and f returns or panics.
FairSpec == Spec /\ WF_vars(Join) /\ \A w \in Worker : WF_vars(WorkerStep(w))

-----------------------------------------------------------------------------
(* Properties. *)

\* Of the items workers have and of the results, EachItemOnce speaks.
TypeOK ==
  /\ hostOf \in [Item -> Group]
  /\ cursor \in [Group -> Nat]
  /\ slots \subseteq Item
  /\ permits \in 0 .. AtLeastOne(GlobalLimit)
  /\ at \in [Worker -> {"none", "loop", "claimed", "acquire", "asleep", "run",
                        "notify", "store", "done", "panicked"}]
  /\ caller \in {"blocked", "returned", "panicked"}

Running(S) == {w \in S : at[w] = "run"}

\* The --jobs ceiling: never more than GlobalLimit items are worked on.
GlobalCap == Cardinality(Running(Worker)) <= AtLeastOne(GlobalLimit)

\* A host is never asked for more than PerHostLimit connections at once.
HostCap ==
  \A h \in Host :
    Cardinality(Running({h} \X Item)) <= AtLeastOne(PerHostLimit)

\* No item is worked on by two workers, or again after it has a result, so
\* the expect in Take holds; and when the call returns every item has its
\* result, so the expect that collects them holds.
EachItemOnce ==
  /\ \A v, w \in Worker :
       has[w] # NoItem =>
         /\ has[v] = has[w] => v = w
         /\ at[w] = "claimed" => has[w] \in slots
         /\ has[w] \notin results
  /\ caller = "returned" => results = Item

\* Permits that went down with their worker.
Lost == Cardinality({w \in Worker : at[w] = "panicked"})

\* The call ends, unless panics of f took every single permit with them.
CallEnds == <>(caller # "blocked" \/ Lost = AtLeastOne(GlobalLimit))
=============================================================================
