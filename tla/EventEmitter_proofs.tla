------------------------- MODULE EventEmitter_proofs -------------------------
(***************************************************************************)
(* par_map_per_host and the events of the handlers that use it, for any    *)
(* items, hosts, limits and panics: the ceilings, each item once, the      *)
(* numbers of the events, and what a sink that has heard the end was told  *)
(* of every member.                                                        *)
(***************************************************************************)
EXTENDS EventEmitter, FiniteSetTheorems, TLAPS

-----------------------------------------------------------------------------
(* The ceilings and the types. *)

\* Every running worker holds a permit of its own.  Permits may get lost in
\* a panic, so this is an inequality; a worker that panics stops running
\* without giving its permit back.
PermitsCover ==
  /\ permits \in Nat
  /\ IsFiniteSet(Running(Worker))
  /\ permits + Cardinality(Running(Worker)) <= AtLeastOne(GlobalLimit)

Places == {"none", "loop", "claimed", "acquire", "asleep", "run", "notify",
           "store", "done", "panicked"}

IInv == at \in [Worker -> Places] /\ PermitsCover

LEMMA LimitIsNat == AtLeastOne(GlobalLimit) \in Nat
BY ParMapAssumption DEF AtLeastOne

LEMMA InitIInv == Init => IInv
<1> SUFFICES ASSUME Init PROVE IInv
  OBVIOUS
<1>1. Running(Worker) = {}
  BY DEF Init, Running
<1> QED
  BY <1>1, FS_EmptySet, LimitIsNat DEF Init, IInv, PermitsCover, Places

\* A step that starts and stops no f and leaves the semaphore alone.
LEMMA SameRunning ==
  ASSUME IInv, at' \in [Worker -> Places], permits' = permits,
         \A w \in Worker : at'[w] = "run" <=> at[w] = "run"
  PROVE  IInv'
<1>1. Running(Worker)' = Running(Worker)
  BY DEF Running
<1> QED
  BY <1>1 DEF IInv, PermitsCover

LEMMA StepIInv == IInv /\ [Next]_vars => IInv'
<1> SUFFICES ASSUME IInv, [Next]_vars PROVE IInv'
  OBVIOUS
<1> USE DEF IInv, Goto
<1>1. ASSUME NEW w \in Worker,
             \/ Claim(w) \/ Take(w) \/ AcquireSleeps(w) \/ SpuriousWakeup(w)
             \/ Notify(w) \/ Store(w)
      PROVE  IInv'
  <2>1. /\ at' \in [Worker -> Places] /\ permits' = permits
        /\ \A v \in Worker : at'[v] = "run" <=> at[v] = "run"
    BY <1>1 DEF Claim, Take, AcquireSleeps, SpuriousWakeup, Notify, Store, Places
  <2> QED
    BY <2>1, SameRunning
<1>2. ASSUME NEW w \in Worker, Acquire(w) PROVE IInv'
  <2>1. Running(Worker)' = Running(Worker) \cup {w} /\ w \notin Running(Worker)
    BY <1>2 DEF Acquire, Running
  <2>2. /\ IsFiniteSet(Running(Worker)')
        /\ Cardinality(Running(Worker)') = Cardinality(Running(Worker)) + 1
    BY <2>1, FS_AddElement DEF PermitsCover
  <2>3. Cardinality(Running(Worker)) \in Nat
    BY FS_CardinalityType DEF PermitsCover
  <2>4. at' \in [Worker -> Places]
    BY <1>2 DEF Acquire, Places
  <2> QED
    BY <1>2, <2>2, <2>3, <2>4, LimitIsNat DEF Acquire, PermitsCover
<1>3. ASSUME NEW w \in Worker, Release(w) \/ RunPanics(w) PROVE IInv'
  <2>1. Running(Worker)' = Running(Worker) \ {w} /\ w \in Running(Worker)
    BY <1>3 DEF Release, RunPanics, Running
  <2>2. /\ IsFiniteSet(Running(Worker)')
        /\ Cardinality(Running(Worker)') = Cardinality(Running(Worker)) - 1
    BY <2>1, FS_RemoveElement DEF PermitsCover
  <2>3. Cardinality(Running(Worker)) \in Nat
    BY FS_CardinalityType DEF PermitsCover
  <2>4. at' \in [Worker -> Places] /\ permits' \in {permits, permits + 1}
    BY <1>3 DEF Release, RunPanics, Places
  <2> QED
    BY <2>2, <2>3, <2>4, LimitIsNat DEF PermitsCover
<1>4. CASE Join \/ UNCHANGED vars
  <2>1. at' = at /\ permits' = permits
    BY <1>4 DEF Join, vars
  <2> QED
    BY <2>1, SameRunning
<1> QED
  BY <1>1, <1>2, <1>3, <1>4 DEF Next, WorkerStep

\* The --jobs ceiling holds for any number of items, hosts and workers, any
\* limits, panics included: it rests on the semaphore alone.
THEOREM GlobalCeiling == Spec => []GlobalCap
<1>1. IInv => GlobalCap
  <2> SUFFICES ASSUME IInv PROVE GlobalCap
    OBVIOUS
  <2>1. Cardinality(Running(Worker)) \in Nat
    BY FS_CardinalityType DEF IInv, PermitsCover
  <2> QED
    BY <2>1, LimitIsNat DEF IInv, PermitsCover, GlobalCap
<1> QED
  BY InitIInv, StepIInv, <1>1, PTL DEF Spec

\* The cursors only count up, and an item only leaves its slot.
Shared ==
  /\ hostOf \in [Item -> Group]
  /\ cursor \in [Group -> Nat]
  /\ slots \subseteq Item
  /\ caller \in {"blocked", "returned", "panicked"}

LEMMA StepShared == Shared /\ [Next]_vars => Shared'
<1> SUFFICES ASSUME Shared, [Next]_vars PROVE Shared'
  OBVIOUS
<1> USE DEF Shared
<1>1. ASSUME NEW w \in Worker, Claim(w) PROVE Shared'
  <2>1. w[1] \in Group
    BY DEF Worker
  <2> QED
    BY <1>1, <2>1 DEF Claim
<1>2. ASSUME NEW w \in Worker, Take(w) PROVE Shared'
  BY <1>2 DEF Take
<1>3. ASSUME NEW w \in Worker,
             \/ Acquire(w) \/ AcquireSleeps(w) \/ SpuriousWakeup(w) \/ Release(w)
             \/ Notify(w) \/ Store(w) \/ RunPanics(w)
      PROVE  Shared'
  BY <1>3 DEF Acquire, AcquireSleeps, SpuriousWakeup, Release, Notify, Store, RunPanics
<1>4. CASE Join
  BY <1>4 DEF Join
<1>5. CASE UNCHANGED vars
  BY <1>5 DEF vars
<1> QED
  BY <1>1, <1>2, <1>3, <1>4, <1>5 DEF Next, WorkerStep

\* What the workers share keeps its type; the permits never exceed the limit
\* the semaphore was made with, however often one is released.
THEOREM TypeCorrect == Spec => []TypeOK
<1>1. Init => Shared
  BY DEF Init, Shared
<1>2. IInv /\ Shared => TypeOK
  <2> SUFFICES ASSUME IInv, Shared PROVE TypeOK
    OBVIOUS
  <2>1. Cardinality(Running(Worker)) \in Nat
    BY FS_CardinalityType DEF IInv, PermitsCover
  <2>2. permits \in 0 .. AtLeastOne(GlobalLimit)
    BY <2>1, LimitIsNat DEF IInv, PermitsCover
  <2> QED
    BY <2>2 DEF IInv, Shared, Places, TypeOK
<1> QED
  BY InitIInv, StepIInv, StepShared, <1>1, <1>2, PTL DEF Spec

-----------------------------------------------------------------------------
(* The items of a group. *)

\* Positive numbers can be written down in ascending order.
LEMMA AscendingExists ==
  ASSUME NEW n \in Nat, NEW S \in SUBSET (1 .. n)
  PROVE  \E s \in [1 .. Cardinality(S) -> S] : \A j, k \in DOMAIN s : j < k => s[j] < s[k]
<1> DEFINE N       == Cardinality(S)
           upTo(i) == {j \in S : j <= i}
           r       == [i \in S |-> Cardinality(upTo(i))]
           s       == [k \in 1 .. N |-> CHOOSE i \in S : r[i] = k]
<1>0. S \subseteq Nat
  OBVIOUS
<1>1. IsFiniteSet(S) /\ N \in Nat
  <2>1. IsFiniteSet(1 .. n)
    BY FS_Interval
  <2>2. IsFiniteSet(S)
    BY <2>1, FS_Subset
  <2> QED
    BY <2>2, FS_CardinalityType
<1>2. ASSUME NEW i \in S
      PROVE  IsFiniteSet(upTo(i)) /\ Cardinality(upTo(i)) \in 1 .. N
  <2>1. upTo(i) \in SUBSET S /\ i \in upTo(i)
    OBVIOUS
  <2>2. IsFiniteSet(upTo(i)) /\ Cardinality(upTo(i)) <= N
    BY <1>1, <2>1, FS_Subset
  <2>3. Cardinality(upTo(i)) \in Nat /\ Cardinality(upTo(i)) # 0
    BY <2>1, <2>2, FS_CardinalityType, FS_EmptySet
  <2> QED
    BY <1>1, <2>2, <2>3
<1>3. ASSUME NEW i \in S, NEW j \in S, i < j PROVE r[i] < r[j]
  <2>1. upTo(i) \in SUBSET upTo(j) /\ j \in upTo(j) /\ j \notin upTo(i)
    <3>1. i \in Nat /\ j \in Nat /\ j <= j /\ ~(j <= i)
      BY <1>0, <1>3
    <3>2. \A x \in S : x <= i => x <= j
      BY <1>0, <1>3
    <3> QED
      BY <3>1, <3>2
  <2>2. upTo(i) # upTo(j)
    BY <2>1
  <2> HIDE DEF upTo
  <2>3. Cardinality(upTo(i)) <= Cardinality(upTo(j))
    BY <1>2, <2>1, FS_Subset
  <2>4. Cardinality(upTo(i)) # Cardinality(upTo(j))
    BY <1>2, <2>1, <2>2, FS_Subset
  <2>5. Cardinality(upTo(i)) \in Nat /\ Cardinality(upTo(j)) \in Nat
    BY <1>2
  <2> QED
    BY <2>3, <2>4, <2>5
<1>4. r \in Injection(S, 1 .. N)
  <2>1. r \in [S -> 1 .. N]
    BY <1>2
  <2>2. ASSUME NEW i \in S, NEW j \in S, r[i] = r[j] PROVE i = j
    <3>1. ~(i < j) /\ ~(j < i)
      <4>1. r[i] \in Nat /\ r[j] \in Nat
        BY <1>1, <2>1
      <4> HIDE DEF r
      <4> QED
        BY <1>3, <2>2, <4>1
    <3> QED
      BY <3>1
  <2> HIDE DEF r
  <2> QED
    BY <2>1, <2>2 DEF Injection, IsInjective
<1>5. \A k \in 1 .. N : \E i \in S : r[i] = k
  <2>1. IsFiniteSet(1 .. N) /\ Cardinality(1 .. N) = N
    BY <1>1, FS_Interval
  <2> HIDE DEF r
  <2>2. r \in Surjection(S, 1 .. N)
    BY <1>4, <2>1, FS_Injection
  <2> QED
    BY <2>2 DEF Surjection
<1> HIDE DEF r
<1>6. \A k \in 1 .. N : s[k] \in S /\ r[s[k]] = k
  BY <1>5
<1>7. s \in [1 .. N -> S]
  BY <1>6
<1>8. ASSUME NEW j \in 1 .. N, NEW k \in 1 .. N, j < k PROVE s[j] < s[k]
  <2> HIDE DEF s
  <2>1. s[j] \in S /\ s[k] \in S /\ r[s[j]] = j /\ r[s[k]] = k
    BY <1>6
  <2>2. ~(s[k] < s[j])
    <3>1. ASSUME s[k] < s[j] PROVE FALSE
      <4>1. r[s[k]] < r[s[j]]
        BY <1>3, <2>1, <3>1
      <4> QED
        BY <1>8, <2>1, <4>1
    <3> QED
      BY <3>1
  <2>3. s[k] # s[j]
    BY <1>8, <2>1
  <2>4. s[j] \in Nat /\ s[k] \in Nat
    BY <1>0, <2>1
  <2> QED
    BY <2>2, <2>3, <2>4
<1> QED
  BY <1>7, <1>8

LEMMA IndicesFacts ==
  ASSUME hostOf \in [Item -> Group], NEW g
  PROVE  /\ Len(Indices(g)) \in Nat
         /\ \A k \in 1 .. Len(Indices(g)) :
              Indices(g)[k] \in Item /\ hostOf[Indices(g)[k]] = g
         /\ \A j, k \in 1 .. Len(Indices(g)) : Indices(g)[j] = Indices(g)[k] => j = k
         /\ \A i \in Item : hostOf[i] = g => \E k \in 1 .. Len(Indices(g)) : Indices(g)[k] = i
<1> DEFINE S == ItemsOf(g)
           N == Cardinality(S)
           s == Indices(g)
<1>1. S \in SUBSET (1 .. Count) /\ Count \in Nat
  BY ParMapAssumption DEF ItemsOf, Item
<1>2. IsFiniteSet(S) /\ N \in Nat
  <2> HIDE DEF S
  <2>1. IsFiniteSet(1 .. Count)
    BY <1>1, FS_Interval
  <2>2. IsFiniteSet(S)
    BY <1>1, <2>1, FS_Subset
  <2> QED
    BY <2>2, FS_CardinalityType
<1>3. s \in [1 .. N -> S] /\ \A j, k \in DOMAIN s : j < k => s[j] < s[k]
  <2>1. \E f \in [1 .. N -> S] : \A j, k \in DOMAIN f : j < k => f[j] < f[k]
    BY <1>1, AscendingExists
  <2> QED
    BY <2>1 DEF Indices
<1> HIDE DEF s
<1>4. Len(s) = N
  BY <1>2, <1>3
<1>5. \A j, k \in 1 .. N : s[j] = s[k] => j = k
  <2> SUFFICES ASSUME NEW j \in 1 .. N, NEW k \in 1 .. N, s[j] = s[k], j < k PROVE FALSE
    BY <1>2
  <2>1. s[j] < s[k] /\ s[j] \in Nat
    BY <1>1, <1>3
  <2> QED
    BY <2>1
<1>6. \A i \in S : \E k \in 1 .. N : s[k] = i
  <2>1. s \in Injection(1 .. N, S)
    BY <1>3, <1>5 DEF Injection, IsInjective
  <2>2. Cardinality(1 .. N) = N
    BY <1>2, FS_Interval
  <2> HIDE DEF S
  <2>3. s \in Surjection(1 .. N, S)
    BY <1>2, <2>1, <2>2, FS_Injection
  <2> QED
    BY <2>3 DEF Surjection
<1> QED
  BY <1>1, <1>2, <1>3, <1>4, <1>5, <1>6 DEF s, S, ItemsOf

-----------------------------------------------------------------------------
(* Each item once. *)

\* Where a worker has an item in hand.
AtWork == {"claimed", "acquire", "asleep", "run", "notify", "store"}

\* The cursor of its group has passed the item.
Claimed(i) ==
  \E k \in 1 .. Len(Indices(hostOf[i])) : k <= cursor[hostOf[i]] /\ Indices(hostOf[i])[k] = i

\* A worker has an item its group's cursor has passed, and nobody else has it.
InHand ==
  /\ has \in [Worker -> Item \cup {NoItem}]
  /\ \A w \in Worker : at[w] \in AtWork => has[w] # NoItem
  /\ \A w \in Worker : at[w] \in {"none", "loop", "done"} => has[w] = NoItem
  /\ \A w \in Worker : has[w] # NoItem =>
       hostOf[has[w]] = w[1] /\ Claimed(has[w]) /\ has[w] \notin results
  /\ \A v, w \in Worker : has[w] # NoItem /\ has[v] = has[w] => v = w
  /\ \A w \in Worker : at[w] = "claimed" => has[w] \in slots

\* An item the cursor has not reached is untouched, one it has passed is in
\* some worker's hands or has its result.
Accounted ==
  /\ results \subseteq Item
  /\ \A i \in Item : ~Claimed(i) => i \in slots /\ i \notin results
  /\ \A i \in Item : Claimed(i) => i \in results \/ \E w \in Worker : has[w] = i

\* Which workers there are, and what it takes to be done.
Workers ==
  /\ \A w \in Worker : at[w] # "none" => w[2] <= GroupLimit(w[1])
  /\ \A w \in Worker : Spawned(w) => at[w] # "none"
  /\ \A w \in Worker : at[w] = "done" => cursor[w[1]] > Len(Indices(w[1]))
  /\ caller = "returned" => \A w \in Worker : at[w] \in {"none", "done"}

Items == InHand /\ Accounted /\ Workers

LEMMA NoItemIsNone == NoItem \notin Item
BY DEF NoItem, Item

LEMMA SpawnedLimit ==
  ASSUME NEW w \in Worker, Spawned(w)
  PROVE  w[2] <= GroupLimit(w[1])
BY DEF Spawned

LEMMA InitItems == Init => Items
<1> SUFFICES ASSUME Init PROVE Items
  OBVIOUS
<1>1. hostOf \in [Item -> Group] /\ \A g \in Group : cursor[g] = 0
  BY DEF Init
<1>2. ASSUME NEW i \in Item PROVE ~Claimed(i)
  <2>1. hostOf[i] \in Group
    BY <1>1
  <2> QED
    BY <1>1, <2>1, IndicesFacts DEF Claimed
<1>3. InHand
  BY DEF Init, InHand, AtWork
<1>4. Accounted
  BY <1>2 DEF Init, Accounted
<1>5. Workers
  BY DEF Init, Workers, Spawned
<1> QED
  BY <1>3, <1>4, <1>5 DEF Items

LEMMA SameItems ==
  ASSUME hostOf' = hostOf
  PROVE  /\ \A g : Indices(g)' = Indices(g)
         /\ \A w : Spawned(w)' = Spawned(w)
         /\ cursor' = cursor => \A i : Claimed(i)' = Claimed(i)
<1>1. ASSUME NEW g PROVE Indices(g)' = Indices(g)
  <2>1. ItemsOf(g)' = ItemsOf(g)
    BY DEF ItemsOf
  <2> QED
    BY <2>1 DEF Indices
<1>2. \A w : Spawned(w)' = Spawned(w)
  BY <1>1 DEF Spawned, GroupLimit
<1>3. cursor' = cursor => \A i : Claimed(i)' = Claimed(i)
  BY <1>1 DEF Claimed
<1> QED
  BY <1>1, <1>2, <1>3

\* A step inside the call of one worker or of several.
LEMMA MovedItems ==
  ASSUME Items, UNCHANGED <<hostOf, cursor, slots, results, has, caller>>,
         \A w \in Worker :
           \/ at'[w] = at[w]
           \/ at[w] \in AtWork /\ at'[w] \in (AtWork \ {"claimed"}) \cup {"panicked"}
  PROVE  Items'
<1>1. /\ \A g : Indices(g)' = Indices(g) /\ \A w : Spawned(w)' = Spawned(w)
      /\ \A i : Claimed(i)' = Claimed(i) /\ \A g : GroupLimit(g)' = GroupLimit(g)
  BY SameItems DEF GroupLimit
<1>2. InHand'
  BY <1>1 DEF Items, InHand, AtWork
<1>3. Accounted'
  BY <1>1 DEF Items, Accounted
<1>4. Workers'
  BY <1>1 DEF Items, Workers, AtWork
<1> QED
  BY <1>2, <1>3, <1>4 DEF Items

\* fetch_add gives every position of a group to one worker, and an item never
\* claimed before.
LEMMA ClaimItems ==
  ASSUME IInv, Shared, Items, NEW w \in Worker, Claim(w)
  PROVE  /\ Items'
         /\ \A x \in Item : Claimed(x) => Claimed(x)'
         /\ \A x \in Item, v \in Worker : has'[v] = x => has[v] = x \/ ~Claimed(x)
<1> DEFINE g    == w[1]
           next == cursor[g] + 1
           i    == Indices(g)[next]
<1>1. /\ g \in Group /\ cursor[g] \in Nat /\ next \in Nat
      /\ hostOf \in [Item -> Group] /\ cursor \in [Group -> Nat]
      /\ at \in [Worker -> Places] /\ has \in [Worker -> Item \cup {NoItem}]
  BY DEF Worker, Shared, IInv, Items, InHand
<1>2. /\ at[w] = "loop" /\ cursor' = [cursor EXCEPT ![g] = next]
      /\ IF next > Len(Indices(g))
         THEN at' = [at EXCEPT ![w] = "done"] /\ has' = has
         ELSE at' = [at EXCEPT ![w] = "claimed"] /\ has' = [has EXCEPT ![w] = i]
      /\ UNCHANGED <<hostOf, slots, results, caller>>
  BY DEF Claim, Goto
<1>3. /\ \A x : Indices(x)' = Indices(x)
      /\ \A x : Spawned(x)' = Spawned(x)
      /\ \A x : GroupLimit(x)' = GroupLimit(x)
  BY <1>2, SameItems DEF GroupLimit
<1>4. cursor'[g] = next /\ \A x \in Group \ {g} : cursor'[x] = cursor[x]
  BY <1>1, <1>2
<1>5. /\ Len(Indices(g)) \in Nat
      /\ \A k \in 1 .. Len(Indices(g)) : Indices(g)[k] \in Item /\ hostOf[Indices(g)[k]] = g
      /\ \A j, k \in 1 .. Len(Indices(g)) : Indices(g)[j] = Indices(g)[k] => j = k
  BY <1>1, IndicesFacts
<1> HIDE DEF g
<1>6. ASSUME NEW x \in Item, Claimed(x) PROVE Claimed(x)'
  <2>1. PICK k \in 1 .. Len(Indices(hostOf[x])) :
          k <= cursor[hostOf[x]] /\ Indices(hostOf[x])[k] = x
    BY <1>6 DEF Claimed
  <2>2. k <= cursor'[hostOf[x]]
    <3>1. hostOf[x] \in Group /\ cursor[hostOf[x]] \in Nat /\ k \in Int
      BY <1>1
    <3>2. cursor'[hostOf[x]] >= cursor[hostOf[x]]
      BY <1>1, <1>4, <3>1
    <3>3. cursor'[hostOf[x]] \in Nat
      BY <1>1, <1>4, <3>1
    <3> QED
      BY <2>1, <3>1, <3>2, <3>3
  <2> QED
    BY <1>2, <1>3, <2>1, <2>2 DEF Claimed
<1>7. \A v \in Worker : at[v] # "none" => at'[v] # "none"
  BY <1>1, <1>2
<1>8. caller # "returned"
  BY <1>2 DEF Items, Workers
<1>9. ASSUME NEW x \in Group PROVE cursor'[x] >= cursor[x] /\ cursor[x] \in Nat
  BY <1>1, <1>4
<1>10. ASSUME NEW x \in Item, Claimed(x)', ~Claimed(x)
       PROVE  next \in 1 .. Len(Indices(g)) /\ x = i
  <2>1. PICK k \in 1 .. Len(Indices(hostOf[x])) :
          k <= cursor'[hostOf[x]] /\ Indices(hostOf[x])[k] = x
    BY <1>2, <1>3, <1>10 DEF Claimed
  <2>2. hostOf[x] \in Group /\ ~(k <= cursor[hostOf[x]])
    BY <1>1, <1>10, <2>1 DEF Claimed
  <2>3. hostOf[x] = g
    BY <1>4, <2>1, <2>2
  <2>4. k = next
    BY <1>1, <1>4, <2>1, <2>2, <2>3
  <2> QED
    BY <2>1, <2>3, <2>4
<1>11. ASSUME NEW v \in Worker, at[v] = "done", v # w \/ next > Len(Indices(g))
       PROVE  cursor'[v[1]] > Len(Indices(v[1]))
  <2>1. v[1] \in Group /\ Len(Indices(v[1])) \in Nat
    BY <1>1, IndicesFacts DEF Worker
  <2>2. cursor[v[1]] > Len(Indices(v[1]))
    BY <1>11 DEF Items, Workers
  <2>3. cursor'[v[1]] \in Nat
    BY <1>1, <1>4, <2>1
  <2> QED
    BY <1>9, <2>1, <2>2, <2>3
<1>12. CASE next > Len(Indices(g))
  <2>1. at' = [at EXCEPT ![w] = "done"] /\ has' = has
    BY <1>2, <1>12
  <2>2. \A x \in Item : Claimed(x)' <=> Claimed(x)
    BY <1>1, <1>5, <1>6, <1>10, <1>12
  <2>3. /\ at'[w] = "done" /\ has[w] = NoItem
        /\ \A v \in Worker \ {w} : at'[v] = at[v]
    BY <1>1, <1>2, <2>1 DEF Items, InHand
  <2>4. InHand'
    BY <1>2, <2>1, <2>2, <2>3 DEF Items, InHand, AtWork
  <2>5. Accounted'
    BY <1>2, <2>1, <2>2 DEF Items, Accounted
  <2>6. \A v \in Worker : at'[v] = "done" => cursor'[v[1]] > Len(Indices(v[1]))
    BY <1>4, <1>11, <1>12, <2>3 DEF g
  <2>7. Workers'
    BY <1>2, <1>3, <1>7, <1>8, <2>3, <2>6 DEF Items, Workers
  <2> QED
    BY <1>6, <2>1, <2>4, <2>5, <2>7 DEF Items
<1>13. CASE ~(next > Len(Indices(g)))
  <2>1. PICK x : x = i
    OBVIOUS
  <2>2. at' = [at EXCEPT ![w] = "claimed"] /\ has' = [has EXCEPT ![w] = x]
    BY <1>2, <1>13, <2>1
  <2>3. next \in 1 .. Len(Indices(g)) /\ x \in Item /\ hostOf[x] = g /\ Indices(g)[next] = x
    <3>1. next >= 1
      BY <1>1
    <3>2. next \in 1 .. Len(Indices(g))
      BY <1>1, <1>5, <1>13, <3>1
    <3> QED
      BY <1>5, <2>1, <3>2
  <2>4. PICK n \in 1 .. Len(Indices(g)) : n = next
    BY <2>3
  <2> HIDE DEF i, next
  <2>5. Claimed(x)'
    <3>1. hostOf'[x] = g /\ Indices(g)' = Indices(g) /\ n <= cursor'[g] /\ Indices(g)[n] = x
      BY <1>1, <1>2, <1>3, <1>4, <2>3, <2>4
    <3> QED
      BY <3>1 DEF Claimed
  <2>6. ~Claimed(x)
    <3>1. ASSUME NEW k \in 1 .. Len(Indices(g)), k <= cursor[g], Indices(g)[k] = x PROVE FALSE
      <4>1. k = n
        BY <1>5, <2>3, <2>4, <3>1
      <4> QED
        BY <1>1, <2>4, <3>1, <4>1 DEF next
    <3> QED
      BY <2>3, <3>1 DEF Claimed
  <2>7. /\ at'[w] = "claimed" /\ has'[w] = x /\ has[w] = NoItem /\ x # NoItem
        /\ \A v \in Worker \ {w} : at'[v] = at[v] /\ has'[v] = has[v] /\ has[v] # x
        /\ x \in slots /\ x \notin results
    BY <1>1, <1>2, <2>2, <2>3, <2>6, NoItemIsNone DEF Items, InHand, Accounted
  <2>8. \A y \in Item \ {x} : Claimed(y)' <=> Claimed(y)
    BY <1>6, <1>10, <2>1
  <2>9. InHand'
    <3>1. has' \in [Worker -> Item \cup {NoItem}]
      BY <1>1, <2>2, <2>3
    <3>2. ASSUME NEW v \in Worker, has'[v] # NoItem
          PROVE  hostOf'[has'[v]] = v[1] /\ Claimed(has[v])' /\ has'[v] \notin results'
      <4>1. CASE v = w
        <5>1. has'[v] = x
          BY <2>7, <4>1
        <5> QED
          BY <1>2, <2>3, <2>5, <2>7, <4>1, <5>1 DEF g, Claimed
      <4>2. CASE v # w
        <5>1. PICK y \in Item : y = has[v] /\ y = has'[v] /\ Claimed(y)
          BY <1>1, <2>7, <3>2, <4>2 DEF Items, InHand
        <5>2. Claimed(y)'
          BY <1>6, <5>1
        <5> QED
          BY <1>2, <3>2, <5>1, <5>2 DEF Items, InHand, Claimed
      <4> QED
        BY <4>1, <4>2
    <3>3. /\ \A v \in Worker : at'[v] \in AtWork => has'[v] # NoItem
          /\ \A v \in Worker : at'[v] \in {"none", "loop", "done"} => has'[v] = NoItem
      BY <2>7 DEF Items, InHand, AtWork
    <3>4. \A u, v \in Worker : has'[v] # NoItem /\ has'[u] = has'[v] => u = v
      BY <2>7 DEF Items, InHand
    <3>5. \A v \in Worker : at'[v] = "claimed" => has'[v] \in slots'
      BY <1>2, <2>7 DEF Items, InHand
    <3> QED
      BY <3>1, <3>2, <3>3, <3>4, <3>5 DEF InHand
  <2>10. Accounted'
    <3>1. \A y \in Item : ~Claimed(y)' => y \in slots' /\ y \notin results'
      BY <1>2, <2>5, <2>8 DEF Items, Accounted
    <3>2. ASSUME NEW y \in Item, Claimed(y)'
          PROVE  y \in results' \/ \E v \in Worker : has'[v] = y
      <4>1. CASE y = x
        BY <2>7, <4>1
      <4>2. CASE y # x
        <5>1. y \in results \/ \E v \in Worker : has[v] = y
          BY <2>8, <3>2, <4>2 DEF Items, Accounted
        <5> QED
          BY <1>2, <2>7, <5>1, NoItemIsNone
      <4> QED
        BY <4>1, <4>2
    <3> QED
      BY <1>2, <3>1, <3>2 DEF Items, Accounted
  <2>11. Workers'
    <3>1. w[2] <= GroupLimit(w[1])
      BY <1>2 DEF Items, Workers
    <3> QED
      BY <1>2, <1>3, <1>7, <1>8, <1>11, <2>7, <3>1 DEF Items, Workers
  <2>12. \A y \in Item, v \in Worker : has'[v] = y => has[v] = y \/ ~Claimed(y)
    BY <2>6, <2>7
  <2> QED
    BY <1>6, <2>9, <2>10, <2>11, <2>12 DEF Items
<1> QED
  BY <1>12, <1>13

\* The slot of a claimed item is full: the expect of Take holds.
LEMMA TakeItems ==
  ASSUME IInv, Items, NEW w \in Worker, Take(w)
  PROVE  Items'
<1>1. /\ at[w] = "claimed" /\ at' = [at EXCEPT ![w] = "acquire"]
      /\ slots' = slots \ {has[w]}
      /\ UNCHANGED <<hostOf, cursor, results, has, caller>>
  BY DEF Take, Goto, Items, InHand
<1>2. /\ at'[w] = "acquire" /\ has[w] # NoItem /\ has[w] \in Item /\ Claimed(has[w])
      /\ \A v \in Worker \ {w} : at'[v] = at[v]
  BY <1>1 DEF IInv, Items, InHand, AtWork
<1>3. /\ \A g : Indices(g)' = Indices(g) /\ \A v : Spawned(v)' = Spawned(v)
      /\ \A i : Claimed(i)' = Claimed(i) /\ \A g : GroupLimit(g)' = GroupLimit(g)
  BY <1>1, SameItems DEF GroupLimit
<1>4. InHand'
  <2>1. \A v \in Worker : at'[v] = "claimed" => has[v] \in slots'
    BY <1>1, <1>2 DEF Items, InHand, AtWork
  <2> QED
    BY <1>1, <1>2, <1>3, <2>1 DEF Items, InHand, AtWork
<1>5. Accounted'
  BY <1>1, <1>2, <1>3 DEF Items, Accounted
<1>6. Workers'
  BY <1>1, <1>2, <1>3 DEF Items, Workers
<1> QED
  BY <1>4, <1>5, <1>6 DEF Items

LEMMA StoreItems ==
  ASSUME IInv, Items, NEW w \in Worker, Store(w)
  PROVE  Items'
<1> DEFINE i == has[w]
<1>1. /\ at[w] = "store" /\ at' = [at EXCEPT ![w] = "loop"]
      /\ results' = results \cup {i} /\ has' = [has EXCEPT ![w] = NoItem]
      /\ UNCHANGED <<hostOf, cursor, slots, caller>>
  BY DEF Store, Goto
<1>2. /\ at'[w] = "loop" /\ i # NoItem /\ i \in Item /\ Claimed(i) /\ has'[w] = NoItem
      /\ \A v \in Worker \ {w} : at'[v] = at[v] /\ has'[v] = has[v] /\ has[v] # i
  BY <1>1 DEF IInv, Items, InHand, AtWork
<1>3. /\ \A g : Indices(g)' = Indices(g) /\ \A v : Spawned(v)' = Spawned(v)
      /\ \A x : Claimed(x)' = Claimed(x) /\ \A g : GroupLimit(g)' = GroupLimit(g)
  BY <1>1, SameItems DEF GroupLimit
<1> HIDE DEF i
<1>4. InHand'
  <2>1. has' \in [Worker -> Item \cup {NoItem}]
    BY <1>1 DEF Items, InHand
  <2> QED
    BY <1>1, <1>2, <1>3, <2>1 DEF Items, InHand, AtWork
<1>5. Accounted'
  BY <1>1, <1>2, <1>3 DEF Items, Accounted, i
<1>6. Workers'
  BY <1>1, <1>2, <1>3 DEF Items, Workers
<1> QED
  BY <1>4, <1>5, <1>6 DEF Items

LEMMA JoinItems ==
  ASSUME Items, Join
  PROVE  Items'
<1>1. UNCHANGED <<hostOf, cursor, slots, results, has, at>>
  BY DEF Join
<1>2. /\ \A g : Indices(g)' = Indices(g) /\ \A v : Spawned(v)' = Spawned(v)
      /\ \A x : Claimed(x)' = Claimed(x) /\ \A g : GroupLimit(g)' = GroupLimit(g)
  BY <1>1, SameItems DEF GroupLimit
<1>3. caller' = "returned" => \A w \in Worker : at[w] \in {"none", "done"}
  BY DEF Join
<1> QED
  BY <1>1, <1>2, <1>3 DEF Items, InHand, Accounted, Workers

LEMMA StepItems == IInv /\ Shared /\ Items /\ [Next]_vars => Items'
<1> SUFFICES ASSUME IInv, Shared, Items, [Next]_vars PROVE Items'
  OBVIOUS
<1>1. ASSUME NEW w \in Worker,
             \/ Acquire(w) \/ AcquireSleeps(w) \/ SpuriousWakeup(w) \/ Release(w)
             \/ Notify(w) \/ RunPanics(w)
      PROVE  Items'
  <2>1. UNCHANGED <<hostOf, cursor, slots, results, has, caller>>
    BY <1>1 DEF Acquire, AcquireSleeps, SpuriousWakeup, Release, Notify, RunPanics
  <2>2. \A v \in Worker :
          \/ at'[v] = at[v]
          \/ at[v] \in AtWork /\ at'[v] \in (AtWork \ {"claimed"}) \cup {"panicked"}
    BY <1>1 DEF Acquire, AcquireSleeps, SpuriousWakeup, Release, Notify, RunPanics, Goto,
       AtWork, IInv, Places
  <2> QED
    BY <2>1, <2>2, MovedItems
<1>2. CASE UNCHANGED vars
  <2>1. UNCHANGED <<hostOf, cursor, slots, results, has, caller, at>>
    BY <1>2 DEF vars
  <2> QED
    BY <2>1, MovedItems
<1> QED
  BY <1>1, <1>2, ClaimItems, TakeItems, StoreItems, JoinItems DEF Next, WorkerStep

LEMMA SpecItems == Spec => []Items /\ []Shared /\ []IInv
<1>1. Init => Shared
  BY DEF Init, Shared
<1> QED
  BY <1>1, InitIInv, InitItems, StepIInv, StepShared, StepItems, PTL DEF Spec

\* A host is never asked for more connections than --per-host allows: its
\* workers are that many, whatever the semaphore does.
THEOREM HostCeiling == Spec => []HostCap
<1>1. Items => HostCap
  <2> SUFFICES ASSUME Items, NEW h \in Host
               PROVE  Cardinality(Running({h} \X Item)) <= AtLeastOne(PerHostLimit)
    BY DEF HostCap
  <2> DEFINE n == AtLeastOne(PerHostLimit)
             R == Running({h} \X Item)
             S == 1 .. n
  <2>1. n \in Nat /\ IsFiniteSet(S) /\ Cardinality(S) = n
    <3>1. n \in Nat
      BY ParMapAssumption DEF AtLeastOne
    <3> QED
      BY <3>1, FS_Interval
  <2>2. IsFiniteSet({h} \X S) /\ Cardinality({h} \X S) = n
    <3>1. IsFiniteSet({h}) /\ Cardinality({h}) = 1
      BY FS_Singleton
    <3> HIDE DEF n, S
    <3> QED
      BY <2>1, <3>1, FS_Product
  <2>3. R \in SUBSET ({h} \X S)
    <3>1. ASSUME NEW w \in {h} \X Item, at[w] = "run" PROVE w \in {h} \X S
      <4>1. w \in Worker /\ w[1] = h /\ w[2] \in Item /\ h # NoHost
        BY <3>1, ParMapAssumption DEF Worker, Group
      <4>2. w[2] <= GroupLimit(h)
        BY <3>1, <4>1 DEF Items, Workers
      <4>3. w[2] \in S
        BY <2>1, <4>1, <4>2 DEF GroupLimit, Item
      <4> HIDE DEF S
      <4> QED
        BY <3>1, <4>1, <4>3
    <3> HIDE DEF S
    <3> QED
      BY <3>1 DEF Running
  <2> HIDE DEF R, n, S
  <2>4. Cardinality(R) <= n
    BY <2>2, <2>3, FS_Subset
  <2> QED
    BY <2>4 DEF R, n
<1> QED
  BY SpecItems, <1>1, PTL

\* Every item is claimed once, by one worker, so the expect on its slot holds;
\* and when par_map_per_host returns there is a result in every place: each
\* group with an item has a worker, and none stops before the last position.
THEOREM ItemsOnce == Spec => []EachItemOnce
<1>1. Items /\ Shared => EachItemOnce
  <2> SUFFICES ASSUME Items, Shared PROVE EachItemOnce
    OBVIOUS
  <2>1. ASSUME caller = "returned", NEW i \in Item PROVE i \in results
    <3> DEFINE g == hostOf[i]
               w == <<g, 1>>
    <3>1. g \in Group /\ hostOf \in [Item -> Group] /\ cursor[g] \in Nat
      BY DEF Shared
    <3>2. PICK k \in 1 .. Len(Indices(g)) : Indices(g)[k] = i
      BY <3>1, IndicesFacts
    <3>3. Len(Indices(g)) \in Nat
      BY <3>1, IndicesFacts
    <3>4. w \in Worker /\ w[1] = g /\ w[2] = 1
      BY <3>1, ParMapAssumption DEF Worker, Item
    <3>5. 1 <= GroupLimit(g)
      BY ParMapAssumption DEF GroupLimit, AtLeastOne
    <3> HIDE DEF g, w
    <3>6. at[w] = "done"
      <4>1. 1 <= Len(Indices(g))
        BY <3>2, <3>3
      <4>2. Spawned(w)
        BY <3>4, <3>5, <4>1 DEF Spawned
      <4> QED
        BY <2>1, <3>4, <4>2 DEF Items, Workers
    <3>7. cursor[g] > Len(Indices(g))
      BY <3>4, <3>6 DEF Items, Workers
    <3>8. Claimed(i)
      BY <3>1, <3>2, <3>3, <3>7 DEF Claimed, g
    <3>9. \A v \in Worker : has[v] # i
      BY <2>1, NoItemIsNone DEF Items, InHand, Workers
    <3> QED
      BY <3>8, <3>9 DEF Items, Accounted
  <2>2. caller = "returned" => results = Item
    BY <2>1 DEF Items, Accounted
  <2> QED
    BY <2>2 DEF EachItemOnce, Items, InHand
<1> QED
  BY SpecItems, <1>1, PTL

-----------------------------------------------------------------------------
(* The numbers of the events. *)

Stopped == {"none", "done", "panicked"}

Unbroken == \A w \in Worker : at[w] # "panicked"

\* Workers are inside f while an event is on its way, and after the scope
\* nobody is.
Ends ==
  /\ \A w \in Worker : flying[w] # NoEvent => at[w] = "run"
  /\ caller # "blocked" => \A w \in Worker : at[w] \in Stopped
  /\ caller = "returned" => Unbroken
  /\ closing \in {"numbered", "closed"} => caller = "returned"

InFlight == {w \in Worker : flying[w] # NoEvent}
Ahead    == {flying[w].number : w \in InFlight}
AtLast   == IF closing \in {"numbered", "closed"} THEN {last} ELSE {}

\* Each number below the counter is on its way or was delivered, unless it
\* went down with its worker.
Numbers ==
  /\ sequence \in Nat /\ sequence > 0
  /\ \A w \in InFlight : flying[w] \in Event /\ flying[w].number < sequence
                         /\ flying[w].number \notin got
  /\ \A v, w \in InFlight : flying[v].number = flying[w].number => v = w
  /\ got \subseteq 0 .. sequence - 1
  /\ Unbroken => got \cup Ahead \cup AtLast = 0 .. sequence - 1
  /\ closing \in {"numbered", "closed"} => last = sequence - 1

Shape ==
  /\ at \in [Worker -> Places]
  /\ flying = [w \in Worker |-> flying[w]]

EmitInv == Shape /\ Ends /\ Numbers

-----------------------------------------------------------------------------
(* Every step is one of par_map_per_host or leaves it alone. *)

LEMMA EmitStepMaps == [EmitNext]_allVars => [Next]_vars
BY DEF EmitNext, Enter, InsideF, TakeNumber, Deliver, Leave, Unwind, Around, JoinAll,
   NumberLast, DeliverLast, LeaveUnclosed, Next, WorkerStep, allVars

\* The handler's events do not change what par_map_per_host does.
THEOREM EmitImplementsCall == EmitSpec => Spec
<1>1. EmitInit => Init
  BY DEF EmitInit
<1> QED
  BY <1>1, EmitStepMaps, PTL DEF EmitSpec, Spec

\* So the ceiling of --jobs holds while the calls emit.
THEOREM CeilingWhileEmitting == EmitSpec => []GlobalCap
BY EmitImplementsCall, GlobalCeiling, PTL

-----------------------------------------------------------------------------
(* The invariant is inductive. *)

LEMMA EmitInitInv == EmitInit => EmitInv
<1> SUFFICES ASSUME EmitInit PROVE EmitInv
  OBVIOUS
<1>1. Shape
  BY DEF EmitInit, Init, EmitterInit, Shape, Places
<1>2. Ends
  BY DEF EmitInit, Init, EmitterInit, Ends
<1>3. InFlight = {} /\ Ahead = {} /\ AtLast = {}
  BY DEF EmitInit, EmitterInit, InFlight, Ahead, AtLast
<1> QED
  BY <1>1, <1>2, <1>3 DEF EmitInit, EmitterInit, EmitInv, Numbers

\* A step of par_map_per_host that is no business of the events.
LEMMA QuietStep ==
  ASSUME EmitInv, UNCHANGED <<sequence, flying, got, closing, last>>,
         at' \in [Worker -> Places], Ends',
         \A w \in Worker : at[w] = "panicked" => at'[w] = "panicked"
  PROVE  EmitInv'
<1>1. InFlight' = InFlight /\ Ahead' = Ahead /\ AtLast' = AtLast
  BY DEF InFlight, Ahead, AtLast
<1>2. Unbroken' => Unbroken
  BY DEF Unbroken
<1> QED
  BY <1>1, <1>2 DEF EmitInv, Shape, Numbers

LEMMA TakeNumberInv ==
  ASSUME EmitInv, NEW w \in Worker, NEW kind \in {"started", "progress", "finished"},
         TakeNumber(w, kind)
  PROVE  EmitInv'
<1> DEFINE e == [kind |-> kind, number |-> sequence]
<1> USE DEF EmitInv
<1>1. /\ UNCHANGED <<at, caller, got, closing, last>> /\ sequence' = sequence + 1
      /\ at[w] = "run" /\ flying[w] = NoEvent /\ flying' = [flying EXCEPT ![w] = e]
  BY DEF TakeNumber, vars, sink
<1>2. e \in Event /\ e # NoEvent /\ e.number = sequence
  BY EmitterAssumption DEF Event, Numbers
<1> HIDE DEF e
<1>3. flying'[w] = e /\ \A v \in Worker \ {w} : flying'[v] = flying[v]
  BY <1>1 DEF Shape
<1>4. InFlight' = InFlight \cup {w} /\ w \notin InFlight
  BY <1>1, <1>2, <1>3 DEF InFlight
<1>5. closing \notin {"numbered", "closed"} /\ AtLast' = {} /\ AtLast = {}
  BY <1>1 DEF Ends, Stopped, AtLast
<1>6. Shape' /\ Ends'
  BY <1>1, <1>3 DEF Shape, Ends, Unbroken
<1>7. Ahead' = Ahead \cup {sequence}
  <2>1. flying'[w].number = sequence
    BY <1>2, <1>3
  <2>2. \A v \in InFlight : flying'[v].number = flying[v].number
    BY <1>3, <1>4 DEF InFlight
  <2> QED
    BY <1>4, <2>1, <2>2 DEF Ahead
<1>8. Numbers'
  <2>1. 0 .. sequence' - 1 = (0 .. sequence - 1) \cup {sequence}
    BY <1>1 DEF Numbers
  <2>2. \A v \in InFlight' : flying'[v] \in Event /\ flying'[v].number < sequence'
                             /\ flying'[v].number \notin got'
    BY <1>1, <1>2, <1>3, <1>4 DEF Numbers, InFlight, Event
  <2>3. \A u, v \in InFlight' : flying'[u].number = flying'[v].number => u = v
    BY <1>1, <1>2, <1>3, <1>4 DEF Numbers, InFlight, Event
  <2>4. Unbroken' => got' \cup Ahead' \cup AtLast' = 0 .. sequence' - 1
    BY <1>1, <1>5, <1>7, <2>1 DEF Numbers, Unbroken
  <2> QED
    BY <1>1, <1>5, <2>1, <2>2, <2>3, <2>4 DEF Numbers
<1> QED
  BY <1>6, <1>8

LEMMA DeliverInv ==
  ASSUME EmitInv, NEW w \in Worker, Deliver(w)
  PROVE  EmitInv'
<1> USE DEF EmitInv
<1>1. /\ UNCHANGED <<at, caller, sequence, closing, last>>
      /\ flying[w] # NoEvent /\ flying' = [flying EXCEPT ![w] = NoEvent]
      /\ got' = got \cup {flying[w].number}
  BY DEF Deliver, Hears, vars
<1>2. flying'[w] = NoEvent /\ \A v \in Worker \ {w} : flying'[v] = flying[v]
  BY <1>1 DEF Shape
<1>3. InFlight' = InFlight \ {w} /\ w \in InFlight
  BY <1>1, <1>2 DEF InFlight
<1>4. Ahead = Ahead' \cup {flying[w].number} /\ AtLast' = AtLast
  BY <1>1, <1>2, <1>3 DEF Ahead, AtLast, InFlight
<1>5. Shape' /\ Ends'
  BY <1>1, <1>2 DEF Shape, Ends, Unbroken
<1>6. Numbers'
  <2>1. \A v \in InFlight' : flying'[v] \in Event /\ flying'[v].number < sequence'
                             /\ flying'[v].number \notin got'
    BY <1>1, <1>2, <1>3 DEF Numbers, InFlight
  <2>2. \A u, v \in InFlight' : flying'[u].number = flying'[v].number => u = v
    BY <1>2, <1>3 DEF Numbers, InFlight
  <2>3. got' \subseteq 0 .. sequence' - 1
    <3>1. flying[w].number \in Nat /\ flying[w].number < sequence
      BY <1>3 DEF Numbers, Event
    <3>2. sequence \in Nat /\ got \subseteq 0 .. sequence - 1
      BY DEF Numbers
    <3>3. flying[w].number \in 0 .. sequence - 1
      BY <3>1, <3>2
    <3> QED
      BY <1>1, <3>2, <3>3
  <2>4. Unbroken' => got' \cup Ahead' \cup AtLast' = 0 .. sequence' - 1
    BY <1>1, <1>4 DEF Numbers, Unbroken
  <2> QED
    BY <1>1, <2>1, <2>2, <2>3, <2>4 DEF Numbers
<1> QED
  BY <1>5, <1>6

\* A worker that unwinds takes its event with it, and from then on the call
\* cannot return.
LEMMA UnwindInv ==
  ASSUME EmitInv, NEW w \in Worker, Unwind(w)
  PROVE  EmitInv'
<1> USE DEF EmitInv
<1>1. /\ UNCHANGED <<caller, sequence, got, closing, last>>
      /\ at[w] = "run" /\ at' = [at EXCEPT ![w] = "panicked"]
      /\ flying' = [flying EXCEPT ![w] = NoEvent]
  BY DEF Unwind, RunPanics, Goto
<1>2. /\ at' \in [Worker -> Places] /\ at'[w] = "panicked"
      /\ \A v \in Worker \ {w} : at'[v] = at[v] /\ flying'[v] = flying[v]
      /\ flying'[w] = NoEvent
  BY <1>1 DEF Shape, Places
<1>3. InFlight' \subseteq InFlight \ {w} /\ ~Unbroken'
  <2>1. InFlight' \subseteq InFlight \ {w}
    BY <1>2 DEF InFlight
  <2>2. ~Unbroken'
    BY <1>2 DEF Unbroken
  <2> QED
    BY <2>1, <2>2
<1>4. caller = "blocked"
  BY <1>1 DEF Ends, Stopped
<1>5. Shape' /\ Ends'
  BY <1>1, <1>2, <1>4 DEF Shape, Ends
<1> QED
  BY <1>1, <1>2, <1>3, <1>5 DEF Numbers, InFlight

LEMMA NumberLastInv ==
  ASSUME EmitInv, NumberLast
  PROVE  EmitInv'
<1> USE DEF EmitInv
<1>1. /\ UNCHANGED <<at, caller, flying, got>>
      /\ caller = "returned" /\ closing = "waits" /\ closing' = "numbered"
      /\ last' = sequence /\ sequence' = sequence + 1
  BY DEF NumberLast, vars, sink
<1>2. InFlight' = {} /\ InFlight = {} /\ Unbroken
  BY <1>1 DEF Ends, Stopped, InFlight
<1>3. Ahead = {} /\ Ahead' = {} /\ AtLast = {} /\ AtLast' = {sequence}
  BY <1>1, <1>2 DEF Ahead, AtLast
<1>4. got \cup {sequence} = 0 .. sequence' - 1
  BY <1>1, <1>2, <1>3 DEF Numbers
<1>5. Shape' /\ Ends'
  BY <1>1 DEF Shape, Ends, Unbroken
<1>6. Numbers'
  BY <1>1, <1>2, <1>3, <1>4 DEF Numbers
<1> QED
  BY <1>5, <1>6

\* Of the steps of workers outside f, only Take may end in a panic, and none
\* is possible once the scope has ended.
LEMMA AroundInv ==
  ASSUME EmitInv, NEW w \in Worker, Enter(w) \/ Leave(w) \/ Around(w)
  PROVE  EmitInv'
<1> USE DEF EmitInv
<1>1. UNCHANGED <<caller, sequence, flying, got, closing, last>>
  BY DEF Enter, Leave, Around, Acquire, Release, Claim, Take, AcquireSleeps, Notify, Store,
     SpuriousWakeup, emitter, sink
<1>2. /\ at' \in [Worker -> Places]
      /\ at[w] \notin Stopped
      /\ \A v \in Worker : at[v] \in Stopped => at'[v] = at[v]
      /\ \A v \in Worker : flying[v] # NoEvent => at'[v] = "run"
  <2>1. CASE Enter(w)
    BY <2>1 DEF Enter, Acquire, Goto, Shape, Ends, Places, Stopped
  <2>2. CASE Leave(w)
    BY <2>2 DEF Leave, Release, Goto, Shape, Ends, Places, Stopped
  <2>3. CASE Claim(w) \/ Take(w) \/ AcquireSleeps(w) \/ Store(w) \/ SpuriousWakeup(w)
    BY <2>3 DEF Claim, Take, AcquireSleeps, Store, SpuriousWakeup, Goto, Shape, Ends,
       Places, Stopped
  <2>4. CASE Notify(w)
    BY <2>4 DEF Notify, Goto, Shape, Ends, Places, Stopped
  <2> QED
    BY <2>1, <2>2, <2>3, <2>4 DEF Around
<1>3. caller = "blocked"
  BY <1>2 DEF Ends
<1>4. Ends'
  BY <1>1, <1>2, <1>3 DEF Ends
<1> QED
  BY <1>1, <1>2, <1>4, QuietStep DEF Stopped

LEMMA EmitNextInv == EmitInv /\ [EmitNext]_allVars => EmitInv'
<1> SUFFICES ASSUME EmitInv, [EmitNext]_allVars PROVE EmitInv'
  OBVIOUS
<1>1. ASSUME NEW w \in Worker, Enter(w) \/ Leave(w) \/ Around(w) PROVE EmitInv'
  BY <1>1, AroundInv
<1>2. ASSUME NEW w \in Worker, InsideF(w) PROVE EmitInv'
  BY <1>2, TakeNumberInv, DeliverInv DEF InsideF
<1>3. ASSUME NEW w \in Worker, Unwind(w) PROVE EmitInv'
  BY <1>3, UnwindInv
<1>4. CASE JoinAll
  <2>1. /\ UNCHANGED <<at, sequence, flying, got, closing, last>>
        /\ caller = "blocked" /\ \A w \in Worker : at[w] \in Stopped
        /\ caller' = "returned" => Unbroken
    BY <1>4 DEF JoinAll, Join, emitter, sink, Stopped, Unbroken
  <2>2. Ends'
    BY <2>1 DEF EmitInv, Ends, Unbroken
  <2> QED
    BY <2>1, <2>2, QuietStep DEF EmitInv, Shape
<1>5. CASE NumberLast
  BY <1>5, NumberLastInv
<1>6. CASE DeliverLast \/ LeaveUnclosed
  <2>1. /\ UNCHANGED <<at, caller, sequence, flying, got, last>>
        /\ closing \in {"numbered", "closed"} <=> closing' \in {"numbered", "closed"}
    BY <1>6 DEF DeliverLast, LeaveUnclosed, vars, sink
  <2>2. InFlight' = InFlight /\ Ahead' = Ahead /\ AtLast' = AtLast /\ Unbroken' = Unbroken
    BY <2>1 DEF InFlight, Ahead, AtLast, Unbroken
  <2> QED
    BY <2>1, <2>2 DEF EmitInv, Shape, Ends, Numbers
<1>7. CASE UNCHANGED allVars
  <2>1. UNCHANGED <<at, caller, sequence, flying, got, closing, last>>
    BY <1>7 DEF allVars, vars, emitter, sink
  <2> QED
    BY <2>1, QuietStep DEF EmitInv, Shape, Ends, Unbroken
<1> QED
  BY <1>1, <1>2, <1>3, <1>4, <1>5, <1>6, <1>7 DEF EmitNext

-----------------------------------------------------------------------------
\* No number is given twice, however the workers interleave, and a sink that
\* has heard operation_finished has heard every number there is.
THEOREM NumbersAreComplete == EmitSpec => []NumbersComplete
<1>1. EmitInv => NumbersComplete
  <2> SUFFICES ASSUME EmitInv PROVE NumbersComplete
    OBVIOUS
  <2>1. ASSUME closing = "closed"
        PROVE  got \cup {last} = 0 .. sequence - 1 /\ last = sequence - 1
    <3>1. Unbroken /\ InFlight = {}
      BY <2>1 DEF EmitInv, Ends, Stopped, InFlight
    <3> QED
      BY <2>1, <3>1 DEF EmitInv, Numbers, Ahead, AtLast
  <2>2. ASSUME NEW v \in Worker, NEW w \in Worker, flying[w] # NoEvent
        PROVE  /\ flying[w].number \notin got
               /\ v # w /\ flying[v] # NoEvent => flying[v].number # flying[w].number
    BY <2>2 DEF EmitInv, Numbers, InFlight
  <2> QED
    BY <2>1, <2>2 DEF NumbersComplete
<1> QED
  BY EmitInitInv, EmitNextInv, <1>1, PTL DEF EmitSpec

-----------------------------------------------------------------------------
(* What the sink hears of a member. *)

\* Started first, finished last, and started at all.
Ordered(i) ==
  /\ heard[i] # <<>>
  /\ \A n \in DOMAIN heard[i] :
       /\ (heard[i][n] = "started") <=> (n = 1)
       /\ heard[i][n] = "finished" => n = Len(heard[i])

Finished(i) == heard[i] # <<>> /\ heard[i][Len(heard[i])] = "finished"

\* f has ended for the item.
Left(i) == i \in results \/ \E w \in Worker : has[w] = i /\ at[w] \in {"notify", "store"}

\* What a worker inside f has told the sink of its item, and may tell next.
Telling(w) ==
  \/ /\ inside[w] = "begun" /\ heard[has[w]] = <<>>
     /\ flying[w] # NoEvent => flying[w].kind = "started"
  \/ /\ inside[w] = "working" /\ Ordered(has[w]) /\ ~Finished(has[w])
     /\ flying[w] # NoEvent => flying[w].kind \in {"progress", "finished"}
  \/ inside[w] = "over" /\ Ordered(has[w]) /\ Finished(has[w]) /\ flying[w] = NoEvent

Told ==
  /\ heard \in [Item -> Seq({"started", "progress", "finished"})]
  /\ inside \in [Worker -> {"out", "begun", "working", "over"}]
  /\ \A i \in Item : heard[i] = <<>> \/ Ordered(i)
  /\ \A w \in Worker : at[w] = "run" => Telling(w)
  /\ \A w \in Worker : at[w] \in {"claimed", "acquire", "asleep"} => heard[has[w]] = <<>>
  /\ \A i \in Item : ~Claimed(i) => heard[i] = <<>>
  /\ \A i \in Item : Left(i) => Ordered(i) /\ (Finished(i) <=> i \notin failed)
  /\ \A i \in failed : i \in Item /\ Left(i)

\* The number a worker has taken is above those its f has delivered.
Rising ==
  /\ latest \in [Worker -> Nat]
  /\ \A w \in Worker : latest[w] < sequence
  /\ \A w \in Worker : flying[w] # NoEvent => latest[w] < flying[w].number

LEMMA SameHeard ==
  ASSUME NEW i, heard'[i] = heard[i]
  PROVE  (Ordered(i)' <=> Ordered(i)) /\ (Finished(i)' <=> Finished(i))
BY DEF Ordered, Finished

LEMMA SameTelling ==
  ASSUME NEW w, has'[w] = has[w], inside'[w] = inside[w], flying'[w] = flying[w],
         heard'[has[w]] = heard[has[w]]
  PROVE  Telling(w)' <=> Telling(w)
BY DEF Telling, Ordered, Finished

LEMMA FirstHeard ==
  ASSUME NEW i, heard'[i] = Append(<<>>, "started")
  PROVE  Ordered(i)' /\ ~Finished(i)'
<1>1. heard'[i] = <<"started">>
  OBVIOUS
<1> QED
  BY <1>1 DEF Ordered, Finished

LEMMA NextHeard ==
  ASSUME NEW i, heard[i] \in Seq({"started", "progress", "finished"}),
         Ordered(i), ~Finished(i),
         NEW kind \in {"progress", "finished"}, heard'[i] = Append(heard[i], kind)
  PROVE  Ordered(i)' /\ (Finished(i)' <=> kind = "finished")
<1> DEFINE s == heard[i]
           t == heard'[i]
<1>1. /\ Len(s) \in Nat /\ Len(s) > 0 /\ Len(t) = Len(s) + 1 /\ t # <<>>
      /\ DOMAIN s = 1 .. Len(s) /\ DOMAIN t = 1 .. Len(t)
      /\ \A n \in 1 .. Len(s) : t[n] = s[n]
      /\ t[Len(t)] = kind
  BY DEF Ordered
<1>2. \A n \in 1 .. Len(s) : ((s[n] = "started") <=> (n = 1)) /\ (s[n] = "finished" => n = Len(s))
  BY <1>1 DEF Ordered
<1>3. \A n \in 1 .. Len(s) : s[n] # "finished"
  BY <1>1, <1>2 DEF Finished
<1> HIDE DEF s
<1>4. ASSUME NEW n \in DOMAIN t
      PROVE  ((t[n] = "started") <=> (n = 1)) /\ (t[n] = "finished" => n = Len(t))
  <2>1. CASE n = Len(t)
    BY <1>1, <2>1
  <2>2. CASE n # Len(t)
    <3>1. n \in 1 .. Len(s)
      BY <1>1, <2>2
    <3> QED
      BY <1>1, <1>2, <1>3, <3>1
  <2> QED
    BY <2>1, <2>2
<1> QED
  BY <1>1, <1>4 DEF Ordered, Finished

\* A step that no f and no member hears of.
LEMMA SilentTold ==
  ASSUME Told, UNCHANGED <<heard, inside, flying, failed>>,
         \A i \in Item : Claimed(i) => Claimed(i)',
         \A w \in Worker : at'[w] = "run" => at[w] = "run" /\ has'[w] = has[w],
         \A w \in Worker : at'[w] \in {"claimed", "acquire", "asleep"} =>
                             heard[has'[w]] = <<>>,
         \A i \in Item : Left(i)' <=> Left(i)
  PROVE  Told'
<1>1. \A i : (Ordered(i)' <=> Ordered(i)) /\ (Finished(i)' <=> Finished(i))
  BY SameHeard
<1>2. \A w \in Worker : at'[w] = "run" => Telling(w)'
  BY SameTelling DEF Told
<1> QED
  BY <1>1, <1>2 DEF Told

LEMMA InitTold == EmitInit => Told
<1> SUFFICES ASSUME EmitInit PROVE Told
  OBVIOUS
<1>1. /\ heard = [i \in Item |-> <<>>] /\ failed = {} /\ results = {}
      /\ inside = [w \in Worker |-> "out"] /\ \A w \in Worker : at[w] \in {"none", "loop"}
  BY DEF EmitInit, Init, EmitterInit
<1>2. \A i \in Item : ~Left(i)
  BY <1>1 DEF Left
<1> QED
  BY <1>1, <1>2 DEF Told

LEMMA TakeNumberTold ==
  ASSUME EmitInv, Told, NEW w \in Worker, NEW kind \in {"started", "progress", "finished"},
         TakeNumber(w, kind)
  PROVE  Told'
<1>1. /\ UNCHANGED <<hostOf, cursor, results, at, has, heard, inside, failed>>
      /\ at[w] = "run" /\ flying[w] = NoEvent /\ MayEmit(w, kind)
      /\ flying' = [flying EXCEPT ![w] = [kind |-> kind, number |-> sequence]]
  BY DEF TakeNumber, vars, sink
<1>2. /\ flying'[w].kind = kind /\ \A v \in Worker \ {w} : flying'[v] = flying[v]
  BY <1>1 DEF EmitInv, Shape
<1>3. \A i : /\ (Ordered(i)' <=> Ordered(i)) /\ (Finished(i)' <=> Finished(i))
             /\ (Left(i)' <=> Left(i))
  BY <1>1, SameHeard DEF Left
<1>4. \A i : Claimed(i)' <=> Claimed(i)
  BY <1>1, SameItems
<1>5. Telling(w)'
  <2>1. \/ inside[w] = "begun" /\ heard[has[w]] = <<>> /\ kind = "started"
        \/ /\ inside[w] = "working" /\ Ordered(has[w]) /\ ~Finished(has[w])
           /\ kind \in {"progress", "finished"}
    BY <1>1 DEF Told, Telling, MayEmit
  <2> QED
    BY <1>1, <1>2, <2>1 DEF Telling, Ordered, Finished
<1>6. \A v \in Worker \ {w} : at[v] = "run" => Telling(v)'
  BY <1>1, <1>2, SameTelling DEF Told
<1> QED
  BY <1>1, <1>3, <1>4, <1>5, <1>6 DEF Told

LEMMA DeliverTold ==
  ASSUME EmitInv, Items, Told, NEW w \in Worker, Deliver(w)
  PROVE  Told'
<1>1. PICK i : i = has[w]
  OBVIOUS
<1>2. PICK kind : kind = flying[w].kind
  OBVIOUS
<1>3. /\ UNCHANGED <<hostOf, cursor, results, at, has, failed>>
      /\ at[w] = "run" /\ flying[w] # NoEvent
      /\ heard' = [heard EXCEPT ![i] = Append(@, kind)]
      /\ flying' = [flying EXCEPT ![w] = NoEvent]
      /\ inside' = [inside EXCEPT ![w] = IF kind = "finished" THEN "over" ELSE "working"]
  BY <1>1, <1>2 DEF Deliver, Hears, vars
<1>4. /\ i \in Item /\ i \notin results /\ Claimed(i)
      /\ \A v \in Worker \ {w} : has[v] # i
  BY <1>1, <1>3 DEF Items, InHand, AtWork
<1>5. kind \in {"started", "progress", "finished"}
  BY <1>2, <1>3 DEF EmitInv, Numbers, InFlight, Event
<1>6. /\ heard'[i] = Append(heard[i], kind) /\ \A x \in Item \ {i} : heard'[x] = heard[x]
      /\ flying'[w] = NoEvent /\ inside'[w] = IF kind = "finished" THEN "over" ELSE "working"
      /\ \A v \in Worker \ {w} : flying'[v] = flying[v] /\ inside'[v] = inside[v]
      /\ heard[i] \in Seq({"started", "progress", "finished"})
  BY <1>3, <1>4 DEF Told, EmitInv, Shape
<1>7. Ordered(i)' /\ (Finished(i)' <=> kind = "finished")
  <2>1. Telling(w)
    BY <1>3 DEF Told
  <2>2. CASE heard[i] = <<>> /\ kind = "started"
    BY <1>6, <2>2, FirstHeard
  <2>3. CASE Ordered(i) /\ ~Finished(i) /\ kind \in {"progress", "finished"}
    BY <1>6, <2>3, NextHeard
  <2> QED
    BY <1>1, <1>2, <1>3, <2>1, <2>2, <2>3 DEF Telling
<1>8. \A x \in Item \ {i} : (Ordered(x)' <=> Ordered(x)) /\ (Finished(x)' <=> Finished(x))
  BY <1>6, SameHeard
<1>9. \A x : (Claimed(x)' <=> Claimed(x)) /\ (Left(x)' <=> Left(x))
  BY <1>3, SameItems DEF Left
<1>10. ~Left(i)
  BY <1>1, <1>3, <1>4 DEF Left
<1>11. heard' \in [Item -> Seq({"started", "progress", "finished"})]
  <2>1. Append(heard[i], kind) \in Seq({"started", "progress", "finished"})
    BY <1>5, <1>6
  <2> QED
    BY <1>3, <2>1 DEF Told
<1>12. inside' \in [Worker -> {"out", "begun", "working", "over"}]
  BY <1>3 DEF Told
<1>13. Telling(w)'
  <2>1. has'[w] = i
    BY <1>1, <1>3
  <2>2. Ordered(has[w])' /\ (Finished(has[w])' <=> kind = "finished")
    BY <1>7, <2>1 DEF Ordered, Finished
  <2> QED
    BY <1>6, <2>2 DEF Telling
<1>14. ASSUME NEW v \in Worker \ {w}, at[v] = "run" PROVE Telling(v)'
  <2>1. has[v] \in Item \ {i} /\ has'[v] = has[v]
    BY <1>3, <1>4, <1>14 DEF Items, InHand, AtWork
  <2> QED
    BY <1>6, <1>14, <2>1, SameTelling DEF Told
<1>15. ASSUME NEW v \in Worker, at[v] \in {"claimed", "acquire", "asleep"}
       PROVE  heard'[has[v]] = <<>>
  <2>1. has[v] \in Item \ {i}
    BY <1>3, <1>4, <1>15 DEF Items, InHand, AtWork
  <2> QED
    BY <1>6, <1>15, <2>1 DEF Told
<1>16. \A x \in Item : heard'[x] = <<>> \/ Ordered(x)'
  BY <1>6, <1>7, <1>8 DEF Told
<1>17. \A x \in Item : ~Claimed(x)' => heard'[x] = <<>>
  BY <1>4, <1>6, <1>9 DEF Told
<1>18. \A x \in Item : Left(x)' => Ordered(x)' /\ (Finished(x)' <=> x \notin failed)
  BY <1>8, <1>9, <1>10 DEF Told
<1>19. \A x \in failed : x \in Item /\ Left(x)'
  BY <1>9 DEF Told
<1> QED
  BY <1>3, <1>11, <1>12, <1>13, <1>14, <1>15, <1>16, <1>17, <1>18, <1>19 DEF Told

LEMMA EnterTold ==
  ASSUME EmitInv, Items, Told, NEW w \in Worker, Enter(w)
  PROVE  Told'
<1>1. /\ UNCHANGED <<hostOf, cursor, results, has, heard, flying, failed>>
      /\ at[w] = "acquire" /\ at' = [at EXCEPT ![w] = "run"]
      /\ inside' = [inside EXCEPT ![w] = "begun"]
  BY DEF Enter, Acquire, Goto, sink
<1>2. /\ at'[w] = "run" /\ inside'[w] = "begun" /\ flying[w] = NoEvent
      /\ \A v \in Worker \ {w} : at'[v] = at[v] /\ inside'[v] = inside[v]
  BY <1>1 DEF EmitInv, Shape, Ends, Told
<1>3. \A i : /\ (Ordered(i)' <=> Ordered(i)) /\ (Finished(i)' <=> Finished(i))
             /\ (Claimed(i)' <=> Claimed(i))
  BY <1>1, SameHeard, SameItems
<1>4. \A i : Left(i)' <=> Left(i)
  BY <1>1, <1>2 DEF Left
<1>5. Telling(w)'
  BY <1>1, <1>2 DEF Told, Telling
<1>6. \A v \in Worker \ {w} : at[v] = "run" => Telling(v)'
  BY <1>1, <1>2, SameTelling DEF Told
<1> QED
  BY <1>1, <1>2, <1>3, <1>4, <1>5, <1>6 DEF Told

LEMMA LeaveTold ==
  ASSUME EmitInv, Items, Told, NEW w \in Worker, Leave(w)
  PROVE  Told'
<1>1. PICK i : i = has[w]
  OBVIOUS
<1>2. /\ UNCHANGED <<hostOf, cursor, results, has, heard, flying>>
      /\ at[w] = "run" /\ at' = [at EXCEPT ![w] = "notify"]
      /\ inside' = [inside EXCEPT ![w] = "out"]
      /\ flying[w] = NoEvent
      /\ \/ inside[w] = "over" /\ failed' = failed
         \/ inside[w] = "working" /\ failed' = failed \cup {i}
  BY <1>1 DEF Leave, Release, Goto
<1>3. /\ i \in Item /\ i \notin results /\ \A v \in Worker \ {w} : has[v] # i
  BY <1>1, <1>2 DEF Items, InHand, AtWork
<1>4. /\ at'[w] = "notify"
      /\ \A v \in Worker \ {w} : at'[v] = at[v] /\ inside'[v] = inside[v]
  BY <1>2 DEF EmitInv, Shape, Told
<1>5. \A x : /\ (Ordered(x)' <=> Ordered(x)) /\ (Finished(x)' <=> Finished(x))
             /\ (Claimed(x)' <=> Claimed(x))
  BY <1>2, SameHeard, SameItems
<1>6. ~Left(i) /\ Left(i)' /\ \A x : x # i => (Left(x)' <=> Left(x))
  BY <1>1, <1>2, <1>3, <1>4 DEF Left
<1>7. Ordered(i) /\ (Finished(i) <=> i \notin failed')
  <2>1. Telling(w) /\ i \notin failed
    BY <1>2, <1>6 DEF Told
  <2> QED
    BY <1>1, <1>2, <2>1 DEF Telling
<1>8. \A v \in Worker : at'[v] = "run" => Telling(v)'
  BY <1>2, <1>4, SameTelling DEF Told
<1>9. \A x \in Item : Left(x)' => Ordered(x)' /\ (Finished(x)' <=> x \notin failed')
  BY <1>2, <1>5, <1>6, <1>7 DEF Told
<1>10. \A x \in failed' : x \in Item /\ Left(x)'
  BY <1>2, <1>3, <1>6 DEF Told
<1> QED
  BY <1>2, <1>4, <1>5, <1>8, <1>9, <1>10 DEF Told

LEMMA UnwindTold ==
  ASSUME EmitInv, Items, Told, NEW w \in Worker, Unwind(w)
  PROVE  Told'
<1>1. /\ UNCHANGED <<hostOf, cursor, results, has, heard, failed>>
      /\ at[w] = "run" /\ at' = [at EXCEPT ![w] = "panicked"]
      /\ inside' = [inside EXCEPT ![w] = "out"]
      /\ flying' = [flying EXCEPT ![w] = NoEvent]
  BY DEF Unwind, RunPanics, Goto
<1>2. /\ at'[w] = "panicked"
      /\ \A v \in Worker \ {w} :
           at'[v] = at[v] /\ inside'[v] = inside[v] /\ flying'[v] = flying[v]
  BY <1>1 DEF EmitInv, Shape, Told
<1>3. \A x : /\ (Ordered(x)' <=> Ordered(x)) /\ (Finished(x)' <=> Finished(x))
             /\ (Claimed(x)' <=> Claimed(x))
  BY <1>1, SameHeard, SameItems
<1>4. \A x : Left(x)' <=> Left(x)
  BY <1>1, <1>2 DEF Left
<1>5. \A v \in Worker : at'[v] = "run" => Telling(v)'
  BY <1>1, <1>2, SameTelling DEF Told
<1> QED
  BY <1>1, <1>2, <1>3, <1>4, <1>5 DEF Told

LEMMA AroundTold ==
  ASSUME EmitInv, IInv, Shared, Items, Told, NEW w \in Worker, Around(w)
  PROVE  Told'
<1>1. UNCHANGED <<heard, inside, flying, failed>>
  BY DEF Around, emitter, sink
<1>2. CASE Claim(w)
  <2>1. /\ UNCHANGED <<hostOf, results>> /\ at[w] = "loop"
        /\ \E l \in {"done", "claimed"} : at' = [at EXCEPT ![w] = l]
        /\ at'[w] = "claimed" => has'[w] \in Item
        /\ \A v \in Worker \ {w} : has'[v] = has[v]
    <3>1. Items'
      BY <1>2, ClaimItems
    <3> QED
      BY <1>2, <3>1 DEF Claim, Goto, EmitInv, Shape, Items, InHand, AtWork
  <2>2. at'[w] \in {"done", "claimed"} /\ \A v \in Worker \ {w} : at'[v] = at[v]
    BY <2>1 DEF EmitInv, Shape
  <2>3. /\ \A x \in Item : Claimed(x) => Claimed(x)'
        /\ \A x \in Item, v \in Worker : has'[v] = x => has[v] = x \/ ~Claimed(x)
    BY <1>2, ClaimItems
  <2>4. at'[w] = "claimed" => heard[has'[w]] = <<>>
    <3>1. has[w] = NoItem
      BY <2>1 DEF Items, InHand
    <3> QED
      BY <2>1, <2>3, <3>1, NoItemIsNone DEF Told
  <2>5. \A x \in Item : Left(x)' <=> Left(x)
    BY <2>1, <2>2 DEF Left
  <2> QED
    BY <1>1, <2>1, <2>2, <2>3, <2>4, <2>5, SilentTold DEF Told
<1>3. CASE Take(w) \/ AcquireSleeps(w) \/ SpuriousWakeup(w) \/ Notify(w)
  <2>1. UNCHANGED <<hostOf, cursor, results, has>>
    BY <1>3 DEF Take, AcquireSleeps, SpuriousWakeup, Notify
  <2>2. \A x \in Item : Claimed(x) => Claimed(x)'
    BY <2>1, SameItems
  <2>3. \A v \in Worker :
          /\ at'[v] = "run" => at[v] = "run"
          /\ at'[v] \in {"claimed", "acquire", "asleep"} =>
               at[v] \in {"claimed", "acquire", "asleep"}
          /\ at'[v] \in {"notify", "store"} <=> at[v] \in {"notify", "store"}
    BY <1>3 DEF Take, AcquireSleeps, SpuriousWakeup, Notify, Goto, EmitInv, Shape
  <2>4. \A x \in Item : Left(x)' <=> Left(x)
    BY <2>1, <2>3 DEF Left
  <2> QED
    BY <1>1, <2>1, <2>2, <2>3, <2>4, SilentTold DEF Told
<1>4. CASE Store(w)
  <2>1. PICK i : i = has[w]
    OBVIOUS
  <2>2. /\ UNCHANGED <<hostOf, cursor>> /\ at[w] = "store" /\ results' = results \cup {i}
        /\ at' = [at EXCEPT ![w] = "loop"] /\ has' = [has EXCEPT ![w] = NoItem]
    BY <1>4, <2>1 DEF Store, Goto
  <2>3. /\ at'[w] = "loop" /\ has'[w] = NoItem
        /\ \A v \in Worker \ {w} : at'[v] = at[v] /\ has'[v] = has[v]
    BY <2>2 DEF EmitInv, Shape, Items, InHand
  <2>4. \A x \in Item : Claimed(x) => Claimed(x)'
    BY <2>2, SameItems
  <2>5. \A x \in Item : Left(x)' <=> Left(x)
    BY <2>1, <2>2, <2>3 DEF Left
  <2> QED
    BY <1>1, <2>3, <2>4, <2>5, SilentTold DEF Told
<1> QED
  BY <1>2, <1>3, <1>4 DEF Around

LEMMA StepTold == EmitInv /\ IInv /\ Shared /\ Items /\ Told /\ [EmitNext]_allVars => Told'
<1> SUFFICES ASSUME EmitInv, IInv, Shared, Items, Told, [EmitNext]_allVars PROVE Told'
  OBVIOUS
<1>1. ASSUME NEW w \in Worker, InsideF(w) PROVE Told'
  BY <1>1, TakeNumberTold, DeliverTold DEF InsideF
<1>2. ASSUME NEW w \in Worker, Enter(w) \/ Leave(w) \/ Unwind(w) \/ Around(w) PROVE Told'
  BY <1>2, EnterTold, LeaveTold, UnwindTold, AroundTold
<1>3. CASE JoinAll \/ NumberLast \/ DeliverLast \/ LeaveUnclosed \/ UNCHANGED allVars
  <2>1. UNCHANGED <<hostOf, cursor, results, at, has, heard, inside, flying, failed>>
    BY <1>3 DEF JoinAll, Join, NumberLast, DeliverLast, LeaveUnclosed, vars, emitter, sink,
       allVars
  <2>2. \A x : (Claimed(x)' <=> Claimed(x)) /\ (Left(x)' <=> Left(x))
    BY <2>1, SameItems DEF Left
  <2> QED
    BY <2>1, <2>2, SilentTold DEF Told
<1> QED
  BY <1>1, <1>2, <1>3 DEF EmitNext

LEMMA StepRising == EmitInv /\ Rising /\ [EmitNext]_allVars => Rising'
<1> SUFFICES ASSUME EmitInv, Rising, [EmitNext]_allVars PROVE Rising'
  OBVIOUS
<1>0. sequence \in Nat /\ sequence > 0
  BY DEF EmitInv, Numbers
<1>1. ASSUME NEW w \in Worker, NEW kind \in {"started", "progress", "finished"},
             TakeNumber(w, kind)
      PROVE  Rising'
  <2>1. /\ latest' = latest /\ sequence' = sequence + 1
        /\ flying' = [flying EXCEPT ![w] = [kind |-> kind, number |-> sequence]]
    BY <1>1 DEF TakeNumber, sink
  <2>2. flying'[w].number = sequence /\ \A v \in Worker \ {w} : flying'[v] = flying[v]
    BY <2>1 DEF EmitInv, Shape
  <2>3. \A v \in Worker : latest[v] \in Nat /\ latest[v] < sequence
    BY DEF Rising
  <2> QED
    BY <1>0, <2>1, <2>2, <2>3 DEF Rising
<1>2. ASSUME NEW w \in Worker, Deliver(w) PROVE Rising'
  <2>1. PICK n : n = flying[w].number
    OBVIOUS
  <2>2. /\ flying[w] # NoEvent /\ latest' = [latest EXCEPT ![w] = n] /\ sequence' = sequence
        /\ flying' = [flying EXCEPT ![w] = NoEvent]
    BY <1>2, <2>1 DEF Deliver, Hears
  <2>3. n \in Nat /\ n < sequence
    BY <2>1, <2>2 DEF EmitInv, Numbers, InFlight, Event
  <2>4. /\ flying'[w] = NoEvent /\ \A v \in Worker \ {w} : flying'[v] = flying[v]
        /\ latest'[w] = n /\ \A v \in Worker \ {w} : latest'[v] = latest[v]
    BY <2>2 DEF EmitInv, Shape, Rising
  <2> QED
    BY <2>2, <2>3, <2>4 DEF Rising
<1>3. ASSUME NEW w \in Worker, Leave(w) \/ Unwind(w) PROVE Rising'
  <2>1. /\ latest' = [latest EXCEPT ![w] = 0] /\ sequence' = sequence
        /\ \A v \in Worker : flying'[v] \in {flying[v], NoEvent}
        /\ flying'[w] = NoEvent
    BY <1>3 DEF Leave, Unwind, EmitInv, Shape
  <2> QED
    BY <1>0, <2>1 DEF Rising
<1>4. ASSUME NEW w \in Worker, Enter(w) \/ Around(w) PROVE Rising'
  <2>1. UNCHANGED <<latest, sequence, flying>>
    BY <1>4 DEF Enter, Around, emitter, sink
  <2> QED
    BY <2>1 DEF Rising
<1>5. CASE NumberLast
  <2>1. latest' = latest /\ flying' = flying /\ sequence' = sequence + 1
    BY <1>5 DEF NumberLast, sink
  <2>2. \A v \in Worker : latest[v] \in Nat /\ latest[v] < sequence
    BY DEF Rising
  <2> QED
    BY <1>0, <2>1, <2>2 DEF Rising
<1>6. CASE JoinAll \/ DeliverLast \/ LeaveUnclosed \/ UNCHANGED allVars
  <2>1. UNCHANGED <<latest, sequence, flying>>
    BY <1>6 DEF JoinAll, DeliverLast, LeaveUnclosed, emitter, sink, allVars
  <2> QED
    BY <2>1 DEF Rising
<1> QED
  BY <1>1, <1>2, <1>3, <1>4, <1>5, <1>6 DEF EmitNext, InsideF

LEMMA EmitTold == EmitSpec => []EmitInv /\ []Told /\ []Rising
<1>1. EmitInit => Rising
  <2> SUFFICES ASSUME EmitInit PROVE Rising
    OBVIOUS
  <2>1. /\ latest = [w \in Worker |-> 0] /\ sequence = 1
        /\ \A w \in Worker : flying[w] = NoEvent
    BY DEF EmitInit, EmitterInit
  <2> QED
    BY <2>1 DEF Rising
<1> QED
  BY <1>1, EmitInitInv, EmitNextInv, InitTold, StepTold, StepRising, EmitImplementsCall,
     SpecItems, PTL DEF EmitSpec

\* What the sink hears of a member is started first, finished last, and in the
\* order of the numbers, whatever the workers of other members do and wherever
\* one of them unwinds.
THEOREM MembersInOrder == EmitSpec => []MemberOrder
<1>1. Told /\ Rising => MemberOrder
  <2> SUFFICES ASSUME Told, Rising PROVE MemberOrder
    OBVIOUS
  <2>1. ASSUME NEW i \in Item, NEW n \in DOMAIN heard[i]
        PROVE  /\ (heard[i][n] = "started") <=> (n = 1)
               /\ heard[i][n] = "finished" => n = Len(heard[i])
    <3>1. heard[i] # <<>>
      BY <2>1
    <3> QED
      BY <2>1, <3>1 DEF Told, Ordered
  <2> QED
    BY <2>1 DEF Rising, MemberOrder
<1> QED
  BY <1>1, EmitTold, PTL

\* A sink that has heard operation_finished was told of the start of every
\* member, and of its end exactly when its result is no error.
THEOREM AllMembersHeard == EmitSpec => []EveryMemberHeard
<1>1. EmitInv /\ Told /\ EachItemOnce => EveryMemberHeard
  <2> SUFFICES ASSUME EmitInv, Told, EachItemOnce, closing = "closed", NEW i \in Item
               PROVE  /\ heard[i] # <<>>
                      /\ (heard[i][Len(heard[i])] = "finished") <=> i \notin failed
    BY DEF EveryMemberHeard
  <2>1. i \in results
    BY DEF EmitInv, Ends, EachItemOnce
  <2> QED
    BY <2>1 DEF Told, Left, Ordered, Finished
<1> QED
  BY <1>1, EmitTold, EmitImplementsCall, ItemsOnce, PTL
===============================================================================
