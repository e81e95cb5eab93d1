------------------------ MODULE ManagerFactoryProofs ------------------------
(***************************************************************************)
(* The manager cache, for any number of reconcile workers and ids: the     *)
(* sync.RWMutex protects the map, a warm call constructs nothing, and a    *)
(* cold one at most once per worker, and they never all wait for it.       *)
(***************************************************************************)
EXTENDS ManagerFactory, FiniteSetTheorems, TLAPS

Labels == {"out", "rlock", "lookup", "runlock", "lock", "wait", "store", "unlock"}

Typed ==
  /\ rmCache \in [Ids -> Nat] /\ built \in [Ids -> Nat]
  /\ pc \in [Workers -> Labels] /\ rmId \in [Workers -> Ids \cup {None}]
  /\ rm \in [Workers -> Nat] /\ warm \in [Workers -> BOOLEAN]
  /\ \A w \in Workers : pc[w] # "out" => rmId[w] \in Ids

\* The mutex is what the places in ManagerFor say, and excludes.
LockHeld ==
  /\ readers = {w \in Workers : pc[w] \in {"lookup", "runlock"}}
  /\ waiting = {w \in Workers : pc[w] = "wait"}
  /\ \A w \in Workers : pc[w] \in {"store", "unlock"} <=> writer = w
  /\ writer \in Workers \cup {None}
  /\ writer # None => readers = {}

\* Every manager constructed is cached at once, and a call that found its id
\* cached has not looked yet or found it.
CachedIsBuilt ==
  /\ rmCache = built
  /\ \A w \in Workers :
       warm[w] /\ pc[w] # "out" =>
         /\ built[rmId[w]] # 0
         /\ pc[w] \in {"rlock", "lookup", "runlock"}
         /\ pc[w] = "runlock" => rm[w] # 0

\* The workers that missed id i and have yet to construct a manager for it.
Missed(i) ==
  {w \in Workers : /\ rmId[w] = i
                   /\ \/ pc[w] \in {"lock", "wait", "store"}
                      \/ pc[w] = "runlock" /\ rm[w] = 0}

\* What was built and what may still be built fit the number of workers: a
\* worker joins those that missed only while nothing is built.
BuildsBounded == \A i \in Ids : built[i] + Cardinality(Missed(i)) =< Cardinality(Workers)

FactoryInv == Typed /\ LockHeld /\ CachedIsBuilt /\ BuildsBounded

-----------------------------------------------------------------------------
\* Any set of workers is finite and no larger than all of them.
LEMMA WorkersBound ==
  ASSUME NEW S \in SUBSET Workers
  PROVE  /\ IsFiniteSet(S) /\ Cardinality(S) \in Nat /\ Cardinality(Workers) \in Nat
         /\ Cardinality(S) =< Cardinality(Workers)
BY FactoryConstants, FS_Subset, FS_CardinalityType

\* Fewer workers are no more.
LEMMA FewerWorkers ==
  ASSUME NEW S \in SUBSET Workers, NEW T \in SUBSET S
  PROVE  Cardinality(T) \in Nat /\ Cardinality(T) =< Cardinality(S)
BY WorkersBound, FS_Subset, FS_CardinalityType

\* One worker fewer is one fewer.
LEMMA OneWorkerFewer ==
  ASSUME NEW S \in SUBSET Workers, NEW w \in S
  PROVE  Cardinality(S \ {w}) = Cardinality(S) - 1
BY WorkersBound, FS_RemoveElement

\* A step that builds nothing and in which no worker newly misses an id keeps the bound.
LEMMA NoNewMiss ==
  ASSUME Typed, BuildsBounded, built' = built,
         \A i \in Ids : Missed(i)' \subseteq Missed(i)
  PROVE  BuildsBounded'
<1>1. SUFFICES ASSUME NEW i \in Ids
               PROVE  built[i] + Cardinality(Missed(i)') =< Cardinality(Workers)
  BY DEF BuildsBounded
<1>2. Missed(i) \in SUBSET Workers /\ Missed(i)' \in SUBSET Missed(i)
  BY DEF Missed
<1>3. /\ Cardinality(Missed(i)') \in Nat /\ Cardinality(Missed(i)) \in Nat
      /\ Cardinality(Missed(i)') =< Cardinality(Missed(i))
      /\ Cardinality(Workers) \in Nat
  BY <1>2, FewerWorkers, WorkersBound
<1>4. built[i] \in Nat /\ built[i] + Cardinality(Missed(i)) =< Cardinality(Workers)
  BY DEF Typed, BuildsBounded
<1>5. QED
  BY <1>3, <1>4

-----------------------------------------------------------------------------
LEMMA FactoryInit == Init => FactoryInv
<1>1. SUFFICES ASSUME Init PROVE FactoryInv
  OBVIOUS
<1>2. Typed /\ LockHeld /\ CachedIsBuilt
  BY <1>1, FactoryConstants DEF Init, Typed, Labels, LockHeld, CachedIsBuilt
<1>3. ASSUME NEW i \in Ids PROVE built[i] + Cardinality(Missed(i)) =< Cardinality(Workers)
  <2>1. built[i] = 0 /\ Missed(i) \in SUBSET Workers
    BY <1>1 DEF Init, Missed
  <2>2. QED
    BY <2>1, WorkersBound
<1>4. QED
  BY <1>2, <1>3 DEF FactoryInv, BuildsBounded

LEMMA TypedStep == FactoryInv /\ [Next]_vars => Typed'
<1>1. SUFFICES ASSUME FactoryInv, [Next]_vars PROVE Typed'
  OBVIOUS
<1> USE DEF FactoryInv, Typed, Labels, Goto
<1>2. ASSUME NEW w \in Workers, NEW i \in Ids, Call(w, i) PROVE Typed'
  BY <1>1, <1>2 DEF Call, mutex
<1>3. ASSUME NEW w \in Workers, RLock(w) PROVE Typed'
  BY <1>1, <1>3 DEF RLock
<1>4. ASSUME NEW w \in Workers, Lookup(w) PROVE Typed'
  BY <1>1, <1>4 DEF Lookup, mutex
<1>5. ASSUME NEW w \in Workers, RUnlock(w) PROVE Typed'
  BY <1>1, <1>5 DEF RUnlock
<1>6. ASSUME NEW w \in Workers, Wait(w) PROVE Typed'
  BY <1>1, <1>6 DEF Wait
<1>7. ASSUME NEW w \in Workers, Lock(w) PROVE Typed'
  BY <1>1, <1>7 DEF Lock
<1>8. ASSUME NEW w \in Workers, Store(w) PROVE Typed'
  BY <1>1, <1>8 DEF Store, mutex
<1>9. ASSUME NEW w \in Workers, Unlock(w) PROVE Typed'
  BY <1>1, <1>9 DEF Unlock
<1>10. CASE UNCHANGED vars
  BY <1>1, <1>10 DEF vars
<1>11. QED
  BY <1>1, <1>2, <1>3, <1>4, <1>5, <1>6, <1>7, <1>8, <1>9, <1>10 DEF Next, Step

LEMMA LockHeldStep == FactoryInv /\ [Next]_vars => LockHeld'
<1>1. SUFFICES ASSUME FactoryInv, [Next]_vars PROVE LockHeld'
  OBVIOUS
<1> USE FactoryConstants DEF FactoryInv, Typed, LockHeld, Goto
<1>2. ASSUME NEW w \in Workers, NEW i \in Ids, Call(w, i) PROVE LockHeld'
  BY <1>1, <1>2 DEF Call, mutex
<1>3. ASSUME NEW w \in Workers, RLock(w) PROVE LockHeld'
  BY <1>1, <1>3 DEF RLock
<1>4. ASSUME NEW w \in Workers, Lookup(w) PROVE LockHeld'
  BY <1>1, <1>4 DEF Lookup, mutex
<1>5. ASSUME NEW w \in Workers, RUnlock(w) PROVE LockHeld'
  BY <1>1, <1>5 DEF RUnlock
<1>6. ASSUME NEW w \in Workers, Wait(w) PROVE LockHeld'
  BY <1>1, <1>6 DEF Wait
<1>7. ASSUME NEW w \in Workers, Lock(w) PROVE LockHeld'
  BY <1>1, <1>7 DEF Lock
<1>8. ASSUME NEW w \in Workers, Store(w) PROVE LockHeld'
  BY <1>1, <1>8 DEF Store, mutex
<1>9. ASSUME NEW w \in Workers, Unlock(w) PROVE LockHeld'
  BY <1>1, <1>9 DEF Unlock
<1>10. CASE UNCHANGED vars
  BY <1>1, <1>10 DEF vars
<1>11. QED
  BY <1>1, <1>2, <1>3, <1>4, <1>5, <1>6, <1>7, <1>8, <1>9, <1>10 DEF Next, Step

LEMMA CachedIsBuiltStep == FactoryInv /\ [Next]_vars => CachedIsBuilt'
<1>1. SUFFICES ASSUME FactoryInv, [Next]_vars PROVE CachedIsBuilt'
  OBVIOUS
<1> USE DEF FactoryInv, Typed, CachedIsBuilt, Goto
<1>2. ASSUME NEW w \in Workers, NEW i \in Ids, Call(w, i) PROVE CachedIsBuilt'
  BY <1>1, <1>2 DEF Call, mutex
<1>3. ASSUME NEW w \in Workers, RLock(w) PROVE CachedIsBuilt'
  BY <1>1, <1>3 DEF RLock
<1>4. ASSUME NEW w \in Workers, Lookup(w) PROVE CachedIsBuilt'
  BY <1>1, <1>4 DEF Lookup, mutex
<1>5. ASSUME NEW w \in Workers, RUnlock(w) PROVE CachedIsBuilt'
  BY <1>1, <1>5 DEF RUnlock
<1>6. ASSUME NEW w \in Workers, Wait(w) PROVE CachedIsBuilt'
  BY <1>1, <1>6 DEF Wait
<1>7. ASSUME NEW w \in Workers, Lock(w) PROVE CachedIsBuilt'
  BY <1>1, <1>7 DEF Lock
<1>8. ASSUME NEW w \in Workers, Store(w) PROVE CachedIsBuilt'
  BY <1>1, <1>8 DEF Store, mutex
<1>9. ASSUME NEW w \in Workers, Unlock(w) PROVE CachedIsBuilt'
  BY <1>1, <1>9 DEF Unlock
<1>10. CASE UNCHANGED vars
  BY <1>1, <1>10 DEF vars
<1>11. QED
  BY <1>1, <1>2, <1>3, <1>4, <1>5, <1>6, <1>7, <1>8, <1>9, <1>10 DEF Next, Step

LEMMA BuildsBoundedStep == FactoryInv /\ [Next]_vars => BuildsBounded'
<1>1. SUFFICES ASSUME FactoryInv, [Next]_vars PROVE BuildsBounded'
  OBVIOUS
<1>2. ASSUME NEW w \in Workers, NEW i \in Ids, Call(w, i) PROVE BuildsBounded'
  <2>1. built' = built /\ \A j \in Ids : Missed(j)' \subseteq Missed(j)
    BY <1>1, <1>2 DEF Call, Goto, Missed, FactoryInv, Typed
  <2>2. QED
    BY <1>1, <2>1, NoNewMiss DEF FactoryInv
<1>3. ASSUME NEW w \in Workers, RLock(w) PROVE BuildsBounded'
  <2>1. built' = built /\ \A j \in Ids : Missed(j)' \subseteq Missed(j)
    BY <1>1, <1>3 DEF RLock, Goto, Missed, FactoryInv, Typed
  <2>2. QED
    BY <1>1, <2>1, NoNewMiss DEF FactoryInv
<1>4. ASSUME NEW w \in Workers, Lookup(w) PROVE BuildsBounded'
  <2>1. SUFFICES ASSUME NEW j \in Ids
                 PROVE  built'[j] + Cardinality(Missed(j)') =< Cardinality(Workers)
    BY DEF BuildsBounded
  <2>2. built' = built /\ built[j] \in Nat /\ rmCache[j] = built[j]
    BY <1>1, <1>4 DEF Lookup, FactoryInv, Typed, CachedIsBuilt
  <2>3. CASE built[j] = 0
    <3>1. Missed(j)' \in SUBSET Workers
      BY DEF Missed
    <3>2. QED
      BY <2>2, <2>3, <3>1, WorkersBound
  <2>4. CASE built[j] # 0
    <3>1. Missed(j)' \in SUBSET Missed(j) /\ Missed(j) \in SUBSET Workers
      BY <1>1, <1>4, <2>2, <2>4 DEF Lookup, Goto, Missed, FactoryInv, Typed
    <3>2. built[j] + Cardinality(Missed(j)) =< Cardinality(Workers)
      BY <1>1 DEF FactoryInv, BuildsBounded
    <3>3. QED
      BY <2>2, <3>1, <3>2, FewerWorkers, WorkersBound
  <2>5. QED
    BY <2>3, <2>4
<1>5. ASSUME NEW w \in Workers, RUnlock(w) PROVE BuildsBounded'
  <2>1. built' = built /\ \A j \in Ids : Missed(j)' \subseteq Missed(j)
    BY <1>1, <1>5 DEF RUnlock, Goto, Missed, FactoryInv, Typed
  <2>2. QED
    BY <1>1, <2>1, NoNewMiss DEF FactoryInv
<1>6. ASSUME NEW w \in Workers, Wait(w) \/ Lock(w) \/ Unlock(w) PROVE BuildsBounded'
  <2>1. built' = built /\ \A j \in Ids : Missed(j)' \subseteq Missed(j)
    BY <1>1, <1>6 DEF Wait, Lock, Unlock, Goto, Missed, FactoryInv, Typed
  <2>2. QED
    BY <1>1, <2>1, NoNewMiss DEF FactoryInv
<1>7. ASSUME NEW w \in Workers, Store(w) PROVE BuildsBounded'
  <2>1. SUFFICES ASSUME NEW j \in Ids
                 PROVE  built'[j] + Cardinality(Missed(j)') =< Cardinality(Workers)
    BY DEF BuildsBounded
  <2>2. /\ built[j] \in Nat /\ Missed(j) \in SUBSET Workers
        /\ built[j] + Cardinality(Missed(j)) =< Cardinality(Workers)
    BY <1>1 DEF FactoryInv, Typed, BuildsBounded, Missed
  <2>3. CASE rmId[w] = j
    <3>1. built'[j] = built[j] + 1
      BY <1>1, <1>7, <2>3 DEF Store, FactoryInv, Typed
    <3>2. w \in Missed(j) /\ Missed(j)' = Missed(j) \ {w}
      BY <1>1, <1>7, <2>3 DEF Store, Goto, Missed, FactoryInv, Typed
    <3>3. Cardinality(Missed(j)') = Cardinality(Missed(j)) - 1
      BY <2>2, <3>2, OneWorkerFewer
    <3>4. QED
      BY <2>2, <3>1, <3>3, WorkersBound
  <2>4. CASE rmId[w] # j
    <3>1. built'[j] = built[j]
      BY <1>1, <1>7, <2>4 DEF Store, FactoryInv, Typed
    <3>2. Missed(j)' = Missed(j)
      BY <1>1, <1>7, <2>4 DEF Store, Goto, Missed, FactoryInv, Typed
    <3>3. QED
      BY <2>2, <3>1, <3>2
  <2>5. QED
    BY <2>3, <2>4
<1>8. CASE UNCHANGED vars
  <2>1. built' = built /\ \A j \in Ids : Missed(j)' \subseteq Missed(j)
    BY <1>8 DEF vars, Missed
  <2>2. QED
    BY <1>1, <2>1, NoNewMiss DEF FactoryInv
<1>9. QED
  BY <1>1, <1>2, <1>3, <1>4, <1>5, <1>6, <1>7, <1>8 DEF Next, Step

\* The mutex, the cache and the count of what was built agree at all times.
THEOREM FactoryInvariant == Spec => []FactoryInv
<1>1. FactoryInv /\ [Next]_vars => FactoryInv'
  BY TypedStep, LockHeldStep, CachedIsBuiltStep, BuildsBoundedStep DEF FactoryInv
<1>2. QED
  BY FactoryInit, <1>1, PTL DEF Spec

\* Whatever the number of workers, no two are in the map at once when one writes it.
THEOREM MapAccessExclusive == Spec => []NoConcurrentMapWrite
<1>1. FactoryInv => NoConcurrentMapWrite
  BY FactoryConstants DEF FactoryInv, LockHeld, NoConcurrentMapWrite
<1>2. QED
  BY FactoryInvariant, <1>1, PTL

\* Whatever the interleaving, a call for an id that is cached when it starts
\* never goes on to construct a manager.
THEOREM WarmCallsReuse == Spec => []WarmCallNeverBuilds
<1>1. FactoryInv => WarmCallNeverBuilds
  BY DEF FactoryInv, CachedIsBuilt, WarmCallNeverBuilds
<1>2. QED
  BY FactoryInvariant, <1>1, PTL

\* The lookup and the insertion are not atomic, but the managers constructed
\* for one id never outnumber the workers, however long the controller runs.
THEOREM BuildsAreBounded == Spec => []BuiltAtMostPerWorker
<1>1. FactoryInv => BuiltAtMostPerWorker
  <2>1. SUFFICES ASSUME FactoryInv, NEW i \in Ids PROVE built[i] =< Cardinality(Workers)
    BY DEF BuiltAtMostPerWorker
  <2>2. /\ built[i] \in Nat /\ Missed(i) \in SUBSET Workers
        /\ built[i] + Cardinality(Missed(i)) =< Cardinality(Workers)
    BY <2>1 DEF FactoryInv, Typed, BuildsBounded, Missed
  <2>3. QED
    BY <2>2, WorkersBound
<1>2. QED
  BY FactoryInvariant, <1>1, PTL

\* A worker inside ManagerFor whose next step is open to it: only the two locks
\* can keep it waiting.
CanGoOn(w) ==
  /\ pc[w] # "out"
  /\ pc[w] = "rlock" => writer = None /\ waiting = {}
  /\ pc[w] = "wait" => readers = {} /\ writer = None

\* Some worker inside ManagerFor can go on, as long as there is one.
SomeoneCanGoOn == (\E w \in Workers : pc[w] # "out") => \E w \in Workers : CanGoOn(w)

\* The workers never all wait for each other in the cache (manager_factory.go
\* 60-91): a waiting writer keeps new readers out, but the readers it waits for
\* and the writer before it never need a lock again to leave.
THEOREM FactoryNeverDeadlocks == Spec => []SomeoneCanGoOn
<1>1. FactoryInv => SomeoneCanGoOn
  <2>1. SUFFICES ASSUME FactoryInv, NEW w \in Workers, pc[w] # "out"
                 PROVE  \E x \in Workers : CanGoOn(x)
    BY DEF SomeoneCanGoOn
  <2>2. pc \in [Workers -> Labels] /\ LockHeld
    BY <2>1 DEF FactoryInv, Typed
  <2>3. CASE writer # None
    <3>1. writer \in Workers /\ CanGoOn(writer)
      BY <2>2, <2>3 DEF LockHeld, CanGoOn
    <3>2. QED
      BY <3>1
  <2>4. CASE writer = None /\ readers # {}
    <3>1. PICK x \in Workers : pc[x] \in {"lookup", "runlock"}
      BY <2>2, <2>4 DEF LockHeld
    <3>2. CanGoOn(x)
      BY <3>1 DEF CanGoOn
    <3>3. QED
      BY <3>2
  <2>5. CASE writer = None /\ readers = {} /\ waiting # {}
    <3>1. PICK x \in Workers : pc[x] = "wait"
      BY <2>2, <2>5 DEF LockHeld
    <3>2. CanGoOn(x)
      BY <2>5, <3>1 DEF CanGoOn
    <3>3. QED
      BY <3>2
  <2>6. CASE writer = None /\ readers = {} /\ waiting = {}
    BY <2>1, <2>6 DEF CanGoOn
  <2>7. QED
    BY <2>3, <2>4, <2>5, <2>6
<1>2. QED
  BY FactoryInvariant, <1>1, PTL
=============================================================================
