--------------------------- MODULE ManagerFactory ---------------------------
(***************************************************************************)
(* The cache of resource managers.  Reconcile workers call ManagerFor at   *)
(* the start of every pass; the factory keeps one resource manager per     *)
(* account, region and role behind a sync.RWMutex.  The lookup and the     *)
(* insertion hold the lock separately and nothing is checked again between *)
(* them.  A manager is the number of its construction for its id.          *)
(*                                                                         *)
(* Source: pkg/resource/state_machine/manager_factory.go; the factories of *)
(* the other two kinds are generated from the same template.               *)
(***************************************************************************)
EXTENDS Naturals, FiniteSets

CONSTANTS
  Workers,   \* the reconcile goroutines of one kind
  Ids,       \* account/region/roleARN combinations
  None       \* no worker, no id

ASSUME FactoryConstants ==
  /\ IsFiniteSet(Workers) /\ None \notin Workers
  /\ None \notin Ids

VARIABLES
  rmCache,   \* id -> the manager cached for it, 0 when there is none
  readers,   \* the workers that hold the read lock
  writer,    \* the worker that holds the write lock, or None
  waiting,   \* the workers that wait for the write lock
  pc,        \* worker -> its place in ManagerFor
  rmId,      \* worker -> the id it asked for
  rm,        \* worker -> the manager it has, 0 for none
  built,     \* ghost: id -> how many managers were constructed
  warm       \* ghost: worker -> was its id cached when it called

mutex == <<readers, writer, waiting>>
vars == <<rmCache, readers, writer, waiting, pc, rmId, rm, built, warm>>

Init ==
  /\ rmCache = [i \in Ids |-> 0] /\ built = [i \in Ids |-> 0]
  /\ readers = {} /\ writer = None /\ waiting = {}
  /\ pc = [w \in Workers |-> "out"] /\ rmId = [w \in Workers |-> None]
  /\ rm = [w \in Workers |-> 0] /\ warm = [w \in Workers |-> FALSE]

Goto(w, label) == pc' = [pc EXCEPT ![w] = label]

\* A pass begins: the runtime asks for the manager of the resource's id.
Call(w, i) ==
  /\ pc[w] = "out"
  /\ Goto(w, "rlock")
  /\ rmId' = [rmId EXCEPT ![w] = i] /\ rm' = [rm EXCEPT ![w] = 0]
  /\ warm' = [warm EXCEPT ![w] = rmCache[i] # 0]
  /\ UNCHANGED <<rmCache, mutex, built>>

\* Variant: the lookup does not take the lock.
UnlockedLookup(w) ==
  /\ pc[w] = "rlock"
  /\ readers' = readers \cup {w} /\ Goto(w, "lookup")
  /\ UNCHANGED <<rmCache, writer, waiting, rmId, rm, built, warm>>

\* f.RLock(): a waiting writer keeps new readers out (sync.RWMutex).
RLock(w) ==
  /\ pc[w] = "rlock"
  /\ writer = None /\ waiting = {}
  /\ readers' = readers \cup {w} /\ Goto(w, "lookup")
  /\ UNCHANGED <<rmCache, writer, waiting, rmId, rm, built, warm>>

\* rm, found := f.rmCache[rmId]
Lookup(w) ==
  /\ pc[w] = "lookup"
  /\ rm' = [rm EXCEPT ![w] = rmCache[rmId[w]]] /\ Goto(w, "runlock")
  /\ UNCHANGED <<rmCache, mutex, rmId, built, warm>>

\* Variant: a miss is taken for granted.
MissAlways(w) ==
  /\ pc[w] = "runlock"
  /\ readers' = readers \ {w} /\ Goto(w, "lock")
  /\ UNCHANGED <<rmCache, writer, waiting, rmId, rm, built, warm>>

\* f.RUnlock(), and the return when the manager was found.
RUnlock(w) ==
  /\ pc[w] = "runlock"
  /\ readers' = readers \ {w} /\ Goto(w, IF rm[w] # 0 THEN "out" ELSE "lock")
  /\ UNCHANGED <<rmCache, writer, waiting, rmId, rm, built, warm>>

\* f.Lock(), in the two steps of a sync.RWMutex: wait, then take it when the
\* readers that were in have left.
Wait(w) ==
  /\ pc[w] = "lock"
  /\ waiting' = waiting \cup {w} /\ Goto(w, "wait")
  /\ UNCHANGED <<rmCache, readers, writer, rmId, rm, built, warm>>

Lock(w) ==
  /\ pc[w] = "wait"
  /\ readers = {} /\ writer = None
  /\ writer' = w /\ waiting' = waiting \ {w} /\ Goto(w, "store")
  /\ UNCHANGED <<rmCache, readers, rmId, rm, built, warm>>

\* newResourceManager(...), which never fails, and f.rmCache[rmId] = rm.
Store(w) ==
  /\ pc[w] = "store"
  /\ LET i == rmId[w] IN
     /\ built' = [built EXCEPT ![i] = @ + 1]
     /\ rmCache' = [rmCache EXCEPT ![i] = built[i] + 1]
     /\ rm' = [rm EXCEPT ![w] = built[i] + 1]
  /\ Goto(w, "unlock")
  /\ UNCHANGED <<mutex, rmId, warm>>

\* Variant: the deferred unlock is missing.
NoUnlock(w) ==
  /\ pc[w] = "unlock"
  /\ Goto(w, "out")
  /\ UNCHANGED <<rmCache, mutex, rmId, rm, built, warm>>

\* The deferred f.Unlock(), and the return.
Unlock(w) ==
  /\ pc[w] = "unlock"
  /\ writer' = None /\ Goto(w, "out")
  /\ UNCHANGED <<rmCache, readers, waiting, rmId, rm, built, warm>>

Step(w) ==
  \/ RLock(w) \/ Lookup(w) \/ RUnlock(w)
  \/ Wait(w) \/ Lock(w) \/ Store(w) \/ Unlock(w)

Next == \E w \in Workers : Step(w) \/ \E i \in Ids : Call(w, i)

\* A goroutine inside ManagerFor is scheduled when it can take its next step.
\* Weak fairness is enough: a waiting writer keeps new readers out, and every
\* worker writes at most once for an id.
Fairness == \A w \in Workers : WF_vars(Step(w))

Spec == Init /\ [][Next]_vars
FairSpec == Spec /\ Fairness

-----------------------------------------------------------------------------
\* The map is never read or written while a worker writes it: Go maps are not
\* safe for concurrent use (the embedded sync.RWMutex, manager_factory.go 35).
NoConcurrentMapWrite ==
  \A w, x \in Workers :
    pc[w] = "store" /\ x # w => pc[x] \notin {"lookup", "store"}

\* Once a manager is cached for an id, a call that starts later reuses it and
\* constructs nothing (manager_factory.go 58-60).
WarmCallNeverBuilds ==
  \A w \in Workers : warm[w] => pc[w] \notin {"lock", "wait", "store", "unlock"}

\* "This helps us to avoid creating multiple resource managers for the same
\* account/region/roleARN combination" (manager_factory.go 58-60): calls that miss
\* together each construct one, but never more than one per worker and id.
BuiltAtMostPerWorker == \A i \in Ids : built[i] =< Cardinality(Workers)

\* Every call returns.
EveryCallReturns == \A w \in Workers : (pc[w] # "out") ~> (pc[w] = "out")
=============================================================================
