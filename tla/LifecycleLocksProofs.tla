------------------------- MODULE LifecycleLocksProofs -------------------------
(***************************************************************************)
(* Machine-checked proofs about LifecycleLocks, for every value of its     *)
(* constants: the weak map implements InstanceMutex.                       *)
(***************************************************************************)
EXTENDS LifecycleLocks, TLAPS

\* A handler owns an Arc exactly between finding its lock and letting go of it.
Owning == {"join", "wait", "hold", "drop"}

ArcInv == \A t \in Tasks : arc[t] # Nil <=> pc[t] \in Owning

\* The map refers to the lock that the handlers of an instance own, and to no
\* lock twice.
EntryInv ==
    /\ \A t \in Tasks : arc[t] # Nil => entry[want[t]] = arc[t]
    /\ \A i, j \in Instances : entry[i] = entry[j] /\ entry[i] # Nil => i = j

\* A permit is with a handler of that lock that is in or about to be.
HolderInv ==
    /\ \A t \in Tasks : pc[t] = "hold" => holder[arc[t]] = t
    /\ \A l \in Locks : holder[l] # Nil =>
          arc[holder[l]] = l /\ pc[holder[l]] \in {"wait", "hold"}

LockInv == TypeOK /\ ArcInv /\ EntryInv /\ HolderInv

-------------------------------------------------------------------------------

LEMMA InitLock == Init => LockInv
  BY LocksAssumption DEF Init, LockInv, TypeOK, ArcInv, EntryInv, HolderInv, Owning

\* Passing a permit on keeps the permits typed, and leaves those of other locks;
\* the new holder is a waiter of the lock that was not the holder.
LEMMA PassOnPermit ==
    ASSUME TypeOK, NEW l \in Locks, PassOn(l)
    PROVE  /\ holder' \in [Locks -> Tasks \cup {Nil}] /\ ahead' \in [Tasks -> SUBSET Tasks]
           /\ \A m \in Locks : m # l => holder'[m] = holder[m]
           /\ holder'[l] # Nil => holder'[l] \in Waiters(l)
  BY DEF TypeOK, PassOn, Waiters

\* Every step of a handler keeps the invariant.
LEMMA StepLock ==
    ASSUME LockInv, [Next]_vars
    PROVE  LockInv'
<1>. USE LocksAssumption DEF LockInv
<1>1. ASSUME NEW t \in Tasks, NEW i \in Instances, Ask(t, i)
      PROVE  LockInv'
  BY <1>1 DEF Ask, Goto, TypeOK, ArcInv, EntryInv, HolderInv, Owning
<1>2. ASSUME NEW t \in Tasks, Retain(t)
      PROVE  LockInv'
  BY <1>2 DEF Retain, Goto, Alive, TypeOK, ArcInv, EntryInv, HolderInv, Owning
<1>3. ASSUME NEW t \in Tasks, Get(t)
      PROVE  LockInv'
  <2>1. /\ ArcInv' /\ TypeOK'
    BY <1>3 DEF Get, Goto, Alive, TypeOK, ArcInv, Owning
  <2>2. EntryInv'
    <3>1. CASE entry[want[t]] # Nil /\ Alive(entry[want[t]])
      BY <1>3, <3>1 DEF Get, TypeOK, EntryInv
    <3>2. ASSUME NEW new \in Locks, ~Alive(new), \A i \in Instances : entry[i] # new,
                 arc' = [arc EXCEPT ![t] = new],
                 entry' = [entry EXCEPT ![want[t]] = new],
                 entry[want[t]] = Nil \/ ~Alive(entry[want[t]])
          PROVE  EntryInv'
      <4>1. \A u \in Tasks : arc[u] # Nil => want[u] # want[t]
        BY <3>2 DEF Alive, TypeOK, EntryInv
      <4>. QED  BY <1>3, <3>2, <4>1 DEF Get, TypeOK, EntryInv
    <3>. QED  BY <1>3, <3>1, <3>2 DEF Get
  <2>3. HolderInv'
    BY <1>3 DEF Get, Goto, TypeOK, ArcInv, HolderInv, Owning
  <2>. QED  BY <2>1, <2>2, <2>3
<1>4. ASSUME NEW t \in Tasks, Join(t)
      PROVE  LockInv'
  <2>1. arc[t] \in Locks
    BY <1>4 DEF Join, TypeOK, ArcInv, Owning
  <2>2. TypeOK'
    <3>1. Waiters(arc[t]) \in SUBSET Tasks
      BY DEF Waiters
    <3>2. pc' \in [Tasks -> {"idle", "ask", "get", "join", "wait", "hold", "drop"}]
      BY <1>4 DEF Join, Goto, TypeOK
    <3>3. ASSUME NEW W \in SUBSET Tasks, ahead' = [ahead EXCEPT ![t] = W]
          PROVE  ahead' \in [Tasks -> SUBSET Tasks]
      BY <3>3 DEF TypeOK
    <3>4. ahead' \in [Tasks -> SUBSET Tasks]
      BY <1>4, <3>1, <3>3 DEF Join, TypeOK
    <3>5. holder' \in [Locks -> Tasks \cup {Nil}]
      BY <1>4, <2>1 DEF Join, TypeOK
    <3>. QED  BY <1>4, <3>2, <3>4, <3>5 DEF Join, TypeOK
  <2>3. ArcInv' /\ EntryInv'
    BY <1>4 DEF Join, Goto, TypeOK, ArcInv, EntryInv, Owning
  <2>4. HolderInv'
    <3>1. \A u \in Tasks : pc[u] = "hold" => arc[u] \in Locks
      BY DEF TypeOK, ArcInv, Owning
    <3>2. CASE holder[arc[t]] = Nil
      BY <1>4, <2>1, <3>1, <3>2 DEF Join, Goto, TypeOK, HolderInv
    <3>3. CASE holder[arc[t]] # Nil
      BY <1>4, <3>3 DEF Join, Goto, TypeOK, HolderInv
    <3>. QED  BY <3>2, <3>3
  <2>. QED  BY <2>2, <2>3, <2>4
<1>5. ASSUME NEW t \in Tasks, Enter(t)
      PROVE  LockInv'
  BY <1>5 DEF Enter, Goto, TypeOK, ArcInv, EntryInv, HolderInv, Owning
<1>6. ASSUME NEW t \in Tasks, Goto(t, "drop"), PassOn(arc[t]), holder[arc[t]] = t,
             pc[t] \in {"wait", "hold"}, UNCHANGED <<want, map, entry, arc>>
      PROVE  LockInv'
  <2>1. arc[t] \in Locks
    BY <1>6 DEF TypeOK, ArcInv, Owning
  <2>2. TypeOK' /\ ArcInv' /\ EntryInv'
    BY <1>6, <2>1, PassOnPermit DEF Goto, TypeOK, ArcInv, EntryInv, Owning
  <2>3. HolderInv'
    BY <1>6, <2>1, PassOnPermit DEF Goto, Waiters, TypeOK, ArcInv, HolderInv, Owning
  <2>. QED  BY <2>2, <2>3
<1>7. ASSUME NEW t \in Tasks, Unlock(t)
      PROVE  LockInv'
  BY <1>6, <1>7 DEF Unlock, HolderInv
<1>8. ASSUME NEW t \in Tasks, DropArc(t)
      PROVE  LockInv'
  BY <1>8 DEF DropArc, Goto, TypeOK, ArcInv, EntryInv, HolderInv, Owning
<1>9. ASSUME NEW t \in Tasks, Cancel(t)
      PROVE  LockInv'
  <2>1. CASE pc[t] = "ask"
    BY <1>9, <2>1 DEF Cancel, Goto, TypeOK, ArcInv, EntryInv, HolderInv, Owning
  <2>2. CASE pc[t] = "wait" /\ holder[arc[t]] = t
    BY <1>6, <1>9, <2>2 DEF Cancel
  <2>3. CASE pc[t] = "wait" /\ holder[arc[t]] # t
    BY <1>9, <2>3 DEF Cancel, Goto, TypeOK, ArcInv, EntryInv, HolderInv, Owning
  <2>. QED  BY <1>9, <2>1, <2>2, <2>3 DEF Cancel
<1>10. CASE UNCHANGED vars
  BY <1>10 DEF vars, TypeOK, ArcInv, EntryInv, HolderInv, Owning
<1>. QED  BY <1>1, <1>2, <1>3, <1>4, <1>5, <1>7, <1>8, <1>9, <1>10 DEF Next, Proceed

LEMMA LockInvariant == Spec => []LockInv
  BY InitLock, StepLock, PTL DEF Spec

\* However the map is pruned and refilled, the handlers of an instance own one lock,
\* and handlers of two instances own two.
THEOREM OneLock == Spec => []OneLockPerInstance
<1>1. LockInv => OneLockPerInstance
  BY DEF LockInv, TypeOK, EntryInv, OneLockPerInstance
<1>. QED  BY <1>1, LockInvariant, PTL

-------------------------------------------------------------------------------
(* Refinement. *)

\* A handler that goes in finds no other handler of its instance in.
LEMMA AloneInside ==
    ASSUME LockInv, NEW t \in Tasks, NEW u \in Tasks,
           arc[t] # Nil, holder[arc[t]] \in {t, Nil}, pc[u] = "hold", u # t
    PROVE  want[u] # want[t]
  BY LocksAssumption DEF LockInv, TypeOK, ArcInv, EntryInv, HolderInv, Owning

\* Every step of the locks is a step of the mutex, or changes nothing of it.
LEMMA StepMutex ==
    ASSUME LockInv, [Next]_vars
    PROVE  [Mutex!Next]_<<phaseOf, want>>
<1>. USE DEF LockInv
<1>1. ASSUME NEW t \in Tasks, NEW i \in Instances, Ask(t, i)
      PROVE  Mutex!Ask(t, i)
  BY <1>1 DEF Ask, Goto, TypeOK, Mutex!Ask, phaseOf
<1>2. ASSUME NEW t \in Tasks, Goto(t, "hold"), UNCHANGED want,
             pc[t] \in {"join", "wait"}, holder[arc[t]] \in {t, Nil}
      PROVE  Mutex!Enter(t)
  <2>1. arc[t] # Nil
    BY <1>2 DEF ArcInv, Owning
  <2>2. \A u \in Tasks : phaseOf[u] = "in" => want[u] # want[t]
    BY <1>2, <2>1, AloneInside DEF phaseOf
  <2>3. /\ phaseOf[t] = "waiting"
        /\ phaseOf' = [phaseOf EXCEPT ![t] = "in"]
    BY <1>2 DEF Goto, TypeOK, phaseOf
  <2>. QED  BY <1>2, <2>2, <2>3 DEF Mutex!Enter
<1>3. ASSUME NEW t \in Tasks, NEW step \in {"idle", "drop"}, Goto(t, step), UNCHANGED want,
             pc[t] \in {"ask", "wait", "hold"}
      PROVE  Mutex!Leave(t)
  BY <1>3 DEF Goto, TypeOK, Mutex!Leave, phaseOf
<1>4. ASSUME NEW t \in Tasks, Retain(t) \/ Get(t) \/ DropArc(t)
      PROVE  UNCHANGED <<phaseOf, want>>
  BY <1>4 DEF Retain, Get, DropArc, Goto, TypeOK, phaseOf
<1>5. ASSUME NEW t \in Tasks, Join(t)
      PROVE  Mutex!Enter(t) \/ UNCHANGED <<phaseOf, want>>
  <2>1. CASE holder[arc[t]] = Nil
    BY <1>2, <1>5, <2>1 DEF Join
  <2>2. CASE holder[arc[t]] # Nil
    BY <1>5, <2>2 DEF Join, Goto, TypeOK, phaseOf
  <2>. QED  BY <2>1, <2>2
<1>6. ASSUME NEW t \in Tasks, Enter(t)
      PROVE  Mutex!Enter(t)
  BY <1>2, <1>6 DEF Enter
<1>7. ASSUME NEW t \in Tasks, Unlock(t) \/ Cancel(t)
      PROVE  Mutex!Leave(t)
  BY <1>3, <1>7 DEF Unlock, Cancel
<1>8. CASE UNCHANGED vars
  BY <1>8 DEF vars, phaseOf
<1>. QED  BY <1>1, <1>4, <1>5, <1>6, <1>7, <1>8 DEF Next, Proceed, Mutex!Next

\* The weak map of locks is a mutual exclusion per instance.
THEOREM LocksImplementMutex == Spec => ImplementsMutex
<1>1. Init => Mutex!Init
  BY DEF Init, Mutex!Init, phaseOf
<1>2. LockInv /\ [Next]_vars => [Mutex!Next]_<<phaseOf, want>>
  BY StepMutex
<1>. QED  BY <1>1, <1>2, LockInvariant, PTL DEF Spec, ImplementsMutex, Mutex!Spec

\* No two handlers of one instance hold its guard together.
THEOREM GuardsExclusive == Spec => []Mutex!Exclusive
<1>1. LockInv => Mutex!Exclusive
  BY AloneInside DEF LockInv, ArcInv, HolderInv, Owning, Mutex!Exclusive, phaseOf
<1>. QED  BY <1>1, LockInvariant, PTL
===============================================================================
