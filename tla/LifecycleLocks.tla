---------------------------- MODULE LifecycleLocks ----------------------------
(***************************************************************************)
(* InstanceLifecycleLocks::lock (protocol-simulation/src/lib.rs): a map    *)
(* from instance ids to weak references, behind a mutex of its own, of     *)
(* mutexes that live only as long as a handler waits for or holds them.    *)
(* The mutexes are tokio's: a guard that is dropped goes to the waiter     *)
(* that has waited longest.                                                *)
(***************************************************************************)
CONSTANTS
    Tasks,      \* handlers and timers
    Instances,
    Locks,      \* allocations of Arc<Mutex<()>>
    Nil

ASSUME LocksAssumption == Nil \notin Locks \cup Tasks

VARIABLES
    pc, want,
    map,     \* owner of the mutex of the map
    entry,   \* the map: the Weak of each instance, dangling or not
    arc,     \* the Arc a handler owns
    holder,  \* owner of the permit of each lock
    ahead    \* the waiters of the same lock that came before a waiter

vars == <<pc, want, map, entry, arc, holder, ahead>>

TypeOK ==
    /\ pc \in [Tasks -> {"idle", "ask", "get", "join", "wait", "hold", "drop"}]
    /\ want \in [Tasks -> Instances]
    /\ map \in Tasks \cup {Nil}
    /\ entry \in [Instances -> Locks \cup {Nil}]
    /\ arc \in [Tasks -> Locks \cup {Nil}]
    /\ holder \in [Locks -> Tasks \cup {Nil}]
    /\ ahead \in [Tasks -> SUBSET Tasks]

Init ==
    /\ pc = [t \in Tasks |-> "idle"]
    /\ want \in [Tasks -> Instances]
    /\ map = Nil
    /\ entry = [i \in Instances |-> Nil]
    /\ arc = [t \in Tasks |-> Nil]
    /\ holder = [l \in Locks |-> Nil]
    /\ ahead = [t \in Tasks |-> {}]

Goto(t, step) == pc' = [pc EXCEPT ![t] = step]

\* Weak::strong_count > 0
Alive(l) == \E t \in Tasks : arc[t] = l

\* Mutant: a lock that one handler alone has counts as unused.
AliveIfShared(l) == \E t, u \in Tasks : t # u /\ arc[t] = l /\ arc[u] = l

Waiters(l) == {t \in Tasks : pc[t] = "wait" /\ arc[t] = l /\ holder[l] # t}

-------------------------------------------------------------------------------

Ask(t, i) ==
    /\ pc[t] = "idle"
    /\ Goto(t, "ask")
    /\ want' = [want EXCEPT ![t] = i]
    /\ UNCHANGED <<map, entry, arc, holder, ahead>>

\* Mutant: the dangling references are told from the live ones one handler late.
RetainShared(t) ==
    /\ pc[t] = "ask" /\ map = Nil /\ map' = t
    /\ entry' = [i \in Instances |-> IF AliveIfShared(entry[i]) THEN entry[i] ELSE Nil]
    /\ Goto(t, "get")
    /\ UNCHANGED <<want, arc, holder, ahead>>

\* locks.lock().await, then retain: the dangling references go.
Retain(t) ==
    /\ pc[t] = "ask" /\ map = Nil /\ map' = t
    /\ entry' = [i \in Instances |->
                    IF entry[i] # Nil /\ Alive(entry[i]) THEN entry[i] ELSE Nil]
    /\ Goto(t, "get")
    /\ UNCHANGED <<want, arc, holder, ahead>>

\* Mutant: the instance always gets a new lock.
GetNew(t) ==
    /\ pc[t] = "get" /\ map' = Nil
    /\ \E l \in Locks :
          /\ ~Alive(l) /\ \A i \in Instances : entry[i] # l
          /\ arc' = [arc EXCEPT ![t] = l]
          /\ entry' = [entry EXCEPT ![want[t]] = l]
    /\ Goto(t, "join")
    /\ UNCHANGED <<want, holder, ahead>>

\* The reference is upgraded, unless the last owner went in the meantime: then,
\* and when there is none, a new lock is put in. The map is given back.
Get(t) ==
    /\ pc[t] = "get" /\ map' = Nil
    /\ LET l == entry[want[t]] IN
       \/ /\ l # Nil /\ Alive(l)
          /\ arc' = [arc EXCEPT ![t] = l]
          /\ UNCHANGED entry
       \/ /\ l = Nil \/ ~Alive(l)
          /\ \E new \in Locks :
                /\ ~Alive(new) /\ \A i \in Instances : entry[i] # new
                /\ arc' = [arc EXCEPT ![t] = new]
                /\ entry' = [entry EXCEPT ![want[t]] = new]
    /\ Goto(t, "join")
    /\ UNCHANGED <<want, holder, ahead>>

\* The first poll of lock_owned: the permit, or the end of the queue.
Join(t) ==
    /\ pc[t] = "join"
    /\ \/ /\ holder[arc[t]] = Nil
          /\ holder' = [holder EXCEPT ![arc[t]] = t]
          /\ Goto(t, "hold") /\ UNCHANGED ahead
       \/ /\ holder[arc[t]] # Nil
          /\ ahead' = [ahead EXCEPT ![t] = Waiters(arc[t])]
          /\ Goto(t, "wait") /\ UNCHANGED holder
    /\ UNCHANGED <<want, map, entry, arc>>

\* A waiter that was given the permit is polled.
Enter(t) ==
    /\ pc[t] = "wait" /\ holder[arc[t]] = t
    /\ Goto(t, "hold")
    /\ UNCHANGED <<want, map, entry, arc, holder, ahead>>

\* Mutant: the permit goes to the waiter that came last.
PassOnNewest(l) ==
    IF Waiters(l) = {}
    THEN holder' = [holder EXCEPT ![l] = Nil] /\ UNCHANGED ahead
    ELSE \E u \in Waiters(l) :
            /\ \A v \in Waiters(l) : u \notin ahead[v]
            /\ holder' = [holder EXCEPT ![l] = u]
            /\ ahead' = [v \in Tasks |-> IF v = u THEN {} ELSE ahead[v]]

\* The permit of l goes to the first waiter, which leaves the queue.
PassOn(l) ==
    IF Waiters(l) = {}
    THEN holder' = [holder EXCEPT ![l] = Nil] /\ UNCHANGED ahead
    ELSE \E u \in Waiters(l) :
            /\ ahead[u] = {}
            /\ holder' = [holder EXCEPT ![l] = u]
            /\ ahead' = [v \in Tasks |-> ahead[v] \ {u}]

\* OwnedMutexGuard is dropped: first the permit goes, then the Arc.
Unlock(t) ==
    /\ pc[t] = "hold"
    /\ PassOn(arc[t])
    /\ Goto(t, "drop")
    /\ UNCHANGED <<want, map, entry, arc>>

DropArc(t) ==
    /\ pc[t] = "drop"
    /\ arc' = [arc EXCEPT ![t] = Nil]
    /\ Goto(t, "idle")
    /\ UNCHANGED <<want, map, entry, holder, ahead>>

\* The handler's future is dropped where it awaits: a waiter leaves the queue and
\* passes the permit on if it was given one.
Cancel(t) ==
    \/ /\ pc[t] = "ask" /\ Goto(t, "idle")
       /\ UNCHANGED <<want, map, entry, arc, holder, ahead>>
    \/ /\ pc[t] = "wait" /\ Goto(t, "drop")
       /\ \/ holder[arc[t]] = t /\ PassOn(arc[t])
          \/ /\ holder[arc[t]] # t
             /\ ahead' = [u \in Tasks |-> IF u = t THEN {} ELSE ahead[u] \ {t}]
             /\ UNCHANGED holder
       /\ UNCHANGED <<want, map, entry, arc>>

Proceed(t) == Retain(t) \/ Get(t) \/ Join(t) \/ Enter(t) \/ Unlock(t) \/ DropArc(t)

Next == \E t \in Tasks : (\E i \in Instances : Ask(t, i)) \/ Proceed(t) \/ Cancel(t)

Spec == Init /\ [][Next]_vars

-------------------------------------------------------------------------------
(* Fairness: the runtime polls the tasks that can go on, the mutex of the map   *)
(* is a tokio mutex as well, every handler ends.                                *)

FairSpec ==
    /\ Spec
    /\ \A t \in Tasks :
          WF_vars(Get(t) \/ Join(t) \/ Enter(t) \/ Unlock(t) \/ DropArc(t)) /\ SF_vars(Retain(t))

-------------------------------------------------------------------------------

\* What a handler that calls lock sees: it waits, then it is in, then it is out.
phaseOf == [t \in Tasks |->
               IF pc[t] \in {"idle", "drop"} THEN "out"
               ELSE IF pc[t] = "hold" THEN "in" ELSE "waiting"]

Mutex == INSTANCE InstanceMutex WITH phase <- phaseOf, wanted <- want

\* The weak map gives mutual exclusion per instance: pruning it, upgrading a
\* reference while its last owner goes and handlers that give up while they wait
\* never let two handlers of one instance in.
ImplementsMutex == Mutex!Spec

\* All the handlers that wait for or hold the lock of an instance have the same one,
\* and handlers of different instances never share one.
OneLockPerInstance ==
    \A t, u \in Tasks : arc[t] # Nil /\ arc[u] # Nil => (arc[t] = arc[u] <=> want[t] = want[u])

\* Nobody waits for ever, though clients leave, and every waiter is overtaken only by
\* those already there.
EveryWaiterEnters == \A t \in Tasks : pc[t] \in {"ask", "wait"} ~> pc[t] \in {"hold", "idle", "drop"}
===============================================================================
