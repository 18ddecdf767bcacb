----------------------------- MODULE InstanceMutex -----------------------------
(***************************************************************************)
(* What the handlers of the suite API count on when they await             *)
(* instance_lifecycle_locks.lock(&id): a mutual exclusion per instance that *)
(* starves nobody, and that a handler whose client left gives up.          *)
(***************************************************************************)
CONSTANTS Tasks, Instances

VARIABLES phase, wanted

Init ==
    /\ phase = [t \in Tasks |-> "out"]
    /\ wanted \in [Tasks -> Instances]

Ask(t, i) ==
    /\ phase[t] = "out"
    /\ phase' = [phase EXCEPT ![t] = "waiting"]
    /\ wanted' = [wanted EXCEPT ![t] = i]

Enter(t) ==
    /\ phase[t] = "waiting"
    /\ \A u \in Tasks : phase[u] = "in" => wanted[u] # wanted[t]
    /\ phase' = [phase EXCEPT ![t] = "in"]
    /\ UNCHANGED wanted

\* The guard is dropped, or the handler stops waiting for it.
Leave(t) ==
    /\ phase[t] # "out"
    /\ phase' = [phase EXCEPT ![t] = "out"]
    /\ UNCHANGED wanted

Next == \E t \in Tasks : (\E i \in Instances : Ask(t, i)) \/ Enter(t) \/ Leave(t)

Spec == Init /\ [][Next]_<<phase, wanted>>

\* Two handlers of one instance never hold its guard together.
Exclusive ==
    \A t, u \in Tasks :
        t # u /\ phase[t] = "in" /\ phase[u] = "in" => wanted[t] # wanted[u]
===============================================================================
