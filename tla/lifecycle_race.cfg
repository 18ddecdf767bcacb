SPECIFICATION Spec
CONSTANTS
    Nil = Nil
    Instances = {i1}
    Rules = {r1}
    Packaged = {}
    Ports = {p1}
    Captures = {c1}
    Tasks = {t1}
    Ops <- Undeploying
    Faults <- NoFaults
    MaxRestarts = 0
    MaxCancels = 0
INVARIANTS UndeployedIsStopped
CHECK_DEADLOCK FALSE
