SPECIFICATION Spec
CONSTANTS
    Nil = Nil
    Instances = {i1}
    Rules = {r1}
    Packaged = {}
    Ports = {p1}
    Captures = {c1, c2}
    Tasks = {t1}
    Ops <- Capturing
    Faults <- NoFaults
    MaxRestarts = 0
    MaxCancels = 0
INVARIANTS UndeployedHasNoFile
CHECK_DEADLOCK FALSE
