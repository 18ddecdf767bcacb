SPECIFICATION FairSpec
CONSTANTS
    Nil = Nil
    Instances = {i1}
    Rules = {r1}
    Packaged = {}
    Ports = {p1}
    Captures = {c1}
    Tasks = {t1}
    Ops <- TimedOps
    Faults <- NoFaults
    MaxRestarts = 1
    MaxCancels = 0
PROPERTIES OverdueCaptureEnds
CHECK_DEADLOCK FALSE
