SPECIFICATION Spec
CONSTANTS
    Nil = Nil
    Instances = {i1}
    Rules = {r1}
    Packaged = {}
    Ports = {p1}
    Captures = {c1, c2}
    Tasks = {t1, t2}
    Ops <- CaptureOps
    Faults <- AllFaults
    MaxRestarts = 1
    MaxCancels = 1
SYMMETRY Symmetry
INVARIANTS TypeOK UndeployReclaims AutoStopOnlyOverdue ReadyHasFile CaptureHasTimer
PROPERTIES CaptureNotForgotten
CHECK_DEADLOCK FALSE
