SPECIFICATION Spec
CONSTANTS
    Nil = Nil
    Instances = {i1, i2}
    Rules = {r1}
    Packaged = {r1}
    Ports = {p1, p2}
    Captures = {}
    Tasks = {t1, t2}
    Ops <- Deployments
    Faults <- AllFaults
    MaxRestarts = 1
    MaxCancels = 1
SYMMETRY Symmetry
INVARIANTS PortExclusive InactiveIsGone
PROPERTIES NoResurrection
CHECK_DEADLOCK FALSE
