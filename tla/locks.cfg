SPECIFICATION FairSpec
CONSTANTS
    Nil = Nil
    Tasks = {t1, t2, t3}
    Instances = {i1, i2}
    Locks = {l1, l2, l3, l4, l5}
INVARIANTS OneLockPerInstance
PROPERTIES ImplementsMutex EveryWaiterEnters
