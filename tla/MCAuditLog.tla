------------------------------ MODULE MCAuditLog ------------------------------
(* Small instances of AuditLog for TLC: the event e1 belongs to one simulation, the *)
(* others to a second one.                                                          *)
EXTENDS AuditLog, TLC

CONSTANTS i1, i2, e1

OneOrigin  == [e \in Events |-> i1]
TwoOrigins == [e \in Events |-> IF e = e1 THEN i2 ELSE i1]
Symmetry   == Permutations(Events \ {e1})
===============================================================================
