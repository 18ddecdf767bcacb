--------------------------- MODULE MCLifecycleLocks ---------------------------
(* A small instance of LifecycleLocks for TLC. *)
EXTENDS LifecycleLocks, Naturals, FiniteSets

\* A handler owns at most one lock and an instance refers to at most one.
ASSUME EnoughLocks == Cardinality(Locks) >= Cardinality(Tasks) + Cardinality(Instances)
===============================================================================
