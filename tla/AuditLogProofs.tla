---------------------------- MODULE AuditLogProofs ----------------------------
(***************************************************************************)
(* Theorems about AuditLog, for any instances, events, capacities and      *)
(* limits.                                                                 *)
(*                                                                         *)
(* The inductive invariant is TypeOK with Audited: an event is at most     *)
(* once in its report queue and has attempts left while it is reported,    *)
(* the writer's count is exact, the log is the newest part of what was     *)
(* inserted, and what a request was told is true of what was inserted.     *)
(* Induction over the length of a batch is done by hand, with the  *)
(* least counterexample, since the library's theorems take an operator.    *)
(***************************************************************************)
EXTENDS AuditLog, TLAPS, FiniteSetTheorems, WellFoundedInduction

-------------------------------------------------------------------------------
(* Positions of a sequence, in their order                                 *)

LEMMA Least ==
    ASSUME NEW S \in SUBSET Nat, S # {}
    PROVE  \E m \in S : \A k \in S : m <= k
<1>. DEFINE R == {ss \in Nat \X Nat : ss[1] < ss[2]}
<1>1. OpToRel(<, Nat) = R
  BY DEF OpToRel
<1>2. IsWellFoundedOn(R, Nat)
  BY <1>1, NatLessThanWellFounded
<1>3. \A k, m \in Nat : <<k, m>> \in R <=> k < m
  OBVIOUS
<1>. HIDE DEF R
<1>4. PICK m \in S : \A k \in S : <<k, m>> \notin R
  BY <1>2, WFMin
<1>5. \A k \in S : ~(k < m)
  BY <1>3, <1>4
<1>6. m \in Nat
  OBVIOUS
<1>. QED  BY <1>5, <1>6

\* The positions up to n can be enumerated, whichever of them are picked.
Enumerable(n) ==
    \A S \in SUBSET (1..n) : \E f \in [1..Cardinality(S) -> S] : Enumerates(f, S)

LEMMA EnumerableStep ==
    ASSUME NEW n \in Nat, Enumerable(n)
    PROVE  Enumerable(n + 1)
<1>. SUFFICES ASSUME NEW S \in SUBSET (1..(n + 1))
              PROVE  \E f \in [1..Cardinality(S) -> S] : Enumerates(f, S)
  BY DEF Enumerable
<1>1. CASE n + 1 \notin S
  <2>1. S \in SUBSET (1..n)
    BY <1>1
  <2>. QED  BY <2>1 DEF Enumerable
<1>2. CASE n + 1 \in S
  <2>. DEFINE T == S \ {n + 1}
              c == Cardinality(T)
  <2>1. T \in SUBSET (1..n)
    OBVIOUS
  <2>2. PICK g \in [1..c -> T] : Enumerates(g, T)
    BY <2>1 DEF Enumerable
  <2>3. S = T \cup {n + 1} /\ n + 1 \notin T
    BY <1>2
  <2>. HIDE DEF T
  <2>4. IsFiniteSet(T)
    <3>1. IsFiniteSet(1..n)
      BY FS_Interval
    <3>. QED  BY <2>1, <3>1, FS_Subset
  <2>5. c \in Nat /\ Cardinality(S) = c + 1
    BY <2>3, <2>4, FS_AddElement, FS_CardinalityType
  <2>. HIDE DEF c
  <2>. DEFINE f == [k \in 1..(c + 1) |-> IF k = c + 1 THEN n + 1 ELSE g[k]]
  <2>6. \A k \in 1..c : k \in 1..(c + 1) /\ f[k] = g[k] /\ g[k] \in T /\ g[k] \in 1..n
    <3>. SUFFICES ASSUME NEW k \in 1..c
                  PROVE  k \in 1..(c + 1) /\ f[k] = g[k] /\ g[k] \in T /\ g[k] \in 1..n
      OBVIOUS
    <3>1. k \in 1..(c + 1) /\ k # c + 1
      BY <2>5
    <3>2. f[k] = g[k]
      BY <3>1
    <3>. QED  BY <2>1, <3>1, <3>2
  <2>7. f[c + 1] = n + 1 /\ DOMAIN f = 1..(c + 1)
    BY <2>5
  <2>8. f = [k \in 1..(c + 1) |-> f[k]]
    OBVIOUS
  <2>. HIDE DEF f
  <2>9. \A k \in 1..(c + 1) : k = c + 1 \/ k \in 1..c
    BY <2>5
  <2>10. \A k \in 1..(c + 1) : f[k] \in S
    BY <2>3, <2>6, <2>7, <2>9
  <2>11. f \in [1..Cardinality(S) -> S]
    BY <2>5, <2>8, <2>10
  <2>12. ASSUME NEW k \in 1..(c + 1), NEW l \in 1..(c + 1), k < l
         PROVE  f[k] < f[l]
    <3>1. k \in 1..c
      BY <2>5, <2>12
    <3>2. CASE l = c + 1
      BY <2>6, <2>7, <3>1, <3>2
    <3>3. CASE l \in 1..c
      BY <2>2, <2>6, <2>12, <3>1, <3>3 DEF Enumerates
    <3>. QED  BY <2>9, <3>2, <3>3
  <2>13. Range(f) = S
    <3>1. \A x \in T : \E k \in 1..c : g[k] = x
      BY <2>2 DEF Enumerates, Range
    <3>2. \A x \in T : \E k \in 1..(c + 1) : f[k] = x
      BY <2>6, <3>1
    <3>3. c + 1 \in 1..(c + 1)
      BY <2>5
    <3>. QED  BY <2>3, <2>7, <2>10, <3>2, <3>3 DEF Range
  <2>14. Enumerates(f, S)
    BY <2>7, <2>12, <2>13 DEF Enumerates
  <2>. QED  BY <2>11, <2>14
<1>. QED  BY <1>1, <1>2

LEMMA AllEnumerable == \A n \in Nat : Enumerable(n)
<1>. DEFINE Bad == {n \in Nat : ~Enumerable(n)}
<1>1. Enumerable(0)
  <2>. SUFFICES ASSUME NEW S \in SUBSET (1..0)
                PROVE  \E f \in [1..Cardinality(S) -> S] : Enumerates(f, S)
    BY DEF Enumerable
  <2>1. S = {}
    OBVIOUS
  <2>2. Cardinality(S) = 0
    BY <2>1, FS_EmptySet
  <2>. DEFINE f == [k \in 1..0 |-> k]
  <2>3. f \in [1..Cardinality(S) -> S] /\ Enumerates(f, S)
    BY <2>1, <2>2 DEF Enumerates, Range
  <2>. QED  BY <2>3
<1>. SUFFICES ASSUME Bad # {} PROVE FALSE
  OBVIOUS
<1>2. PICK m \in Bad : \A k \in Bad : m <= k
  <2>1. Bad \in SUBSET Nat
    OBVIOUS
  <2>. HIDE DEF Bad
  <2>. QED  BY <2>1, Least
<1>3. m \in Nat /\ m # 0 /\ ~Enumerable(m)
  BY <1>1
<1>4. m - 1 \in Nat /\ m - 1 \notin Bad /\ (m - 1) + 1 = m
  BY <1>2, <1>3
<1>5. Enumerable((m - 1) + 1)
  BY <1>4, EnumerableStep
<1>. QED  BY <1>3, <1>4, <1>5

\* What is picked is of the same kind, no longer, and nothing but the entries
\* at the positions.
LEMMA PickedEntries ==
    ASSUME NEW T, NEW s \in Seq(T), NEW positions \in SUBSET (1..Len(s))
    PROVE  /\ Picked(s, positions) \in Seq(T)
           /\ Len(Picked(s, positions)) <= Len(s)
           /\ Range(Picked(s, positions)) = {s[n] : n \in positions}
<1>. DEFINE c == Cardinality(positions)
            f == CHOOSE g \in [1..c -> positions] : Enumerates(g, positions)
            p == [n \in 1..c |-> s[f[n]]]
<1>1. Len(s) \in Nat /\ DOMAIN s = 1..Len(s) /\ \A n \in 1..Len(s) : s[n] \in T
  OBVIOUS
<1>2. c \in Nat /\ c <= Len(s)
  <2>1. IsFiniteSet(1..Len(s)) /\ Cardinality(1..Len(s)) = Len(s)
    <3>1. /\ IsFiniteSet(1..Len(s))
          /\ Cardinality(1..Len(s)) = IF 1 > Len(s) THEN 0 ELSE Len(s) - 1 + 1
      <4>1. 1 \in Int /\ Len(s) \in Int
        BY <1>1
      <4>. QED  BY <4>1, FS_Interval
    <3>. QED  BY <1>1, <3>1
  <2>. QED  BY <2>1, FS_Subset, FS_CardinalityType
<1>3. f \in [1..c -> positions] /\ Enumerates(f, positions)
  BY <1>1, AllEnumerable DEF Enumerable
<1>4. Picked(s, positions) = p
  BY DEF Picked
<1>. HIDE DEF c, f
<1>5. \A n \in 1..c : p[n] = s[f[n]] /\ p[n] \in T
  BY <1>1, <1>3
<1>6. p \in Seq(T) /\ Len(p) = c /\ DOMAIN p = 1..c
  BY <1>2, <1>5
<1>7. \A k \in positions : \E n \in 1..c : f[n] = k
  BY <1>3 DEF Enumerates, Range
<1>8. Range(p) = {s[n] : n \in positions}
  <2>1. \A n \in 1..c : f[n] \in positions
    BY <1>3
  <2>2. Range(p) = {p[n] : n \in 1..c}
    BY <1>6 DEF Range
  <2>. HIDE DEF p
  <2>3. \A n \in 1..c : p[n] \in {s[k] : k \in positions}
    BY <1>5, <2>1
  <2>4. \A k \in positions : s[k] \in {p[n] : n \in 1..c}
    BY <1>5, <1>7
  <2>. QED  BY <2>2, <2>3, <2>4
<1>. QED  BY <1>2, <1>4, <1>6, <1>8

-------------------------------------------------------------------------------
(* The batch and the table                                                 *)

\* Variables that are functions.
Shapes ==
    /\ queue = [i \in Instances |-> queue[i]]
    /\ logs = [i \in Instances |-> logs[i]]
    /\ inserted = [i \in Instances |-> inserted[i]]

\* A queued event is in the queue of its instance, once.
QueueInv ==
    \A i \in Instances :
        /\ \A k \in 1..Len(queue[i]) :
              phase[queue[i][k]] = "queued" /\ Origin[queue[i][k]] = i
        /\ \A k, l \in 1..Len(queue[i]) : queue[i][k] = queue[i][l] => k = l

AttemptInv ==
    \A e \in Events :
        /\ phase[e] \in {"new", "queued"} => attempt[e] = 0
        /\ phase[e] \in {"send", "backoff"} => attempt[e] < Attempts
        /\ phase[e] = "await" => attempt[e] > 0

\* The event has been inserted.
Kept(e) == e \in Range(inserted[Origin[e]])

\* What a handler was told.
ToldInv ==
    \A r \in Requests : request[r] = "ok" /\ present[Origin[r[1]]] => Kept(r[1])

StoredInv == \A e \in Events : phase[e] = "stored" /\ present[Origin[e]] => Kept(e)

Audited ==
    /\ Shapes /\ QueueInv /\ AttemptInv /\ ToldInv /\ StoredInv
    /\ CachedCountExact /\ LogsAreNewest /\ LogsEndWithInstance

LEMMA GroupEntries ==
    ASSUME TypeOK, NEW i \in Instances
    PROVE  /\ Group(i) \in Seq(Requests) /\ Len(Group(i)) <= Len(batch)
           /\ \A r \in Range(Group(i)) : r \in Requests /\ Origin[r[1]] = i
           /\ Others(i) \in Seq(Requests) /\ Len(Others(i)) <= Len(batch)
<1>. DEFINE own == {n \in DOMAIN batch : Origin[batch[n][1]] = i}
            rest == {n \in DOMAIN batch : Origin[batch[n][1]] # i}
<1>1. batch \in Seq(Requests) /\ DOMAIN batch = 1..Len(batch)
  BY DEF TypeOK
<1>2. own \in SUBSET (1..Len(batch)) /\ rest \in SUBSET (1..Len(batch))
  BY <1>1
<1>3. \A n \in own : batch[n] \in Requests /\ Origin[batch[n][1]] = i
  BY <1>1
<1>4. Group(i) = Picked(batch, own) /\ Others(i) = Picked(batch, rest)
  BY DEF Group, Others
<1>. HIDE DEF own, rest
<1>5. /\ Picked(batch, own) \in Seq(Requests) /\ Len(Picked(batch, own)) <= Len(batch)
      /\ Range(Picked(batch, own)) = {batch[n] : n \in own}
  BY <1>1, <1>2, PickedEntries
<1>6. Picked(batch, rest) \in Seq(Requests) /\ Len(Picked(batch, rest)) <= Len(batch)
  BY <1>1, <1>2, PickedEntries
<1>. QED  BY <1>3, <1>4, <1>5, <1>6

LEMMA EventsOfEntries ==
    ASSUME NEW s \in Seq(Requests)
    PROVE  /\ EventsOf(s) \in Seq(Events)
           /\ \A r \in Range(s) : r[1] \in Range(EventsOf(s))
<1>1. DOMAIN s = 1..Len(s) /\ Len(s) \in Nat /\ \A n \in 1..Len(s) : s[n] \in Requests
  OBVIOUS
<1>2. \A n \in 1..Len(s) : s[n][1] \in Events
  BY <1>1 DEF Requests
<1>3. EventsOf(s) \in Seq(Events)
  BY <1>1, <1>2 DEF EventsOf
<1>4. DOMAIN EventsOf(s) = 1..Len(s) /\ \A n \in 1..Len(s) : EventsOf(s)[n] = s[n][1]
  BY DEF EventsOf
<1>. HIDE DEF EventsOf
<1>5. \A r \in Range(s) : r[1] \in Range(EventsOf(s))
  BY <1>1, <1>4 DEF Range
<1>. QED  BY <1>3, <1>5

\* Two sequences, one after the other.
LEMMA Joined ==
    ASSUME NEW T, NEW s \in Seq(T), NEW t \in Seq(T)
    PROVE  /\ s \o t \in Seq(T) /\ Len(s \o t) = Len(s) + Len(t)
           /\ \A n \in 1..Len(s) : (s \o t)[n] = s[n]
           /\ \A n \in 1..Len(t) : (s \o t)[Len(s) + n] = t[n]
           /\ Range(s) \subseteq Range(s \o t) /\ Range(t) \subseteq Range(s \o t)
<1>1. /\ s \o t \in Seq(T) /\ Len(s \o t) = Len(s) + Len(t)
      /\ \A n \in 1..Len(s) : n \in 1..Len(s \o t) /\ (s \o t)[n] = s[n]
  OBVIOUS
<1>2. \A n \in 1..Len(t) : Len(s) + n \in 1..Len(s \o t) /\ (s \o t)[Len(s) + n] = t[n]
  BY <1>1
<1>3. DOMAIN s = 1..Len(s) /\ DOMAIN t = 1..Len(t) /\ DOMAIN (s \o t) = 1..Len(s \o t)
  BY <1>1
<1>4. Range(s) \subseteq Range(s \o t)
  BY <1>1, <1>3 DEF Range
<1>5. Range(t) \subseteq Range(s \o t)
  <2>1. \A n \in 1..Len(t) : t[n] \in Range(s \o t)
    BY <1>2, <1>3 DEF Range
  <2>. QED  BY <1>3, <2>1 DEF Range
<1>. QED  BY <1>1, <1>2, <1>4, <1>5

\* Every event is in the table after an insertion: it was, or it is new.
LEMMA NewEntries ==
    ASSUME NEW table \in Seq(Events), NEW events \in Seq(Events)
    PROVE  /\ NewTo(table, events) \in Seq(Events)
           /\ Range(events) \subseteq Range(table) \cup Range(NewTo(table, events))
<1>. DEFINE new == {n \in DOMAIN events : /\ events[n] \notin Range(table)
                                          /\ \A m \in 1..(n - 1) : events[m] # events[n]}
            added == Picked(events, new)
<1>1. DOMAIN events = 1..Len(events) /\ Len(events) \in Nat
  OBVIOUS
<1>2. new \in SUBSET (1..Len(events))
  BY <1>1
<1>3. \A n \in DOMAIN events : events[n] \in Range(table) \/ \E m \in new : events[m] = events[n]
  <2>. SUFFICES ASSUME NEW n \in 1..Len(events), events[n] \notin Range(table)
                PROVE  \E m \in new : events[m] = events[n]
    BY <1>1
  <2>. DEFINE same == {m \in 1..Len(events) : events[m] = events[n]}
  <2>1. same \in SUBSET Nat /\ same # {}
    BY <1>1
  <2>2. PICK m \in same : \A k \in same : m <= k
    <3>. HIDE DEF same
    <3>. QED  BY <2>1, Least
  <2>3. m \in 1..Len(events) /\ events[m] = events[n]
    OBVIOUS
  <2>4. ASSUME NEW k \in 1..(m - 1) PROVE events[k] # events[m]
    <3>1. k \in 1..Len(events) /\ ~(m <= k)
      BY <1>1, <2>3
    <3>. QED  BY <2>2, <2>3, <3>1
  <2>. QED  BY <1>1, <2>3, <2>4
<1>4. NewTo(table, events) = added
  BY DEF NewTo
<1>. HIDE DEF new
<1>5. added \in Seq(Events) /\ Range(added) = {events[n] : n \in new}
  BY <1>2, PickedEntries
<1>. HIDE DEF added
<1>6. \A n \in DOMAIN events : events[n] \in Range(table) \/ events[n] \in Range(added)
  BY <1>3, <1>5
<1>7. Range(events) \subseteq Range(table) \cup Range(added)
  <2>1. Range(events) = {events[n] : n \in DOMAIN events}
    BY DEF Range
  <2>. QED  BY <1>6, <2>1
<1>. QED  BY <1>4, <1>5, <1>7

\* With the right count, pruning leaves the last rows, MaxLogs at most.
LEMMA PrunedEntries ==
    ASSUME NEW rows \in Seq(Events)
    PROVE  /\ Prune(rows, Len(rows)) \in Seq(Events)
           /\ Len(Prune(rows, Len(rows))) = AtMost(Len(rows), MaxLogs)
           /\ Len(Prune(rows, Len(rows))) <= MaxLogs
           /\ \A n \in 1..Len(Prune(rows, Len(rows))) :
                 Prune(rows, Len(rows))[n] = rows[Len(rows) - Len(Prune(rows, Len(rows))) + n]
<1>0. MaxLogs \in Nat \ {0} /\ Len(rows) \in Nat
  BY AuditAssumption
<1>1. CASE Len(rows) <= MaxLogs
  BY <1>0, <1>1 DEF Prune, AtMost
<1>2. CASE Len(rows) > MaxLogs
  <2>. DEFINE first == Len(rows) - MaxLogs + 1
  <2>1. first \in 1..Len(rows) /\ Len(rows) - first + 1 = MaxLogs
    BY <1>0, <1>2
  <2>2. Prune(rows, Len(rows)) = SubSeq(rows, first, Len(rows))
    BY <1>0, <1>2 DEF Prune
  <2>3. AtMost(Len(rows), MaxLogs) = MaxLogs
    BY <1>0, <1>2 DEF AtMost
  <2>. HIDE DEF first
  <2>4. /\ SubSeq(rows, first, Len(rows)) \in Seq(Events)
        /\ Len(SubSeq(rows, first, Len(rows))) = MaxLogs
        /\ \A n \in 1..MaxLogs : SubSeq(rows, first, Len(rows))[n] = rows[first + n - 1]
    BY <1>0, <2>1
  <2>5. \A n \in 1..MaxLogs : first + n - 1 = Len(rows) - MaxLogs + n
    BY <1>0, <2>1
  <2>6. \A n \in 1..MaxLogs :
           Prune(rows, Len(rows))[n] = rows[Len(rows) - Len(Prune(rows, Len(rows))) + n]
    BY <2>2, <2>4, <2>5
  <2>. QED  BY <1>0, <2>2, <2>3, <2>4, <2>6
<1>. QED  BY <1>0, <1>1, <1>2

\* What a transaction that commits makes of the table, the count and the history.
LEMMA WrittenEntries ==
    ASSUME TypeOK, CachedCountExact, LogsAreNewest, NEW i \in Instances, present[i]
    PROVE  LET count == IF cached[i] = Unknown THEN Len(logs[i]) ELSE cached[i]
               new   == NewTo(logs[i], EventsOf(Group(i)))
               rows  == InsertOrIgnore(logs[i], EventsOf(Group(i)))
               total == count + Len(rows) - Len(logs[i])
               kept  == Prune(rows, total)
               all   == inserted[i] \o new
           IN  /\ kept \in Seq(Events) /\ Len(kept) <= MaxLogs
               /\ AtMost(total, MaxLogs) = Len(kept)
               /\ all \in Seq(Events)
               /\ Len(kept) = AtMost(Len(all), MaxLogs)
               /\ \A n \in 1..Len(kept) : kept[n] = all[Len(all) - Len(kept) + n]
               /\ Range(inserted[i]) \subseteq Range(all)
               /\ \A r \in Range(Group(i)) : r[1] \in Range(all)
<1>. DEFINE count == IF cached[i] = Unknown THEN Len(logs[i]) ELSE cached[i]
            new   == NewTo(logs[i], EventsOf(Group(i)))
            rows  == InsertOrIgnore(logs[i], EventsOf(Group(i)))
            total == count + Len(rows) - Len(logs[i])
            kept  == Prune(rows, total)
            all   == inserted[i] \o new
            L     == Len(logs[i])
            D     == Len(inserted[i])
<1>1. /\ logs[i] \in Seq(Events) /\ L \in Nat /\ L <= MaxLogs /\ MaxLogs \in Nat
      /\ inserted[i] \in Seq(Events) /\ D \in Nat
  BY AuditAssumption DEF TypeOK
<1>2. count = L
  BY DEF CachedCountExact
<1>3. Group(i) \in Seq(Requests)
  BY GroupEntries
<1>4. /\ EventsOf(Group(i)) \in Seq(Events)
      /\ \A r \in Range(Group(i)) : r[1] \in Range(EventsOf(Group(i)))
  BY <1>3, EventsOfEntries
<1>5. /\ new \in Seq(Events) /\ Len(new) \in Nat
      /\ Range(EventsOf(Group(i))) \subseteq Range(logs[i]) \cup Range(new)
  BY <1>1, <1>4, NewEntries
<1>6. rows = logs[i] \o new
  BY DEF InsertOrIgnore
<1>7. /\ L = AtMost(D, MaxLogs)
      /\ \A n \in 1..L : logs[i][n] = inserted[i][D - L + n]
  BY DEF LogsAreNewest
<1>8. L <= D /\ (L = D \/ L = MaxLogs)
  BY <1>1, <1>7 DEF AtMost
<1>. HIDE DEF count, new, rows, L, D
<1>9. /\ rows \in Seq(Events) /\ Len(rows) = L + Len(new)
      /\ \A n \in 1..L : rows[n] = logs[i][n]
      /\ \A n \in 1..Len(new) : rows[L + n] = new[n]
  BY <1>1, <1>5, <1>6, Joined DEF L
<1>10. /\ all \in Seq(Events) /\ Len(all) = D + Len(new)
       /\ \A n \in 1..D : all[n] = inserted[i][n]
       /\ \A n \in 1..Len(new) : all[D + n] = new[n]
       /\ Range(inserted[i]) \subseteq Range(all) /\ Range(new) \subseteq Range(all)
  BY <1>1, <1>5, Joined DEF D
<1>. HIDE DEF all
<1>11. \A m \in 1..Len(rows) : rows[m] = all[D - L + m]
  <2>. SUFFICES ASSUME NEW m \in 1..Len(rows) PROVE rows[m] = all[D - L + m]
    OBVIOUS
  <2>1. CASE m \in 1..L
    <3>1. D - L + m \in 1..D
      BY <1>1, <1>8, <2>1
    <3>. QED  BY <1>7, <1>9, <1>10, <2>1, <3>1
  <2>2. CASE m \notin 1..L
    <3>1. PICK n \in 1..Len(new) : m = L + n
      <4>1. m - L \in 1..Len(new) /\ m = L + (m - L)
        BY <1>1, <1>5, <1>9, <2>2
      <4>. QED  BY <4>1
    <3>2. D - L + m = D + n
      BY <1>1, <3>1
    <3>. QED  BY <1>9, <1>10, <3>1, <3>2
  <2>. QED  BY <2>1, <2>2
<1>12. total = Len(rows) /\ Len(rows) \in Nat
  BY <1>1, <1>2, <1>9 DEF L
<1>. HIDE DEF total
<1>13. /\ kept \in Seq(Events) /\ Len(kept) <= MaxLogs /\ Len(kept) = AtMost(total, MaxLogs)
       /\ \A n \in 1..Len(kept) : kept[n] = rows[Len(rows) - Len(kept) + n]
  BY <1>9, <1>12, PrunedEntries
<1>. HIDE DEF kept
<1>14. Len(kept) \in Nat /\ Len(kept) <= Len(rows)
  BY <1>1, <1>12, <1>13 DEF AtMost
<1>15. Len(kept) = AtMost(Len(all), MaxLogs)
  BY <1>1, <1>5, <1>8, <1>9, <1>10, <1>12, <1>13 DEF AtMost
<1>16. \A n \in 1..Len(kept) : kept[n] = all[Len(all) - Len(kept) + n]
  <2>. SUFFICES ASSUME NEW n \in 1..Len(kept) PROVE kept[n] = all[Len(all) - Len(kept) + n]
    OBVIOUS
  <2>1. Len(rows) - Len(kept) + n \in 1..Len(rows)
    BY <1>12, <1>14
  <2>2. D - L + (Len(rows) - Len(kept) + n) = Len(all) - Len(kept) + n
    BY <1>1, <1>5, <1>9, <1>10, <1>14
  <2>. QED  BY <1>11, <1>13, <2>1, <2>2
<1>17. Range(logs[i]) \subseteq Range(inserted[i])
  <2>1. DOMAIN logs[i] = 1..L /\ DOMAIN inserted[i] = 1..D
    BY <1>1 DEF L, D
  <2>2. \A n \in 1..L : D - L + n \in 1..D
    BY <1>1, <1>8
  <2>. QED  BY <1>7, <2>1, <2>2 DEF Range
<1>18. \A r \in Range(Group(i)) : r[1] \in Range(all)
  BY <1>4, <1>5, <1>10, <1>17
<1>. QED  BY <1>10, <1>13, <1>15, <1>16, <1>18 DEF count, new, rows, total, kept, all

\* A row that is no longer in the log has MaxLogs rows after it.
LEMMA NewestKeep ==
    ASSUME TypeOK, LogsAreNewest, NEW i \in Instances, NEW n \in DOMAIN inserted[i]
    PROVE  inserted[i][n] \in Range(logs[i]) \/ n + MaxLogs <= Len(inserted[i])
<1>. DEFINE L == Len(logs[i])
            D == Len(inserted[i])
<1>1. /\ logs[i] \in Seq(Events) /\ L \in Nat /\ MaxLogs \in Nat
      /\ inserted[i] \in Seq(Events) /\ D \in Nat
  BY AuditAssumption DEF TypeOK
<1>2. /\ L = AtMost(D, MaxLogs)
      /\ \A k \in 1..L : logs[i][k] = inserted[i][D - L + k]
  BY DEF LogsAreNewest
<1>3. DOMAIN logs[i] = 1..L /\ n \in 1..D
  BY <1>1
<1>. HIDE DEF L, D
<1>4. CASE n > D - L
  <2>1. PICK k \in 1..L : n = D - L + k
    <3>1. n - (D - L) \in 1..L /\ n = D - L + (n - (D - L))
      BY <1>1, <1>3, <1>4
    <3>. QED  BY <3>1
  <2>. QED  BY <1>2, <1>3, <2>1 DEF Range
<1>5. CASE ~(n > D - L)
  <2>1. n + MaxLogs <= D
    BY <1>1, <1>2, <1>3, <1>5 DEF AtMost
  <2>. QED  BY <2>1 DEF D
<1>. QED  BY <1>4, <1>5

-------------------------------------------------------------------------------
(* The inductive invariant                                                 *)

LEMMA AuditInit == Init => TypeOK /\ Audited
<1>. SUFFICES ASSUME Init PROVE TypeOK /\ Audited
  OBVIOUS
<1>1. {ReportCapacity, Attempts, WriteCapacity, BatchSize, MaxLogs} \subseteq Nat \ {0}
  BY AuditAssumption
<1>2. TypeOK
  BY <1>1 DEF Init, TypeOK, InFlight, Over
<1>3. Audited
  BY <1>1 DEF Init, Audited, Shapes, QueueInv, AttemptInv, ToldInv, StoredInv,
              CachedCountExact, LogsAreNewest, LogsEndWithInstance, AtMost
<1>. QED  BY <1>2, <1>3

\* As long as tables and counts stay, and no handler is told of more.
LEMMA SuiteStays ==
    ASSUME Audited, UNCHANGED <<tables, cached>>,
           \A r \in Requests : request'[r] = "ok" => request[r] = "ok"
    PROVE  ToldInv' /\ CachedCountExact' /\ LogsAreNewest' /\ LogsEndWithInstance'
<1>1. logs' = logs /\ inserted' = inserted /\ present' = present /\ cached' = cached
  BY DEF tables
<1>2. ToldInv'
  BY <1>1 DEF Audited, ToldInv, Kept
<1>3. CachedCountExact'
  BY <1>1 DEF Audited, CachedCountExact
<1>4. LogsAreNewest'
  BY <1>1 DEF Audited, LogsAreNewest
<1>5. LogsEndWithInstance'
  BY <1>1 DEF Audited, LogsEndWithInstance
<1>. QED  BY <1>2, <1>3, <1>4, <1>5

\* The engine's steps leave the suite's tables and counts alone.
LEMMA EngineQueueStep ==
    ASSUME TypeOK, Audited, NEW e \in Events, Report(e)
    PROVE  TypeOK' /\ Audited'
<1>. DEFINE i == Origin[e]
<1>0. i \in Instances /\ ReportCapacity \in Nat \ {0}
  BY AuditAssumption
<1>1. queue[i] \in Seq(Events) /\ Len(queue[i]) \in Nat /\ phase[e] = "new"
  BY <1>0 DEF TypeOK, Report
<1>. HIDE DEF i
<1>2. CASE Len(queue[i]) < ReportCapacity
  <2>1. /\ queue' = [queue EXCEPT ![i] = Append(queue[i], e)]
        /\ phase' = [phase EXCEPT ![e] = "queued"]
    BY <1>2 DEF Report, i
  <2>2. /\ queue'[i] = Append(queue[i], e)
        /\ \A j \in Instances : j # i => queue'[j] = queue[j]
    BY <1>0, <2>1 DEF Audited, Shapes
  <2>3. /\ queue'[i] \in Seq(Events) /\ Len(queue'[i]) = Len(queue[i]) + 1
        /\ queue'[i][Len(queue[i]) + 1] = e
        /\ \A k \in 1..Len(queue[i]) : queue'[i][k] = queue[i][k]
    BY <1>1, <2>2
  <2>4. TypeOK'
    <3>1. ASSUME NEW j \in Instances
          PROVE  queue'[j] \in Seq(Events) /\ Len(queue'[j]) <= ReportCapacity
      <4>1. CASE j = i
        BY <1>0, <1>1, <1>2, <2>3, <4>1
      <4>2. CASE j # i
        BY <2>2, <4>2 DEF TypeOK
      <4>. QED  BY <4>1, <4>2
    <3>. QED  BY <2>1, <3>1 DEF TypeOK, Report, writer, tables
  <2>5. \A j \in Instances : \A k \in 1..Len(queue[j]) : queue[j][k] # e
    BY <1>1 DEF Audited, QueueInv
  <2>6. QueueInv'
    <3>1. ASSUME NEW j \in Instances, j # i
          PROVE  /\ \A k \in 1..Len(queue'[j]) :
                       phase'[queue'[j][k]] = "queued" /\ Origin[queue'[j][k]] = j
                 /\ \A k, l \in 1..Len(queue'[j]) : queue'[j][k] = queue'[j][l] => k = l
      BY <2>1, <2>2, <2>5, <3>1 DEF Audited, QueueInv, TypeOK
    <3>2. ASSUME NEW k \in 1..Len(queue'[i])
          PROVE  phase'[queue'[i][k]] = "queued" /\ Origin[queue'[i][k]] = i
      <4>1. CASE k = Len(queue[i]) + 1
        BY <2>1, <2>3, <4>1 DEF TypeOK, i
      <4>2. CASE k \in 1..Len(queue[i])
        BY <1>0, <2>1, <2>3, <2>5, <4>2 DEF Audited, QueueInv, TypeOK
      <4>. QED  BY <1>1, <2>3, <4>1, <4>2
    <3>3. ASSUME NEW k \in 1..Len(queue'[i]), NEW l \in 1..Len(queue'[i]),
                 queue'[i][k] = queue'[i][l]
          PROVE  k = l
      <4>1. \A m \in 1..Len(queue'[i]) : m = Len(queue[i]) + 1 \/ m \in 1..Len(queue[i])
        BY <1>1, <2>3
      <4>. QED  BY <1>0, <2>3, <2>5, <3>3, <4>1 DEF Audited, QueueInv
    <3>. QED  BY <3>1, <3>2, <3>3 DEF QueueInv
  <2>7. AttemptInv' /\ StoredInv'
    <3>1. /\ \A d \in Events : d # e => phase'[d] = phase[d]
          /\ phase'[e] = "queued" /\ attempt' = attempt /\ UNCHANGED <<logs, inserted, present>>
      BY <2>1 DEF Report, TypeOK, tables
    <3>2. AttemptInv'
      BY <1>1, <3>1 DEF Audited, AttemptInv
    <3>3. StoredInv'
      BY <3>1 DEF Audited, StoredInv, Kept
    <3>. QED  BY <3>2, <3>3
  <2>8. Shapes' /\ ToldInv' /\ CachedCountExact' /\ LogsAreNewest' /\ LogsEndWithInstance'
    <3>1. UNCHANGED <<tables, cached>> /\ \A r \in Requests : request'[r] = "ok" => request[r] = "ok"
      BY <2>1 DEF Report, writer, tables
    <3>2. Shapes'
      BY <2>1 DEF Report, Audited, Shapes, tables
    <3>. QED  BY <3>1, <3>2, SuiteStays
  <2>. QED  BY <2>4, <2>6, <2>7, <2>8 DEF Audited
<1>3. CASE ~(Len(queue[i]) < ReportCapacity)
  <2>1. phase' = [phase EXCEPT ![e] = "dropped"] /\ queue' = queue
    BY <1>3 DEF Report, i
  <2>2. TypeOK'
    BY <2>1 DEF TypeOK, Report, writer, tables, Over
  <2>3. /\ \A d \in Events : d # e => phase'[d] = phase[d]
        /\ phase'[e] = "dropped" /\ attempt' = attempt /\ UNCHANGED <<logs, inserted, present>>
    BY <2>1 DEF Report, TypeOK, tables
  <2>4. \A j \in Instances : \A k \in 1..Len(queue[j]) : queue[j][k] # e /\ queue[j][k] \in Events
    <3>1. \A j \in Instances : queue[j] \in Seq(Events)
      BY DEF TypeOK
    <3>. QED  BY <1>1, <3>1 DEF Audited, QueueInv
  <2>5. QueueInv'
    BY <2>1, <2>3, <2>4 DEF Audited, QueueInv
  <2>6. AttemptInv'
    BY <2>3 DEF Audited, AttemptInv
  <2>7. StoredInv'
    BY <2>3 DEF Audited, StoredInv, Kept
  <2>8. Shapes' /\ ToldInv' /\ CachedCountExact' /\ LogsAreNewest' /\ LogsEndWithInstance'
    <3>1. UNCHANGED <<tables, cached>> /\ \A r \in Requests : request'[r] = "ok" => request[r] = "ok"
      BY <2>1 DEF Report, writer, tables
    <3>2. Shapes'
      BY <2>1 DEF Report, Audited, Shapes, tables
    <3>. QED  BY <3>1, <3>2, SuiteStays
  <2>. QED  BY <2>2, <2>5, <2>6, <2>7, <2>8 DEF Audited
<1>. QED  BY <1>2, <1>3

LEMMA EngineTakeStep ==
    ASSUME TypeOK, Audited, NEW i \in Instances, Take(i)
    PROVE  TypeOK' /\ Audited'
<1>. DEFINE e == Head(queue[i])
<1>1. /\ queue[i] \in Seq(Events) /\ queue[i] # <<>> /\ e \in Events /\ e = queue[i][1]
      /\ Len(queue[i]) \in Nat \ {0}
  BY DEF TypeOK, Take
<1>2. phase[e] = "queued" /\ attempt[e] = 0 /\ Attempts \in Nat \ {0}
  BY <1>1, AuditAssumption DEF Audited, QueueInv, AttemptInv
<1>3. /\ queue'[i] = Tail(queue[i])
      /\ \A j \in Instances : j # i => queue'[j] = queue[j]
      /\ phase' = [phase EXCEPT ![e] = "send"]
  BY DEF Take, Audited, Shapes
<1>. HIDE DEF e
<1>4. /\ queue'[i] \in Seq(Events) /\ Len(queue'[i]) = Len(queue[i]) - 1
      /\ \A k \in 1..Len(queue'[i]) : k + 1 \in 1..Len(queue[i]) /\ queue'[i][k] = queue[i][k + 1]
  BY <1>1, <1>3
<1>5. /\ \A d \in Events : d # e => phase'[d] = phase[d]
      /\ phase'[e] = "send" /\ attempt' = attempt /\ UNCHANGED <<logs, inserted, present>>
      /\ phase' \in [Events -> {"new", "queued"} \cup InFlight \cup Over]
  BY <1>1, <1>3 DEF Take, TypeOK, tables, InFlight
<1>6. TypeOK'
  <2>1. ASSUME NEW j \in Instances
        PROVE  queue'[j] \in Seq(Events) /\ Len(queue'[j]) <= ReportCapacity
    <3>1. CASE j = i
      <4>1. Len(queue[i]) <= ReportCapacity /\ ReportCapacity \in Nat
        BY AuditAssumption DEF TypeOK
      <4>. QED  BY <1>1, <1>4, <3>1, <4>1
    <3>2. CASE j # i
      BY <1>3, <3>2 DEF TypeOK
    <3>. QED  BY <3>1, <3>2
  <2>. QED  BY <1>5, <2>1 DEF TypeOK, Take, writer, tables
<1>7. QueueInv'
  <2>1. ASSUME NEW j \in Instances, j # i
        PROVE  /\ \A k \in 1..Len(queue'[j]) :
                     phase'[queue'[j][k]] = "queued" /\ Origin[queue'[j][k]] = j
               /\ \A k, l \in 1..Len(queue'[j]) : queue'[j][k] = queue'[j][l] => k = l
    <3>1. queue'[j] = queue[j]
      BY <1>3, <2>1
    <3>2. \A k \in 1..Len(queue[j]) : queue[j][k] # e /\ queue[j][k] \in Events
      <4>1. Origin[e] = i
        BY <1>1 DEF Audited, QueueInv
      <4>2. queue[j] \in Seq(Events)
        BY DEF TypeOK
      <4>. QED  BY <2>1, <4>1, <4>2 DEF Audited, QueueInv
    <3>. QED  BY <1>5, <3>1, <3>2 DEF Audited, QueueInv
  <2>2. ASSUME NEW k \in 1..Len(queue'[i])
        PROVE  phase'[queue'[i][k]] = "queued" /\ Origin[queue'[i][k]] = i
    <3>1. k + 1 \in 1..Len(queue[i]) /\ k + 1 # 1 /\ 1 \in 1..Len(queue[i])
      BY <1>1, <1>4
    <3>2. queue[i][k + 1] # e /\ queue[i][k + 1] \in Events
      BY <1>1, <3>1 DEF Audited, QueueInv
    <3>3. queue'[i][k] = queue[i][k + 1]
      BY <1>4
    <3>4. phase[queue[i][k + 1]] = "queued" /\ Origin[queue[i][k + 1]] = i
      BY <3>1 DEF Audited, QueueInv
    <3>. QED  BY <1>5, <3>2, <3>3, <3>4
  <2>3. ASSUME NEW k \in 1..Len(queue'[i]), NEW l \in 1..Len(queue'[i]),
               queue'[i][k] = queue'[i][l]
        PROVE  k = l
    <3>1. k + 1 = l + 1
      BY <1>4, <2>3 DEF Audited, QueueInv
    <3>. QED  BY <1>1, <1>4, <3>1
  <2>. QED  BY <2>1, <2>2, <2>3 DEF QueueInv
<1>8. AttemptInv'
  BY <1>2, <1>5 DEF Audited, AttemptInv
<1>9. StoredInv'
  BY <1>5 DEF Audited, StoredInv, Kept
<1>10. Shapes' /\ ToldInv' /\ CachedCountExact' /\ LogsAreNewest' /\ LogsEndWithInstance'
  <2>1. UNCHANGED <<tables, cached>> /\ \A r \in Requests : request'[r] = "ok" => request[r] = "ok"
    BY <1>5 DEF Take, writer, tables
  <2>2. Shapes'
    BY <1>5 DEF Take, Audited, Shapes, tables
  <2>. QED  BY <2>1, <2>2, SuiteStays
<1>. QED  BY <1>6, <1>7, <1>8, <1>9, <1>10 DEF Audited

\* A step of a report in flight: what it may do to its event.
LEMMA ReportStep ==
    ASSUME TypeOK, Audited, NEW e \in Events,
           phase[e] \in InFlight,
           NEW p \in InFlight \cup Over, phase' = [phase EXCEPT ![e] = p],
           NEW a \in 0..Attempts, attempt' = [attempt EXCEPT ![e] = a],
           p \in {"send", "backoff"} => a < Attempts,
           p = "await" => a > 0,
           p = "stored" => (present[Origin[e]] => Kept(e)),
           request' \in [Requests -> {"none", "check", "enqueue", "pending", "ok", "not_found",
                                      "failed", "lost"}],
           \A r \in Requests : request'[r] = "ok" => request[r] = "ok",
           UNCHANGED <<running, queue, writer, tables>>
    PROVE  TypeOK' /\ Audited'
<1>1. /\ \A d \in Events : d # e => phase'[d] = phase[d] /\ attempt'[d] = attempt[d]
      /\ phase'[e] = p /\ attempt'[e] = a /\ UNCHANGED <<logs, inserted, present>> /\ queue' = queue
      /\ phase' \in [Events -> {"new", "queued"} \cup InFlight \cup Over]
      /\ attempt' \in [Events -> 0..Attempts]
  BY DEF TypeOK, tables
<1>2. TypeOK'
  BY <1>1 DEF TypeOK, writer
<1>3. QueueInv'
  <2>1. ASSUME NEW j \in Instances, NEW k \in 1..Len(queue[j])
        PROVE  queue[j][k] # e /\ queue[j][k] \in Events
    <3>1. phase[queue[j][k]] = "queued"
      BY DEF Audited, QueueInv
    <3>2. queue[j] \in Seq(Events)
      BY DEF TypeOK
    <3>. QED  BY <3>1, <3>2 DEF InFlight
  <2>. QED  BY <1>1, <2>1 DEF Audited, QueueInv
<1>4. AttemptInv'
  BY <1>1 DEF Audited, AttemptInv, InFlight, Over
<1>5. StoredInv'
  BY <1>1 DEF Audited, StoredInv, Kept
<1>6. Shapes' /\ ToldInv' /\ CachedCountExact' /\ LogsAreNewest' /\ LogsEndWithInstance'
  <2>1. UNCHANGED <<tables, cached>> /\ \A r \in Requests : request'[r] = "ok" => request[r] = "ok"
    BY <1>1 DEF writer, tables
  <2>2. Shapes'
    BY <1>1 DEF Audited, Shapes, tables
  <2>. QED  BY <2>1, <2>2, SuiteStays
<1>. QED  BY <1>2, <1>3, <1>4, <1>5, <1>6 DEF Audited

LEMMA InFlightStep ==
    ASSUME TypeOK, Audited, NEW e \in Events, EngineStep(e) \/ Break(e)
    PROVE  TypeOK' /\ Audited'
<1>. DEFINE r == <<e, attempt[e]>>
            States == {"none", "check", "enqueue", "pending", "ok", "not_found", "failed", "lost"}
<1>0. /\ Attempts \in Nat \ {0} /\ attempt[e] \in 0..Attempts
      /\ attempt = [attempt EXCEPT ![e] = attempt[e]]
      /\ request \in [Requests -> States]
  BY AuditAssumption DEF TypeOK
<1>1. CASE Send(e)
  <2>1. attempt[e] + 1 \in 1..Attempts /\ <<e, attempt[e] + 1>> \in Requests
    BY <1>0, <1>1 DEF Send, Audited, AttemptInv, Requests
  <2>2. /\ request' \in [Requests -> States]
        /\ \A q \in Requests : request'[q] = "ok" => request[q] = "ok"
    BY <1>0, <1>1, <2>1 DEF Send
  <2>3. phase[e] \in InFlight /\ "await" \in InFlight \cup Over
    BY <1>1 DEF Send, InFlight
  <2>4. /\ phase' = [phase EXCEPT ![e] = "await"]
        /\ attempt' = [attempt EXCEPT ![e] = attempt[e] + 1]
        /\ UNCHANGED <<running, queue, writer, tables>>
    BY <1>1 DEF Send
  <2>5. PICK a \in 0..Attempts : a = attempt[e] + 1 /\ a > 0
    BY <1>0, <2>1
  <2>6. attempt' = [attempt EXCEPT ![e] = a]
    BY <2>4, <2>5
  <2>. HIDE DEF r, States
  <2>. QED  BY <2>2, <2>3, <2>4, <2>5, <2>6, ReportStep DEF States
<1>2. CASE Answered(e)
  <2>1. r \in Requests
    BY <1>0, <1>2 DEF Answered, Audited, AttemptInv, Requests
  <2>2. PICK p \in {"stored", "rejected", "given_up", "backoff"} :
          /\ phase' = [phase EXCEPT ![e] = p]
          /\ p = "stored" => request[r] = "ok"
          /\ p = "backoff" => attempt[e] # Attempts
    BY <1>2 DEF Answered, Retry
  <2>3. p = "stored" => (present[Origin[e]] => Kept(e))
    BY <2>1, <2>2 DEF Audited, ToldInv
  <2>4. phase[e] \in InFlight /\ p \in InFlight \cup Over /\ p # "send" /\ p # "await"
    BY <1>2 DEF Answered, InFlight, Over
  <2>5. p = "backoff" => attempt[e] < Attempts
    BY <1>0, <2>2
  <2>6. attempt' = attempt /\ request' = request /\ UNCHANGED <<running, queue, writer, tables>>
    BY <1>2 DEF Answered
  <2>7. attempt' = [attempt EXCEPT ![e] = attempt[e]]
    BY <1>0, <2>6
  <2>. HIDE DEF r
  <2>. QED  BY <1>0, <2>2, <2>3, <2>4, <2>5, <2>6, <2>7, ReportStep
<1>3. CASE Break(e)
  <2>1. r \in Requests
    BY <1>0, <1>3 DEF Break, Audited, AttemptInv, Requests
  <2>2. PICK p \in {"given_up", "backoff"} :
          phase' = [phase EXCEPT ![e] = p] /\ (p = "backoff" => attempt[e] # Attempts)
    BY <1>3 DEF Break, Retry
  <2>3. /\ request' \in [Requests -> States]
        /\ \A q \in Requests : request'[q] = "ok" => request[q] = "ok"
    BY <1>0, <1>3, <2>1 DEF Break
  <2>4. phase[e] \in InFlight /\ p \in InFlight \cup Over /\ p \notin {"send", "await", "stored"}
    BY <1>3 DEF Break, InFlight, Over
  <2>5. p = "backoff" => attempt[e] < Attempts
    BY <1>0, <2>2
  <2>6. attempt' = attempt /\ UNCHANGED <<running, queue, writer, tables>>
    BY <1>3 DEF Break
  <2>7. attempt' = [attempt EXCEPT ![e] = attempt[e]]
    BY <1>0, <2>6
  <2>. HIDE DEF r
  <2>. QED  BY <1>0, <2>2, <2>3, <2>4, <2>5, <2>6, <2>7, ReportStep
<1>4. CASE Backoff(e)
  <2>1. attempt[e] < Attempts /\ phase[e] \in InFlight /\ "send" \in InFlight \cup Over
    BY <1>4 DEF Backoff, Audited, AttemptInv, InFlight
  <2>2. /\ phase' = [phase EXCEPT ![e] = "send"] /\ attempt' = attempt /\ request' = request
        /\ UNCHANGED <<running, queue, writer, tables>>
    BY <1>4 DEF Backoff
  <2>3. attempt' = [attempt EXCEPT ![e] = attempt[e]]
    BY <1>0, <2>2
  <2>. QED  BY <1>0, <2>1, <2>2, <2>3, ReportStep
<1>. QED  BY <1>1, <1>2, <1>3, <1>4 DEF EngineStep

LEMMA StopStep ==
    ASSUME TypeOK, Audited, NEW i \in Instances, StopEngine(i)
    PROVE  TypeOK' /\ Audited'
<1>1. /\ \A d \in Events : phase'[d] = phase[d] \/ phase'[d] = "lost"
      /\ \A d \in Events : Origin[d] # i => phase'[d] = phase[d]
      /\ phase' \in [Events -> {"new", "queued"} \cup InFlight \cup Over]
  BY DEF StopEngine, TypeOK, Over
<1>2. /\ queue'[i] = <<>>
      /\ \A j \in Instances : j # i => queue'[j] = queue[j]
  BY DEF StopEngine, Audited, Shapes
<1>3. TypeOK'
  <2>1. \A j \in Instances : queue'[j] \in Seq(Events) /\ Len(queue'[j]) <= ReportCapacity
    <3>1. <<>> \in Seq(Events) /\ Len(<<>>) = 0 /\ 0 <= ReportCapacity
      BY AuditAssumption
    <3>. QED  BY <1>2, <3>1 DEF TypeOK
  <2>. QED  BY <1>1, <2>1 DEF TypeOK, StopEngine, writer, tables
<1>4. QueueInv'
  <2>1. \A j \in Instances : \A k \in 1..Len(queue[j]) : queue[j][k] \in Events
    <3>1. \A j \in Instances : queue[j] \in Seq(Events)
      BY DEF TypeOK
    <3>. QED  BY <3>1
  <2>. QED  BY <1>1, <1>2, <2>1 DEF Audited, QueueInv
<1>5. AttemptInv' /\ StoredInv'
  <2>1. attempt' = attempt /\ inserted' = inserted /\ present' = present
    BY DEF StopEngine, tables
  <2>. QED  BY <1>1, <2>1 DEF Audited, AttemptInv, StoredInv, Kept
<1>6. Shapes' /\ ToldInv' /\ CachedCountExact' /\ LogsAreNewest' /\ LogsEndWithInstance'
  <2>1. UNCHANGED <<tables, cached>> /\ \A r \in Requests : request'[r] = "ok" => request[r] = "ok"
    BY DEF StopEngine, writer, tables
  <2>2. Shapes'
    BY DEF StopEngine, Audited, Shapes, tables
  <2>. QED  BY <2>1, <2>2, SuiteStays
<1>. QED  BY <1>3, <1>4, <1>5, <1>6 DEF Audited

-------------------------------------------------------------------------------
(* The steps of the suite                                                  *)

\* As long as tables and counts stay, and no handler is told of more.
LEMMA HandlerStep ==
    ASSUME TypeOK, Audited, UNCHANGED <<engine, tables>>,
           inbox' \in Seq(Requests), Len(inbox') <= WriteCapacity,
           batch' \in Seq(Requests), Len(batch') <= BatchSize,
           \A i \in Instances : cached'[i] \in {cached[i], Unknown},
           cached' \in [Instances -> Nat \cup {Unknown}],
           request' \in [Requests -> {"none", "check", "enqueue", "pending", "ok", "not_found",
                                      "failed", "lost"}],
           \A r \in Requests : request'[r] = "ok" => request[r] = "ok"
    PROVE  TypeOK' /\ Audited'
<1>1. TypeOK'
  BY DEF TypeOK, engine, tables
<1>2. QueueInv' /\ AttemptInv' /\ StoredInv' /\ LogsEndWithInstance' /\ LogsAreNewest' /\ Shapes'
  <2>1. QueueInv'
    BY DEF Audited, QueueInv, engine
  <2>2. AttemptInv'
    BY DEF Audited, AttemptInv, engine
  <2>3. StoredInv'
    BY DEF Audited, StoredInv, Kept, engine, tables
  <2>4. LogsEndWithInstance'
    BY DEF Audited, LogsEndWithInstance, tables
  <2>5. Shapes'
    BY DEF Audited, Shapes, engine, tables
  <2>6. LogsAreNewest'
    BY DEF Audited, LogsAreNewest, tables
  <2>. QED  BY <2>1, <2>2, <2>3, <2>4, <2>5, <2>6
<1>3. ToldInv' /\ CachedCountExact'
  BY DEF Audited, ToldInv, Kept, CachedCountExact, tables
<1>. QED  BY <1>1, <1>2, <1>3 DEF Audited

LEMMA CollectStep ==
    ASSUME TypeOK, Audited, Collect
    PROVE  TypeOK' /\ Audited'
<1>. DEFINE n == IF Len(inbox) < BatchSize THEN Len(inbox) ELSE BatchSize
<1>1. /\ inbox \in Seq(Requests) /\ Len(inbox) \in Nat /\ BatchSize \in Nat /\ WriteCapacity \in Nat
      /\ Len(inbox) <= WriteCapacity
  BY AuditAssumption DEF TypeOK
<1>2. n \in Nat /\ n <= Len(inbox) /\ n <= BatchSize
  BY <1>1
<1>3. /\ batch' = SubSeq(inbox, 1, n)
      /\ inbox' = SubSeq(inbox, n + 1, Len(inbox))
  BY DEF Collect
<1>. HIDE DEF n
<1>4. /\ batch' \in Seq(Requests) /\ Len(batch') = n
      /\ inbox' \in Seq(Requests) /\ Len(inbox') = Len(inbox) - n
  BY <1>1, <1>2, <1>3
<1>5. Len(inbox') <= WriteCapacity /\ Len(batch') <= BatchSize
  BY <1>1, <1>2, <1>4
<1>6. cached' = cached /\ request' = request /\ UNCHANGED <<engine, tables>>
  BY DEF Collect
<1>7. /\ \A i \in Instances : cached'[i] \in {cached[i], Unknown}
      /\ cached' \in [Instances -> Nat \cup {Unknown}]
      /\ request' \in [Requests -> {"none", "check", "enqueue", "pending", "ok", "not_found",
                                    "failed", "lost"}]
      /\ \A r \in Requests : request'[r] = "ok" => request[r] = "ok"
  BY <1>6 DEF TypeOK
<1>. QED  BY <1>4, <1>5, <1>6, <1>7, HandlerStep

LEMMA RequestStep ==
    ASSUME TypeOK, Audited, NEW r \in Requests, RecordEvent(r) \/ Enqueue(r)
    PROVE  TypeOK' /\ Audited'
<1>1. /\ batch' = batch /\ cached' = cached /\ UNCHANGED <<engine, tables>>
      /\ \A i \in Instances : cached'[i] \in {cached[i], Unknown}
      /\ cached' \in [Instances -> Nat \cup {Unknown}]
      /\ batch' \in Seq(Requests) /\ Len(batch') <= BatchSize
  BY DEF RecordEvent, Enqueue, writer, TypeOK
<1>2. inbox' \in Seq(Requests) /\ Len(inbox') <= WriteCapacity
  <2>1. CASE inbox' = inbox
    BY <2>1 DEF TypeOK
  <2>2. CASE inbox' = Append(inbox, r) /\ Len(inbox) < WriteCapacity
    <3>1. inbox \in Seq(Requests) /\ Len(inbox) \in Nat /\ WriteCapacity \in Nat
      BY AuditAssumption DEF TypeOK
    <3>2. inbox' \in Seq(Requests) /\ Len(inbox') = Len(inbox) + 1
      BY <2>2, <3>1
    <3>. QED  BY <2>2, <3>1, <3>2
  <2>. QED  BY <2>1, <2>2 DEF RecordEvent, Enqueue, writer
<1>3. PICK s \in {"enqueue", "not_found", "pending"} : request' = [request EXCEPT ![r] = s]
  BY DEF RecordEvent, Enqueue
<1>4. /\ request' \in [Requests -> {"none", "check", "enqueue", "pending", "ok", "not_found",
                                    "failed", "lost"}]
      /\ \A q \in Requests : request'[q] = "ok" => request[q] = "ok"
  BY <1>3 DEF TypeOK
<1>. QED  BY <1>1, <1>2, <1>4, HandlerStep

LEMMA RestartStep ==
    ASSUME TypeOK, Audited, Restart
    PROVE  TypeOK' /\ Audited'
<1>1. /\ inbox' \in Seq(Requests) /\ Len(inbox') <= WriteCapacity
      /\ batch' \in Seq(Requests) /\ Len(batch') <= BatchSize
  <2>1. <<>> \in Seq(Requests) /\ Len(<<>>) = 0 /\ 0 <= WriteCapacity /\ 0 <= BatchSize
    BY AuditAssumption
  <2>. QED  BY <2>1 DEF Restart
<1>2. /\ \A i \in Instances : cached'[i] \in {cached[i], Unknown}
      /\ cached' \in [Instances -> Nat \cup {Unknown}]
      /\ UNCHANGED <<engine, tables>>
  BY DEF Restart
<1>3. /\ request' \in [Requests -> {"none", "check", "enqueue", "pending", "ok", "not_found",
                                    "failed", "lost"}]
      /\ \A r \in Requests : request'[r] = "ok" => request[r] = "ok"
  BY DEF Restart, TypeOK
<1>. QED  BY <1>1, <1>2, <1>3, HandlerStep

\* A log whose table and history stay.
LEMMA SameNewest ==
    ASSUME Audited, NEW j \in Instances, logs'[j] = logs[j], inserted'[j] = inserted[j]
    PROVE  /\ Len(logs'[j]) = AtMost(Len(inserted'[j]), MaxLogs)
           /\ \A n \in 1..Len(logs'[j]) :
                 logs'[j][n] = inserted'[j][Len(inserted'[j]) - Len(logs'[j]) + n]
<1>1. /\ Len(logs[j]) = AtMost(Len(inserted[j]), MaxLogs)
      /\ \A n \in 1..Len(logs[j]) :
            logs[j][n] = inserted[j][Len(inserted[j]) - Len(logs[j]) + n]
  BY DEF Audited, LogsAreNewest
<1>. QED  BY <1>1

LEMMA DeleteStep ==
    ASSUME TypeOK, Audited, NEW i \in Instances, Delete(i)
    PROVE  TypeOK' /\ Audited'
<1>1. /\ present'[i] = FALSE /\ logs'[i] = <<>> /\ inserted'[i] = <<>>
      /\ \A j \in Instances : j # i => /\ present'[j] = present[j] /\ logs'[j] = logs[j]
                                       /\ inserted'[j] = inserted[j]
      /\ present' \in [Instances -> BOOLEAN]
  BY DEF Delete, TypeOK, Audited, Shapes
<1>2. engine' = engine /\ request' = request /\ writer' = writer
  BY DEF Delete
<1>3. TypeOK'
  <2>1. <<>> \in Seq(Events) /\ Len(<<>>) = 0 /\ 0 <= MaxLogs
    BY AuditAssumption
  <2>2. \A j \in Instances : logs'[j] \in Seq(Events) /\ Len(logs'[j]) <= MaxLogs
    BY <1>1, <2>1 DEF TypeOK
  <2>3. \A j \in Instances : inserted'[j] \in Seq(Events)
    BY <1>1, <2>1 DEF TypeOK
  <2>. QED  BY <1>1, <1>2, <2>2, <2>3 DEF TypeOK, engine, writer
<1>4. QueueInv' /\ AttemptInv' /\ Shapes'
  BY <1>2 DEF Delete, Audited, QueueInv, AttemptInv, Shapes, engine
<1>5. \A e \in Events : Origin[e] \in Instances
  BY AuditAssumption
<1>6. ToldInv'
  BY <1>1, <1>2, <1>5 DEF Audited, ToldInv, Kept, Requests
<1>7. CachedCountExact' /\ StoredInv' /\ LogsEndWithInstance'
  BY <1>1, <1>2, <1>5 DEF Audited, CachedCountExact, StoredInv, Kept, LogsEndWithInstance, engine,
                          writer
<1>8. LogsAreNewest'
  <2>1. Len(<<>>) = 0 /\ AtMost(0, MaxLogs) = 0
    BY AuditAssumption DEF AtMost
  <2>2. ASSUME NEW j \in Instances
        PROVE  /\ Len(logs'[j]) = AtMost(Len(inserted'[j]), MaxLogs)
               /\ \A n \in 1..Len(logs'[j]) :
                     logs'[j][n] = inserted'[j][Len(inserted'[j]) - Len(logs'[j]) + n]
    <3>1. CASE j = i
      <4>1. Len(logs'[j]) = 0 /\ Len(inserted'[j]) = 0 /\ 1..0 = {}
        BY <1>1, <3>1
      <4>. QED  BY <2>1, <4>1
    <3>2. CASE j # i
      BY <1>1, <3>2, SameNewest
    <3>. QED  BY <3>1, <3>2
  <2>. QED  BY <2>2 DEF LogsAreNewest
<1>. QED  BY <1>3, <1>4, <1>6, <1>7, <1>8 DEF Audited

\* A transaction of the writer, or none.
LEMMA WriteStep ==
    ASSUME TypeOK, Audited, NEW i \in Instances, Write(i)
    PROVE  TypeOK' /\ Audited'
<1>. DEFINE count == IF cached[i] = Unknown THEN Len(logs[i]) ELSE cached[i]
            rows  == InsertOrIgnore(logs[i], EventsOf(Group(i)))
            total == count + Len(rows) - Len(logs[i])
            kept  == Prune(rows, total)
            all   == inserted[i] \o NewTo(logs[i], EventsOf(Group(i)))
            commits == /\ present[i]
                       /\ logs' = [logs EXCEPT ![i] = kept]
                       /\ cached' = [cached EXCEPT ![i] = AtMost(total, MaxLogs)]
                       /\ inserted' = [inserted EXCEPT ![i] = all]
                       /\ Reply(i, "ok")
            missing == /\ ~present[i]
                       /\ cached' = [cached EXCEPT ![i] = Unknown]
                       /\ Reply(i, "not_found")
                       /\ logs' = logs /\ inserted' = inserted
            fails   == /\ Reply(i, "failed")
                       /\ logs' = logs /\ inserted' = inserted /\ cached' = cached
<1>1. commits \/ missing \/ fails
  BY DEF Write, Remember
<1>2. /\ engine' = engine /\ inbox' = inbox /\ present' = present
      /\ batch' = Others(i)
  BY DEF Write
<1>3. /\ batch' \in Seq(Requests) /\ Len(batch') <= BatchSize
      /\ \A r \in Range(Group(i)) : r \in Requests /\ Origin[r[1]] = i
  <2>1. /\ Others(i) \in Seq(Requests) /\ Len(Others(i)) <= Len(batch)
        /\ \A r \in Range(Group(i)) : r \in Requests /\ Origin[r[1]] = i
    BY GroupEntries
  <2>2. Len(batch) \in Nat /\ Len(batch) <= BatchSize /\ BatchSize \in Nat
    BY AuditAssumption DEF TypeOK
  <2>3. Len(Others(i)) \in Nat
    BY <2>1
  <2>. QED  BY <1>2, <2>1, <2>2, <2>3
<1>4. inbox' \in Seq(Requests) /\ Len(inbox') <= WriteCapacity
  BY <1>2 DEF TypeOK
<1>5. \A answer \in {"ok", "not_found", "failed"} : Reply(i, answer) =>
         /\ request' \in [Requests -> {"none", "check", "enqueue", "pending", "ok", "not_found",
                                       "failed", "lost"}]
         /\ \A r \in Requests : request'[r] = request[r] \/ (request'[r] = answer /\ r \in Range(Group(i)))
  BY DEF Reply, TypeOK
<1>6. CASE missing \/ fails
  <2>1. /\ request' \in [Requests -> {"none", "check", "enqueue", "pending", "ok", "not_found",
                                      "failed", "lost"}]
        /\ \A r \in Requests : request'[r] = "ok" => request[r] = "ok"
    <3>1. PICK answer \in {"not_found", "failed"} : Reply(i, answer)
      BY <1>6
    <3>. QED  BY <1>5, <3>1
  <2>2. /\ \A j \in Instances : cached'[j] \in {cached[j], Unknown}
        /\ cached' \in [Instances -> Nat \cup {Unknown}]
    BY <1>6 DEF TypeOK
  <2>3. UNCHANGED <<engine, tables>>
    BY <1>2, <1>6 DEF tables
  <2>. QED  BY <1>3, <1>4, <2>1, <2>2, <2>3, HandlerStep
<1>7. CASE commits
  <2>1. /\ kept \in Seq(Events) /\ Len(kept) <= MaxLogs
        /\ AtMost(total, MaxLogs) = Len(kept)
        /\ all \in Seq(Events)
        /\ Len(kept) = AtMost(Len(all), MaxLogs)
        /\ \A n \in 1..Len(kept) : kept[n] = all[Len(all) - Len(kept) + n]
        /\ Range(inserted[i]) \subseteq Range(all)
        /\ \A r \in Range(Group(i)) : r[1] \in Range(all)
    BY <1>7, WrittenEntries DEF Audited
  <2>2. present[i] /\ Reply(i, "ok")
    BY <1>7
  <2>3. /\ logs' = [logs EXCEPT ![i] = kept] /\ cached' = [cached EXCEPT ![i] = Len(kept)]
        /\ inserted' = [inserted EXCEPT ![i] = all]
    BY <1>7, <2>1
  <2>. HIDE DEF kept, total, rows, count, all, commits, missing, fails
  <2>4. /\ logs'[i] = kept /\ cached'[i] = Len(kept) /\ inserted'[i] = all
        /\ \A j \in Instances : j # i => /\ logs'[j] = logs[j] /\ cached'[j] = cached[j]
                                         /\ inserted'[j] = inserted[j]
    BY <2>3 DEF TypeOK, Audited, Shapes
  <2>5. /\ request' \in [Requests -> {"none", "check", "enqueue", "pending", "ok", "not_found",
                                      "failed", "lost"}]
        /\ \A r \in Requests : request'[r] = request[r] \/ (request'[r] = "ok" /\ r \in Range(Group(i)))
    BY <1>5, <2>2
  <2>6. TypeOK'
    <3>1. \A j \in Instances : logs'[j] \in Seq(Events) /\ Len(logs'[j]) <= MaxLogs
      BY <2>1, <2>4 DEF TypeOK
    <3>2. cached' \in [Instances -> Nat \cup {Unknown}]
      <4>1. Len(kept) \in Nat
        BY <2>1
      <4>. QED  BY <2>3, <4>1 DEF TypeOK
    <3>3. \A j \in Instances : inserted'[j] \in Seq(Events)
      BY <2>1, <2>4 DEF TypeOK
    <3>. QED  BY <1>2, <1>3, <1>4, <2>5, <3>1, <3>2, <3>3 DEF TypeOK, engine
  <2>7. Shapes' /\ QueueInv' /\ AttemptInv'
    <3>1. Shapes'
      BY <1>2, <2>3 DEF Audited, Shapes, engine
    <3>2. QueueInv'
      BY <1>2 DEF Audited, QueueInv, engine
    <3>3. AttemptInv'
      BY <1>2 DEF Audited, AttemptInv, engine
    <3>. QED  BY <3>1, <3>2, <3>3
  <2>8. \A e \in Events : Origin[e] \in Instances
    BY AuditAssumption
  <2>9. \A e \in Events : Kept(e) => Kept(e)'
    BY <2>1, <2>4, <2>8 DEF Kept
  <2>10. ToldInv'
    <3>. SUFFICES ASSUME NEW r \in Requests, request'[r] = "ok", present'[Origin[r[1]]]
                  PROVE  Kept(r[1])'
      BY DEF ToldInv
    <3>1. r[1] \in Events
      BY DEF Requests
    <3>2. CASE request[r] = "ok"
      BY <1>2, <2>9, <3>1, <3>2 DEF Audited, ToldInv
    <3>3. CASE r \in Range(Group(i))
      <4>1. Origin[r[1]] = i
        BY <1>3, <3>3
      <4>. QED  BY <2>1, <2>4, <3>3, <4>1 DEF Kept
    <3>. QED  BY <2>5, <3>2, <3>3
  <2>11. StoredInv'
    <3>1. phase' = phase /\ present' = present
      BY <1>2 DEF engine
    <3>. QED  BY <2>9, <3>1 DEF Audited, StoredInv
  <2>12. CachedCountExact'
    BY <1>2, <2>4 DEF Audited, CachedCountExact
  <2>13. LogsEndWithInstance'
    BY <1>2, <2>2, <2>4 DEF Audited, LogsEndWithInstance
  <2>14. LogsAreNewest'
    <3>1. ASSUME NEW j \in Instances
          PROVE  /\ Len(logs'[j]) = AtMost(Len(inserted'[j]), MaxLogs)
                 /\ \A n \in 1..Len(logs'[j]) :
                       logs'[j][n] = inserted'[j][Len(inserted'[j]) - Len(logs'[j]) + n]
      <4>1. CASE j = i
        BY <2>1, <2>4, <4>1
      <4>2. CASE j # i
        BY <2>4, <4>2, SameNewest
      <4>. QED  BY <4>1, <4>2
    <3>. QED  BY <3>1 DEF LogsAreNewest
  <2>. QED  BY <2>6, <2>7, <2>10, <2>11, <2>12, <2>13, <2>14 DEF Audited
<1>. QED  BY <1>1, <1>6, <1>7

LEMMA AuditStep == TypeOK /\ Audited /\ [Next]_vars => (TypeOK /\ Audited)'
<1>. SUFFICES ASSUME TypeOK, Audited, [Next]_vars PROVE TypeOK' /\ Audited'
  OBVIOUS
<1>1. ASSUME NEW e \in Events, Report(e) PROVE TypeOK' /\ Audited'
  BY <1>1, EngineQueueStep
<1>2. ASSUME NEW e \in Events, EngineStep(e) \/ Break(e) PROVE TypeOK' /\ Audited'
  BY <1>2, InFlightStep
<1>3. ASSUME NEW i \in Instances, Take(i) PROVE TypeOK' /\ Audited'
  BY <1>3, EngineTakeStep
<1>4. ASSUME NEW i \in Instances, StopEngine(i) PROVE TypeOK' /\ Audited'
  BY <1>4, StopStep
<1>5. ASSUME NEW i \in Instances, Write(i) PROVE TypeOK' /\ Audited'
  BY <1>5, WriteStep
<1>6. ASSUME NEW i \in Instances, Delete(i) PROVE TypeOK' /\ Audited'
  BY <1>6, DeleteStep
<1>7. ASSUME NEW r \in Requests, RecordEvent(r) \/ Enqueue(r) PROVE TypeOK' /\ Audited'
  BY <1>7, RequestStep
<1>8. CASE Collect
  BY <1>8, CollectStep
<1>9. CASE Restart
  BY <1>9, RestartStep
<1>10. CASE UNCHANGED vars
  <2>1. UNCHANGED <<engine, tables, request, inbox, batch, cached>>
    BY <1>10 DEF vars, writer
  <2>2. /\ inbox' \in Seq(Requests) /\ Len(inbox') <= WriteCapacity
        /\ batch' \in Seq(Requests) /\ Len(batch') <= BatchSize
        /\ \A i \in Instances : cached'[i] \in {cached[i], Unknown}
        /\ cached' \in [Instances -> Nat \cup {Unknown}]
        /\ request' \in [Requests -> {"none", "check", "enqueue", "pending", "ok", "not_found",
                                      "failed", "lost"}]
        /\ \A r \in Requests : request'[r] = "ok" => request[r] = "ok"
    BY <2>1 DEF TypeOK
  <2>. QED  BY <2>1, <2>2, HandlerStep
<1>. QED  BY <1>1, <1>2, <1>3, <1>4, <1>5, <1>6, <1>7, <1>8, <1>9, <1>10 DEF Next

LEMMA AuditInvariant == Spec => [](TypeOK /\ Audited)
<1>. QED  BY AuditInit, AuditStep, PTL DEF Spec

-------------------------------------------------------------------------------
(* The theorems                                                            *)

\* The queues of engines and suite keep their capacities, the table its limit, and
\* every report, attempt and request a state of its own.
THEOREM TypeCorrect == Spec => []TypeOK
<1>. QED  BY AuditInvariant, PTL

\* The writer's count in memory (AuditLogWriter, insert_instance_log_batch) is the
\* number of rows of the instance, whatever was ignored, pruned, failed or restarted.
THEOREM CachedCountsExact == Spec => []CachedCountExact
<1>1. Audited => CachedCountExact
  BY DEF Audited
<1>. QED  BY <1>1, AuditInvariant, PTL

\* The table of an instance is the newest rows ever inserted for it, MaxLogs at most
\* (the transaction of insert_instance_log_batch deletes ORDER BY id ASC).
THEOREM LogsNewest == Spec => []LogsAreNewest
<1>1. Audited => LogsAreNewest
  BY DEF Audited
<1>. QED  BY <1>1, AuditInvariant, PTL

\* What an engine believes stored (send_report saw a success) has been inserted, and
\* as long as its instance is there it is in the audit log or at least MaxLogs rows
\* have been inserted after it.
THEOREM StoredKept == Spec => []StoredIsKept
<1>1. TypeOK /\ Audited => StoredIsKept
  <2>. SUFFICES ASSUME TypeOK, Audited, NEW e \in Events, phase[e] = "stored", present[Origin[e]],
                       NEW n \in DOMAIN inserted[Origin[e]], inserted[Origin[e]][n] = e
                PROVE  e \in Range(logs[Origin[e]]) \/ n + MaxLogs <= Len(inserted[Origin[e]])
    BY DEF StoredIsKept, Audited, StoredInv, Kept
  <2>1. Origin[e] \in Instances
    BY AuditAssumption
  <2>. QED  BY <2>1, NewestKeep DEF Audited
<1>. QED  BY <1>1, AuditInvariant, PTL

\* No write that was on its way when an instance was deleted leaves it logs.
THEOREM LogsEnd == Spec => []LogsEndWithInstance
<1>1. Audited => LogsEndWithInstance
  BY DEF Audited
<1>. QED  BY <1>1, AuditInvariant, PTL
===============================================================================
