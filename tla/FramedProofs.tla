----------------------------- MODULE FramedProofs -----------------------------
(***************************************************************************)
(* The handlers that cut up what they are sent, or what they answer, by    *)
(* themselves: SNMP, whose GETNEXT and GETBULK answers are pieces of one   *)
(* walk, and Memcached, whose lines come in pieces of any size.  For any   *)
(* rules, questions and limits: the OIDs are ordered, the next value       *)
(* exists whenever a value follows, and an answer takes a walk further     *)
(* without a gap; and lines are counted by where they end in the stream.   *)
(*                                                                         *)
(* Induction over positions, sizes and turns is done by hand, with the     *)
(* least counterexample, since the library's theorems take an operator.    *)
(***************************************************************************)
EXTENDS SnmpSession, MemcachedSession, TLAPS, SequenceTheorems, FiniteSetTheorems,
        WellFoundedInduction

LEMMA Least ==
    ASSUME NEW S \in SUBSET Nat, S # {}
    PROVE  \E m \in S : \A k \in S : m <= k
<1>. DEFINE R == {ss \in Nat \X Nat : ss[1] < ss[2]}
<1>1. OpToRel(<, Nat) = R
  BY DEF OpToRel
<1>2. IsWellFoundedOn(R, Nat)
  BY <1>1, NatLessThanWellFounded
<1>3. \A k, m \in Nat : <<k, m>> \in R <=> k < m
  OBVIOUS
<1>. HIDE DEF R
<1>4. PICK m \in S : \A k \in S : <<k, m>> \notin R
  BY <1>2, WFMin
<1>5. \A k \in S : ~(k < m)
  BY <1>3, <1>4
<1>6. m \in Nat
  OBVIOUS
<1>. QED  BY <1>5, <1>6

-------------------------------------------------------------------------------
(* The walk of a GETBULK answer is what its loop says                      *)

\* f holds what the loop has got after each of n turns.
IsWalk(f, n, values, oid) ==
    f = [i \in 0..n |-> IF i = 0 THEN <<>> ELSE Further(values, oid, f[i - 1])]

LEMMA WalkLonger ==
    ASSUME NEW n \in Nat, NEW values, NEW oid, NEW f, IsWalk(f, n, values, oid)
    PROVE  \E g : IsWalk(g, n + 1, values, oid)
<1>. DEFINE g == [i \in 0..(n + 1) |-> IF i = n + 1 THEN Further(values, oid, f[n]) ELSE f[i]]
<1>1. ASSUME NEW i \in 0..(n + 1)
      PROVE  g[i] = IF i = 0 THEN <<>> ELSE Further(values, oid, g[i - 1])
  <2>1. CASE i = n + 1
    <3>1. g[i] = Further(values, oid, f[n]) /\ g[n] = f[n]
      BY <2>1
    <3>. QED  BY <2>1, <3>1
  <2>2. CASE i # n + 1 /\ i # 0
    <3>1. i \in 0..n /\ i - 1 \in 0..(n + 1) /\ i - 1 # n + 1
      BY <2>2
    <3>2. g[i] = f[i] /\ g[i - 1] = f[i - 1]
      BY <2>2, <3>1
    <3>3. f[i] = Further(values, oid, f[i - 1])
      BY <2>2, <3>1 DEF IsWalk
    <3>. QED  BY <2>2, <3>2, <3>3
  <2>3. CASE i = 0
    <3>1. g[i] = f[i] /\ 0 \in 0..n
      BY <2>3
    <3>2. f[0] = <<>>
      BY <3>1 DEF IsWalk
    <3>. QED  BY <2>3, <3>1, <3>2
  <2>. QED  BY <2>1, <2>2, <2>3
<1>2. g = [i \in 0..(n + 1) |-> g[i]]
  OBVIOUS
<1>. HIDE DEF g
<1>. QED  BY <1>1, <1>2 DEF IsWalk

LEMMA WalkExists ==
    ASSUME NEW n \in Nat, NEW values, NEW oid
    PROVE  \E f : IsWalk(f, n, values, oid)
<1>. DEFINE Bad == {m \in Nat : ~\E f : IsWalk(f, m, values, oid)}
<1>. SUFFICES ASSUME Bad # {} PROVE FALSE
  OBVIOUS
<1>1. PICK m \in Bad : \A k \in Bad : m <= k
  BY Least
<1>2. m # 0
  <2>. DEFINE f == [i \in 0..0 |-> <<>>]
  <2>1. f = [i \in 0..0 |-> IF i = 0 THEN <<>> ELSE Further(values, oid, f[i - 1])]
    OBVIOUS
  <2>. QED  BY <2>1 DEF IsWalk
<1>3. m - 1 \in Nat /\ m - 1 \notin Bad /\ (m - 1) + 1 = m
  BY <1>1, <1>2
<1>. QED  BY <1>1, <1>3, WalkLonger

\* The recursive function of BulkValues has the values that its equation gives.
LEMMA BulkWalk ==
    ASSUME NEW values, NEW oid, NEW r, NEW n \in Nat, n = Turns(r)
    PROVE  \E f : IsWalk(f, n, values, oid) /\ BulkValues(values, oid, r) = f[n]
<1>1. \E f : IsWalk(f, n, values, oid)
  BY WalkExists
<1>. QED  BY <1>1 DEF IsWalk, BulkValues

-------------------------------------------------------------------------------
(* The order of the OIDs                                                   *)

Oids == Seq(Nat)

LEMMA BeforeIrreflexive ==
    ASSUME NEW a \in Oids
    PROVE  ~Before(a, a)
<1>1. Len(a) \in Nat /\ \A i \in 1..Len(a) : a[i] \in Nat
  BY LenProperties, ElementOfSeq DEF Oids
<1>. QED  BY <1>1 DEF Before

LEMMA BeforeTransitive ==
    ASSUME NEW a \in Oids, NEW b \in Oids, NEW c \in Oids, Before(a, b), Before(b, c)
    PROVE  Before(a, c)
<1>1. /\ Len(a) \in Nat /\ Len(b) \in Nat /\ Len(c) \in Nat
      /\ \A i \in 1..Len(a) : a[i] \in Nat
      /\ \A i \in 1..Len(b) : b[i] \in Nat
      /\ \A i \in 1..Len(c) : c[i] \in Nat
  BY LenProperties, ElementOfSeq DEF Oids
<1>2. PICK i \in 1..Len(b) :
        /\ \A j \in 1..(i - 1) : j <= Len(a) /\ a[j] = b[j]
        /\ i = Len(a) + 1 \/ (i <= Len(a) /\ a[i] < b[i])
  BY DEF Before
<1>3. PICK k \in 1..Len(c) :
        /\ \A j \in 1..(k - 1) : j <= Len(b) /\ b[j] = c[j]
        /\ k = Len(b) + 1 \/ (k <= Len(b) /\ b[k] < c[k])
  BY DEF Before
<1>4. CASE i < k
  <2>1. i \in 1..Len(c) /\ b[i] = c[i]
    BY <1>1, <1>3, <1>4
  <2>2. \A j \in 1..(i - 1) : j <= Len(a) /\ a[j] = c[j]
    BY <1>1, <1>2, <1>3, <1>4
  <2>. QED  BY <1>2, <2>1, <2>2 DEF Before
<1>5. CASE k <= i
  <2>1. k <= Len(b) /\ b[k] < c[k]
    BY <1>1, <1>3, <1>5
  <2>2. \A j \in 1..(k - 1) : j <= Len(a) /\ a[j] = c[j]
    BY <1>1, <1>2, <1>3, <1>5
  <2>3. k = Len(a) + 1 \/ (k <= Len(a) /\ a[k] < c[k])
    BY <1>1, <1>2, <1>5, <2>1
  <2>. QED  BY <2>2, <2>3 DEF Before
<1>. QED  BY <1>1, <1>4, <1>5

LEMMA BeforeTotal ==
    ASSUME NEW a \in Oids, NEW b \in Oids, a # b
    PROVE  Before(a, b) \/ Before(b, a)
<1>1. /\ Len(a) \in Nat /\ Len(b) \in Nat
      /\ \A i \in 1..Len(a) : a[i] \in Nat
      /\ \A i \in 1..Len(b) : b[i] \in Nat
  BY LenProperties, ElementOfSeq DEF Oids
<1>. DEFINE Differ == {i \in Nat : i >= 1 /\ i <= Len(a) /\ i <= Len(b) /\ a[i] # b[i]}
<1>2. CASE Differ # {}
  <2>1. PICK i \in Differ : \A k \in Differ : i <= k
    BY <1>2, Least
  <2>2. \A j \in 1..(i - 1) : j <= Len(a) /\ j <= Len(b) /\ a[j] = b[j]
    BY <1>1, <2>1
  <2>3. a[i] < b[i] \/ b[i] < a[i]
    BY <1>1
  <2>. QED  BY <1>1, <2>2, <2>3 DEF Before
<1>3. CASE Differ = {}
  <2>1. \A j \in Nat : j >= 1 /\ j <= Len(a) /\ j <= Len(b) => a[j] = b[j]
    BY <1>3
  <2>2. Len(a) # Len(b)
    BY <1>1, <2>1, SeqEqual DEF Oids
  <2>3. CASE Len(a) < Len(b)
    <3>1. Len(a) + 1 \in 1..Len(b) /\ \A j \in 1..Len(a) : j <= Len(a) /\ a[j] = b[j]
      BY <1>1, <2>1, <2>3
    <3>. QED  BY <1>1, <3>1 DEF Before
  <2>4. CASE Len(b) < Len(a)
    <3>1. Len(b) + 1 \in 1..Len(a) /\ \A j \in 1..Len(b) : j <= Len(b) /\ b[j] = a[j]
      BY <1>1, <2>1, <2>4
    <3>. QED  BY <1>1, <3>1 DEF Before
  <2>. QED  BY <1>1, <2>2, <2>3, <2>4
<1>. QED  BY <1>2, <1>3

\* oid is the first of T.
First(oid, T) == oid \in T /\ \A u \in T : u = oid \/ Before(oid, u)

LEMMA FirstExists ==
    ASSUME NEW T \in SUBSET Oids, IsFiniteSet(T), T # {}
    PROVE  \E oid \in T : First(oid, T)
<1>. DEFINE Bad == {n \in Nat : \E U \in SUBSET T : /\ U # {} /\ Cardinality(U) = n
                                                 /\ ~\E oid \in U : First(oid, U)}
<1>. SUFFICES ASSUME Bad # {} PROVE FALSE
  <2>1. Cardinality(T) \in Nat
    BY FS_CardinalityType
  <2>. QED  BY <2>1
<1>1. PICK n \in Bad : \A k \in Bad : n <= k
  BY Least
<1>2. PICK U \in SUBSET T : U # {} /\ Cardinality(U) = n /\ ~\E oid \in U : First(oid, U)
  BY <1>1
<1>3. PICK x \in U : TRUE
  BY <1>2
<1>. DEFINE W == U \ {x}
<1>4. IsFiniteSet(U) /\ IsFiniteSet(W) /\ Cardinality(W) = n - 1
  BY <1>2, <1>3, FS_Subset, FS_RemoveElement
<1>5. W # {}
  BY <1>2 DEF First
<1>6. n - 1 \in Nat /\ n - 1 \notin Bad
  BY <1>1, <1>4, FS_CardinalityType
<1>7. PICK y \in W : First(y, W)
  BY <1>4, <1>5, <1>6
<1>8. Before(x, y) \/ Before(y, x)
  BY BeforeTotal
<1>9. CASE Before(y, x)
  <2>1. First(y, U)
    BY <1>7, <1>9 DEF First
  <2>. QED  BY <1>2, <2>1
<1>10. CASE Before(x, y)
  <2>1. ASSUME NEW u \in U, u # x PROVE Before(x, u)
    <3>1. u = y \/ Before(y, u)
      BY <1>7, <2>1 DEF First
    <3>. QED  BY <1>10, <3>1, BeforeTransitive
  <2>2. First(x, U)
    BY <2>1 DEF First
  <2>. QED  BY <1>2, <2>2
<1>. QED  BY <1>8, <1>9, <1>10

\* The values of a rule.
LEMMA NextIsFirst ==
    ASSUME NEW values \in Values, NEW oid, Following(values, oid) # {}
    PROVE  First(NextValue(values, oid), Following(values, oid))
<1>1. Following(values, oid) \in SUBSET Oids /\ IsFiniteSet(Following(values, oid))
  <2>1. values \subseteq Oids /\ IsFiniteSet(values)
    BY SnmpAssumption DEF Oids
  <2>2. Following(values, oid) \in SUBSET values
    BY DEF Following
  <2>. QED  BY <2>1, <2>2, FS_Subset
<1>2. PICK v \in Following(values, oid) : First(v, Following(values, oid))
  BY <1>1, FirstExists
<1>. QED  BY <1>2 DEF NextValue, First

-------------------------------------------------------------------------------
(* A walk without gaps                                                     *)

\* A walk from start got the OIDs of q: values after start, in their order,
\* and all that are not after the last one.
Walked(values, start, q) ==
    /\ q \in Seq(Oids)
    /\ \A i \in 1..Len(q) : q[i] \in Following(values, start)
    /\ \A i, j \in 1..Len(q) : i < j => Before(q[i], q[j])
    /\ \A v \in Following(values, start) :
         Before(Cursor(start, q), v) \/ \E i \in 1..Len(q) : v = q[i]

LEMMA ValuesAreOids ==
    ASSUME NEW values \in Values, NEW oid
    PROVE  Following(values, oid) \subseteq values /\ values \subseteq Oids
BY SnmpAssumption DEF Following, Oids

LEMMA WalkBegins ==
    ASSUME NEW values \in Values, NEW start \in Oids
    PROVE  Walked(values, start, <<>>)
BY EmptySeq DEF Walked, Cursor, Following

\* Where a walk stands: at its last OID.
LEMMA WalkStands ==
    ASSUME NEW values \in Values, NEW start \in Oids, NEW q, Walked(values, start, q)
    PROVE  /\ Len(q) \in Nat /\ Cursor(start, q) \in Oids
           /\ \A i \in 1..Len(q) : q[i] \in Oids
           /\ q = <<>> => Cursor(start, q) = start
           /\ q # <<>> => Len(q) \in 1..Len(q) /\ Cursor(start, q) = q[Len(q)]
           /\ \A i \in 1..Len(q) : q[i] = Cursor(start, q) \/ Before(q[i], Cursor(start, q))
           /\ Cursor(start, q) = start \/ Before(start, Cursor(start, q))
<1>1. Len(q) \in Nat /\ (q # <<>> => Len(q) \in 1..Len(q)) /\ \A i \in 1..Len(q) : q[i] \in Oids
  BY EmptySeq, ElementOfSeq, LenProperties DEF Walked
<1>2. CASE q = <<>>
  BY <1>1, <1>2, EmptySeq DEF Cursor
<1>3. CASE q # <<>>
  <2>1. Cursor(start, q) = q[Len(q)] /\ Len(q) \in 1..Len(q)
    BY <1>1, <1>3 DEF Cursor
  <2>2. q[Len(q)] \in Oids /\ Before(start, q[Len(q)])
    BY <1>1, <2>1 DEF Walked, Following
  <2>3. ASSUME NEW i \in 1..Len(q) PROVE q[i] = q[Len(q)] \/ Before(q[i], q[Len(q)])
    BY <1>1, <2>1 DEF Walked
  <2>. QED  BY <1>1, <1>3, <2>1, <2>2, <2>3
<1>. QED  BY <1>2, <1>3

\* What is left for a walk is what follows its cursor.
LEMMA WalkLeft ==
    ASSUME NEW values \in Values, NEW start \in Oids, NEW q, Walked(values, start, q)
    PROVE  \A v : v \in Following(values, Cursor(start, q)) <=>
                    v \in Following(values, start) /\ \A i \in 1..Len(q) : v # q[i]
<1>. DEFINE c == Cursor(start, q)
<1>1. /\ c \in Oids /\ (c = start \/ Before(start, c))
      /\ \A i \in 1..Len(q) : q[i] \in Oids /\ (q[i] = c \/ Before(q[i], c))
  BY WalkStands
<1>. HIDE DEF c
<1>2. ASSUME NEW v \in Following(values, c)
      PROVE  v \in Following(values, start) /\ \A i \in 1..Len(q) : v # q[i]
  <2>1. v \in Oids /\ v \in values /\ Before(c, v)
    BY ValuesAreOids DEF Following
  <2>2. Before(start, v)
    BY <1>1, <2>1, BeforeTransitive
  <2>3. ASSUME NEW i \in 1..Len(q), v = q[i] PROVE FALSE
    <3>1. v = c \/ Before(v, c)
      BY <1>1, <2>3
    <3>2. Before(v, v)
      BY <1>1, <2>1, <3>1, BeforeTransitive
    <3>. QED  BY <2>1, <3>2, BeforeIrreflexive
  <2>. QED  BY <2>1, <2>2, <2>3 DEF Following
<1>3. ASSUME NEW v \in Following(values, start), \A i \in 1..Len(q) : v # q[i]
      PROVE  v \in Following(values, c)
  BY <1>3 DEF Walked, Following, c
<1>. QED  BY <1>2, <1>3 DEF c

\* A walk may go on with another one from where it stands.
LEMMA WalksJoin ==
    ASSUME NEW values \in Values, NEW start \in Oids, NEW q, Walked(values, start, q),
           NEW r, Walked(values, Cursor(start, q), r)
    PROVE  Walked(values, start, q \o r) /\ Cursor(start, q \o r) = Cursor(Cursor(start, q), r)
<1>. DEFINE c == Cursor(start, q)
            t == q \o r
<1>1. /\ c \in Oids /\ (c = start \/ Before(start, c)) /\ Len(q) \in Nat
      /\ \A i \in 1..Len(q) : q[i] \in Oids /\ (q[i] = c \/ Before(q[i], c))
      /\ (q = <<>> => c = start) /\ (q # <<>> => c = q[Len(q)] /\ Len(q) \in 1..Len(q))
  BY WalkStands
<1>2. /\ Len(r) \in Nat
      /\ \A i \in 1..Len(r) : r[i] \in Oids
      /\ (r = <<>> => Cursor(c, r) = c)
      /\ (r # <<>> => Cursor(c, r) = r[Len(r)] /\ Len(r) \in 1..Len(r))
  BY <1>1, WalkStands
<1>3. q \in Seq(Oids) /\ r \in Seq(Oids)
  BY DEF Walked
<1>4. /\ t \in Seq(Oids) /\ Len(t) = Len(q) + Len(r)
      /\ \A i \in 1..Len(q) : i \in 1..Len(t) /\ t[i] = q[i]
      /\ \A i \in 1..Len(r) : Len(q) + i \in 1..Len(t) /\ t[Len(q) + i] = r[i]
      /\ \A i \in 1..Len(t) : i \in 1..Len(q) \/ \E k \in 1..Len(r) : i = Len(q) + k
  BY <1>1, <1>2, <1>3, ConcatProperties
<1>5. Cursor(start, t) = Cursor(c, r)
  <2>1. CASE r = <<>>
    BY <1>2, <1>3, <2>1, ConcatEmptySeq
  <2>2. CASE r # <<>>
    <3>1. t # <<>> /\ t[Len(t)] = r[Len(r)]
      BY <1>2, <1>4, <2>2, EmptySeq
    <3>. QED  BY <1>2, <2>2, <3>1 DEF Cursor
  <2>. QED  BY <2>1, <2>2
<1>6. Walked(values, c, r)
  OBVIOUS
<1>. HIDE DEF c, t
<1>7. ASSUME NEW i \in 1..Len(r) PROVE Before(c, r[i]) /\ r[i] \in Following(values, start)
  <2>1. r[i] \in values /\ Before(c, r[i]) /\ r[i] \in Oids
    BY <1>2, <1>6 DEF Walked, Following
  <2>. QED  BY <1>1, <2>1, BeforeTransitive DEF Following
<1>8. ASSUME NEW i \in 1..Len(t) PROVE t[i] \in Following(values, start)
  <2>1. CASE i \in 1..Len(q)
    BY <1>4, <2>1 DEF Walked
  <2>2. ASSUME NEW k \in 1..Len(r), i = Len(q) + k PROVE t[i] \in Following(values, start)
    BY <1>4, <1>7, <2>2
  <2>. QED  BY <1>4, <2>1, <2>2
<1>9. ASSUME NEW i \in 1..Len(t), NEW j \in 1..Len(t), i < j
      PROVE  Before(t[i], t[j])
  <2>1. CASE j \in 1..Len(q)
    <3>1. i \in 1..Len(q)
      BY <1>1, <1>4, <1>9, <2>1
    <3>. QED  BY <1>4, <1>9, <2>1, <3>1 DEF Walked
  <2>2. ASSUME NEW k \in 1..Len(r), j = Len(q) + k PROVE Before(t[i], t[j])
    <3>1. CASE i \in 1..Len(q)
      <4>1. t[i] = q[i] /\ t[j] = r[k] /\ Before(c, r[k])
        BY <1>4, <1>7, <2>2, <3>1
      <4>2. q[i] \in Oids /\ (q[i] = c \/ Before(q[i], c)) /\ r[k] \in Oids
        BY <1>1, <1>2, <2>2, <3>1
      <4>. QED  BY <1>1, <4>1, <4>2, BeforeTransitive
    <3>2. ASSUME NEW h \in 1..Len(r), i = Len(q) + h PROVE Before(t[i], t[j])
      <4>1. t[i] = r[h] /\ t[j] = r[k] /\ h < k
        BY <1>1, <1>4, <1>9, <2>2, <3>2
      <4>. QED  BY <1>6, <4>1 DEF Walked
    <3>. QED  BY <1>4, <3>1, <3>2
  <2>. QED  BY <1>4, <2>1, <2>2
<1>10. ASSUME NEW v \in Following(values, start)
       PROVE  Before(Cursor(start, t), v) \/ \E i \in 1..Len(t) : v = t[i]
  <2>1. CASE \E i \in 1..Len(q) : v = q[i]
    BY <1>4, <2>1
  <2>2. CASE Before(c, v)
    <3>1. v \in Following(values, c)
      BY <2>2 DEF Following
    <3>2. Before(Cursor(c, r), v) \/ \E i \in 1..Len(r) : v = r[i]
      BY <1>6, <3>1 DEF Walked
    <3>. QED  BY <1>4, <1>5, <3>2
  <2>. QED  BY <2>1, <2>2 DEF Walked, c
<1>. QED  BY <1>4, <1>5, <1>8, <1>9, <1>10 DEF Walked, c, t

\* One value further, the least that is left.
LEMMA WalkFurther ==
    ASSUME NEW values \in Values, NEW start \in Oids, NEW q, Walked(values, start, q),
           NEW c, c = Cursor(start, q), Following(values, c) # {}
    PROVE  /\ Walked(values, start, Append(q, NextValue(values, c)))
           /\ Append(q, NextValue(values, c)) # <<>>
           /\ NextValue(values, c) \in Following(values, c)
<1>. DEFINE x == NextValue(values, c)
<1>1. First(x, Following(values, c))
  BY NextIsFirst
<1>. HIDE DEF x
<1>2. x \in Oids /\ x \in Following(values, c) /\ q \in Seq(Oids)
  BY <1>1, ValuesAreOids DEF First, Walked
<1>3. Len(<<x>>) = 1 /\ <<x>>[1] = x /\ <<x>> # <<>> /\ <<x>> \in Seq(Oids)
  BY <1>2
<1>4. Cursor(c, <<x>>) = x
  BY <1>3 DEF Cursor
<1>5. Walked(values, c, <<x>>)
  BY <1>1, <1>2, <1>3, <1>4 DEF Walked, First
<1>6. Append(q, x) = q \o <<x>> /\ Append(q, x) # <<>>
  BY <1>2, AppendIsConcat, AppendProperties
<1>7. Walked(values, start, q \o <<x>>)
  BY <1>5, WalksJoin
<1>. QED  BY <1>2, <1>6, <1>7 DEF x

\* A GETBULK answer, as the loop of build_response in snmp.rs makes it, is a walk
\* from its cursor without a gap, and empty only where no value follows.
THEOREM BulkAnswersWalk ==
    ASSUME NEW values \in Values, NEW c \in Oids, NEW r \in Nat
    PROVE  /\ Walked(values, c, BulkValues(values, c, r))
           /\ BulkValues(values, c, r) = <<>> => Following(values, c) = {}
<1>. DEFINE n == Turns(r)
<1>1. n \in Nat /\ n >= 1
  BY SnmpAssumption DEF Turns
<1>. HIDE DEF n
<1>2. PICK f : IsWalk(f, n, values, c) /\ BulkValues(values, c, r) = f[n]
  BY <1>1, BulkWalk DEF n
<1>3. f[0] = <<>> /\ \A i \in 1..n : f[i] = Further(values, c, f[i - 1])
  BY <1>1, <1>2 DEF IsWalk
<1>. DEFINE Good(i) == Walked(values, c, f[i]) /\ (f[i] = <<>> => i = 0 \/ Following(values, c) = {})
            Bad == {i \in Nat : i <= n /\ ~Good(i)}
<1>4. Good(0)
  BY <1>3, WalkBegins
<1>5. ASSUME NEW i \in 1..n, Good(i - 1) PROVE Good(i)
  <2>1. CASE Following(values, Cursor(c, f[i - 1])) = {}
    <3>1. f[i] = f[i - 1]
      BY <1>3, <2>1 DEF Further
    <3>2. f[i] = <<>> => Following(values, c) = {}
      BY <2>1, <3>1 DEF Cursor
    <3>. QED  BY <1>5, <3>1, <3>2
  <2>2. CASE Following(values, Cursor(c, f[i - 1])) # {}
    <3>1. f[i] = Append(f[i - 1], NextValue(values, Cursor(c, f[i - 1])))
      BY <1>3, <2>2 DEF Further
    <3>2. Walked(values, c, f[i])
      BY <1>5, <2>2, <3>1, WalkFurther
    <3>3. f[i] # <<>>
      BY <1>5, <2>2, <3>1, WalkFurther
    <3>. QED  BY <3>2, <3>3
  <2>. QED  BY <2>1, <2>2
<1>. HIDE DEF Good
<1>6. Bad = {}
  <2>. SUFFICES ASSUME Bad # {} PROVE FALSE
    OBVIOUS
  <2>1. PICK m \in Bad : \A k \in Bad : m <= k
    BY Least
  <2>2. m # 0 /\ m \in Nat /\ m <= n
    BY <1>4, <2>1
  <2>3. m \in 1..n /\ m - 1 \in Nat /\ m - 1 <= n /\ m - 1 \notin Bad
    BY <1>1, <2>1, <2>2
  <2>. QED  BY <1>5, <2>1, <2>3
<1>7. Good(n)
  BY <1>1, <1>6
<1>. QED  BY <1>1, <1>2, <1>7 DEF Good

-------------------------------------------------------------------------------
(* The steps of the endpoint                                               *)

AllEncodable(q) == \A i \in 1..Len(q) : Encodable(q[i])

\* What a session owes to the manager that walks, and to the encoder.
SnmpSound(s) ==
    /\ s \in SnmpSession
    /\ Walked(rule.values, s.start, s.seen)
    /\ AllEncodable(s.seen)
    /\ s.over => Following(rule.values, Cursor(s.start, s.seen)) = {}

\* There is an OID to come that ends the endpoint.
Doomed == \E v \in Following(rule.values, Place) : ~Encodable(v)

SnmpInv ==
    /\ rule.values \in Values
    /\ SnmpSound(session)
    /\ said.kind = "unencodable" => Doomed

LEMMA QuestionsAreOids == \A q \in Questions : q \in Oids /\ Encodable(q)
BY QuestionsAssumption DEF Oids

LEMMA SnmpInitial ==
    ASSUME rule.values \in Values, session \in [start : Questions, seen : {<<>>}, over : {FALSE}],
           said = Say("nothing")
    PROVE  SnmpInv
<1>1. Walked(rule.values, session.start, session.seen) /\ session.seen = <<>> /\ ~session.over
  BY WalkBegins, QuestionsAreOids
<1>2. session \in SnmpSession
  BY EmptySeq DEF SnmpSession
<1>3. AllEncodable(session.seen)
  BY <1>1 DEF AllEncodable
<1>4. SnmpSound(session)
  BY <1>1, <1>2, <1>3 DEF SnmpSound
<1>. QED  BY <1>4 DEF SnmpInv, Say

\* The place of the walk and its OIDs.
LEMMA SnmpPlace ==
    ASSUME SnmpInv
    PROVE  /\ session \in SnmpSession /\ session.start \in Oids
           /\ Place = Cursor(session.start, session.seen)
           /\ Place \in Oids /\ Encodable(Place)
<1>1. session \in SnmpSession /\ session.start \in Oids /\ Encodable(session.start)
  BY QuestionsAreOids DEF SnmpInv, SnmpSound, SnmpSession
<1>2. Walked(rule.values, session.start, session.seen) /\ AllEncodable(session.seen)
  BY DEF SnmpInv, SnmpSound
<1>3. Place = Cursor(session.start, session.seen)
  BY DEF Place
<1>4. Place \in Oids
  BY <1>1, <1>2, <1>3, WalkStands DEF SnmpInv
<1>5. Encodable(Place)
  BY <1>1, <1>2, <1>3, WalkStands DEF SnmpInv, AllEncodable
<1>. QED  BY <1>1, <1>3, <1>4, <1>5

LEMMA SnmpStays ==
    ASSUME SnmpInv, rule' = rule, session' = session, said'.kind # "unencodable"
    PROVE  SnmpInv'
BY DEF SnmpInv, SnmpSound, Place

LEMMA SendsSafely ==
    ASSUME SnmpInv, NEW oids, NEW s, Sends(oids, s),
           (\A i \in DOMAIN oids : Encodable(oids[i])) => SnmpSound(s),
           (\E i \in DOMAIN oids : ~Encodable(oids[i])) => Doomed
    PROVE  SnmpInv'
<1>1. CASE /\ \A i \in DOMAIN oids : Encodable(oids[i])
           /\ Answers("request", s, Say("values"), "after")
  <2>1. /\ session' = s \/ session' = session
        /\ said'.kind # "unencodable" /\ rule' = rule
    BY <1>1 DEF Answers, Say
  <2>. QED  BY <1>1, <2>1 DEF SnmpInv, SnmpSound
<1>2. CASE /\ \E i \in DOMAIN oids : ~Encodable(oids[i])
           /\ rule' = rule /\ session' = session
  BY <1>2 DEF SnmpInv, SnmpSound, Doomed, Place
<1>. QED  BY <1>1, <1>2 DEF Sends

LEMMA SnmpStep ==
    ASSUME SnmpInv, rule.protocol = "snmp", SnmpNext
    PROVE  SnmpInv'
<1>. DEFINE values == rule.values
            start  == session.start
            seen   == session.seen
<1>1. /\ values \in Values /\ SnmpSound(session) /\ session \in SnmpSession /\ start \in Oids
      /\ Place = Cursor(start, seen) /\ Place \in Oids /\ Encodable(Place)
      /\ Walked(values, start, seen) /\ AllEncodable(seen)
  BY SnmpPlace DEF SnmpInv, SnmpSound
<1>2. seen \in Seq(Oids) /\ Len(seen) \in Nat
  BY <1>1, LenProperties DEF Walked
<1>. HIDE DEF values, start, seen
<1>3. ASSUME NEW oid \in Oids, Encodable(oid)
      PROVE  ~\E i \in DOMAIN <<oid>> : ~Encodable(<<oid>>[i])
  BY <1>3
<1>4. CASE SnmpGet
  <2>1. PICK oid \in Questions : Sends(<<oid>>, session)
    BY <1>4 DEF SnmpGet
  <2>. QED  BY <1>1, <1>3, <2>1, QuestionsAreOids, SendsSafely
<1>5. CASE SnmpGetNext /\ Following(values, Place) # {}
  <2>. DEFINE next == NextValue(values, Place)
              s    == [session EXCEPT !.seen = Append(seen, next)]
  <2>1. Sends(<<next>>, s) /\ ~session.over
    BY <1>5 DEF SnmpGetNext, values, seen
  <2>2. Walked(values, start, Append(seen, next)) /\ next \in Following(values, Place)
    BY <1>1, <1>5, WalkFurther
  <2>3. next \in Oids
    BY <1>1, <2>2, ValuesAreOids
  <2>. HIDE DEF next
  <2>4. CASE Encodable(next)
    <3>1. s \in SnmpSession /\ s.seen = Append(seen, next) /\ s.start = start /\ s.over = FALSE
      BY <1>1, <1>2, <2>1, <2>3, AppendProperties DEF SnmpSession, Oids, start
    <3>2. AllEncodable(s.seen)
      BY <1>1, <1>2, <2>3, <2>4, <3>1, AppendProperties DEF AllEncodable
    <3>3. SnmpSound(s)
      BY <2>2, <3>1, <3>2 DEF SnmpSound, values
    <3>. QED  BY <1>3, <2>1, <2>3, <2>4, <3>3, SendsSafely
  <2>5. CASE ~Encodable(next)
    <3>1. Doomed /\ 1 \in DOMAIN <<next>> /\ <<next>>[1] = next
      BY <2>2, <2>5 DEF Doomed, values
    <3>. QED  BY <2>1, <2>5, <3>1, SendsSafely
  <2>. QED  BY <2>4, <2>5
<1>6. CASE SnmpGetNext /\ Following(values, Place) = {}
  <2>. DEFINE s == [session EXCEPT !.over = TRUE]
  <2>1. Sends(<<Place>>, s)
    BY <1>6 DEF SnmpGetNext, values
  <2>2. s \in SnmpSession /\ s.seen = seen /\ s.start = start
    BY <1>1 DEF SnmpSession, start, seen
  <2>3. SnmpSound(s)
    BY <1>1, <1>6, <2>2 DEF SnmpSound, values
  <2>. QED  BY <1>1, <1>3, <2>1, <2>3, SendsSafely
<1>7. CASE SnmpGetBulk
  <2>1. PICK r \in 0..(MaxVarbinds + 1) :
          LET got == BulkValues(values, Place, r)
          IN Sends(got, [session EXCEPT !.seen = @ \o got, !.over = (got = <<>>)])
    BY <1>7 DEF SnmpGetBulk, values
  <2>. DEFINE got == BulkValues(values, Place, r)
              s   == [session EXCEPT !.seen = seen \o got, !.over = (got = <<>>)]
  <2>2. Sends(got, s)
    BY <2>1 DEF seen
  <2>3. Walked(values, Place, got) /\ (got = <<>> => Following(values, Place) = {})
    BY <1>1, BulkAnswersWalk, SnmpAssumption
  <2>. HIDE DEF got
  <2>4. /\ Walked(values, start, seen \o got)
        /\ Cursor(start, seen \o got) = Cursor(Place, got)
    BY <1>1, <2>3, WalksJoin
  <2>5. got \in Seq(Oids) /\ Len(got) \in Nat /\ DOMAIN got = 1..Len(got)
    BY <2>3, LenProperties DEF Walked
  <2>6. ASSUME AllEncodable(got) PROVE SnmpSound(s)
    <3>1. seen \o got \in Seq(Oids)
      BY <1>2, <2>5, ConcatProperties
    <3>2. /\ s \in SnmpSession /\ s.seen = seen \o got /\ s.start = start
          /\ s.over = (got = <<>>)
      BY <1>1, <3>1 DEF SnmpSession, Oids, start
    <3>3. AllEncodable(s.seen)
      <4>1. \A i \in 1..(Len(seen) + Len(got)) :
               (seen \o got)[i] = IF i <= Len(seen) THEN seen[i] ELSE got[i - Len(seen)]
        BY <1>2, <2>5, ConcatProperties
      <4>2. Len(seen \o got) = Len(seen) + Len(got)
        BY <1>2, <2>5, ConcatProperties
      <4>. QED  BY <1>1, <1>2, <2>5, <2>6, <3>2, <4>1, <4>2 DEF AllEncodable
    <3>4. s.over => Following(values, Cursor(s.start, s.seen)) = {}
      BY <2>3, <2>4, <3>2 DEF Cursor
    <3>. QED  BY <2>4, <3>2, <3>3, <3>4 DEF SnmpSound, values
  <2>7. ASSUME NEW i \in DOMAIN got, ~Encodable(got[i]) PROVE Doomed
    BY <2>3, <2>5, <2>7 DEF Walked, Doomed, values
  <2>. HIDE DEF s
  <2>. QED  BY <2>2, <2>5, <2>6, <2>7, SendsSafely DEF AllEncodable
<1>8. CASE SnmpUnanswered
  BY <1>8, SnmpStays DEF SnmpUnanswered, Silent, Say
<1>9. CASE DnsUdpQuery
  BY <1>9 DEF DnsUdpQuery, Takes, PassesOver, Reads
<1>. QED  BY <1>4, <1>5, <1>6, <1>7, <1>8, <1>9 DEF SnmpNext

\* What the invariant says of the walk.
LEMMA SnmpWalks ==
    ASSUME SnmpInv,
           NEW all, all = Following(rule.values, session.start),
           NEW got, got = {session.seen[i] : i \in DOMAIN session.seen}
    PROVE  /\ \A i \in 2..Len(session.seen) : Before(session.seen[i - 1], session.seen[i])
           /\ got \subseteq all
           /\ \A v \in all \ got : \A u \in got : Before(u, v)
           /\ session.over => got = all
           /\ said.kind = "unencodable" => \E v \in all \ got : ~Encodable(v)
<1>. DEFINE values == rule.values
            seen   == session.seen
            start  == session.start
<1>1. /\ values \in Values /\ start \in Oids /\ Walked(values, start, seen)
      /\ Place = Cursor(start, seen) /\ Place \in Oids
      /\ session.over => Following(values, Place) = {}
      /\ said.kind = "unencodable" => \E v \in Following(values, Place) : ~Encodable(v)
  BY SnmpPlace DEF SnmpInv, SnmpSound, Doomed
<1>2. all = Following(values, start) /\ got = {seen[i] : i \in DOMAIN seen}
  OBVIOUS
<1>. HIDE DEF values, seen, start
<1>3. seen \in Seq(Oids) /\ Len(seen) \in Nat /\ DOMAIN seen = 1..Len(seen)
  BY <1>1, LenProperties DEF Walked
<1>4. ASSUME NEW i \in 2..Len(seen) PROVE Before(seen[i - 1], seen[i])
  <2>1. i - 1 \in 1..Len(seen) /\ i \in 1..Len(seen) /\ i - 1 < i
    BY <1>3
  <2>. QED  BY <1>1, <2>1 DEF Walked
<1>5. got \subseteq all
  BY <1>1, <1>2, <1>3 DEF Walked
<1>6. \A v : v \in Following(values, Place) <=> v \in all \ got
  <2>1. \A v : v \in Following(values, Place) <=>
                 v \in Following(values, start) /\ \A i \in 1..Len(seen) : v # seen[i]
    BY <1>1, WalkLeft
  <2>2. \A v : v \in got <=> \E i \in 1..Len(seen) : v = seen[i]
    BY <1>2, <1>3
  <2>. QED  BY <1>2, <2>1, <2>2
<1>7. ASSUME NEW v \in all \ got, NEW u \in got PROVE Before(u, v)
  <2>1. v \in Oids /\ Before(Place, v)
    BY <1>1, <1>6, <1>7, ValuesAreOids DEF Following
  <2>2. PICK i \in 1..Len(seen) : u = seen[i]
    BY <1>2, <1>3
  <2>3. seen[i] \in Oids /\ (seen[i] = Place \/ Before(seen[i], Place))
    BY <1>1, WalkStands
  <2>. QED  BY <1>1, <2>1, <2>2, <2>3, BeforeTransitive
<1>8. session.over => got = all
  BY <1>1, <1>5, <1>6
<1>9. said.kind = "unencodable" => \E v \in all \ got : ~Encodable(v)
  BY <1>1, <1>6
<1>. QED  BY <1>4, <1>5, <1>7, <1>8, <1>9 DEF seen

-------------------------------------------------------------------------------
(* Memcached: the lines of a stream                                        *)

LEMMA LineEndIsFirst ==
    ASSUME NEW s \in Seq(Characters), HasLine(s)
    PROVE  /\ LineEnd(s) \in 1..Len(s) /\ s[LineEnd(s)] = "n"
           /\ \A j \in 1..(LineEnd(s) - 1) : s[j] # "n"
<1>. DEFINE Ends == {i \in DOMAIN s : s[i] = "n"}
<1>1. Len(s) \in Nat /\ DOMAIN s = 1..Len(s)
  BY LenProperties
<1>2. Ends \in SUBSET Nat /\ Ends # {}
  BY <1>1 DEF HasLine
<1>3. PICK i \in Ends : \A k \in Ends : i <= k
  BY <1>2, Least
<1>4. \A j \in 1..(i - 1) : s[j] # "n"
  BY <1>1, <1>3
<1>. QED  BY <1>1, <1>3, <1>4 DEF LineEnd

\* The commands in the first d characters of s.
Ended(s, d) == {i \in CommandEnds(s) : i <= d}

\* The line of s that ends at i is a command.
EndsCommand(s, i) ==
    s[i] = "n" /\ \E j \in 1..(i - 1) : s[j] = "c" /\ \A k \in j..(i - 1) : s[k] # "n"

LEMMA EndedMembers ==
    ASSUME NEW s \in Seq(Characters), NEW d \in Nat, d <= Len(s)
    PROVE  \A i : i \in Ended(s, d) <=> i \in 1..d /\ EndsCommand(s, i)
<1>1. Len(s) \in Nat /\ DOMAIN s = 1..Len(s)
  BY LenProperties
<1>. QED  BY <1>1 DEF Ended, CommandEnds, EndsCommand

\* The stream s up to d, where a line has ended, and p, what is left of it.
Cut(s, d, p) ==
    /\ s \in Seq(Characters) /\ p \in Seq(Characters)
    /\ d \in Nat /\ Len(s) = d + Len(p)
    /\ d = 0 \/ s[d] = "n"
    /\ \A i \in 1..Len(p) : p[i] = s[d + i]

LEMMA EndedFinite ==
    ASSUME NEW s \in Seq(Characters), NEW d
    PROVE  /\ IsFiniteSet(CommandEnds(s)) /\ IsFiniteSet(Ended(s, d))
           /\ Cardinality(Ended(s, d)) \in Nat /\ Cardinality(CommandEnds(s)) \in Nat
           /\ Cardinality(Ended(s, d)) <= Cardinality(CommandEnds(s))
<1>1. Len(s) \in Nat /\ DOMAIN s = 1..Len(s)
  BY LenProperties
<1>2. IsFiniteSet(1..Len(s))
  BY <1>1, FS_Interval
<1>3. CommandEnds(s) \in SUBSET (1..Len(s)) /\ Ended(s, d) \in SUBSET CommandEnds(s)
  BY <1>1 DEF CommandEnds, Ended
<1>. QED  BY <1>2, <1>3, FS_Subset, FS_CardinalityType

\* A concatenation, part by part.
LEMMA Joined ==
    ASSUME NEW S, NEW s \in Seq(S), NEW t \in Seq(S)
    PROVE  /\ s \o t \in Seq(S) /\ Len(s \o t) = Len(s) + Len(t)
           /\ \A i \in 1..Len(s) : (s \o t)[i] = s[i]
           /\ \A i \in 1..Len(t) : (s \o t)[Len(s) + i] = t[i]
<1>1. Len(s) \in Nat /\ Len(t) \in Nat
  BY LenProperties
<1>2. /\ s \o t \in Seq(S) /\ Len(s \o t) = Len(s) + Len(t)
      /\ \A i \in 1..(Len(s) + Len(t)) : (s \o t)[i] = IF i <= Len(s) THEN s[i] ELSE t[i - Len(s)]
  BY ConcatProperties
<1>3. ASSUME NEW i \in 1..Len(s) PROVE (s \o t)[i] = s[i]
  BY <1>1, <1>2
<1>4. ASSUME NEW i \in 1..Len(t) PROVE (s \o t)[Len(s) + i] = t[i]
  <2>1. Len(s) + i \in 1..(Len(s) + Len(t)) /\ ~(Len(s) + i <= Len(s)) /\ (Len(s) + i) - Len(s) = i
    BY <1>1
  <2>. QED  BY <1>2, <2>1
<1>. QED  BY <1>2, <1>3, <1>4

\* What is read later changes nothing before d.
LEMMA EndedByRead ==
    ASSUME NEW s, NEW d, NEW p, Cut(s, d, p), NEW chunk \in Seq(Characters)
    PROVE  Cut(s \o chunk, d, p \o chunk) /\ Ended(s \o chunk, d) = Ended(s, d)
<1>. DEFINE t == s \o chunk
            q == p \o chunk
<1>1. /\ s \in Seq(Characters) /\ p \in Seq(Characters) /\ d \in Nat
      /\ Len(s) \in Nat /\ Len(p) \in Nat /\ Len(chunk) \in Nat /\ Len(s) = d + Len(p)
      /\ d = 0 \/ s[d] = "n"
      /\ \A i \in 1..Len(p) : p[i] = s[d + i]
  BY LenProperties DEF Cut
<1>2. /\ t \in Seq(Characters) /\ Len(t) = Len(s) + Len(chunk)
      /\ \A i \in 1..Len(s) : t[i] = s[i]
      /\ \A i \in 1..Len(chunk) : t[Len(s) + i] = chunk[i]
  <2>1. s \in Seq(Characters)
    BY <1>1
  <2>. QED  BY <2>1, Joined
<1>3. /\ q \in Seq(Characters) /\ Len(q) = Len(p) + Len(chunk)
      /\ \A i \in 1..Len(p) : q[i] = p[i]
      /\ \A i \in 1..Len(chunk) : q[Len(p) + i] = chunk[i]
  <2>1. p \in Seq(Characters)
    BY <1>1
  <2>. QED  BY <2>1, Joined
<1>4. DOMAIN s = 1..Len(s) /\ DOMAIN t = 1..Len(t)
  BY <1>1, <1>2, LenProperties
<1>. HIDE DEF t, q
<1>5. Cut(t, d, q)
  <2>1. d = 0 \/ t[d] = "n"
    BY <1>1, <1>2
  <2>2. ASSUME NEW i \in 1..Len(q) PROVE q[i] = t[d + i]
    <3>1. CASE i <= Len(p)
      BY <1>1, <1>2, <1>3, <3>1
    <3>2. CASE i > Len(p)
      <4>1. PICK k \in 1..Len(chunk) : i = Len(p) + k
        <5>1. i - Len(p) \in 1..Len(chunk) /\ i = Len(p) + (i - Len(p))
          BY <1>1, <1>3, <3>2
        <5>. QED  BY <5>1
      <4>2. d + i = Len(s) + k
        BY <1>1, <4>1
      <4>. QED  BY <1>2, <1>3, <4>1, <4>2
    <3>. QED  BY <1>1, <3>1, <3>2
  <2>. QED  BY <1>1, <1>2, <1>3, <2>1, <2>2 DEF Cut
<1>6. ASSUME NEW i \in 1..d PROVE EndsCommand(t, i) <=> EndsCommand(s, i)
  <2>1. i \in Nat /\ \A j \in 1..i : t[j] = s[j]
    BY <1>1, <1>2
  <2>2. t[i] = s[i] /\ \A j \in 1..(i - 1) : t[j] = s[j]
    BY <2>1
  <2>3. ASSUME NEW j \in 1..(i - 1)
        PROVE  (\A k \in j..(i - 1) : t[k] # "n") <=> (\A k \in j..(i - 1) : s[k] # "n")
    BY <2>1, <2>2
  <2>. QED  BY <2>2, <2>3 DEF EndsCommand
<1>7. Ended(t, d) = Ended(s, d)
  <2>1. d <= Len(s) /\ d <= Len(t)
    BY <1>1, <1>2
  <2>2. ASSUME NEW i PROVE i \in Ended(t, d) <=> i \in Ended(s, d)
    BY <1>1, <1>2, <1>6, <2>1, EndedMembers
  <2>. QED  BY <2>2
<1>. QED  BY <1>5, <1>7 DEF t, q

\* Without a line in p all commands of the stream have ended before.
LEMMA AllEnded ==
    ASSUME NEW s, NEW d, NEW p, Cut(s, d, p), ~HasLine(p)
    PROVE  CommandEnds(s) = Ended(s, d)
<1>1. /\ d \in Nat /\ Len(s) = d + Len(p) /\ Len(p) \in Nat
      /\ DOMAIN s = 1..Len(s) /\ DOMAIN p = 1..Len(p)
      /\ \A i \in 1..Len(p) : p[i] = s[d + i]
  BY LenProperties DEF Cut
<1>2. ASSUME NEW i \in 1..Len(s), s[i] = "n" PROVE i <= d
  <2>. SUFFICES ASSUME i > d PROVE FALSE
    BY <1>1
  <2>1. i - d \in 1..Len(p) /\ d + (i - d) = i
    BY <1>1
  <2>. QED  BY <1>1, <1>2, <2>1 DEF HasLine
<1>. QED  BY <1>1, <1>2 DEF Ended, CommandEnds

\* A line that is taken off is counted if it is a command.
LEMMA EndedByLine ==
    ASSUME NEW s, NEW d, NEW p, Cut(s, d, p), HasLine(p),
           NEW e, e = LineEnd(p)
    PROVE  /\ e \in 1..Len(p) /\ Cut(s, d + e, SubSeq(p, e + 1, Len(p)))
           /\ Len(SubSeq(p, e + 1, Len(p))) = Len(p) - e
           /\ IsCommand(SubSeq(p, 1, e)) => Ended(s, d + e) = Ended(s, d) \cup {d + e}
           /\ ~IsCommand(SubSeq(p, 1, e)) => Ended(s, d + e) = Ended(s, d)
<1>. DEFINE line == SubSeq(p, 1, e)
            rest == SubSeq(p, e + 1, Len(p))
<1>1. /\ s \in Seq(Characters) /\ p \in Seq(Characters) /\ d \in Nat
      /\ Len(s) \in Nat /\ Len(p) \in Nat /\ Len(s) = d + Len(p)
      /\ d = 0 \/ s[d] = "n"
      /\ \A i \in 1..Len(p) : p[i] = s[d + i] /\ p[i] \in Characters
  BY LenProperties, ElementOfSeq DEF Cut
<1>2. e \in 1..Len(p) /\ p[e] = "n" /\ \A j \in 1..(e - 1) : p[j] # "n"
  BY <1>1, LineEndIsFirst
<1>3. /\ d \in Nat /\ e \in Nat /\ Len(p) \in Nat /\ Len(s) \in Nat
      /\ 1 <= e /\ e <= Len(p) /\ Len(s) = d + Len(p)
  BY <1>1, <1>2
<1>4. DOMAIN line = 1..e /\ \A i \in 1..e : line[i] = p[i]
  <2>1. \A i \in 1..e : p[i] \in Characters
    BY <1>1, <1>2
  <2>2. line \in Seq(Characters) /\ Len(line) = e /\ \A i \in 1..e : line[i] = p[i]
    BY <1>2, <2>1, SubSeqProperties
  <2>. QED  BY <2>2, LenProperties
<1>5. /\ rest \in Seq(Characters) /\ Len(rest) = Len(p) - e
      /\ \A i \in 1..Len(rest) : rest[i] = p[e + i]
  <2>1. e + 1 \in Int /\ Len(p) \in Int /\ \A i \in (e + 1)..Len(p) : p[i] \in Characters
    BY <1>1, <1>2
  <2>2. /\ rest \in Seq(Characters)
        /\ Len(rest) = IF e + 1 <= Len(p) THEN Len(p) - (e + 1) + 1 ELSE 0
        /\ \A i \in 1..(Len(p) - (e + 1) + 1) : rest[i] = p[(e + 1) + i - 1]
    BY <2>1, SubSeqProperties
  <2>3. Len(rest) = Len(p) - e
    BY <1>3, <2>2
  <2>. HIDE DEF rest
  <2>4. ASSUME NEW i \in 1..(Len(p) - e) PROVE rest[i] = p[e + i]
    <3>1. i \in 1..(Len(p) - (e + 1) + 1) /\ (e + 1) + i - 1 = e + i
      BY <1>3
    <3>. QED  BY <2>2, <3>1
  <2>. QED  BY <2>2, <2>3, <2>4
<1>. HIDE DEF line, rest
<1>6. Cut(s, d + e, rest)
  <2>1. d + e \in Nat /\ Len(s) = d + e + Len(rest) /\ s[d + e] = "n"
    BY <1>1, <1>2, <1>5
  <2>2. ASSUME NEW i \in 1..Len(rest) PROVE rest[i] = s[d + e + i]
    <3>1. e + i \in 1..Len(p) /\ d + (e + i) = d + e + i
      BY <1>3, <1>5
    <3>. QED  BY <1>1, <1>5, <3>1
  <2>. QED  BY <1>1, <1>5, <2>1, <2>2 DEF Cut
<1>. DEFINE m == d + e
<1>7. /\ m \in Nat /\ d < m /\ m <= Len(s) /\ s[m] = "n"
      /\ \A i \in 1..e : i \in 1..Len(p) /\ s[d + i] = p[i] /\ d + i \in (d + 1)..m
      /\ \A j \in (d + 1)..m : j - d \in 1..e /\ s[j] = p[j - d]
  <2>1. m \in Nat /\ d < m /\ m <= Len(s)
    BY <1>3
  <2>2. ASSUME NEW i \in 1..e PROVE i \in 1..Len(p) /\ s[d + i] = p[i] /\ d + i \in (d + 1)..m
    <3>1. i \in 1..Len(p) /\ d + i \in (d + 1)..m
      BY <1>3
    <3>. QED  BY <1>1, <3>1
  <2>3. ASSUME NEW j \in (d + 1)..m PROVE j - d \in 1..e /\ s[j] = p[j - d]
    <3>1. j - d \in 1..e /\ d + (j - d) = j
      BY <1>3
    <3>. QED  BY <2>2, <3>1
  <2>4. s[m] = "n"
    BY <1>1, <1>2
  <2>. QED  BY <2>1, <2>2, <2>3, <2>4
<1>8. d \in Nat /\ m \in Nat /\ e \in Nat /\ e >= 1 /\ m = d + e /\ d < m
  BY <1>3
<1>. HIDE DEF m
<1>9. \A j \in (d + 1)..m : j # m => s[j] # "n"
  <2>. SUFFICES ASSUME NEW j \in (d + 1)..m, j # m PROVE s[j] # "n"
    OBVIOUS
  <2>1. j - d \in 1..(e - 1)
    BY <1>8
  <2>2. s[j] = p[j - d]
    BY <1>7
  <2>. QED  BY <1>2, <2>1, <2>2
<1>10. ASSUME IsCommand(line) PROVE EndsCommand(s, m)
  <2>1. PICK i \in 1..e : p[i] = "c"
    BY <1>4, <1>10 DEF IsCommand
  <2>2. PICK j \in (d + 1)..m : s[j] = "c"
    BY <1>7, <2>1
  <2>3. j # m
    BY <1>7, <2>2
  <2>4. j \in 1..(m - 1) /\ \A k \in j..(m - 1) : k \in (d + 1)..m /\ k # m
    BY <1>8, <2>3
  <2>. QED  BY <1>7, <1>9, <2>2, <2>4 DEF EndsCommand
<1>11. ASSUME EndsCommand(s, m) PROVE IsCommand(line)
  <2>1. PICK j \in 1..(m - 1) : s[j] = "c" /\ \A k \in j..(m - 1) : s[k] # "n"
    BY <1>11 DEF EndsCommand
  <2>2. j > d
    <3>. SUFFICES ASSUME j <= d PROVE FALSE
      BY <1>8
    <3>1. d \in j..(m - 1) /\ d # 0
      BY <1>8
    <3>. QED  BY <1>1, <2>1, <3>1
  <2>3. j \in (d + 1)..m
    BY <1>8, <2>2
  <2>4. j - d \in 1..e /\ p[j - d] = "c"
    BY <1>7, <2>1, <2>3
  <2>. QED  BY <1>4, <2>4 DEF IsCommand
<1>12. ASSUME NEW i PROVE i \in Ended(s, m) <=>
                            i \in Ended(s, d) \/ (i = m /\ IsCommand(line))
  <2>1. d <= Len(s)
    BY <1>1, <1>7
  <2>2. /\ i \in Ended(s, d) <=> i \in 1..d /\ EndsCommand(s, i)
        /\ i \in Ended(s, m) <=> i \in 1..m /\ EndsCommand(s, i)
    BY <1>1, <1>7, <2>1, EndedMembers
  <2>3. i \in (d + 1)..m /\ i # m => ~EndsCommand(s, i)
    BY <1>9 DEF EndsCommand
  <2>4. /\ i \in 1..m => i \in 1..d \/ i \in (d + 1)..m
        /\ i \in 1..d => i \in 1..m
        /\ i = m => i \in 1..m
    BY <1>8
  <2>. QED  BY <1>10, <1>11, <2>2, <2>3, <2>4
<1>13. IsCommand(line) => Ended(s, m) = Ended(s, d) \cup {m}
  BY <1>12
<1>14. ~IsCommand(line) => Ended(s, m) = Ended(s, d)
  BY <1>12
<1>. QED  BY <1>2, <1>5, <1>6, <1>13, <1>14 DEF line, rest, m

\* The lines taken off session s, which waits at w.
Taken(s) == Len(s.sent) - Len(s.pending)

MemcachedSound(s, w) ==
    /\ s \in MemcachedSession
    /\ Cut(s.sent, Taken(s), s.pending)
    /\ s.commands = Cardinality(Ended(s.sent, Taken(s)))
    /\ w = "request" => ~HasLine(s.pending)
    /\ w # "closed" => s.commands < MaxCommands /\ Len(s.pending) <= MaxRequestSize
    /\ Len(s.pending) > MaxRequestSize =>
         \A i \in 1..(MaxRequestSize + 1 - ChunkSize) : s.pending[i] # "n"

\* The inductive invariant of Memcached.
MemcachedInv == MemcachedSound(session, at)

LEMMA MemcachedInitial == MemcachedSound(MemcachedNew, "request")
<1>. DEFINE s == MemcachedNew
<1>1. /\ s.pending = <<>> /\ s.sent = <<>> /\ s.commands = 0
      /\ <<>> \in Seq(Characters) /\ Len(<<>>) = 0 /\ DOMAIN <<>> = {}
  BY EmptySeq DEF MemcachedNew
<1>2. s \in MemcachedSession
  BY <1>1, MemcachedAssumption DEF MemcachedNew, MemcachedSession
<1>3. Taken(s) = 0
  BY <1>1 DEF Taken
<1>. HIDE DEF s
<1>4. Cut(s.sent, Taken(s), s.pending)
  BY <1>1, <1>3 DEF Cut
<1>5. Ended(s.sent, Taken(s)) = {} /\ Cardinality({}) = 0
  BY <1>1, <1>3, FS_EmptySet DEF Ended, CommandEnds
<1>6. ~HasLine(s.pending) /\ Len(s.pending) = 0
  BY <1>1 DEF HasLine
<1>7. 0 < MaxCommands /\ 0 <= MaxRequestSize /\ ~(0 > MaxRequestSize)
  BY MemcachedAssumption
<1>8. MemcachedSound(s, "request")
  BY <1>1, <1>2, <1>4, <1>5, <1>6, <1>7 DEF MemcachedSound
<1>. QED  BY <1>8 DEF s

\* The end of the task leaves a sound session.
LEMMA MemcachedEnds ==
    ASSUME NEW s, NEW w, MemcachedSound(s, w)
    PROVE  MemcachedSound(s, "closed")
BY DEF MemcachedSound

LEMMA MemcachedFields ==
    ASSUME NEW s, NEW w, MemcachedSound(s, w)
    PROVE  /\ s.pending \in Seq(Characters) /\ s.sent \in Seq(Characters)
           /\ Len(s.pending) \in Nat /\ Len(s.sent) \in Nat
           /\ Taken(s) \in Nat /\ Len(s.sent) = Taken(s) + Len(s.pending)
           /\ s.commands \in 0..MaxCommands
<1>1. s \in MemcachedSession /\ Cut(s.sent, Taken(s), s.pending)
  BY DEF MemcachedSound
<1>2. s.pending \in Seq(Characters) /\ s.sent \in Seq(Characters) /\ s.commands \in 0..MaxCommands
  BY <1>1 DEF MemcachedSession
<1>. QED  BY <1>1, <1>2, LenProperties DEF Cut

\* A piece of the stream after what has no line.
LEMMA ReadSound ==
    ASSUME NEW s, MemcachedSound(s, "request"),
           NEW n \in 1..ChunkSize, NEW chunk \in [1..n -> Characters],
           NEW t, t = [s EXCEPT !.pending = @ \o chunk, !.sent = @ \o chunk]
    PROVE  MemcachedSound(t, IF Len(t.pending) > MaxRequestSize THEN "closed" ELSE "lines")
<1>. DEFINE p == s.pending
            d == Taken(s)
<1>1. /\ p \in Seq(Characters) /\ s.sent \in Seq(Characters) /\ d \in Nat
      /\ Len(p) \in Nat /\ Len(s.sent) \in Nat /\ Len(s.sent) = d + Len(p)
      /\ s.commands \in 0..MaxCommands
  BY MemcachedFields
<1>2. /\ s \in MemcachedSession /\ Cut(s.sent, d, p) /\ ~HasLine(p)
      /\ s.commands = Cardinality(Ended(s.sent, d))
      /\ s.commands < MaxCommands /\ Len(p) <= MaxRequestSize
  BY DEF MemcachedSound
<1>3. n \in Nat /\ n <= ChunkSize /\ ChunkSize \in Nat /\ MaxRequestSize \in Nat
      /\ ChunkSize <= MaxRequestSize
  BY MemcachedAssumption
<1>4. chunk \in Seq(Characters) /\ Len(chunk) = n
  BY <1>3, IsASeq, LenProperties
<1>5. /\ t.pending = p \o chunk /\ t.sent = s.sent \o chunk /\ t.commands = s.commands
      /\ t \in MemcachedSession
  <2>1. p \o chunk \in Seq(Characters) /\ s.sent \o chunk \in Seq(Characters)
    BY <1>1, <1>4, ConcatProperties
  <2>. QED  BY <1>1, <1>2, <2>1 DEF MemcachedSession
<1>. HIDE DEF p, d
<1>6. Len(t.pending) = Len(p) + n /\ Len(t.sent) = Len(s.sent) + n
  <2>1. Len(p \o chunk) = Len(p) + n
    BY <1>1, <1>4, Joined
  <2>2. Len(s.sent \o chunk) = Len(s.sent) + n
    BY <1>1, <1>4, Joined
  <2>. QED  BY <1>5, <2>1, <2>2
<1>7. Taken(t) = d
  <2>1. Taken(t) = (Len(s.sent) + n) - (Len(p) + n)
    BY <1>6 DEF Taken
  <2>. QED  BY <1>1, <1>3, <2>1
<1>8. Cut(t.sent, d, t.pending) /\ Ended(t.sent, d) = Ended(s.sent, d)
  <2>1. Cut(s.sent, d, p) /\ chunk \in Seq(Characters)
    BY <1>2, <1>4
  <2>2. Cut(s.sent \o chunk, d, p \o chunk) /\ Ended(s.sent \o chunk, d) = Ended(s.sent, d)
    BY <2>1, EndedByRead
  <2>. QED  BY <1>5, <2>2
<1>9. ASSUME Len(t.pending) > MaxRequestSize, NEW i \in 1..(MaxRequestSize + 1 - ChunkSize)
      PROVE  t.pending[i] # "n"
  <2>1. i \in 1..Len(p)
    BY <1>1, <1>3, <1>6, <1>9
  <2>2. t.pending[i] = p[i]
    BY <1>1, <1>4, <1>5, <2>1, Joined
  <2>. QED  BY <1>1, <1>2, <2>1, <2>2, LenProperties DEF HasLine
<1>10. Len(t.pending) > MaxRequestSize \/ Len(t.pending) <= MaxRequestSize
  BY <1>1, <1>3, <1>6
<1>. QED  BY <1>2, <1>5, <1>7, <1>8, <1>9, <1>10 DEF MemcachedSound

\* A line is taken off, and is counted if it is a command.
LEMMA LineSound ==
    ASSUME NEW s, MemcachedSound(s, "lines"), HasLine(s.pending),
           NEW e, e = LineEnd(s.pending), NEW n, NEW t,
           t = [s EXCEPT !.pending = SubSeq(@, e + 1, Len(@)), !.commands = n],
           n = IF IsCommand(SubSeq(s.pending, 1, e)) THEN s.commands + 1 ELSE s.commands
    PROVE  MemcachedSound(t, IF n >= MaxCommands THEN "closed" ELSE "lines")
<1>. DEFINE p == s.pending
            d == Taken(s)
            line == SubSeq(p, 1, e)
<1>1. /\ p \in Seq(Characters) /\ s.sent \in Seq(Characters) /\ d \in Nat
      /\ Len(p) \in Nat /\ Len(s.sent) \in Nat /\ Len(s.sent) = d + Len(p)
      /\ s.commands \in 0..MaxCommands
  BY MemcachedFields
<1>2. /\ s \in MemcachedSession /\ Cut(s.sent, d, p)
      /\ s.commands = Cardinality(Ended(s.sent, d))
      /\ s.commands < MaxCommands /\ Len(p) <= MaxRequestSize
  BY DEF MemcachedSound
<1>3. MaxCommands \in Nat /\ MaxRequestSize \in Nat
  BY MemcachedAssumption
<1>4. /\ e \in 1..Len(p) /\ Cut(s.sent, d + e, SubSeq(p, e + 1, Len(p)))
      /\ Len(SubSeq(p, e + 1, Len(p))) = Len(p) - e
      /\ IsCommand(line) => Ended(s.sent, d + e) = Ended(s.sent, d) \cup {d + e}
      /\ ~IsCommand(line) => Ended(s.sent, d + e) = Ended(s.sent, d)
  <2>1. HasLine(p) /\ e = LineEnd(p) /\ line = SubSeq(p, 1, e) /\ Cut(s.sent, d, p)
    BY <1>2
  <2>. HIDE DEF p, d, line
  <2>. QED  BY <2>1, EndedByLine
<1>5. n \in 0..MaxCommands
  BY <1>1, <1>2, <1>3
<1>6. /\ t.pending = SubSeq(p, e + 1, Len(p)) /\ t.sent = s.sent /\ t.commands = n
      /\ t \in MemcachedSession
  <2>1. SubSeq(p, e + 1, Len(p)) \in Seq(Characters)
    BY <1>4 DEF Cut
  <2>. QED  BY <1>1, <1>2, <1>5, <2>1 DEF MemcachedSession
<1>7. n = IF IsCommand(line) THEN s.commands + 1 ELSE s.commands
  OBVIOUS
<1>. HIDE DEF p, d, line
<1>8. Len(t.pending) = Len(p) - e /\ Taken(t) = d + e
  <2>1. Len(t.pending) = Len(p) - e /\ Len(t.sent) = Len(s.sent)
    BY <1>4, <1>6
  <2>2. e \in Nat /\ Taken(t) = Len(s.sent) - (Len(p) - e)
    BY <1>1, <1>4, <2>1 DEF Taken
  <2>. QED  BY <1>1, <2>1, <2>2
<1>9. n = Cardinality(Ended(t.sent, d + e))
  <2>1. CASE IsCommand(line)
    <3>1. d + e \notin Ended(s.sent, d)
      BY <1>1, <1>4 DEF Ended
    <3>2. IsFiniteSet(Ended(s.sent, d))
      BY <1>1, EndedFinite
    <3>3. Cardinality(Ended(s.sent, d) \cup {d + e}) = Cardinality(Ended(s.sent, d)) + 1
      BY <3>1, <3>2, FS_AddElement
    <3>. QED  BY <1>2, <1>4, <1>6, <1>7, <2>1, <3>3
  <2>2. CASE ~IsCommand(line)
    BY <1>2, <1>4, <1>6, <1>7, <2>2
  <2>. QED  BY <2>1, <2>2
<1>10. Len(t.pending) <= MaxRequestSize /\ ~(Len(t.pending) > MaxRequestSize)
  BY <1>1, <1>2, <1>3, <1>4, <1>8
<1>11. n >= MaxCommands \/ n < MaxCommands
  BY <1>3, <1>5
<1>. QED  BY <1>4, <1>6, <1>8, <1>9, <1>10, <1>11 DEF MemcachedSound

LEMMA MemcachedStep ==
    ASSUME MemcachedInv, MemcachedNext
    PROVE  MemcachedInv'
<1>1. CASE MemcachedRead
  <2>1. at = "request"
    BY <1>1 DEF MemcachedRead, Takes, Reads
  <2>2. PICK n \in 1..ChunkSize : \E chunk \in [1..n -> Characters] :
          LET s == [session EXCEPT !.pending = @ \o chunk, !.sent = @ \o chunk] IN
          Silent(IF Len(s.pending) > MaxRequestSize THEN "closed" ELSE "lines", s, "none")
    BY <1>1 DEF MemcachedRead
  <2>3. PICK chunk \in [1..n -> Characters] :
          LET s == [session EXCEPT !.pending = @ \o chunk, !.sent = @ \o chunk] IN
          Silent(IF Len(s.pending) > MaxRequestSize THEN "closed" ELSE "lines", s, "none")
    BY <2>2
  <2>. DEFINE s == [session EXCEPT !.pending = @ \o chunk, !.sent = @ \o chunk]
  <2>4. session' = s /\ at' = IF Len(s.pending) > MaxRequestSize THEN "closed" ELSE "lines"
    BY <2>3 DEF Silent
  <2>5. MemcachedSound(s, IF Len(s.pending) > MaxRequestSize THEN "closed" ELSE "lines")
    BY <2>1, ReadSound DEF MemcachedInv
  <2>. HIDE DEF s
  <2>. QED  BY <2>4, <2>5 DEF MemcachedInv
<1>2. CASE MemcachedLine
  <2>. DEFINE e    == LineEnd(session.pending)
              line == SubSeq(session.pending, 1, e)
              rest == [session EXCEPT !.pending = SubSeq(@, e + 1, Len(@))]
              n    == session.commands + 1
  <2>1. /\ at = "lines" /\ HasLine(session.pending)
        /\ \/ ~IsCommand(line) /\ Silent("lines", rest, "none")
           \/ /\ IsCommand(line)
              /\ Answers(IF n >= MaxCommands THEN "closed" ELSE "lines",
                         [rest EXCEPT !.commands = n], Say("reply"), "after")
    BY <1>2 DEF MemcachedLine, AtLines
  <2>2. MemcachedSound(session, "lines")
    BY <2>1 DEF MemcachedInv
  <2>3. session \in MemcachedSession /\ session.commands < MaxCommands
    BY <2>2 DEF MemcachedSound
  <2>4. CASE ~IsCommand(line)
    <3>1. session' = rest /\ at' = "lines"
      BY <2>1, <2>4 DEF Silent
    <3>2. rest = [session EXCEPT !.pending = SubSeq(@, e + 1, Len(@)),
                                 !.commands = session.commands]
      BY <2>3 DEF MemcachedSession
    <3>3. ~(session.commands >= MaxCommands)
      BY <2>3, MemcachedAssumption DEF MemcachedSession
    <3>4. MemcachedSound(rest, "lines")
      BY <2>1, <2>2, <2>4, <3>2, <3>3, LineSound
    <3>. HIDE DEF rest
    <3>. QED  BY <3>1, <3>4 DEF MemcachedInv
  <2>5. CASE IsCommand(line)
    <3>. DEFINE t == [rest EXCEPT !.commands = n]
                w == IF n >= MaxCommands THEN "closed" ELSE "lines"
    <3>1. t = [session EXCEPT !.pending = SubSeq(@, e + 1, Len(@)), !.commands = n]
      BY <2>3 DEF MemcachedSession
    <3>2. MemcachedSound(t, w)
      BY <2>1, <2>2, <2>5, <3>1, LineSound
    <3>3. Answers(w, t, Say("reply"), "after")
      BY <2>1, <2>5
    <3>. HIDE DEF t, w
    <3>4. CASE at' = w /\ session' = t
      BY <3>2, <3>4 DEF MemcachedInv
    <3>5. CASE at' = "closed" /\ session' = session
      BY <2>2, <3>5, MemcachedEnds DEF MemcachedInv
    <3>. QED  BY <3>3, <3>4, <3>5 DEF Answers
  <2>. QED  BY <2>4, <2>5
<1>3. CASE MemcachedDone
  <2>1. at = "lines" /\ ~HasLine(session.pending) /\ at' = "request" /\ session' = session
    BY <1>3 DEF MemcachedDone, AtLines, Silent
  <2>. QED  BY <2>1 DEF MemcachedInv, MemcachedSound
<1>. QED  BY <1>1, <1>2, <1>3 DEF MemcachedNext

\* What the invariant says of the run's property.
LEMMA MemcachedFrames ==
    ASSUME MemcachedInv
    PROVE  /\ at = "request" =>
                session.commands = Cardinality(CommandEnds(session.sent)) /\ ~HasLine(session.pending)
           /\ session.commands <= Cardinality(CommandEnds(session.sent))
           /\ session.commands = MaxCommands => at = "closed"
           /\ Len(session.pending) > MaxRequestSize =>
                /\ at = "closed"
                /\ \A i \in 1..(MaxRequestSize + 1 - ChunkSize) : session.pending[i] # "n"
<1>1. /\ Cut(session.sent, Taken(session), session.pending)
      /\ session.commands = Cardinality(Ended(session.sent, Taken(session)))
      /\ at = "request" => ~HasLine(session.pending)
      /\ at # "closed" => session.commands < MaxCommands /\ Len(session.pending) <= MaxRequestSize
      /\ Len(session.pending) > MaxRequestSize =>
           \A i \in 1..(MaxRequestSize + 1 - ChunkSize) : session.pending[i] # "n"
  BY DEF MemcachedInv, MemcachedSound
<1>2. /\ session.sent \in Seq(Characters) /\ Len(session.pending) \in Nat
      /\ session.commands \in 0..MaxCommands /\ MaxCommands \in Nat /\ MaxRequestSize \in Nat
  BY MemcachedFields, MemcachedAssumption DEF MemcachedInv
<1>3. session.commands <= Cardinality(CommandEnds(session.sent))
  BY <1>1, <1>2, EndedFinite
<1>4. at = "request" => session.commands = Cardinality(CommandEnds(session.sent))
  BY <1>1, AllEnded
<1>5. session.commands = MaxCommands => at = "closed"
  BY <1>1, <1>2
<1>6. Len(session.pending) > MaxRequestSize => at = "closed"
  BY <1>1, <1>2
<1>. QED  BY <1>1, <1>3, <1>4, <1>5, <1>6

===============================================================================
