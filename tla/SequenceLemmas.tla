--------------------------- MODULE SequenceLemmas ---------------------------
(***************************************************************************)
(* Facts about sequences without repetition, about the least of a set of   *)
(* numbers, and about recursion over the numbers, for the proofs.          *)
(***************************************************************************)
EXTENDS Sequences, SequencesExt, Integers, WellFoundedInduction, TLAPS

\* No element occurs twice.
Distinct(s) == \A a, b \in DOMAIN s : s[a] = s[b] => a = b

\* Taking an element out of a sequence moves those behind it up.
LEMMA RemovedLemma ==
  ASSUME NEW S, NEW s \in Seq(S), NEW k \in DOMAIN s
  PROVE  /\ RemoveAt(s, k) \in Seq(S) /\ Len(RemoveAt(s, k)) = Len(s) - 1
         /\ \A i \in 1..(Len(s) - 1) : RemoveAt(s, k)[i] = IF i < k THEN s[i] ELSE s[i + 1]
<1> DEFINE r == RemoveAt(s, k)
<1> DEFINE u == SubSeq(s, 1, k - 1)
           v == SubSeq(s, k + 1, Len(s))
<1>a. /\ u \in Seq(S) /\ Len(u) = k - 1
      /\ \A i \in 1..(k - 1) : u[i] = s[i]
  OBVIOUS
<1>b. /\ v \in Seq(S) /\ Len(v) = Len(s) - k
      /\ \A i \in 1..(Len(s) - k) : v[i] = s[k + i]
  OBVIOUS
<1>c. r = u \o v
  BY DEF RemoveAt
<1> HIDE DEF r, u, v
<1>1. /\ r \in Seq(S) /\ Len(r) = Len(s) - 1
      /\ \A i \in 1..Len(r) : r[i] = IF i < k THEN s[i] ELSE s[i + 1]
  <2>1. r \in Seq(S) /\ Len(r) = Len(s) - 1
    BY <1>a, <1>b, <1>c
  <2>2. ASSUME NEW i \in 1..Len(r) PROVE r[i] = IF i < k THEN s[i] ELSE s[i + 1]
    <3>1. r[i] = IF i <= k - 1 THEN u[i] ELSE v[i - (k - 1)]
      BY <2>1, <1>a, <1>b, <1>c, SMTT(20)
    <3>2. CASE i < k
      BY <3>1, <3>2, <1>a, <2>1
    <3>3. CASE i >= k
      <4>1. /\ i - (k - 1) \in 1..(Len(s) - k)
            /\ k + (i - (k - 1)) = i + 1
        BY <3>3, <2>1
      <4> QED BY <4>1, <3>1, <3>3, <1>b
    <3> QED BY <3>2, <3>3
  <2> QED BY <2>1, <2>2
<1> QED BY <1>1 DEF r

\* It leaves the others, in a sequence that is still without repetition.
LEMMA RemoveAtLemma ==
  ASSUME NEW S, NEW s \in Seq(S), NEW k \in DOMAIN s
  PROVE  /\ RemoveAt(s, k) \in Seq(S)
         /\ Distinct(s) => /\ Distinct(RemoveAt(s, k))
                           /\ ToSet(RemoveAt(s, k)) = ToSet(s) \ {s[k]}
<1> DEFINE r == RemoveAt(s, k)
<1>1. /\ r \in Seq(S) /\ Len(r) = Len(s) - 1
      /\ \A i \in 1..Len(r) : r[i] = IF i < k THEN s[i] ELSE s[i + 1]
  BY RemovedLemma
<1> HIDE DEF r
<1>2. ASSUME Distinct(s) PROVE Distinct(r)
  <2>0. DOMAIN r = 1..Len(r)
    BY <1>1
  <2> SUFFICES ASSUME NEW a \in 1..Len(r), NEW b \in 1..Len(r), r[a] = r[b]
               PROVE  a = b
    BY <2>0, Zenon DEF Distinct
  <2> DEFINE at(i) == IF i < k THEN i ELSE i + 1
  <2>1. \A i \in 1..Len(r) : at(i) \in DOMAIN s /\ r[i] = s[at(i)]
    BY <1>1
  <2>2. at(a) = at(b)
    <3> HIDE DEF at
    <3> QED BY <2>1, <1>2 DEF Distinct
  <2>3. k \in Int /\ a \in Int /\ b \in Int
    BY <1>1
  <2> QED BY <2>2, <2>3
<1>3. ASSUME Distinct(s) PROVE ToSet(r) = ToSet(s) \ {s[k]}
  <2>1. ASSUME NEW x \in ToSet(r) PROVE x \in ToSet(s) \ {s[k]}
    BY <1>1, <1>3, <2>1 DEF ToSet, Distinct
  <2>2. ASSUME NEW x \in ToSet(s) \ {s[k]} PROVE x \in ToSet(r)
    <3>1. PICK i \in DOMAIN s : x = s[i] /\ i # k
      BY DEF ToSet
    <3>2. CASE i < k
      BY <3>1, <3>2, <1>1 DEF ToSet
    <3>3. CASE i > k
      <4>1. i - 1 \in DOMAIN r /\ r[i - 1] = x
        BY <3>1, <3>3, <1>1
      <4> QED BY <4>1 DEF ToSet
    <3> QED BY <3>1, <3>2, <3>3
  <2> QED BY <2>1, <2>2
<1> QED BY <1>1, <1>2, <1>3 DEF r

\* A new element at the end.
LEMMA AppendLemma ==
  ASSUME NEW S, NEW s \in Seq(S), NEW x \in S
  PROVE  /\ Append(s, x) \in Seq(S)
         /\ ToSet(Append(s, x)) = ToSet(s) \cup {x}
         /\ Distinct(s) /\ x \notin ToSet(s) => Distinct(Append(s, x))
<1>1. /\ Append(s, x) \in Seq(S) /\ Len(Append(s, x)) = Len(s) + 1
      /\ \A i \in 1..Len(s) : Append(s, x)[i] = s[i]
      /\ Append(s, x)[Len(s) + 1] = x
  OBVIOUS
<1>2. ToSet(Append(s, x)) = ToSet(s) \cup {x}
  <2>1. ASSUME NEW y \in ToSet(Append(s, x)) PROVE y \in ToSet(s) \cup {x}
    BY <1>1, <2>1 DEF ToSet
  <2>2. ASSUME NEW y \in ToSet(s) \cup {x} PROVE y \in ToSet(Append(s, x))
    BY <1>1, <2>2 DEF ToSet
  <2> QED BY <2>1, <2>2
<1>3. ASSUME Distinct(s), x \notin ToSet(s) PROVE Distinct(Append(s, x))
  BY <1>1, <1>3 DEF Distinct, ToSet
<1> QED BY <1>1, <1>2, <1>3

\* Two sequences with nothing in common, one after the other.
LEMMA ConcatLemma ==
  ASSUME NEW S, NEW s \in Seq(S), NEW t \in Seq(S)
  PROVE  /\ s \o t \in Seq(S)
         /\ ToSet(s \o t) = ToSet(s) \cup ToSet(t)
         /\ Distinct(s \o t) <=> /\ Distinct(s) /\ Distinct(t)
                                 /\ ToSet(s) \cap ToSet(t) = {}
<1> DEFINE u == s \o t
<1>1. /\ u \in Seq(S) /\ Len(u) = Len(s) + Len(t)
      /\ \A i \in 1..Len(s) : u[i] = s[i]
      /\ \A i \in 1..Len(t) : u[Len(s) + i] = t[i]
      /\ \A i \in 1..Len(u) : u[i] = IF i <= Len(s) THEN s[i] ELSE t[i - Len(s)]
  OBVIOUS
<1>2. ToSet(u) = ToSet(s) \cup ToSet(t)
  <2>1. ASSUME NEW y \in ToSet(u) PROVE y \in ToSet(s) \cup ToSet(t)
    BY <1>1, <2>1 DEF ToSet
  <2>2. ASSUME NEW y \in ToSet(s) PROVE y \in ToSet(u)
    BY <1>1, <2>2 DEF ToSet
  <2>3. ASSUME NEW y \in ToSet(t) PROVE y \in ToSet(u)
    <3>1. PICK i \in 1..Len(t) : y = t[i]
      BY DEF ToSet
    <3>2. Len(s) + i \in 1..Len(u) /\ u[Len(s) + i] = y
      BY <1>1, <3>1
    <3> QED BY <1>1, <3>2 DEF ToSet
  <2> QED BY <2>1, <2>2, <2>3
<1>3. ASSUME Distinct(s), Distinct(t), ToSet(s) \cap ToSet(t) = {} PROVE Distinct(u)
  <2> SUFFICES ASSUME NEW a \in 1..Len(u), NEW b \in 1..Len(u), u[a] = u[b], a <= b
               PROVE  a = b
    BY <1>1 DEF Distinct
  <2>1. CASE b <= Len(s)
    BY <2>1, <1>1, <1>3 DEF Distinct
  <2>2. CASE a > Len(s)
    <3>1. /\ a - Len(s) \in DOMAIN t /\ b - Len(s) \in DOMAIN t
          /\ t[a - Len(s)] = t[b - Len(s)]
      BY <2>2, <1>1
    <3>2. a - Len(s) = b - Len(s)
      BY <3>1, <1>3 DEF Distinct
    <3> QED BY <3>2, <1>1
  <2>3. CASE a <= Len(s) /\ b > Len(s)
    <3>1. /\ a \in DOMAIN s /\ b - Len(s) \in DOMAIN t /\ s[a] = t[b - Len(s)]
      BY <2>3, <1>1
    <3> QED BY <3>1, <1>3 DEF ToSet
  <2> QED BY <2>1, <2>2, <2>3, <1>1
<1>4. ASSUME Distinct(u)
      PROVE  Distinct(s) /\ Distinct(t) /\ ToSet(s) \cap ToSet(t) = {}
  <2>1. Distinct(s)
    <3>1. \A i \in DOMAIN s : i \in DOMAIN u /\ u[i] = s[i]
      BY <1>1
    <3> HIDE DEF u
    <3> QED BY ONLY <3>1, <1>4 DEF Distinct
  <2>2. ASSUME NEW a \in DOMAIN t, NEW b \in DOMAIN t, t[a] = t[b] PROVE a = b
    <3>1. /\ Len(s) + a \in DOMAIN u /\ Len(s) + b \in DOMAIN u
          /\ u[Len(s) + a] = u[Len(s) + b]
      BY <1>1, <2>2
    <3> QED BY <3>1, <1>1, <1>4 DEF Distinct
  <2>3. ASSUME NEW a \in DOMAIN s, NEW b \in DOMAIN t PROVE s[a] # t[b]
    <3>1. /\ a \in DOMAIN u /\ Len(s) + b \in DOMAIN u /\ a # Len(s) + b
          /\ u[a] = s[a] /\ u[Len(s) + b] = t[b]
      BY <1>1, <2>3
    <3> QED BY <3>1, <1>4 DEF Distinct
  <2> QED BY <2>1, <2>2, <2>3 DEF Distinct, ToSet
<1> QED BY <1>1, <1>2, <1>3, <1>4

\* One more element at place k.
LEMMA InsertLemma ==
  ASSUME NEW S, NEW s \in Seq(S), NEW k \in 1..(Len(s) + 1), NEW x \in S
  PROVE  /\ InsertAt(s, k, x) \in Seq(S) /\ Len(InsertAt(s, k, x)) = Len(s) + 1
         /\ \A m \in 1..(Len(s) + 1) :
              InsertAt(s, k, x)[m] = IF m < k THEN s[m] ELSE IF m = k THEN x ELSE s[m - 1]
<1> DEFINE u == SubSeq(s, 1, k - 1)
           v == SubSeq(s, k, Len(s))
           w == u \o <<x>>
           r == InsertAt(s, k, x)
<1>1. u \in Seq(S) /\ Len(u) = k - 1 /\ \A m \in 1..(k - 1) : u[m] = s[m]
  OBVIOUS
<1>2. v \in Seq(S) /\ Len(v) = Len(s) - k + 1 /\ \A m \in 1..(Len(s) - k + 1) : v[m] = s[k + m - 1]
  OBVIOUS
<1>3. r = w \o v
  BY DEF InsertAt
<1> HIDE DEF u, v, r
<1>4. w \in Seq(S) /\ Len(w) = k /\ w[k] = x /\ \A m \in 1..(k - 1) : w[m] = s[m]
  <2>1. w \in Seq(S) /\ Len(w) = Len(u) + 1
    BY <1>1
  <2>2. \A m \in 1..Len(w) : w[m] = IF m <= Len(u) THEN u[m] ELSE <<x>>[m - Len(u)]
    BY <1>1
  <2> HIDE DEF w
  <2>3. w[k] = <<x>>[1]
    BY <2>1, <2>2, <1>1
  <2> QED BY <2>1, <2>2, <2>3, <1>1
<1> HIDE DEF w
<1>5. r \in Seq(S) /\ Len(r) = Len(s) + 1
  <2>1. r \in Seq(S) /\ Len(r) = Len(w) + Len(v)
    BY <1>2, <1>3, <1>4, ConcatLemma
  <2> QED BY <2>1, <1>2, <1>4
<1>6. ASSUME NEW m \in 1..(Len(s) + 1) PROVE r[m] = IF m < k THEN s[m] ELSE IF m = k THEN x ELSE s[m - 1]
  <2>1. r[m] = IF m <= k THEN w[m] ELSE v[m - k]
    BY <1>2, <1>3, <1>4
  <2>2. CASE m <= k
    BY <2>1, <2>2, <1>4
  <2>3. CASE m > k
    <3>1. m - k \in 1..(Len(s) - k + 1) /\ k + (m - k) - 1 = m - 1
      BY <2>3
    <3> QED BY <2>1, <2>3, <3>1, <1>2
  <2> QED BY <2>2, <2>3
<1> QED BY <1>5, <1>6 DEF r

\* One sequence behind another.
LEMMA BehindLemma ==
  ASSUME NEW S, NEW s \in Seq(S), NEW t \in Seq(S)
  PROVE  /\ s \o t \in Seq(S) /\ Len(s \o t) = Len(s) + Len(t)
         /\ \A m \in 1..Len(s) : (s \o t)[m] = s[m]
         /\ \A m \in 1..Len(t) : (s \o t)[Len(s) + m] = t[m]
  OBVIOUS

\* A sequence of one element.
LEMMA Alone == ASSUME NEW S, NEW x \in S PROVE <<x>> \in Seq(S)
  OBVIOUS

\* A sequence made of another, element by element.
LEMMA MappedLemma ==
  ASSUME NEW T, NEW S, NEW s \in Seq(T), NEW f, DOMAIN f = DOMAIN s, \A i \in DOMAIN s : f[i] \in S,
         f = [i \in DOMAIN s |-> f[i]]
  PROVE  f \in Seq(S)
  OBVIOUS

\* Every set of numbers has a least one.
LEMMA SmallestLemma ==
  ASSUME NEW S \in SUBSET Nat, S # {}
  PROVE  Min(S) \in S /\ \A n \in S : Min(S) <= n
<1> DEFINE R == {p \in Nat \X Nat : p[1] < p[2]}
<1>1. IsWellFoundedOn(R, Nat)
  BY NatLessThanWellFounded DEF OpToRel
<1>2. PICK m \in S : \A n \in S : <<n, m>> \notin R
  BY <1>1, WFMin, Zenon
<1>3. \A n \in S : m <= n
  <2> TAKE n \in S
  <2>1. n \in Nat /\ m \in Nat
    OBVIOUS
  <2>2. <<n, m>> \notin R
    BY <1>2
  <2>3. ~(n < m)
    <3> SUFFICES ASSUME n < m PROVE <<n, m>> \in R
      BY <2>2
    <3> QED BY <2>1
  <2> QED BY <2>1, <2>3
<1> QED BY <1>3 DEF Min

-----------------------------------------------------------------------------
(* Recursion over the numbers, said of sets and functions: no operator is *)
(* a parameter, so that these can be cited for any recursive definition.   *)

\* What holds of zero, and of each successor of a number of which it holds,
\* holds of all numbers.
LEMMA InductionLemma ==
  ASSUME NEW S, 0 \in S, \A n \in Nat : n \in S => n + 1 \in S
  PROVE  \A n \in Nat : n \in S
<1> DEFINE T == {n \in Nat : n \notin S}
<1> SUFFICES ASSUME T # {} PROVE FALSE
  OBVIOUS
<1>1. Min(T) \in T /\ \A n \in T : Min(T) <= n
  BY SmallestLemma
<1> DEFINE m == Min(T)
<1> HIDE DEF m
<1>2. m \in Nat /\ m \notin S /\ m # 0
  BY <1>1 DEF m
<1>3. m - 1 \in Nat /\ m - 1 \in S
  BY <1>1, <1>2 DEF m
<1> QED BY <1>2, <1>3

\* What holds at zero and goes from each number to the next one holds up to N.
LEMMA UpToInduction ==
  ASSUME NEW N \in Nat, NEW S, 0 \in S, \A n \in 1..N : n - 1 \in S => n \in S
  PROVE  \A n \in 0..N : n \in S
<1> DEFINE T == {n \in Nat : n <= N => n \in S}
<1>1. 0 \in T
  OBVIOUS
<1>2. ASSUME NEW n \in Nat, n \in T PROVE n + 1 \in T
  <2> SUFFICES ASSUME n + 1 <= N PROVE n + 1 \in S
    OBVIOUS
  <2>1. n \in S /\ n + 1 \in 1..N /\ (n + 1) - 1 = n
    BY <1>2
  <2> QED BY <2>1
<1> HIDE DEF T
<1>3. \A n \in Nat : n \in T
  BY <1>1, <1>2, InductionLemma
<1> QED BY <1>3 DEF T

\* The values up to N of a sequence that begins with a and in which G[n] leads
\* from the value before n to the one at n.
StepValues(V, a, G, N) ==
  {f \in [0..N -> V] : f[0] = a /\ \A n \in 1..N : f[n] = G[n][f[n - 1]]}

\* There are such values: what a recursive function on 0..N needs to exist.
LEMMA RecursionLemma ==
  ASSUME NEW N \in Nat, NEW V, NEW a \in V, NEW G \in [1..N -> [V -> V]]
  PROVE  StepValues(V, a, G, N) # {}
<1> DEFINE S == {n \in 0..N : StepValues(V, a, G, n) # {}}
<1>1. 0 \in S
  <2>1. [i \in 0..0 |-> a] \in StepValues(V, a, G, 0)
    BY DEF StepValues
  <2> QED BY <2>1
<1>2. ASSUME NEW n \in 1..N, n - 1 \in S PROVE n \in S
  <2>1. PICK f \in StepValues(V, a, G, n - 1) : TRUE
    BY <1>2
  <2> DEFINE g == [i \in 0..n |-> IF i = n THEN G[n][f[n - 1]] ELSE f[i]]
  <2>2. /\ f \in [0..(n - 1) -> V] /\ f[0] = a
        /\ \A i \in 1..(n - 1) : f[i] = G[i][f[i - 1]]
    BY <2>1 DEF StepValues
  <2>3. f[n - 1] \in V /\ G[n] \in [V -> V]
    BY <2>2
  <2>4. g \in [0..n -> V] /\ g[0] = a
    BY <2>2, <2>3
  <2>5. \A i \in 1..n : g[i] = G[i][g[i - 1]]
    BY <2>2
  <2> HIDE DEF g
  <2>6. g \in StepValues(V, a, G, n)
    BY <2>4, <2>5 DEF StepValues
  <2> QED BY <2>6
<1> HIDE DEF S
<1>3. \A n \in 0..N : n \in S
  BY <1>1, <1>2, UpToInduction
<1>4. N \in S
  BY <1>3
<1> QED BY <1>4 DEF S
=============================================================================
