--------------------------- MODULE Operators_proofs ---------------------------
(***************************************************************************)
(* Lemmas about operators that several proofs use.  Induction over the     *)
(* numbers up to a bound, folds, quotients and powers of 2; the ring and   *)
(* the operations of a tlm_fifo, which keep its counts and positions in    *)
(* agreement and do to the elements what a queue does; the conversions of  *)
(* a payload between byte orders, which bring every byte to its address.   *)
(* No variables: all of it holds for sizes and lengths of any value.       *)
(***************************************************************************)
EXTENDS TlmFifoOps, EndianConv, SequenceTheorems, FiniteSetTheorems, FunctionTheorems,
        WellFoundedInduction, TLAPS

-----------------------------------------------------------------------------
(* Induction *)

\* What holds at 0, and at every number up to n if at the one before, holds up to n.
LEMMA UpTo ==
  ASSUME NEW n \in Nat, NEW P, 0 \in P, \A i \in 1 .. n : i - 1 \in P => i \in P
  PROVE  \A i \in 0 .. n : i \in P
<1> DEFINE R == {ss \in Nat \X Nat : ss[1] < ss[2]}
           W == {i \in 0 .. n : i \notin P}
<1>1. IsWellFoundedOn(R, Nat)
  <2>1. OpToRel(<, Nat) = R
    BY DEF OpToRel
  <2> QED BY <2>1, NatLessThanWellFounded
<1>2. SUFFICES ASSUME W # {} PROVE FALSE
  OBVIOUS
<1>3. W \subseteq Nat
  OBVIOUS
<1>4. PICK m \in W : \A k \in W : <<k, m>> \notin R
  <2> HIDE DEF R, W
  <2> QED BY <1>1, <1>2, <1>3, WFMin
<1>5. m \in 1 .. n /\ m \notin P /\ m - 1 \in 0 .. n /\ m - 1 \in Nat /\ m \in Nat
  OBVIOUS
<1>6. <<m - 1, m>> \in R
  BY <1>5
<1>7. m - 1 \in P
  <2> HIDE DEF R
  <2>1. m - 1 \notin W
    <3> HIDE DEF W
    <3> QED BY <1>4, <1>6
  <2> QED BY <1>5, <2>1
<1> QED BY <1>5, <1>7

\* f is the function with f[0] = a that goes on with g.
Solves(f, n, S, a, g) ==
  f \in [0 .. n -> S] /\ f[0] = a /\ \A i \in 1 .. n : f[i] = g[<<i, f[i - 1]>>]

LEMMA SolutionExists ==
  ASSUME NEW n \in Nat, NEW S, NEW a \in S, NEW g \in [Nat \X S -> S]
  PROVE  \E f : Solves(f, n, S, a, g)
<1> DEFINE Sol(k, f) == f \in [0 .. k -> S] /\ f[0] = a /\ \A i \in 1 .. k : f[i] = g[<<i, f[i - 1]>>]
           P == {k \in Nat : \E f \in [0 .. k -> S] : Sol(k, f)}
<1>1. 0 \in P
  <2>1. Sol(0, [i \in 0 .. 0 |-> a])
    OBVIOUS
  <2> QED BY <2>1
<1>2. ASSUME NEW k \in 1 .. n, k - 1 \in P PROVE k \in P
  <2>1. PICK f \in [0 .. (k - 1) -> S] : Sol(k - 1, f)
    BY <1>2
  <2> DEFINE v == g[<<k, f[k - 1]>>]
             h == [i \in 0 .. k |-> IF i = k THEN v ELSE f[i]]
  <2>2. f[k - 1] \in S /\ v \in S
    OBVIOUS
  <2>3. h \in [0 .. k -> S]
    <3> HIDE DEF v
    <3> QED BY <2>2
  <2>4. h[0] = a
    BY <2>1
  <2>5. \A i \in 1 .. k : h[i] = g[<<i, h[i - 1]>>]
    <3> TAKE i \in 1 .. k
    <3>1. CASE i = k
      <4>1. h[i] = v /\ h[i - 1] = f[k - 1]
        BY <3>1
      <4> QED BY <3>1, <4>1
    <3>2. CASE i # k
      <4>1. i \in 1 .. (k - 1) /\ h[i] = f[i] /\ h[i - 1] = f[i - 1]
        BY <3>2
      <4> QED BY <2>1, <4>1
    <3> QED BY <3>1, <3>2
  <2> HIDE DEF h
  <2>6. k \in Nat /\ Sol(k, h)
    BY <2>3, <2>4, <2>5
  <2> QED BY <2>3, <2>6
<1>3. \A k \in 0 .. n : k \in P
  <2> HIDE DEF P
  <2> QED BY <1>1, <1>2, UpTo
<1>4. n \in P
  <2> HIDE DEF P
  <2> QED BY <1>3
<1> QED BY <1>4 DEF Solves

-----------------------------------------------------------------------------
(* Folds *)

\* F is the fold of FoldLeft over sets of indices: it takes the greatest away first.
FoldsLeft(F, n, a, g) ==
  F = [s \in SUBSET (1 .. n) |-> IF s = {} THEN a ELSE g[<<Max(s), F[s \ {Max(s)}]>>]]

\* The greatest of a set of numbers up to k that has k.
LEMMA MaxUpTo ==
  ASSUME NEW k \in Nat, k > 0, NEW s \in SUBSET (1 .. k), k \in s
  PROVE  Max(s) = k
<1>1. \A x \in s : x \in Nat /\ k >= x
  OBVIOUS
<1>2. \A x \in s : (\A y \in s : x >= y) => x = k
  BY <1>1
<1>3. \E x \in s : \A y \in s : x >= y
  BY <1>1
<1> QED BY <1>2, <1>3 DEF Max

\* A set of numbers up to n that is not empty has a greatest element, and Max is it.
LEMMA MaxIn ==
  ASSUME NEW n \in Nat, NEW s \in SUBSET (1 .. n), s # {}
  PROVE  Max(s) \in s
<1> DEFINE P == {k \in Nat : \A t \in SUBSET (1 .. k) : t # {} => Max(t) \in t}
<1>1. 0 \in P
  <2>1. \A t \in SUBSET (1 .. 0) : t = {}
    OBVIOUS
  <2> QED BY <2>1
<1>2. ASSUME NEW k \in 1 .. n, k - 1 \in P PROVE k \in P
  <2>1. k \in Nat /\ k > 0
    OBVIOUS
  <2>2. ASSUME NEW t \in SUBSET (1 .. k), t # {} PROVE Max(t) \in t
    <3>1. CASE k \in t
      BY <2>1, <3>1, MaxUpTo
    <3>2. CASE k \notin t
      <4>1. t \in SUBSET (1 .. (k - 1))
        BY <2>1, <3>2
      <4> QED BY <1>2, <2>2, <4>1
    <3> QED BY <3>1, <3>2
  <2> QED BY <2>1, <2>2
<1>3. \A k \in 0 .. n : k \in P
  <2> HIDE DEF P
  <2> QED BY <1>1, <1>2, UpTo
<1>4. n \in P
  <2> HIDE DEF P
  <2> QED BY <1>3
<1> QED BY <1>4

\* The first i indices: taking the last of them away leaves the first i - 1.
LEMMA FirstIndices ==
  ASSUME NEW n \in Nat, NEW i \in 1 .. n
  PROVE  /\ i \in Nat /\ i > 0 /\ i - 1 \in 0 .. n
         /\ 1 .. i \in SUBSET (1 .. n) /\ i \in 1 .. i /\ 1 .. i # {}
         /\ (1 .. i) \ {i} = 1 .. (i - 1) /\ Max(1 .. i) = i
<1>1. i \in Nat /\ i > 0 /\ i - 1 \in 0 .. n
  OBVIOUS
<1>2. 1 .. i \in SUBSET (1 .. n)
  OBVIOUS
<1>3. i \in 1 .. i
  BY <1>1
<1>4. (1 .. i) \ {i} = 1 .. (i - 1)
  BY <1>1
<1>5. Max(1 .. i) = i
  BY <1>1, <1>3, MaxUpTo
<1> QED BY <1>1, <1>2, <1>3, <1>4, <1>5

\* FoldLeft is defined by a function on sets of indices: it exists.
LEMMA FoldsLeftExist ==
  ASSUME NEW n \in Nat, NEW S, NEW a \in S, NEW g \in [Nat \X S -> S]
  PROVE  \E F : FoldsLeft(F, n, a, g) /\ F \in [SUBSET (1 .. n) -> S]
<1> DEFINE Fo(k, F) == \A s \in SUBSET (1 .. k) : F[s] = IF s = {} THEN a ELSE g[<<Max(s), F[s \ {Max(s)}]>>]
           P == {k \in Nat : \E F \in [SUBSET (1 .. k) -> S] : Fo(k, F)}
<1>1. 0 \in P
  <2>1. Fo(0, [s \in SUBSET (1 .. 0) |-> a])
    OBVIOUS
  <2> QED BY <2>1
<1>2. ASSUME NEW k \in 1 .. n, k - 1 \in P PROVE k \in P
  <2>1. PICK F \in [SUBSET (1 .. (k - 1)) -> S] : Fo(k - 1, F)
    BY <1>2
  <2>2. k \in Nat /\ k > 0
    OBVIOUS
  <2>3. ASSUME NEW s \in SUBSET (1 .. k), k \notin s PROVE s \in SUBSET (1 .. (k - 1))
    BY <2>2, <2>3
  <2>4. ASSUME NEW s \in SUBSET (1 .. k), k \in s
        PROVE  s \ {k} \in SUBSET (1 .. (k - 1)) /\ Max(s) = k /\ s # {} /\ k \notin s \ {k}
    BY <2>2, <2>4, MaxUpTo
  <2>5. ASSUME NEW s \in SUBSET (1 .. k), k \notin s
        PROVE  s \ {Max(s)} \in SUBSET (1 .. k) /\ k \notin s \ {Max(s)}
    BY <2>5
  <2> DEFINE G == [s \in SUBSET (1 .. k) |-> IF k \in s THEN g[<<k, F[s \ {k}]>>] ELSE F[s]]
  <2>6. G \in [SUBSET (1 .. k) -> S]
    <3> SUFFICES ASSUME NEW s \in SUBSET (1 .. k)
                 PROVE  (IF k \in s THEN g[<<k, F[s \ {k}]>>] ELSE F[s]) \in S
      OBVIOUS
    <3>1. CASE k \in s
      <4>1. F[s \ {k}] \in S
        BY <2>4, <3>1
      <4>2. <<k, F[s \ {k}]>> \in Nat \X S
        BY <2>2, <4>1
      <4>3. g[<<k, F[s \ {k}]>>] \in S
        BY <4>2
      <4> QED BY <3>1, <4>3
    <3>2. CASE k \notin s
      <4>1. F[s] \in S
        BY <2>3, <3>2
      <4> QED BY <3>2, <4>1
    <3> QED BY <3>1, <3>2
  <2>7. \A s \in SUBSET (1 .. k) : G[s] = IF k \in s THEN g[<<k, F[s \ {k}]>>] ELSE F[s]
    OBVIOUS
  <2> HIDE DEF G
  <2>8. ASSUME NEW s \in SUBSET (1 .. k)
        PROVE  G[s] = IF s = {} THEN a ELSE g[<<Max(s), G[s \ {Max(s)}]>>]
    <3>1. CASE k \in s
      <4>1. G[s \ {k}] = F[s \ {k}]
        <5>1. s \ {k} \in SUBSET (1 .. k)
          OBVIOUS
        <5> QED BY <2>4, <2>7, <3>1, <5>1
      <4>2. G[s] = g[<<k, F[s \ {k}]>>]
        BY <2>7, <3>1
      <4> QED BY <2>4, <3>1, <4>1, <4>2
    <3>2. CASE k \notin s
      <4>1. G[s] = F[s]
        BY <2>7, <3>2
      <4>2. G[s \ {Max(s)}] = F[s \ {Max(s)}]
        BY <2>5, <2>7, <3>2
      <4>3. F[s] = IF s = {} THEN a ELSE g[<<Max(s), F[s \ {Max(s)}]>>]
        BY <2>1, <2>3, <3>2
      <4> QED BY <4>1, <4>2, <4>3
    <3> QED BY <3>1, <3>2
  <2>9. Fo(k, G)
    BY <2>8
  <2> HIDE DEF Fo
  <2> QED BY <2>2, <2>6, <2>9
<1>3. \A k \in 0 .. n : k \in P
  <2> HIDE DEF P
  <2> QED BY <1>1, <1>2, UpTo
<1>4. n \in P
  <2> HIDE DEF P
  <2> QED BY <1>3
<1>5. PICK F \in [SUBSET (1 .. n) -> S] : Fo(n, F)
  BY <1>4
<1> HIDE DEF P
<1>6. F = [s \in SUBSET (1 .. n) |-> F[s]]
  OBVIOUS
<1>7. F = [s \in SUBSET (1 .. n) |-> IF s = {} THEN a ELSE g[<<Max(s), F[s \ {Max(s)}]>>]]
  BY <1>5, <1>6
<1> QED BY <1>7 DEF FoldsLeft

Along(v, h, n) ==
  v[{}] = h[0] /\ \A i \in 1 .. n : v[1 .. (i - 1)] = h[i - 1] => v[1 .. i] = h[i]

\* What is the state of a loop after i passes, if it is after i - 1, is that at its end.
LEMMA AlongPasses ==
  ASSUME NEW n \in Nat, NEW v, NEW h, Along(v, h, n)
  PROVE  v[1 .. n] = h[n]
<1> DEFINE P == {i \in Nat : v[1 .. i] = h[i]}
<1>1. 0 \in P
  <2>1. 1 .. 0 = {}
    OBVIOUS
  <2> QED BY <2>1 DEF Along
<1>2. \A i \in 1 .. n : i - 1 \in P => i \in P
  BY DEF Along
<1>3. \A i \in 0 .. n : i \in P
  <2> HIDE DEF P
  <2> QED BY <1>1, <1>2, UpTo
<1>4. n \in P
  <2> HIDE DEF P
  <2> QED BY <1>3
<1> QED BY <1>4

-----------------------------------------------------------------------------
(* Quotients and remainders *)

\* q times b and r below b make up v.
Divided(v, b, q, r) == q \in Int /\ r \in 0 .. (b - 1) /\ v = b * q + r

LEMMA ByQuotient ==
  ASSUME NEW b \in Nat, b > 0, NEW v, NEW q, NEW r, Divided(v, b, q, r)
  PROVE  v \div b = q /\ v % b = r
<1>1. q \in Int /\ r \in 0 .. (b - 1) /\ v = b * q + r
  BY DEF Divided
<1>2. v \in Int
  BY <1>1
<1>3. v % b = r
  BY <1>1, <1>2
<1>4. v \div b = q
  BY <1>1, <1>2
<1> QED BY <1>3, <1>4

LEMMA SameQuotient ==
  ASSUME NEW b \in Nat, b > 0, NEW v, NEW q, NEW r, Divided(v, b, q, r), NEW q2, NEW r2, Divided(v, b, q2, r2)
  PROVE  q = q2 /\ r = r2
<1>1. v \div b = q /\ v % b = r
  BY ByQuotient
<1>2. v \div b = q2 /\ v % b = r2
  BY ByQuotient
<1> QED BY <1>1, <1>2, Zenon

LEMMA HasQuotient ==
  ASSUME NEW b \in Nat, b > 0, NEW v \in Nat
  PROVE  \E q \in Nat, r \in 0 .. (b - 1) : v = b * q + r
<1> DEFINE P == {u \in Nat : \E q \in Nat, r \in 0 .. (b - 1) : u = b * q + r}
<1>1. 0 \in P
  <2>1. 0 = b * 0 + 0 /\ 0 \in Nat /\ 0 \in 0 .. (b - 1)
    OBVIOUS
  <2> QED BY <2>1
<1>2. ASSUME NEW u \in 1 .. v, u - 1 \in P PROVE u \in P
  <2>1. PICK q \in Nat, r \in 0 .. (b - 1) : u - 1 = b * q + r
    BY <1>2
  <2>2. PICK bq \in Int : bq = b * q
    OBVIOUS
  <2>3. CASE r + 1 < b
    <3>1. u = b * q + (r + 1) /\ r + 1 \in 0 .. (b - 1) /\ u \in Nat
      BY <2>1, <2>2, <2>3
    <3> QED BY <3>1
  <2>4. CASE ~(r + 1 < b)
    <3>1. b * (q + 1) = b * q + b
      OBVIOUS
    <3>2. u = b * (q + 1) + 0 /\ 0 \in 0 .. (b - 1) /\ u \in Nat /\ q + 1 \in Nat
      BY <2>1, <2>2, <2>4, <3>1
    <3> QED BY <3>2
  <2> QED BY <2>3, <2>4
<1>3. \A u \in 0 .. v : u \in P
  <2> HIDE DEF P
  <2> QED BY <1>1, <1>2, UpTo
<1>4. v \in P
  <2>1. v \in 0 .. v
    OBVIOUS
  <2> HIDE DEF P
  <2> QED BY <1>3, <2>1
<1> QED BY <1>4

\* A number and its quotient and remainder.
LEMMA Quotients ==
  ASSUME NEW b \in Nat, b > 0, NEW v \in Nat
  PROVE  v % b \in 0 .. (b - 1) /\ v \div b \in Nat /\ v = b * (v \div b) + (v % b)
<1>1. PICK q \in Nat, r \in 0 .. (b - 1) : v = b * q + r
  BY HasQuotient
<1>2. Divided(v, b, q, r)
  BY <1>1 DEF Divided
<1>3. v \div b = q /\ v % b = r
  BY <1>2, ByQuotient
<1> QED BY <1>1, <1>3, Zenon

-----------------------------------------------------------------------------
(* Powers of 2 *)

\* A power of 2 is the number of subsets of a set, of which there is at least one.
LEMMA PowerPositive == ASSUME NEW n \in Nat PROVE 2 ^ n \in Nat /\ 2 ^ n > 0
<1>1. IsFiniteSet(1 .. n) /\ Cardinality(1 .. n) = n
  <2>1. 1 \in Int /\ n \in Int
    OBVIOUS
  <2>2. IsFiniteSet(1 .. n) /\ Cardinality(1 .. n) = IF 1 > n THEN 0 ELSE n - 1 + 1
    BY <2>1, FS_Interval
  <2> QED BY <2>2
<1>2. IsFiniteSet(SUBSET (1 .. n)) /\ Cardinality(SUBSET (1 .. n)) = 2 ^ n
  BY <1>1, FS_SUBSET
<1>3. 2 ^ n \in Nat
  BY <1>2, FS_CardinalityType
<1>4. SUBSET (1 .. n) # {}
  OBVIOUS
<1>5. 2 ^ n # 0
  BY <1>2, <1>4, FS_EmptySet
<1> QED BY <1>3, <1>5

\* The subsets of a set with one element more are twice as many.
LEMMA PowerNext == ASSUME NEW n \in Nat PROVE 2 ^ (n + 1) = 2 * 2 ^ n
<1> DEFINE S == SUBSET (1 .. n)
           T == SUBSET (1 .. (n + 1))
           f == [s \in S |-> s \cup {n + 1}]
           R == {f[s] : s \in S}
<1>1. IsFiniteSet(S) /\ Cardinality(S) = 2 ^ n
  <2>1. IsFiniteSet(1 .. n) /\ Cardinality(1 .. n) = n
    BY FS_Interval
  <2> QED BY <2>1, FS_SUBSET, Zenon
<1>2. IsFiniteSet(T) /\ Cardinality(T) = 2 ^ (n + 1)
  <2>1. IsFiniteSet(1 .. (n + 1)) /\ Cardinality(1 .. (n + 1)) = n + 1
    BY FS_Interval
  <2> QED BY <2>1, FS_SUBSET, Zenon
<1>3. n + 1 \notin 1 .. n /\ 1 .. (n + 1) = (1 .. n) \cup {n + 1}
  OBVIOUS
<1>4. T = S \cup R
  <2>1. ASSUME NEW t \in T PROVE t \in S \cup R
    <3>1. CASE n + 1 \in t
      <4>1. PICK s \in S : s = t \ {n + 1}
        BY <1>3, <2>1
      <4>2. s \cup {n + 1} = t
        BY <3>1, <4>1
      <4>3. f[s] = t
        BY <4>1, <4>2
      <4>4. t \in R
        BY <4>1, <4>3
      <4> QED BY <4>4
    <3>2. CASE n + 1 \notin t
      <4>1. t \in S
        BY <1>3, <2>1, <3>2
      <4> QED BY <4>1
    <3> QED BY <3>1, <3>2
  <2>2. ASSUME NEW t \in S PROVE t \in T
    BY <1>3, <2>2
  <2>3. ASSUME NEW s \in S PROVE f[s] \in T
    BY <1>3, <2>3
  <2>4. ASSUME NEW r \in R PROVE r \in T
    <3>1. PICK s \in S : r = f[s]
      OBVIOUS
    <3> HIDE DEF f, S, R, T
    <3> QED BY <2>3, <3>1, Zenon
  <2> HIDE DEF f, S, R, T
  <2>5. T \subseteq S \cup R
    BY <2>1
  <2>6. S \subseteq T /\ R \subseteq T
    BY <2>2, <2>4, Zenon
  <2> QED BY <2>5, <2>6
<1>5. S \cap R = {}
  <2>1. ASSUME NEW s \in S PROVE n + 1 \in f[s]
    OBVIOUS
  <2>2. ASSUME NEW s \in S PROVE n + 1 \notin s
    BY <1>3, <2>2
  <2> QED BY <2>1, <2>2
<1>6. IsFiniteSet(R) /\ Cardinality(R) = Cardinality(S)
  <2>1. f \in [S -> R]
    OBVIOUS
  <2>2. ASSUME NEW s \in S, NEW t \in S, f[s] = f[t] PROVE s = t
    <3>1. f[s] = s \cup {n + 1} /\ f[t] = t \cup {n + 1} /\ n + 1 \notin s /\ n + 1 \notin t
      BY <1>3
    <3> QED BY <2>2, <3>1
  <2>3. \A r \in R : \E s \in S : f[s] = r
    OBVIOUS
  <2> HIDE DEF f, S, R
  <2>4. f \in Bijection(S, R)
    BY <2>1, <2>2, <2>3 DEF Bijection, Injection, Surjection, IsInjective
  <2>5. ExistsBijection(S, R)
    BY <2>4 DEF ExistsBijection
  <2> QED BY <1>1, <2>5, FS_Bijection
<1> HIDE DEF f, S, R, T
<1>7. Cardinality(T) = Cardinality(S) + Cardinality(R) - Cardinality(S \cap R)
  BY <1>1, <1>4, <1>6, FS_Union
<1>8. Cardinality(S \cap R) = 0
  BY <1>5, FS_EmptySet
<1>9. PICK p \in Nat : p = Cardinality(S)
  BY <1>1, FS_CardinalityType
<1>10. Cardinality(T) = 2 * p
  BY <1>6, <1>7, <1>8, <1>9
<1> QED BY <1>1, <1>2, <1>9, <1>10, Zenon

LEMMA PowerOfZero == 2 ^ 0 = 1
<1>1. IsFiniteSet({}) /\ Cardinality({}) = 0
  BY FS_EmptySet
<1>2. Cardinality(SUBSET {}) = 2 ^ 0
  BY <1>1, FS_SUBSET, Zenon
<1>3. Cardinality({{}}) = 1
  BY FS_Singleton
<1>4. SUBSET {} = {{}}
  OBVIOUS
<1> QED BY <1>2, <1>3, <1>4, Zenon

LEMMA PowerOfSum == ASSUME NEW a \in Nat, NEW n \in Nat PROVE 2 ^ (a + n) = 2 ^ a * 2 ^ n
<1> DEFINE P == {k \in Nat : 2 ^ (a + k) = 2 ^ a * 2 ^ k}
<1>1. PICK A \in Nat : A = 2 ^ a
  BY PowerPositive
<1>2. 0 \in P
  <2>1. a + 0 = a /\ A * 1 = A
    OBVIOUS
  <2>2. 2 ^ (a + 0) = 2 ^ a * 2 ^ 0
    BY <1>1, <2>1, PowerOfZero, Zenon
  <2> QED BY <2>2
<1>3. ASSUME NEW k \in 1 .. n, k - 1 \in P PROVE k \in P
  <2>1. PICK j \in Nat : j = k - 1
    OBVIOUS
  <2>2. k \in Nat /\ k = j + 1 /\ a + k = (a + j) + 1 /\ a + j \in Nat
    BY <2>1
  <2>3. PICK p \in Nat : p = 2 ^ j
    BY PowerPositive
  <2>4. 2 ^ k = 2 * p
    <3>1. 2 ^ (j + 1) = 2 * 2 ^ j
      BY PowerNext
    <3> QED BY <2>2, <2>3, <3>1, Zenon
  <2>5. 2 ^ (a + j) = A * p
    <3>1. 2 ^ (a + j) = 2 ^ a * 2 ^ j
      BY <1>3, <2>1
    <3> QED BY <1>1, <2>3, <3>1, Zenon
  <2>6. 2 ^ (a + k) = 2 * (A * p)
    <3>1. 2 ^ ((a + j) + 1) = 2 * 2 ^ (a + j)
      BY <2>2, PowerNext
    <3> QED BY <2>2, <2>5, <3>1, Zenon
  <2>7. 2 * (A * p) = A * (2 * p)
    OBVIOUS
  <2>8. 2 ^ (a + k) = 2 ^ a * 2 ^ k
    BY <1>1, <2>4, <2>6, <2>7, Zenon
  <2> QED BY <2>2, <2>8
<1>4. n \in P
  <2> HIDE DEF P
  <2>1. \A k \in 0 .. n : k \in P
    BY <1>2, <1>3, UpTo
  <2>2. n \in 0 .. n
    OBVIOUS
  <2> QED BY <2>1, <2>2
<1> QED BY <1>4

\* A power of 2 is divided by the lower ones.
LEMMA PowerDown ==
  ASSUME NEW a \in Nat, NEW n \in Nat, a <= n
  PROVE  2 ^ n = 2 ^ a * 2 ^ (n - a)
<1>1. PICK k \in Nat : k = n - a /\ n = a + k
  OBVIOUS
<1>2. 2 ^ (a + k) = 2 ^ a * 2 ^ k
  BY PowerOfSum
<1> QED BY <1>1, <1>2, Zenon

\* It is even, or 1.
LEMMA PowerEven ==
  ASSUME NEW n \in Nat, n > 0
  PROVE  \E k \in Nat : k > 0 /\ 2 ^ n = 2 * k
<1>1. PICK m \in Nat : n = m + 1
  <2>1. n - 1 \in Nat /\ n = (n - 1) + 1
    OBVIOUS
  <2> QED BY <2>1
<1>2. 2 ^ (m + 1) = 2 * 2 ^ m
  BY PowerNext
<1>3. PICK k \in Nat : k = 2 ^ m /\ k > 0
  BY PowerPositive
<1>4. 2 ^ n = 2 * k
  BY <1>1, <1>2, <1>3, Zenon
<1> QED BY <1>3, <1>4

-----------------------------------------------------------------------------
(* Positions in the ring *)

LEMMA WrapInside ==
  ASSUME NEW size \in Nat \ {0}, NEW p \in 0 .. (size - 1)
  PROVE  Wrap(p, size) = p
BY DEF Wrap

LEMMA WrapBehind ==
  ASSUME NEW size \in Nat \ {0}, NEW p \in size .. (2 * size - 1)
  PROVE  Wrap(p, size) = p - size
BY DEF Wrap

LEMMA WrapType ==
  ASSUME NEW size \in Nat \ {0}, NEW p \in Nat
  PROVE  Wrap(p, size) \in 0 .. (size - 1)
BY DEF Wrap

\* A position that lies i slots behind another one, both less than two rounds.
LEMMA WrapSum ==
  ASSUME NEW size \in Nat \ {0}, NEW p \in 0 .. (size - 1), NEW i \in 0 .. size
  PROVE  Wrap(p + i, size) = IF p + i < size THEN p + i ELSE p + i - size
<1>1. CASE p + i < size
  BY <1>1, WrapInside
<1>2. CASE p + i >= size
  BY <1>2, WrapBehind
<1> QED BY <1>1, <1>2

LEMMA WrapNext ==
  ASSUME NEW n \in Nat \ {0}, NEW r \in 0 .. (n - 1)
  PROVE  Wrap(r + 1, n) = IF r + 1 < n THEN r + 1 ELSE 0
<1>1. 1 \in 0 .. n
  OBVIOUS
<1> QED BY <1>1, WrapSum

\* The element behind i others is behind i + 1 for who looks from one place before.
LEMMA WrapRead ==
  ASSUME NEW n \in Nat \ {0}, NEW r \in 0 .. (n - 1), NEW i \in 0 .. (n - 1),
         NEW s \in 0 .. (n - 1), s = Wrap(r + 1, n), NEW j \in 0 .. n, j = i + 1
  PROVE  Wrap(s + i, n) = Wrap(r + j, n)
<1>1. Wrap(r + j, n) = IF r + j < n THEN r + j ELSE r + j - n
  BY WrapSum
<1>2. Wrap(s + i, n) = IF s + i < n THEN s + i ELSE s + i - n
  BY WrapSum
<1>3. s = IF r + 1 < n THEN r + 1 ELSE 0
  BY WrapNext
<1> QED BY <1>1, <1>2, <1>3

\* The place behind u others is followed by the one behind u + 1.
LEMMA WrapWrite ==
  ASSUME NEW n \in Nat \ {0}, NEW r \in 0 .. (n - 1), NEW u \in 0 .. (n - 1)
  PROVE  Wrap(Wrap(r + u, n) + 1, n) = Wrap(r + (u + 1), n)
<1>1. Wrap(r + u, n) = IF r + u < n THEN r + u ELSE r + u - n
  BY WrapSum
<1>2. Wrap(r + (u + 1), n) = IF r + (u + 1) < n THEN r + (u + 1) ELSE r + (u + 1) - n
  <2>1. u + 1 \in 0 .. n
    OBVIOUS
  <2> QED BY <2>1, WrapSum
<1>3. \A w \in 0 .. (n - 1) : Wrap(w + 1, n) = IF w + 1 < n THEN w + 1 ELSE w + 1 - n
  BY WrapSum
<1>4. CASE r + u < n
  <2>1. r + u \in 0 .. (n - 1)
    BY <1>4
  <2> QED BY <2>1, <1>1, <1>2, <1>3, <1>4
<1>5. CASE r + u >= n
  <2>1. r + u - n \in 0 .. (n - 1)
    BY <1>5
  <2> QED BY <2>1, <1>1, <1>2, <1>3, <1>5
<1> QED BY <1>4, <1>5

\* No two of n places in a row are the same.
LEMMA WrapApart ==
  ASSUME NEW n \in Nat \ {0}, NEW r \in 0 .. (n - 1),
         NEW i \in 0 .. (n - 1), NEW j \in 0 .. (n - 1), i # j
  PROVE  Wrap(r + i, n) # Wrap(r + j, n) /\ Wrap(r + i, n) \in 0 .. (n - 1)
<1>1. Wrap(r + i, n) = IF r + i < n THEN r + i ELSE r + i - n
  BY WrapSum
<1>2. Wrap(r + j, n) = IF r + j < n THEN r + j ELSE r + j - n
  BY WrapSum
<1> QED BY <1>1, <1>2

-----------------------------------------------------------------------------
(* The buffer *)

\* A buffer whose write position is behind its elements, which are all there.
BufferInv(b) ==
  /\ BufferOK(b)
  /\ b.wi = Wrap(b.ri + b.used, b.size)
  /\ \A i \in 0 .. (b.used - 1) : peek_data(b, i) \in Items

LEMMA NewBufferInv ==
  ASSUME NEW size \in Nat \ {0}
  PROVE  BufferInv(NewBuffer(size)) /\ NewBuffer(size).used = 0 /\ Contents(NewBuffer(size)) = <<>>
<1>1. Wrap(0, size) = 0
  BY WrapInside
<1>2. BufferInv(NewBuffer(size)) /\ NewBuffer(size).used = 0
  BY <1>1 DEF BufferInv, BufferOK, NewBuffer
<1>3. Contents(NewBuffer(size)) = <<>>
  BY DEF Contents, NewBuffer
<1> QED BY <1>2, <1>3

LEMMA ReadInv ==
  ASSUME NEW b, BufferInv(b), b.used > 0
  PROVE  /\ BufferInv(read(b)) /\ read(b).used = b.used - 1 /\ read(b).size = b.size
         /\ read_data(b) \in Items
         /\ \A i \in 0 .. (b.used - 2) : peek_data(read(b), i) = peek_data(b, i + 1)
<1> DEFINE n == b.size
           c == read(b)
<1>1. /\ n \in Nat \ {0} /\ b.ri \in 0 .. (n - 1) /\ b.used \in 1 .. n
      /\ b.slot \in [0 .. (n - 1) -> Items \cup {Hole}]
      /\ b.wi \in 0 .. (n - 1) /\ b.wi = Wrap(b.ri + b.used, n)
  BY DEF BufferInv, BufferOK
<1>2. c = [size |-> n, slot |-> [b.slot EXCEPT ![b.ri] = Hole], ri |-> Wrap(b.ri + 1, n),
           wi |-> b.wi, used |-> b.used - 1]
  BY DEF read
<1>3. /\ c.size = n /\ c.slot = [b.slot EXCEPT ![b.ri] = Hole] /\ c.ri = Wrap(b.ri + 1, n)
      /\ c.wi = b.wi /\ c.used = b.used - 1
  BY <1>2
<1> HIDE DEF c
<1>4. c.ri \in 0 .. (n - 1)
  <2>1. Wrap(b.ri + 1, n) = IF b.ri + 1 < n THEN b.ri + 1 ELSE 0
    BY <1>1, WrapNext
  <2> QED BY <2>1, <1>1, <1>3
<1>11. ASSUME NEW i \in 0 .. (n - 1), NEW j \in 0 .. n, j = i + 1
       PROVE  Wrap(c.ri + i, n) = Wrap(b.ri + j, n)
  <2>1. n \in Nat \ {0} /\ b.ri \in 0 .. (n - 1) /\ c.ri = Wrap(b.ri + 1, n)
    BY <1>1, <1>3
  <2> HIDE DEF n
  <2> QED BY <2>1, <1>4, <1>11, WrapRead, ZenonT(30)
<1>5. read_data(b) \in Items
  <2>1. peek_data(b, 0) \in Items
    BY <1>1 DEF BufferInv
  <2>2. Wrap(b.ri + 0, n) = b.ri
    BY <1>1, WrapInside
  <2> QED BY <2>1, <2>2 DEF peek_data, read_data
<1>6. ASSUME NEW i \in 0 .. (b.used - 2)
      PROVE  peek_data(c, i) = peek_data(b, i + 1) /\ peek_data(c, i) \in Items
  <2>0. PICK j \in 0 .. n : j = i + 1
    BY <1>1
  <2>1. i \in 0 .. (n - 1) /\ i + 1 \in 0 .. (n - 1) /\ i + 1 # 0 /\ 0 \in 0 .. (n - 1)
    BY <1>1
  <2>2. Wrap(b.ri + 0, n) = b.ri
    BY <1>1, WrapInside
  <2>3. Wrap(c.ri + i, n) = Wrap(b.ri + j, n)
    BY <2>0, <2>1, <1>11
  <2>4. Wrap(b.ri + (i + 1), n) # b.ri /\ Wrap(b.ri + (i + 1), n) \in 0 .. (n - 1)
    BY <2>1, <2>2, <1>1, WrapApart
  <2>5. c.slot[Wrap(b.ri + (i + 1), n)] = b.slot[Wrap(b.ri + (i + 1), n)]
    BY <2>4, <1>1, <1>3
  <2>6. peek_data(b, i + 1) \in Items
    BY <1>1 DEF BufferInv
  <2> QED BY <2>0, <2>3, <2>5, <2>6, <1>3 DEF peek_data
<1>7. c.wi = Wrap(c.ri + c.used, n)
  <2>1. PICK k \in 0 .. (n - 1) : b.used = k + 1
    <3>1. b.used - 1 \in 0 .. (n - 1) /\ b.used = (b.used - 1) + 1
      BY <1>1
    <3> QED BY <3>1
  <2>2. Wrap(c.ri + k, n) = Wrap(b.ri + b.used, n)
    BY <2>1, <1>1, <1>11
  <2>3. c.used = k
    BY <2>1, <1>3
  <2> QED BY <2>1, <2>2, <2>3, <1>1, <1>3
<1>9. BufferOK(c)
  <2>3. c.slot \in [0 .. (n - 1) -> Items \cup {Hole}]
    BY <1>1, <1>3
  <2>4. c.used \in 0 .. n
    BY <1>1, <1>3
  <2> QED BY <2>3, <2>4, <1>1, <1>3, <1>4 DEF BufferOK
<1>10. \A i \in 0 .. (c.used - 1) : peek_data(c, i) \in Items
  BY <1>1, <1>3, <1>6
<1> QED BY <1>3, <1>5, <1>6, <1>7, <1>9, <1>10 DEF c, BufferInv

LEMMA WriteInv ==
  ASSUME NEW b, BufferInv(b), b.used < b.size, NEW t \in Items
  PROVE  /\ BufferInv(write(b, t)) /\ write(b, t).used = b.used + 1 /\ write(b, t).size = b.size
         /\ \A i \in 0 .. (b.used - 1) : peek_data(write(b, t), i) = peek_data(b, i)
         /\ peek_data(write(b, t), b.used) = t
<1> DEFINE n == b.size
           c == write(b, t)
<1>1. /\ n \in Nat \ {0} /\ b.ri \in 0 .. (n - 1) /\ b.used \in 0 .. (n - 1)
      /\ b.slot \in [0 .. (n - 1) -> Items \cup {Hole}]
      /\ b.wi \in 0 .. (n - 1) /\ b.wi = Wrap(b.ri + b.used, n)
  BY DEF BufferInv, BufferOK
<1>2. c = [size |-> n, slot |-> [b.slot EXCEPT ![b.wi] = t], ri |-> b.ri,
           wi |-> Wrap(b.wi + 1, n), used |-> b.used + 1]
  BY DEF write
<1>3. /\ c.size = n /\ c.slot = [b.slot EXCEPT ![b.wi] = t] /\ c.ri = b.ri
      /\ c.wi = Wrap(b.wi + 1, n) /\ c.used = b.used + 1
  BY <1>2
<1> HIDE DEF c
<1>6. ASSUME NEW i \in 0 .. (b.used - 1)
      PROVE  peek_data(c, i) = peek_data(b, i) /\ peek_data(c, i) \in Items
  <2>1. i \in 0 .. (n - 1) /\ i # b.used
    BY <1>1
  <2>2. Wrap(b.ri + i, n) # b.wi /\ Wrap(b.ri + i, n) \in 0 .. (n - 1)
    BY <2>1, <1>1, WrapApart
  <2>3. c.slot[Wrap(b.ri + i, n)] = b.slot[Wrap(b.ri + i, n)]
    BY <2>2, <1>1, <1>3
  <2>4. peek_data(b, i) \in Items
    BY DEF BufferInv
  <2> QED BY <2>3, <2>4, <1>3 DEF peek_data
<1>7. peek_data(c, b.used) = t
  BY <1>1, <1>3 DEF peek_data
<1>8. c.wi = Wrap(c.ri + c.used, n)
  <2>1. Wrap(Wrap(b.ri + b.used, n) + 1, n) = Wrap(b.ri + (b.used + 1), n)
    BY <1>1, WrapWrite
  <2> QED BY <2>1, <1>1, <1>3
<1>9. BufferOK(c)
  <2>1. Wrap(b.wi + 1, n) = IF b.wi + 1 < n THEN b.wi + 1 ELSE 0
    BY <1>1, WrapNext
  <2>2. c.wi \in 0 .. (n - 1)
    BY <2>1, <1>1, <1>3
  <2>3. c.slot \in [0 .. (n - 1) -> Items \cup {Hole}]
    BY <1>1, <1>3
  <2>4. c.used \in 0 .. n
    BY <1>1, <1>3
  <2> QED BY <2>2, <2>3, <2>4, <1>1, <1>3 DEF BufferOK
<1>10. ASSUME NEW i \in 0 .. (c.used - 1) PROVE peek_data(c, i) \in Items
  <2>1. CASE i = b.used
    BY <2>1, <1>7
  <2>2. CASE i # b.used
    BY <2>2, <1>1, <1>3, <1>6
  <2> QED BY <2>1, <2>2
<1> QED BY <1>3, <1>6, <1>7, <1>8, <1>9, <1>10 DEF c, BufferInv

LEMMA ResizeInv ==
  ASSUME NEW b, BufferInv(b), NEW size \in Nat \ {0}, b.used <= size
  PROVE  /\ BufferInv(resize(b, size)) /\ resize(b, size).used = b.used
         /\ resize(b, size).size = size
         /\ \A i \in 0 .. (b.used - 1) : peek_data(resize(b, size), i) = peek_data(b, i)
<1> DEFINE c == resize(b, size)
<1>1. b.used \in Nat
  BY DEF BufferInv, BufferOK
<1>2. c = [ size |-> size, ri |-> 0, wi |-> Wrap(b.used, size), used |-> b.used,
            slot |-> [s \in 0 .. (size - 1) |-> IF s < b.used THEN peek_data(b, s) ELSE Hole] ]
  BY <1>1 DEF resize
<1>3. /\ c.size = size /\ c.ri = 0 /\ c.wi = Wrap(b.used, size) /\ c.used = b.used
      /\ c.slot = [s \in 0 .. (size - 1) |-> IF s < b.used THEN peek_data(b, s) ELSE Hole]
  BY <1>2
<1> HIDE DEF c
<1>4. ASSUME NEW i \in 0 .. (b.used - 1)
      PROVE  peek_data(c, i) = peek_data(b, i) /\ peek_data(c, i) \in Items
  <2>1. Wrap(0 + i, size) = i /\ i \in 0 .. (size - 1)
    BY <1>1, WrapInside
  <2>2. peek_data(b, i) \in Items
    BY DEF BufferInv
  <2>3. c.slot[i] = peek_data(b, i)
    BY <2>1, <1>1, <1>3
  <2> QED BY <2>1, <2>2, <2>3, <1>3 DEF peek_data
<1>5. c.wi \in 0 .. (size - 1)
  BY <1>1, <1>3, WrapType
<1>6. c.slot \in [0 .. (size - 1) -> Items \cup {Hole}]
  <2>1. \A s \in 0 .. (b.used - 1) : peek_data(b, s) \in Items
    BY DEF BufferInv
  <2> QED BY <2>1, <1>1, <1>3
<1>8. BufferOK(c) /\ c.wi = Wrap(c.ri + c.used, c.size)
  BY <1>1, <1>3, <1>5, <1>6 DEF BufferOK
<1> QED BY <1>3, <1>4, <1>8 DEF c, BufferInv

\* nb_poke changes no index, and at most one element.
LEMMA PokeInv ==
  ASSUME NEW b, BufferInv(b), NEW n \in Nat, NEW t \in Items
  PROVE  /\ BufferInv(poke(b, n, t)) /\ poke(b, n, t).used = b.used /\ poke(b, n, t).size = b.size
         /\ \A i \in 0 .. (b.used - 1) :
              peek_data(poke(b, n, t), i)
                = IF Wrap(b.ri + i, b.size) = Wrap(b.wi + n, b.size) THEN t ELSE peek_data(b, i)
<1> DEFINE c == poke(b, n, t)
<1>1. /\ b.size \in Nat \ {0} /\ b.ri \in 0 .. (b.size - 1) /\ b.used \in 0 .. b.size
      /\ b.slot \in [0 .. (b.size - 1) -> Items \cup {Hole}]
      /\ b.wi \in 0 .. (b.size - 1)
  BY DEF BufferInv, BufferOK
<1>2. c = [size |-> b.size, slot |-> [b.slot EXCEPT ![Wrap(b.wi + n, b.size)] = t], ri |-> b.ri,
           wi |-> b.wi, used |-> b.used]
  BY DEF poke
<1>3. /\ c.size = b.size /\ c.slot = [b.slot EXCEPT ![Wrap(b.wi + n, b.size)] = t]
      /\ c.ri = b.ri /\ c.wi = b.wi /\ c.used = b.used
  BY <1>2
<1> HIDE DEF c
<1>4. Wrap(b.wi + n, b.size) \in 0 .. (b.size - 1)
  <2>1. b.wi + n \in Nat
    BY <1>1
  <2> QED BY <2>1, <1>1, WrapType
<1>5. ASSUME NEW i \in 0 .. (b.used - 1)
      PROVE  /\ peek_data(c, i) = IF Wrap(b.ri + i, b.size) = Wrap(b.wi + n, b.size)
                                  THEN t ELSE peek_data(b, i)
             /\ peek_data(c, i) \in Items
  <2>1. Wrap(b.ri + i, b.size) \in 0 .. (b.size - 1)
    <3>1. b.ri + i \in Nat
      BY <1>1
    <3> QED BY <3>1, <1>1, WrapType
  <2>2. peek_data(b, i) \in Items
    BY DEF BufferInv
  <2> QED BY <2>1, <2>2, <1>1, <1>3, <1>4 DEF peek_data
<1>6. BufferOK(c)
  BY <1>1, <1>2, <1>3, <1>4 DEF BufferOK
<1>7. c.wi = Wrap(c.ri + c.used, c.size)
  BY <1>3 DEF BufferInv
<1> QED BY <1>3, <1>5, <1>6, <1>7 DEF c, BufferInv

-----------------------------------------------------------------------------
(* The contents of the buffer, and what the operations do to them *)

LEMMA ContentsShape ==
  ASSUME NEW b, BufferInv(b)
  PROVE  /\ Contents(b) \in Seq(Items) /\ Len(Contents(b)) = b.used
         /\ \A i \in 1 .. b.used : Contents(b)[i] = peek_data(b, i - 1)
<1>1. b.used \in Nat
  BY DEF BufferInv, BufferOK
<1>2. ASSUME NEW i \in 1 .. b.used PROVE peek_data(b, i - 1) \in Items
  <2>1. i - 1 \in 0 .. (b.used - 1)
    BY <1>1
  <2> QED BY <2>1 DEF BufferInv
<1>3. Contents(b) = [i \in 1 .. b.used |-> peek_data(b, i - 1)]
  BY DEF Contents
<1>4. Contents(b) \in [1 .. b.used -> Items]
  BY <1>2, <1>3
<1>5. \A n \in Nat : \A s \in [1 .. n -> Items] : s \in Seq(Items) /\ Len(s) = n
  OBVIOUS
<1>6. Contents(b) \in Seq(Items) /\ Len(Contents(b)) = b.used
  BY <1>1, <1>4, <1>5
<1> QED BY <1>3, <1>6

\* A sequence is known by its length and its elements.
LEMMA SameSequence ==
  ASSUME NEW S, NEW s \in Seq(S), NEW t \in Seq(S), Len(s) = Len(t),
         \A i \in 1 .. Len(s) : s[i] = t[i]
  PROVE  s = t
OBVIOUS

LEMMA ContentsRead ==
  ASSUME NEW b, BufferInv(b), b.used > 0
  PROVE  /\ Contents(b) # <<>> /\ Head(Contents(b)) = read_data(b)
         /\ Contents(read(b)) = Tail(Contents(b))
<1> DEFINE c == read(b)
           s == Contents(b)
           t == Contents(read(b))
<1>1. /\ BufferInv(c) /\ c.used = b.used - 1
      /\ \A i \in 0 .. (b.used - 2) : peek_data(c, i) = peek_data(b, i + 1)
  BY ReadInv
<1>2. b.used \in Nat /\ b.size \in Nat \ {0} /\ b.ri \in 0 .. (b.size - 1)
  BY DEF BufferInv, BufferOK
<1>3. /\ s \in Seq(Items) /\ Len(s) = b.used
      /\ \A i \in 1 .. b.used : s[i] = peek_data(b, i - 1)
  BY ContentsShape
<1>4. /\ t \in Seq(Items) /\ Len(t) = b.used - 1
      /\ \A i \in 1 .. (b.used - 1) : t[i] = peek_data(c, i - 1)
  <2> HIDE DEF c
  <2> QED BY <1>1, ContentsShape DEF c
<1> HIDE DEF c, s, t
<1>5. s # <<>> /\ Head(s) = s[1] /\ s[1] = peek_data(b, 1 - 1)
  BY <1>2, <1>3
<1>6. peek_data(b, 0) = read_data(b)
  <2>1. Wrap(b.ri + 0, b.size) = b.ri
    BY <1>2, WrapInside
  <2> QED BY <2>1 DEF peek_data, read_data
<1>7. /\ Tail(s) \in Seq(Items) /\ Len(Tail(s)) = b.used - 1
      /\ \A i \in 1 .. (b.used - 1) : Tail(s)[i] = s[i + 1]
  BY <1>2, <1>3
<1>8. ASSUME NEW i \in 1 .. (b.used - 1) PROVE t[i] = Tail(s)[i]
  <2>1. i - 1 \in 0 .. (b.used - 2) /\ i + 1 \in 1 .. b.used /\ (i - 1) + 1 = (i + 1) - 1
    BY <1>2
  <2>2. t[i] = peek_data(b, (i - 1) + 1)
    BY <2>1, <1>1, <1>4
  <2>3. s[i + 1] = peek_data(b, (i + 1) - 1)
    BY <2>1, <1>3
  <2> QED BY <2>1, <2>2, <2>3, <1>7
<1>9. t = Tail(s)
  BY <1>4, <1>7, <1>8, SameSequence
<1> QED BY <1>5, <1>6, <1>9 DEF s, t

LEMMA ContentsWrite ==
  ASSUME NEW b, BufferInv(b), b.used < b.size, NEW e \in Items
  PROVE  Contents(write(b, e)) = Append(Contents(b), e)
<1> DEFINE c == write(b, e)
           s == Contents(b)
           t == Contents(write(b, e))
<1>1. /\ BufferInv(c) /\ c.used = b.used + 1
      /\ \A i \in 0 .. (b.used - 1) : peek_data(c, i) = peek_data(b, i)
      /\ peek_data(c, b.used) = e
  BY WriteInv
<1>2. b.used \in Nat
  BY DEF BufferInv, BufferOK
<1>3. /\ s \in Seq(Items) /\ Len(s) = b.used
      /\ \A i \in 1 .. b.used : s[i] = peek_data(b, i - 1)
  BY ContentsShape
<1>4. /\ t \in Seq(Items) /\ Len(t) = b.used + 1
      /\ \A i \in 1 .. (b.used + 1) : t[i] = peek_data(c, i - 1)
  <2> HIDE DEF c
  <2> QED BY <1>1, ContentsShape DEF c
<1> HIDE DEF c, s, t
<1>5. /\ Append(s, e) \in Seq(Items) /\ Len(Append(s, e)) = b.used + 1
      /\ Append(s, e)[b.used + 1] = e
      /\ \A i \in 1 .. b.used : Append(s, e)[i] = s[i]
  BY <1>2, <1>3
<1>6. ASSUME NEW i \in 1 .. (b.used + 1) PROVE t[i] = Append(s, e)[i]
  <2>1. CASE i = b.used + 1
    <3>1. i - 1 = b.used
      BY <2>1, <1>2
    <3> QED BY <3>1, <2>1, <1>1, <1>4, <1>5
  <2>2. CASE i # b.used + 1
    <3>1. i \in 1 .. b.used /\ i - 1 \in 0 .. (b.used - 1)
      BY <2>2, <1>2
    <3> QED BY <3>1, <1>1, <1>3, <1>4, <1>5
  <2> QED BY <2>1, <2>2
<1>7. t = Append(s, e)
  BY <1>4, <1>5, <1>6, SameSequence
<1> QED BY <1>7 DEF s, t

LEMMA ContentsResize ==
  ASSUME NEW b, BufferInv(b), NEW size \in Nat \ {0}, b.used <= size
  PROVE  Contents(resize(b, size)) = Contents(b)
<1> DEFINE c == resize(b, size)
<1>1. /\ c.used = b.used
      /\ \A i \in 0 .. (b.used - 1) : peek_data(c, i) = peek_data(b, i)
  BY ResizeInv
<1> HIDE DEF c
<1>2. b.used \in Nat
  BY DEF BufferInv, BufferOK
<1>3. \A i \in 1 .. b.used : peek_data(c, i - 1) = peek_data(b, i - 1)
  BY <1>1, <1>2
<1>4. Contents(c) = Contents(b)
  BY <1>1, <1>3 DEF Contents
<1> QED BY <1>4 DEF c

\* nb_poke changes at most one element.
LEMMA ContentsPoke ==
  ASSUME NEW b, BufferInv(b), NEW n \in Nat, NEW e \in Items
  PROVE  \/ Contents(poke(b, n, e)) = Contents(b)
         \/ \E i \in DOMAIN Contents(b) :
              Contents(poke(b, n, e)) = [Contents(b) EXCEPT ![i] = e]
<1> DEFINE c == poke(b, n, e)
           at == Wrap(b.wi + n, b.size)
<1>1. /\ c.used = b.used
      /\ \A i \in 0 .. (b.used - 1) :
           peek_data(c, i) = IF Wrap(b.ri + i, b.size) = at THEN e ELSE peek_data(b, i)
  BY PokeInv
<1>2. b.used \in 0 .. b.size /\ b.size \in Nat \ {0} /\ b.ri \in 0 .. (b.size - 1)
  BY DEF BufferInv, BufferOK
<1> HIDE DEF c, at
<1>3. CASE \E i \in 0 .. (b.used - 1) : Wrap(b.ri + i, b.size) = at
  <2>1. PICK i \in 0 .. (b.used - 1) : Wrap(b.ri + i, b.size) = at
    BY <1>3
  <2>2. ASSUME NEW j \in 0 .. (b.used - 1), i # j PROVE peek_data(c, j) = peek_data(b, j)
    <3>1. i \in 0 .. (b.size - 1) /\ j \in 0 .. (b.size - 1)
      BY <1>2
    <3>2. Wrap(b.ri + i, b.size) # Wrap(b.ri + j, b.size)
      BY <3>1, <2>2, <1>2, WrapApart
    <3> QED BY <3>2, <2>1, <1>1
  <2>3. peek_data(c, i) = e
    BY <2>1, <1>1
  <2>4. i + 1 \in 1 .. b.used /\ (i + 1) - 1 = i
    BY <1>2
  <2>5. \A k \in 1 .. b.used : peek_data(c, k - 1) = IF k = i + 1 THEN e ELSE peek_data(b, k - 1)
    <3>1. SUFFICES ASSUME NEW k \in 1 .. b.used
                   PROVE  peek_data(c, k - 1) = IF k = i + 1 THEN e ELSE peek_data(b, k - 1)
      OBVIOUS
    <3>2. k - 1 \in 0 .. (b.used - 1) /\ (k = i + 1 <=> k - 1 = i)
      BY <1>2
    <3> QED BY <3>2, <2>2, <2>3
  <2>6. Contents(c) = [Contents(b) EXCEPT ![i + 1] = e] /\ i + 1 \in DOMAIN Contents(b)
    BY <2>4, <2>5, <1>1 DEF Contents
  <2> QED BY <2>6 DEF c
<1>4. CASE ~ \E i \in 0 .. (b.used - 1) : Wrap(b.ri + i, b.size) = at
  <2>1. \A i \in 0 .. (b.used - 1) : peek_data(c, i) = peek_data(b, i)
    BY <1>1, <1>4
  <2>2. \A i \in 1 .. b.used : peek_data(c, i - 1) = peek_data(b, i - 1)
    BY <2>1, <1>2
  <2>3. Contents(c) = Contents(b)
    BY <2>2, <1>1 DEF Contents
  <2> QED BY <2>3 DEF c
<1> QED BY <1>3, <1>4

-----------------------------------------------------------------------------
(* The fifo *)

Members == {"buffer", "size", "readable", "read", "written", "expand", "requested"}

\* The members have their types, and their counts agree.
FifoCounts(f) ==
  /\ DOMAIN f = Members /\ BufferInv(f.buffer)
  /\ f.size \in Int /\ f.readable \in Nat /\ f.read \in Nat /\ f.written \in Nat
  /\ f.buffer.used = used(f) + f.written
  /\ f.read <= f.readable

\* An update is requested when there is something to account for.
FifoFlags(f) ==
  /\ f.expand \in BOOLEAN /\ f.requested \in BOOLEAN
  /\ f.read > 0 \/ f.written > 0 \/ f.expand => f.requested

FifoInv(f) == FifoCounts(f) /\ FifoFlags(f)

LEMMA NewFifoInv ==
  ASSUME NEW n \in Int
  PROVE  FifoInv(NewFifo(n)) /\ Contents(NewFifo(n).buffer) = <<>>
<1> DEFINE slots == IF n = 0 THEN ZeroBuffer ELSE Abs(n)
<1>1. slots \in Nat \ {0}
  BY ZeroBufferAssumption DEF Abs
<1>2. /\ BufferInv(NewBuffer(slots)) /\ NewBuffer(slots).used = 0
      /\ Contents(NewBuffer(slots)) = <<>>
  <2> HIDE DEF slots
  <2> QED BY <1>1, NewBufferInv
<1>3. NewFifo(n) = [ buffer |-> NewBuffer(slots), size |-> n, readable |-> 0, read |-> 0,
                     written |-> 0, expand |-> FALSE, requested |-> FALSE ]
  BY DEF NewFifo
<1> HIDE DEF slots
<1>4. ~(0 > 0)
  OBVIOUS
<1>5. FifoCounts(NewFifo(n))
  BY <1>2, <1>3 DEF FifoCounts, Members, used
<1>6. FifoFlags(NewFifo(n))
  BY <1>3, <1>4 DEF FifoFlags
<1> QED BY <1>2, <1>3, <1>5, <1>6 DEF FifoInv

LEMMA TakenInv ==
  ASSUME NEW f, FifoInv(f), ~is_empty(f)
  PROVE  /\ FifoInv(Taken(f)) /\ f.buffer.used > 0
         /\ Taken(f).read > 0
         /\ Taken(f).written = f.written
<1>1. f.buffer.used > 0
  BY DEF FifoInv, FifoCounts, is_empty, used
<1>2. BufferInv(read(f.buffer)) /\ read(f.buffer).used = f.buffer.used - 1
  BY <1>1, ReadInv DEF FifoInv, FifoCounts
<1>3. /\ Taken(f).buffer = read(f.buffer) /\ Taken(f).size = f.size
      /\ Taken(f).readable = f.readable /\ Taken(f).read = f.read + 1
      /\ Taken(f).written = f.written /\ Taken(f).expand = f.expand
      /\ Taken(f).requested = TRUE /\ DOMAIN Taken(f) = Members
  BY DEF Taken, FifoInv, FifoCounts, Members
<1>4. FifoInv(Taken(f))
  <2>1. FifoCounts(Taken(f))
    BY <1>2, <1>3 DEF FifoInv, FifoCounts, used, is_empty
  <2>2. FifoFlags(Taken(f))
    BY <1>3 DEF FifoInv, FifoFlags
  <2> QED BY <2>1, <2>2 DEF FifoInv
<1>5. Taken(f).read > 0
  BY <1>3 DEF FifoInv, FifoCounts
<1> QED BY <1>1, <1>3, <1>4, <1>5

LEMMA StoredInv ==
  ASSUME NEW f, FifoInv(f), NEW t \in Items
  PROVE  /\ FifoInv(Stored(f, t))
         /\ Contents(Stored(f, t).buffer) = Append(Contents(f.buffer), t)
         /\ Stored(f, t).written > 0 /\ Stored(f, t).read = f.read
         /\ Stored(f, t).expand = f.expand /\ (is_full(f) => is_full(Stored(f, t)))
<1> DEFINE b == f.buffer
           room == IF buffer_is_full(b) THEN resize(b, 2 * b.size) ELSE b
<1>1. BufferInv(b) /\ b.used \in 0 .. b.size /\ b.size \in Nat \ {0}
  BY DEF FifoInv, FifoCounts, BufferInv, BufferOK
<1>2. /\ BufferInv(room) /\ room.used = b.used /\ room.used < room.size
      /\ Contents(room) = Contents(b)
  <2>1. CASE buffer_is_full(b)
    <3>1. 2 * b.size \in Nat \ {0} /\ b.used <= 2 * b.size /\ b.used < 2 * b.size
      BY <1>1
    <3>2. /\ BufferInv(resize(b, 2 * b.size)) /\ resize(b, 2 * b.size).used = b.used
          /\ resize(b, 2 * b.size).size = 2 * b.size
      BY <3>1, <1>1, ResizeInv
    <3>3. Contents(resize(b, 2 * b.size)) = Contents(b)
      BY <3>1, <1>1, ContentsResize
    <3> QED BY <3>1, <3>2, <3>3, <2>1
  <2>2. CASE ~ buffer_is_full(b)
    BY <2>2, <1>1 DEF buffer_is_full
  <2> QED BY <2>1, <2>2
<1>3. /\ Stored(f, t).buffer = write(room, t) /\ Stored(f, t).size = f.size
      /\ Stored(f, t).readable = f.readable /\ Stored(f, t).read = f.read
      /\ Stored(f, t).written = f.written + 1 /\ Stored(f, t).expand = f.expand
      /\ Stored(f, t).requested = TRUE /\ DOMAIN Stored(f, t) = Members
  BY DEF Stored, FifoInv, FifoCounts, Members
<1> HIDE DEF room
<1>4. /\ BufferInv(write(room, t)) /\ write(room, t).used = b.used + 1
      /\ Contents(write(room, t)) = Append(Contents(b), t)
  BY <1>2, WriteInv, ContentsWrite
<1>5. FifoInv(Stored(f, t)) /\ Stored(f, t).written > 0
  <2>1. FifoCounts(Stored(f, t)) /\ Stored(f, t).written > 0
    <3>1. /\ f.size \in Int /\ f.readable \in Nat /\ f.read \in Nat /\ f.written \in Nat
          /\ f.buffer.used = f.readable - f.read + f.written /\ f.read <= f.readable
      BY DEF FifoInv, FifoCounts, used
    <3>2. BufferInv(Stored(f, t).buffer) /\ Stored(f, t).buffer.used = f.buffer.used + 1
      BY <1>3, <1>4
    <3> QED BY <3>1, <3>2, <1>3 DEF FifoCounts, used
  <2>2. FifoFlags(Stored(f, t))
    BY <1>3 DEF FifoInv, FifoFlags
  <2> QED BY <2>1, <2>2 DEF FifoInv
<1>6. is_full(f) => is_full(Stored(f, t))
  BY <1>3 DEF is_full, FifoInv, FifoCounts
<1> QED BY <1>3, <1>4, <1>5, <1>6

LEMMA PokedInv ==
  ASSUME NEW f, FifoInv(f), NEW n \in Nat, NEW t \in Items
  PROVE  /\ FifoInv(Poked(f, n, t)) /\ Poked(f, n, t).buffer = poke(f.buffer, n, t)
         /\ Poked(f, n, t).size = f.size /\ Poked(f, n, t).readable = f.readable
         /\ Poked(f, n, t).read = f.read /\ Poked(f, n, t).written = f.written
         /\ Poked(f, n, t).expand = f.expand
<1>1. /\ BufferInv(poke(f.buffer, n, t)) /\ poke(f.buffer, n, t).used = f.buffer.used
  BY PokeInv DEF FifoInv, FifoCounts
<1>2. /\ Poked(f, n, t).buffer = poke(f.buffer, n, t) /\ Poked(f, n, t).size = f.size
      /\ Poked(f, n, t).readable = f.readable /\ Poked(f, n, t).read = f.read
      /\ Poked(f, n, t).written = f.written /\ Poked(f, n, t).expand = f.expand
      /\ Poked(f, n, t).requested = f.requested /\ DOMAIN Poked(f, n, t) = Members
  BY DEF Poked, FifoInv, FifoCounts, Members
<1>3. FifoCounts(Poked(f, n, t))
  BY <1>1, <1>2 DEF FifoInv, FifoCounts, used
<1>4. FifoFlags(Poked(f, n, t))
  BY <1>2 DEF FifoInv, FifoFlags
<1> QED BY <1>2, <1>3, <1>4 DEF FifoInv

LEMMA ExpandedInv ==
  ASSUME NEW f, FifoInv(f), NEW n \in Nat
  PROVE  /\ FifoInv(Expanded(f, n)) /\ Expanded(f, n).buffer = f.buffer
         /\ Expanded(f, n) = f \/ Expanded(f, n).expand
         /\ Expanded(f, n).readable = f.readable /\ Expanded(f, n).read = f.read
         /\ Expanded(f, n).written = f.written
<1>1. CASE f.size < 0
  BY <1>1 DEF Expanded
<1>2. CASE f.size >= 0
  <2>1. /\ Expanded(f, n).buffer = f.buffer /\ Expanded(f, n).size = f.size + n
        /\ Expanded(f, n).readable = f.readable /\ Expanded(f, n).read = f.read
        /\ Expanded(f, n).written = f.written /\ Expanded(f, n).expand = TRUE
        /\ Expanded(f, n).requested = TRUE /\ DOMAIN Expanded(f, n) = Members
    BY <1>2 DEF Expanded, FifoInv, FifoCounts, Members
  <2>2. FifoCounts(Expanded(f, n))
    BY <2>1 DEF FifoInv, FifoCounts, used
  <2>3. FifoFlags(Expanded(f, n))
    BY <2>1 DEF FifoInv, FifoFlags
  <2> QED BY <2>1, <2>2, <2>3 DEF FifoInv
<1>3. f.size \in Int
  BY DEF FifoInv, FifoCounts
<1> QED BY <1>1, <1>2, <1>3

LEMMA UnboundedInv ==
  ASSUME NEW f, FifoInv(f), NEW n \in Nat \ {0}
  PROVE  /\ FifoInv(Unbounded(f, n)) /\ Contents(Unbounded(f, n).buffer) = Contents(f.buffer)
         /\ Unbounded(f, n).expand
         /\ Unbounded(f, n).readable = f.readable /\ Unbounded(f, n).read = f.read
         /\ Unbounded(f, n).written = f.written
<1> DEFINE b == f.buffer
           room == IF b.size < n THEN resize(b, n) ELSE b
<1>1. BufferInv(b) /\ b.used \in 0 .. b.size /\ b.size \in Nat \ {0}
  BY DEF FifoInv, FifoCounts, BufferInv, BufferOK
<1>2. BufferInv(room) /\ room.used = b.used /\ Contents(room) = Contents(b)
  <2>1. CASE b.size < n
    <3>1. b.used <= n
      BY <2>1, <1>1
    <3> QED BY <3>1, <2>1, <1>1, ResizeInv, ContentsResize
  <2>2. CASE ~(b.size < n)
    BY <2>2, <1>1
  <2> QED BY <2>1, <2>2
<1>3. /\ Unbounded(f, n).buffer = room /\ Unbounded(f, n).size = -n
      /\ Unbounded(f, n).readable = f.readable /\ Unbounded(f, n).read = f.read
      /\ Unbounded(f, n).written = f.written /\ Unbounded(f, n).expand = TRUE
      /\ Unbounded(f, n).requested = TRUE /\ DOMAIN Unbounded(f, n) = Members
  BY DEF Unbounded, FifoInv, FifoCounts, Members
<1> HIDE DEF room
<1>4. FifoCounts(Unbounded(f, n))
  BY <1>2, <1>3 DEF FifoInv, FifoCounts, used
<1>5. FifoFlags(Unbounded(f, n))
  BY <1>3 DEF FifoInv, FifoFlags
<1> QED BY <1>2, <1>3, <1>4, <1>5 DEF FifoInv

LEMMA BoundedInv ==
  ASSUME NEW f, FifoInv(f), NEW n \in Int
  PROVE  /\ FifoInv(Bounded(f, n)) /\ Bounded(f, n).buffer = f.buffer
         /\ Bounded(f, n).size = IF n < used(f) THEN used(f) ELSE n
         /\ Bounded(f, n).readable = f.readable /\ Bounded(f, n).read = f.read
         /\ Bounded(f, n).written = f.written /\ Bounded(f, n).expand = f.expand
<1>1. /\ Bounded(f, n).buffer = f.buffer
      /\ Bounded(f, n).size = IF n < used(f) THEN used(f) ELSE n
      /\ Bounded(f, n).readable = f.readable /\ Bounded(f, n).read = f.read
      /\ Bounded(f, n).written = f.written /\ Bounded(f, n).expand = f.expand
      /\ Bounded(f, n).requested = f.requested /\ DOMAIN Bounded(f, n) = Members
  BY DEF Bounded, FifoInv, FifoCounts, Members
<1>2. FifoCounts(Bounded(f, n))
  BY <1>1 DEF FifoInv, FifoCounts, used
<1>3. FifoFlags(Bounded(f, n))
  BY <1>1 DEF FifoInv, FifoFlags
<1> QED BY <1>1, <1>2, <1>3 DEF FifoInv

\* A shorter fifo that was full stays so.
LEMMA ReducedInv ==
  ASSUME NEW f, FifoInv(f), NEW n \in Nat
  PROVE  /\ FifoInv(Reduced(f, n)) /\ Reduced(f, n).buffer = f.buffer
         /\ Reduced(f, n).readable = f.readable /\ Reduced(f, n).read = f.read
         /\ Reduced(f, n).written = f.written /\ Reduced(f, n).expand = f.expand
         /\ is_full(f) => is_full(Reduced(f, n))
<1>1. CASE f.size < 0
  BY <1>1 DEF Reduced
<1>2. CASE f.size >= 0
  <2>1. f.size - n \in Int /\ Reduced(f, n) = Bounded(f, f.size - n)
    BY <1>2 DEF Reduced, FifoInv, FifoCounts
  <2>2. PICK m \in Int : m = f.size - n
    BY <2>1
  <2>3. /\ FifoInv(Bounded(f, m)) /\ Bounded(f, m).buffer = f.buffer
        /\ Bounded(f, m).size = IF m < used(f) THEN used(f) ELSE m
        /\ Bounded(f, m).readable = f.readable /\ Bounded(f, m).read = f.read
        /\ Bounded(f, m).written = f.written /\ Bounded(f, m).expand = f.expand
    BY BoundedInv
  <2>4. is_full(f) => is_full(Bounded(f, m))
    BY <2>2, <2>3 DEF is_full, FifoInv, FifoCounts, used
  <2> QED BY <2>1, <2>2, <2>3, <2>4
<1>3. f.size \in Int
  BY DEF FifoInv, FifoCounts
<1> QED BY <1>1, <1>2, <1>3

LEMMA UpdatedInv ==
  ASSUME NEW f, FifoInv(f)
  PROVE  /\ FifoInv(Updated(f)) /\ Updated(f).buffer = f.buffer
         /\ (f.read = 0 /\ is_full(f) => is_full(Updated(f)))
         /\ (f.written = 0 /\ is_empty(f) => is_empty(Updated(f)))
<1>1. /\ Updated(f).buffer = f.buffer /\ Updated(f).size = f.size
      /\ Updated(f).readable = f.buffer.used /\ Updated(f).read = 0
      /\ Updated(f).written = 0 /\ Updated(f).expand = FALSE
      /\ Updated(f).requested = FALSE /\ DOMAIN Updated(f) = Members
  BY DEF Updated, FifoInv, FifoCounts, Members
<1>2. FifoCounts(Updated(f))
  <2>1. BufferInv(f.buffer) /\ f.buffer.used \in Nat
    BY DEF FifoInv, FifoCounts, BufferInv, BufferOK
  <2> QED BY <2>1, <1>1 DEF FifoInv, FifoCounts, used
<1>3. FifoFlags(Updated(f))
  <2>1. ~(0 > 0)
    OBVIOUS
  <2> QED BY <2>1, <1>1 DEF FifoFlags
<1>4. f.read = 0 /\ is_full(f) => is_full(Updated(f))
  BY <1>1 DEF FifoInv, FifoCounts, used, is_full
<1>5. f.written = 0 /\ is_empty(f) => is_empty(Updated(f))
  BY <1>1 DEF FifoInv, FifoCounts, used, is_empty
<1> QED BY <1>1, <1>2, <1>3, <1>4, <1>5 DEF FifoInv

-----------------------------------------------------------------------------
(* Words of b bytes: quotients and multiples of integers *)

\* Every integer, negative ones included, is a multiple of b and a rest.
LEMMA HasIntQuotient ==
  ASSUME NEW b \in Nat, b > 0, NEW a \in Int
  PROVE  \E q \in Int, r \in 0 .. (b - 1) : Divided(a, b, q, r)
<1>1. CASE a >= 0
  <2>1. PICK q \in Nat, r \in 0 .. (b - 1) : a = b * q + r
    <3>1. a \in Nat
      BY <1>1
    <3> QED BY <3>1, HasQuotient
  <2>2. q \in Int /\ Divided(a, b, q, r)
    BY <2>1 DEF Divided
  <2> QED BY <2>2
<1>2. CASE a < 0
  <2>1. PICK c \in Nat : c = -a /\ a = -c
    BY <1>2
  <2>2. PICK q \in Nat, r \in 0 .. (b - 1) : c = b * q + r
    BY HasQuotient
  <2>3. PICK m \in Int : m = b * q
    OBVIOUS
  <2>4. CASE r = 0
    <3>1. PICK k \in Int : k = -q
      OBVIOUS
    <3>2. b * k = -m
      BY <2>3, <3>1
    <3>3. a = b * k + 0 /\ 0 \in 0 .. (b - 1)
      BY <2>1, <2>2, <2>3, <2>4, <3>2
    <3>4. Divided(a, b, k, 0)
      BY <3>3 DEF Divided
    <3> QED BY <3>3, <3>4
  <2>5. CASE r # 0
    <3>1. PICK k \in Int : k = -q - 1
      OBVIOUS
    <3>2. b * (-q - 1) = -(b * q) - b
      OBVIOUS
    <3>3. b * k = -m - b
      BY <2>3, <3>1, <3>2
    <3>4. PICK s \in 0 .. (b - 1) : s = b - r
      BY <2>5
    <3>5. a = b * k + s
      BY <2>1, <2>2, <2>3, <3>3, <3>4
    <3>6. Divided(a, b, k, s)
      BY <3>5 DEF Divided
    <3> QED BY <3>6
  <2> QED BY <2>4, <2>5
<1> QED BY <1>1, <1>2

Multiple(c, b) == c \in Int /\ \E q \in Int : c = b * q

LEMMA MultipleSum ==
  ASSUME NEW b \in Nat, NEW x, Multiple(x, b), NEW y, Multiple(y, b)
  PROVE  Multiple(x + y, b) /\ Multiple(x - y, b)
<1>1. PICK q \in Int : x = b * q
  BY DEF Multiple
<1>2. PICK k \in Int : y = b * k
  BY DEF Multiple
<1>3. b * (q + k) = b * q + b * k /\ b * (q - k) = b * q - b * k
  OBVIOUS
<1>4. PICK u \in Int, v \in Int : u = b * q /\ v = b * k
  OBVIOUS
<1>5. x + y = b * (q + k) /\ x - y = b * (q - k) /\ x + y \in Int /\ x - y \in Int
  BY <1>1, <1>2, <1>3, <1>4
<1>6. q + k \in Int /\ q - k \in Int
  OBVIOUS
<1> QED BY <1>5, <1>6 DEF Multiple

LEMMA MultipleOf ==
  ASSUME NEW b \in Nat, NEW q \in Int
  PROVE  Multiple(b * q, b) /\ Multiple(0, b) /\ Multiple(b, b)
<1>1. b * 0 = 0 /\ b * 1 = b /\ b * q \in Int /\ 0 \in Int /\ 1 \in Int /\ b \in Int
  OBVIOUS
<1> QED BY <1>1, Zenon DEF Multiple

LEMMA MultipleThrough ==
  ASSUME NEW d \in Nat, NEW b \in Nat, Multiple(b, d), NEW x, Multiple(x, b)
  PROVE  Multiple(x, d)
<1>1. PICK m \in Int : b = d * m
  BY DEF Multiple
<1>2. PICK k \in Int : x = b * k
  BY DEF Multiple
<1>3. (d * m) * k = d * (m * k) /\ m * k \in Int
  OBVIOUS
<1>4. x = d * (m * k) /\ x \in Int
  BY <1>1, <1>2, <1>3 DEF Multiple
<1> QED BY <1>3, <1>4 DEF Multiple

\* Multiples lie a word apart.
LEMMA MultiplesApart ==
  ASSUME NEW b \in Nat, b > 0, NEW x, Multiple(x, b), NEW y, Multiple(y, b), x < y
  PROVE  x + b <= y
<1>1. PICK q \in Int : x = b * q
  BY DEF Multiple
<1>2. PICK k \in Int : y = b * k
  BY DEF Multiple
<1>3. x \in Int /\ y \in Int
  BY DEF Multiple
<1>4. q < k
  <2>1. SUFFICES ASSUME k <= q PROVE FALSE
    OBVIOUS
  <2>2. PICK j \in Nat : q = k + j
    <3>1. q - k \in Nat /\ q = k + (q - k)
      BY <2>1
    <3> QED BY <3>1
  <2>3. b * (k + j) = b * k + b * j /\ b * j \in Nat
    OBVIOUS
  <2>4. PICK u \in Int, v \in Nat : u = b * k /\ v = b * j
    BY <2>3
  <2>5. x = u + v /\ y = u
    BY <1>1, <1>2, <2>2, <2>3, <2>4
  <2> QED BY <2>5
<1>5. PICK j \in Nat : k = q + 1 + j
  <2>1. k - q - 1 \in Nat /\ k = q + 1 + (k - q - 1)
    BY <1>4
  <2> QED BY <2>1
<1>6. b * (q + 1 + j) = b * q + b + b * j /\ b * j \in Nat
  OBVIOUS
<1>7. PICK u \in Int, v \in Nat : u = b * q /\ v = b * j
  BY <1>6
<1>8. y = u + b + v /\ x = u
  BY <1>1, <1>2, <1>5, <1>6, <1>7
<1> QED BY <1>8

-----------------------------------------------------------------------------
(* Byte orders: addresses that are flipped *)

\* What the byte order does to an address, by its quotient and rest.
LEMMA FlipParts ==
  ASSUME NEW b \in Nat, b > 0, NEW a, NEW q, NEW r, Divided(a, b, q, r)
  PROVE  /\ a % b = r
         /\ Aligned(a, b) = a - r /\ Multiple(a - r, b)
         /\ Flip(a, b) = a + b - 1 - 2 * r
<1>1. a % b = r
  BY ByQuotient
<1>2. q \in Int /\ r \in 0 .. (b - 1) /\ a = b * q + r
  BY DEF Divided
<1>3. PICK c \in Int : c = b * q
  BY <1>2
<1>4. a \in Int /\ a = c + r
  BY <1>2, <1>3
<1>5. Aligned(a, b) = a - r /\ Flip(a, b) = a + b - 1 - 2 * r
  BY <1>1 DEF Aligned, Flip
<1>6. Multiple(a - r, b)
  <2>1. a - r = c /\ c \in Int
    BY <1>2, <1>4
  <2> QED BY <1>2, <1>3, <2>1 DEF Multiple
<1> QED BY <1>1, <1>4, <1>5, <1>6

\* An address stays in its word, at the other end.
LEMMA FlipDivided ==
  ASSUME NEW b \in Nat, b > 0, NEW a, NEW q, NEW r, Divided(a, b, q, r)
  PROVE  Divided(Flip(a, b), b, q, b - 1 - r)
<1>1. q \in Int /\ r \in 0 .. (b - 1) /\ a = b * q + r
  BY DEF Divided
<1>2. PICK c \in Int : c = b * q
  BY <1>1
<1>3. PICK s \in 0 .. (b - 1) : s = b - 1 - r
  BY <1>1
<1>4. Flip(a, b) = a + b - 1 - 2 * r
  BY FlipParts
<1>5. Flip(a, b) = c + s
  BY <1>1, <1>2, <1>3, <1>4
<1> QED BY <1>1, <1>2, <1>3, <1>5 DEF Divided

\* Twice flipped is not flipped.
LEMMA AlignedParts ==
  ASSUME NEW b \in Nat, b > 0, NEW a \in Int
  PROVE  /\ a % b \in 0 .. (b - 1) /\ Aligned(a, b) = a - (a % b) /\ Multiple(Aligned(a, b), b)
         /\ Flip(a, b) = a + b - 1 - 2 * (a % b) /\ Flip(a, b) \in Int /\ Flip(Flip(a, b), b) = a
<1>1. PICK q \in Int, r \in 0 .. (b - 1) : Divided(a, b, q, r)
  BY HasIntQuotient
<1>2. a % b = r /\ Aligned(a, b) = a - r /\ Multiple(a - r, b) /\ Flip(a, b) = a + b - 1 - 2 * r
  BY <1>1, FlipParts
<1>3. PICK f : f = Flip(a, b)
  OBVIOUS
<1>4. f = a + b - 1 - 2 * r /\ f \in Int
  BY <1>2, <1>3
<1>8. PICK s \in 0 .. (b - 1) : s = b - 1 - r
  OBVIOUS
<1>9. Divided(f, b, q, s)
  <2>1. Divided(f, b, q, b - 1 - r)
    BY <1>1, <1>3, FlipDivided
  <2> QED BY <1>8, <2>1
<1>5. Flip(f, b) = f + b - 1 - 2 * s
  BY <1>4, <1>9, FlipParts
<1>7. Flip(f, b) = a
  BY <1>4, <1>5, <1>8
<1> QED BY <1>2, <1>3, <1>4, <1>7

\* Whole words do not change the place in a word.
LEMMA AlignedShift ==
  ASSUME NEW b \in Nat, b > 0, NEW a \in Int, NEW c, Multiple(c, b)
  PROVE  (c + a) % b = a % b /\ Flip(c + a, b) = c + Flip(a, b) /\ Aligned(c + a, b) = c + Aligned(a, b)
<1>1. PICK q \in Int, r \in 0 .. (b - 1) : Divided(a, b, q, r)
  BY HasIntQuotient
<1>2. PICK k \in Int : c = b * k
  BY DEF Multiple
<1>3. c \in Int
  BY DEF Multiple
<1>4. Divided(c + a, b, k + q, r)
  <2>1. a = b * q + r
    BY <1>1 DEF Divided
  <2>2. b * (k + q) = b * k + b * q
    OBVIOUS
  <2>3. PICK u \in Int, v \in Int : u = b * k /\ v = b * q
    OBVIOUS
  <2>4. c + a = b * (k + q) + r /\ k + q \in Int
    BY <1>2, <2>1, <2>2, <2>3
  <2> QED BY <2>4 DEF Divided
<1>5. PICK e \in Int, m \in Int : e = c + a /\ m = k + q
  BY <1>3
<1>6. Divided(e, b, m, r)
  BY <1>4, <1>5
<1>7. e % b = r /\ Aligned(e, b) = e - r /\ Flip(e, b) = e + b - 1 - 2 * r
  BY <1>6, FlipParts
<1>8. a % b = r /\ Aligned(a, b) = a - r /\ Flip(a, b) = a + b - 1 - 2 * r
  BY <1>1, FlipParts
<1>9. e % b = a % b /\ Flip(e, b) = c + Flip(a, b) /\ Aligned(e, b) = c + Aligned(a, b)
  BY <1>3, <1>5, <1>7, <1>8
<1> QED BY <1>5, <1>9

\* In the first word.
LEMMA AlignedFirst ==
  ASSUME NEW b \in Nat, b > 0, NEW r \in 0 .. (b - 1)
  PROVE  r % b = r /\ r \div b = 0 /\ Aligned(r, b) = 0 /\ Flip(r, b) = b - 1 - r
<1>1. Divided(r, b, 0, r)
  <2>1. b * 0 = 0
    OBVIOUS
  <2> QED BY <2>1 DEF Divided
<1>2. PICK q \in Int, a \in Int : q = 0 /\ a = r /\ Divided(a, b, q, r)
  BY <1>1
<1>3. a % b = r /\ Aligned(a, b) = a - r /\ Flip(a, b) = a + b - 1 - 2 * r
  BY <1>2, FlipParts
<1>4. r \div b = 0
  BY <1>1, ByQuotient, Zenon
<1> QED BY <1>2, <1>3, <1>4

\* The words of two addresses are in their order.
LEMMA AlignedOrder ==
  ASSUME NEW b \in Nat, b > 0, NEW x \in Int, NEW y \in Int, x <= y
  PROVE  Aligned(x, b) \in Int /\ Aligned(y, b) \in Int /\ Aligned(x, b) <= Aligned(y, b)
<1>1. PICK u \in Int, r \in 0 .. (b - 1) : u = Aligned(x, b) /\ u = x - r /\ Multiple(u, b)
  <2>1. x % b \in 0 .. (b - 1) /\ Aligned(x, b) = x - (x % b) /\ Multiple(Aligned(x, b), b)
    BY AlignedParts
  <2>2. Aligned(x, b) \in Int
    BY <2>1 DEF Multiple
  <2> QED BY <2>1, <2>2
<1>2. PICK v \in Int, s \in 0 .. (b - 1) : v = Aligned(y, b) /\ v = y - s /\ Multiple(v, b)
  <2>1. y % b \in 0 .. (b - 1) /\ Aligned(y, b) = y - (y % b) /\ Multiple(Aligned(y, b), b)
    BY AlignedParts
  <2>2. Aligned(y, b) \in Int
    BY <2>1 DEF Multiple
  <2> QED BY <2>1, <2>2
<1>3. ~(v < u)
  <2>1. SUFFICES ASSUME v < u PROVE FALSE
    OBVIOUS
  <2>2. v + b <= u
    BY <1>1, <1>2, <2>1, MultiplesApart
  <2> QED BY <1>1, <1>2, <2>2
<1> QED BY <1>1, <1>2, <1>3

\* From the word of the lowest number to that of the highest.
LEMMA FlipBetween ==
  ASSUME NEW b \in Nat, b > 0, NEW x \in Int, NEW a \in Int, NEW y \in Int, x <= a, a <= y
  PROVE  Flip(a, b) \in Aligned(x, b) .. (Aligned(y, b) + b - 1)
<1>1. PICK u \in Int, v \in Int : u = Aligned(x, b) /\ v = Aligned(y, b)
  BY AlignedOrder
<1>2. PICK c \in Int : c = Aligned(a, b) /\ u <= c /\ c <= v
  BY <1>1, AlignedOrder
<1>3. PICK r \in 0 .. (b - 1) : c = a - r /\ Flip(a, b) = a + b - 1 - 2 * r
  BY <1>2, AlignedParts
<1> QED BY <1>1, <1>2, <1>3

\* In whole words nothing leaves them.
LEMMA FlipWithin ==
  ASSUME NEW b \in Nat, b > 0, NEW w \in Nat, Multiple(w, b), NEW a \in 0 .. (w - 1)
  PROVE  Flip(a, b) \in 0 .. (w - 1)
<1>1. b <= w
  <2>1. Multiple(0, b)
    BY MultipleOf
  <2>2. 0 < w
    OBVIOUS
  <2>3. 0 + b <= w
    BY <2>1, <2>2, MultiplesApart
  <2> QED BY <2>3
<1>2. Aligned(0, b) = 0
  <2>1. 0 \in 0 .. (b - 1)
    OBVIOUS
  <2> QED BY <2>1, AlignedFirst
<1>3. Aligned(w - 1, b) = w - b
  <2>1. PICK c : c = w - b /\ Multiple(c, b)
    <3>1. Multiple(b, b)
      BY MultipleOf
    <3>2. Multiple(w - b, b)
      BY <3>1, MultipleSum
    <3> QED BY <3>2
  <2>2. b - 1 \in 0 .. (b - 1) /\ b - 1 \in Int
    OBVIOUS
  <2>3. Aligned(c + (b - 1), b) = c + Aligned(b - 1, b) /\ Aligned(b - 1, b) = 0
    BY <2>1, <2>2, AlignedFirst, AlignedShift
  <2>4. c + (b - 1) = w - 1 /\ c \in Int
    BY <2>1
  <2> QED BY <2>1, <2>3, <2>4
<1>4. 0 \in Int /\ a \in Int /\ w - 1 \in Int /\ 0 <= a /\ a <= w - 1
  OBVIOUS
<1>5. Flip(a, b) \in Aligned(0, b) .. (Aligned(w - 1, b) + b - 1)
  BY <1>4, FlipBetween
<1> QED BY <1>2, <1>3, <1>5

-----------------------------------------------------------------------------
(* Buffers made of pairs *)

\* Byte i of len goes to byte t[i] of n.
Placement(t, len, n) ==
  /\ t \in [Offsets(len) -> Offsets(n)]
  /\ \A i, k \in Offsets(len) : t[i] = t[k] => i = k

\* The pairs are those of the bytes and their places.
Moves(P, t, len) ==
  /\ \A p \in P : p[1] \in Offsets(len) /\ p[2] = t[p[1]]
  /\ \A i \in Offsets(len) : \E p \in P : p[1] = i

LEMMA PairsMove ==
  ASSUME NEW len, NEW t, NEW P, P = {<<i, t[i]>> : i \in Offsets(len)}
  PROVE  Moves(P, t, len)
<1>1. ASSUME NEW p \in P PROVE p[1] \in Offsets(len) /\ p[2] = t[p[1]]
  <2>1. PICK i \in Offsets(len) : p = <<i, t[i]>>
    OBVIOUS
  <2> QED BY <2>1
<1>2. ASSUME NEW i \in Offsets(len) PROVE \E p \in P : p[1] = i
  <2>1. <<i, t[i]>> \in P /\ <<i, t[i]>>[1] = i
    OBVIOUS
  <2> QED BY <2>1
<1> QED BY <1>1, <1>2 DEF Moves

\* A byte that has a place is copied there.
LEMMA MovedData ==
  ASSUME NEW len \in Nat, NEW n \in Nat, NEW t, Placement(t, len, n), NEW P, Moves(P, t, len), NEW data,
         NEW i \in Offsets(len)
  PROVE  NewData(n, P, data)[t[i] + 1] = data[i + 1]
<1>1. PICK j \in Offsets(n) : j = t[i]
  BY DEF Placement
<1>2. j \in Nat /\ (j + 1) - 1 = j /\ j + 1 \in 1 .. n
  BY <1>1 DEF Offsets
<1>3. PICK c : c = CHOOSE p \in P : p[2] = (j + 1) - 1
  OBVIOUS
<1>4. \E p \in P : p[2] = j
  <2>1. PICK p \in P : p[1] = i
    BY DEF Moves
  <2>2. p[2] = t[p[1]]
    BY DEF Moves
  <2> QED BY <1>1, <2>1, <2>2
<1>5. \E p \in P : p[2] = (j + 1) - 1
  BY <1>2, <1>4
<1>6. c \in P /\ c[2] = (j + 1) - 1
  BY <1>3, <1>5, Zenon
<1>7. c[1] = i
  <2>1. c[1] \in Offsets(len) /\ t[c[1]] = t[i]
    BY <1>1, <1>2, <1>6 DEF Moves
  <2> QED BY <2>1 DEF Placement
<1>8. PICK e : e = NewData(n, P, data)
  OBVIOUS
<1>9. e[j + 1] = data[c[1] + 1]
  <2>1. e[j + 1] = IF \E p \in P : p[2] = (j + 1) - 1
                   THEN data[(CHOOSE p \in P : p[2] = (j + 1) - 1)[1] + 1] ELSE Junk
    BY <1>2, <1>8, Zenon DEF NewData
  <2> QED BY <1>3, <1>5, <2>1, Zenon
<1> QED BY <1>1, <1>7, <1>8, <1>9

LEMMA DataMoved ==
  ASSUME NEW len \in Nat, NEW t, Placement(t, len, len), NEW P, Moves(P, t, len), NEW data
  PROVE  \A i \in Offsets(len) : NewData(len, P, data)[t[i] + 1] = data[i + 1]
BY MovedData

LEMMA NewLengths ==
  ASSUME NEW n \in Nat, NEW P, NEW data, NEW be
  PROVE  Len(NewData(n, P, data)) = n /\ Len(NewEnables(n, P, be)) = n
<1>1. PICK e : e = NewEnables(n, P, be)
  OBVIOUS
<1>2. PICK d : d = NewData(n, P, data)
  OBVIOUS
<1>3. DOMAIN e = 1 .. n /\ DOMAIN d = 1 .. n
  BY <1>1, <1>2 DEF NewData, NewEnables
<1>4. \A k \in 1 .. n : e[k] \in {e[i] : i \in 1 .. n} /\ d[k] \in {d[i] : i \in 1 .. n}
  OBVIOUS
<1>5. e \in [1 .. n -> {e[i] : i \in 1 .. n}] /\ d \in [1 .. n -> {d[i] : i \in 1 .. n}]
  <2>1. e = [k \in 1 .. n |-> e[k]] /\ d = [k \in 1 .. n |-> d[k]]
    BY <1>1, <1>2, <1>3 DEF NewData, NewEnables
  <2> QED BY <1>4, <2>1
<1> QED BY <1>1, <1>2, <1>5, LenProperties

\* New enables are as many as the bytes.
LEMMA EnabledNew ==
  ASSUME NEW n \in Nat, NEW P, NEW be, NEW j \in Offsets(n), NEW e, e = NewEnables(n, P, be)
  PROVE  /\ Enabled(e, j) = e[j + 1]
         /\ e[j + 1] = \E p \in P : p[2] = j /\ Enabled(be, p[1])
<1>1. j \in 0 .. (n - 1) /\ j + 1 \in 1 .. n /\ (j + 1) - 1 = j /\ n > 0
  BY DEF Offsets
<1>2. e[j + 1] = (\E p \in P : p[2] = j /\ Enabled(be, p[1])) /\ DOMAIN e = 1 .. n
  BY <1>1 DEF NewEnables
<1>3. Len(e) = n
  BY NewLengths
<1>4. e # <<>>
  <2>1. 1 \in DOMAIN e
    BY <1>1, <1>2
  <2>2. DOMAIN <<>> = {}
    OBVIOUS
  <2> QED BY <2>1, <2>2
<1>5. j % n = j
  BY <1>1, AlignedFirst
<1>6. Enabled(e, j) = (FALSE \/ e[j + 1])
  BY <1>3, <1>4, <1>5, Zenon DEF Enabled
<1>7. e[j + 1] \in BOOLEAN
  BY <1>2
<1> QED BY <1>2, <1>6, <1>7, Zenon

\* The place of a byte is enabled if the byte is, and no other place is.
LEMMA MovedEnables ==
  ASSUME NEW len \in Nat, NEW n \in Nat, NEW t, NEW P, Moves(P, t, len),
         NEW be, NEW j \in Offsets(n)
  PROVE  Enabled(NewEnables(n, P, be), j) <=> \E i \in Offsets(len) : t[i] = j /\ Enabled(be, i)
<1>1. PICK e : e = NewEnables(n, P, be)
  OBVIOUS
<1>2. Enabled(e, j) <=> \E p \in P : p[2] = j /\ Enabled(be, p[1])
  <2>1. Enabled(e, j) = e[j + 1] /\ e[j + 1] = \E p \in P : p[2] = j /\ Enabled(be, p[1])
    BY <1>1, EnabledNew
  <2> QED BY <2>1, Zenon
<1>3. ASSUME NEW p \in P, p[2] = j, Enabled(be, p[1])
      PROVE  \E i \in Offsets(len) : t[i] = j /\ Enabled(be, i)
  BY <1>3, Zenon DEF Moves
<1>4. ASSUME NEW i \in Offsets(len), t[i] = j, Enabled(be, i)
      PROVE  \E p \in P : p[2] = j /\ Enabled(be, p[1])
  BY <1>4, Zenon DEF Moves
<1> QED BY <1>1, <1>2, <1>3, <1>4, Zenon

LEMMA MovedEnable ==
  ASSUME NEW len \in Nat, NEW n \in Nat, NEW t, Placement(t, len, n), NEW P, Moves(P, t, len), NEW be,
         NEW i \in Offsets(len)
  PROVE  NewEnables(n, P, be)[t[i] + 1] <=> Enabled(be, i)
<1>1. PICK e : e = NewEnables(n, P, be)
  OBVIOUS
<1>2. PICK j \in Offsets(n) : j = t[i]
  BY DEF Placement
<1>3. e[j + 1] = \E p \in P : p[2] = j /\ Enabled(be, p[1])
  <2>1. j + 1 \in 1 .. n /\ (j + 1) - 1 = j
    BY DEF Offsets
  <2> QED BY <1>1, <2>1 DEF NewEnables
<1>4. ASSUME NEW p \in P, p[2] = j, Enabled(be, p[1]) PROVE Enabled(be, i)
  <2>1. p[1] \in Offsets(len) /\ t[p[1]] = t[i]
    BY <1>2, <1>4 DEF Moves
  <2>2. p[1] = i
    BY <2>1 DEF Placement
  <2> QED BY <1>4, <2>2
<1>5. ASSUME Enabled(be, i) PROVE \E p \in P : p[2] = j /\ Enabled(be, p[1])
  BY <1>2, <1>5 DEF Moves
<1> QED BY <1>1, <1>2, <1>3, <1>4, <1>5, Zenon

-----------------------------------------------------------------------------
(* What a conversion has to do *)

\* The place of byte i of a payload in the host's memory.
PlaceOf(txn, D, bus, i) ==
  Place(Flip(txn.addr + Aligned(i % StreamWidth(txn), D) + D - 1 - (i % D), bus), i \div StreamWidth(txn))

\* The payload C carries byte i of txn in its byte t[i].
Carries(C, t, n, txn, D, bus) ==
  /\ n \in Nat /\ Len(C.data) = n /\ DOMAIN C.data = 1 .. n
  /\ Placement(t, Len(txn.data), n)
  /\ \A i \in Offsets(Len(txn.data)) : PlaceIn(C, t[i]) = PlaceOf(txn, D, bus, i)
  /\ \A j \in Offsets(n) :
       Enabled(C.be, j) <=> \E i \in Offsets(Len(txn.data)) : t[i] = j /\ Enabled(txn.be, i)

Writes(C, t, txn) == \A i \in Offsets(Len(txn.data)) : C.data[t[i] + 1] = txn.data[i + 1]

\* A payload that carries the data of another one writes it to the same places.
LEMMA CarriedWrites ==
  ASSUME NEW C, NEW txn, NEW D, NEW bus, NEW t, NEW n, Carries(C, t, n, txn, D, bus), Writes(C, t, txn)
  PROVE  {<<PlaceIn(C, i), C.data[i + 1]>> : i \in {j \in Offsets(Len(C.data)) : Enabled(C.be, j)}}
           = {<<PlaceOf(txn, D, bus, i), txn.data[i + 1]>> :
                i \in {j \in Offsets(Len(txn.data)) : Enabled(txn.be, j)}}
<1> DEFINE L == Offsets(Len(txn.data))
           N == Offsets(n)
           A == {<<PlaceIn(C, i), C.data[i + 1]>> : i \in {j \in N : Enabled(C.be, j)}}
           B == {<<PlaceOf(txn, D, bus, i), txn.data[i + 1]>> : i \in {j \in L : Enabled(txn.be, j)}}
<1>1. \A i \in L : t[i] \in N /\ PlaceIn(C, t[i]) = PlaceOf(txn, D, bus, i) /\ C.data[t[i] + 1] = txn.data[i + 1]
  BY DEF Carries, Placement, Writes
<1>2. \A j \in N : Enabled(C.be, j) <=> \E i \in L : t[i] = j /\ Enabled(txn.be, i)
  BY DEF Carries
<1> HIDE DEF L, N
<1>3. ASSUME NEW j \in N, Enabled(C.be, j) PROVE <<PlaceIn(C, j), C.data[j + 1]>> \in B
  <2>1. PICK i \in L : t[i] = j /\ Enabled(txn.be, i)
    BY <1>2, <1>3
  <2>2. PlaceIn(C, j) = PlaceOf(txn, D, bus, i) /\ C.data[j + 1] = txn.data[i + 1]
    BY <1>1, <2>1, Zenon
  <2> QED BY <2>1, <2>2, Zenon
<1>4. ASSUME NEW i \in L, Enabled(txn.be, i) PROVE <<PlaceOf(txn, D, bus, i), txn.data[i + 1]>> \in A
  <2>1. PICK j \in N : j = t[i]
    BY <1>1
  <2>2. Enabled(C.be, j)
    BY <1>2, <1>4, <2>1, Zenon
  <2>3. PlaceIn(C, j) = PlaceOf(txn, D, bus, i) /\ C.data[j + 1] = txn.data[i + 1]
    BY <1>1, <2>1, Zenon
  <2>4. <<PlaceIn(C, j), C.data[j + 1]>> \in A
    BY <2>2, Zenon
  <2> QED BY <2>3, <2>4, Zenon
<1>5. A = B
  BY <1>3, <1>4, Zenon
<1>6. Len(C.data) = n
  BY DEF Carries
<1> QED BY <1>5, <1>6, Zenon DEF L, N

\* What the host answers to a read.
Answer(C) ==
  [C EXCEPT !.data = [k \in DOMAIN @ |-> IF Enabled(C.be, k - 1) THEN PlaceIn(C, k - 1) ELSE @[k]]]

Fetches(data, he, t, txn) ==
  \A i \in Offsets(Len(txn.data)) :
    data[i + 1] = IF Enabled(txn.be, i) THEN he.data[t[i] + 1] ELSE txn.data[i + 1]

\* What is fetched of the answer is what is at the places of the bytes.
LEMMA CarriedReads ==
  ASSUME NEW C, NEW txn \in Payload, NEW D, NEW bus, NEW t, NEW n, Carries(C, t, n, txn, D, bus),
         NEW he, he.data = [k \in DOMAIN C.data |-> IF Enabled(C.be, k - 1) THEN PlaceIn(C, k - 1) ELSE C.data[k]],
         NEW data, Fetches(data, he, t, txn)
  PROVE  \A k \in DOMAIN txn.data :
           data[k] = IF Enabled(txn.be, k - 1) THEN PlaceOf(txn, D, bus, k - 1) ELSE txn.data[k]
<1> TAKE k \in DOMAIN txn.data
<1>1. PICK len \in Nat : len = Len(txn.data) /\ DOMAIN txn.data = 1 .. len
  BY DEF Payload
<1>2. PICK i \in Offsets(len) : i = k - 1 /\ i + 1 = k
  BY <1>1 DEF Offsets
<1>3. data[k] = IF Enabled(txn.be, i) THEN he.data[t[i] + 1] ELSE txn.data[k]
  BY <1>1, <1>2, Zenon DEF Fetches
<1>4. ASSUME Enabled(txn.be, i) PROVE he.data[t[i] + 1] = PlaceOf(txn, D, bus, i)
  <2>1. PICK j \in Offsets(n) : j = t[i]
    BY <1>1 DEF Carries, Placement
  <2>2. Enabled(C.be, j) /\ PlaceIn(C, j) = PlaceOf(txn, D, bus, i)
    BY <1>1, <1>4, <2>1 DEF Carries
  <2>3. j + 1 \in DOMAIN C.data /\ (j + 1) - 1 = j
    BY DEF Carries, Offsets
  <2>4. he.data[j + 1] = PlaceIn(C, j)
    BY <2>2, <2>3
  <2> QED BY <2>1, <2>2, <2>4
<1> QED BY <1>2, <1>3, <1>4

\* The length and the streaming width of a payload.
LEMMA PayloadParts ==
  ASSUME NEW txn \in Payload
  PROVE  \E len \in Nat, W \in Nat :
           /\ len = Len(txn.data) /\ len > 0 /\ DOMAIN txn.data = 1 .. len
           /\ W = StreamWidth(txn) /\ W > 0 /\ W <= len
           /\ txn.width >= len => W = len
           /\ txn.addr \in Nat
<1>1. txn.data \in Seq(Nat) /\ txn.data # <<>> /\ txn.width \in Nat /\ txn.width > 0 /\ txn.addr \in Nat
  BY DEF Payload
<1>2. PICK len \in Nat : len = Len(txn.data) /\ DOMAIN txn.data = 1 .. len
  BY <1>1
<1>3. len > 0
  BY <1>1, <1>2, EmptySeq
<1>4. PICK W \in Nat : W = StreamWidth(txn) /\ W > 0 /\ W <= len /\ (txn.width >= len => W = len)
  BY <1>1, <1>2, <1>3 DEF StreamWidth
<1> QED BY <1>1, <1>2, <1>3, <1>4

\* The bytes of a payload that is not streamed.
LEMMA PlainPlaces ==
  ASSUME NEW txn \in Payload, txn.width >= Len(txn.data), NEW D \in Nat, D > 0, NEW bus,
         NEW i \in Offsets(Len(txn.data))
  PROVE  PlaceOf(txn, D, bus, i) = Place(Flip(txn.addr + Flip(i, D), bus), 0)
<1>1. PICK len \in Nat : /\ len = Len(txn.data) /\ len > 0 /\ len = StreamWidth(txn)
                         /\ txn.addr \in Nat
  BY PayloadParts
<1>2. i \in 0 .. (len - 1) /\ i \in Int
  BY <1>1 DEF Offsets
<1>3. i % len = i /\ i \div len = 0
  BY <1>1, <1>2, AlignedFirst
<1>4. Aligned(i, D) = i - (i % D) /\ i % D \in 0 .. (D - 1) /\ Flip(i, D) = i + D - 1 - 2 * (i % D)
  BY <1>2, AlignedParts
<1>5. txn.addr + Aligned(i, D) + D - 1 - (i % D) = txn.addr + Flip(i, D)
  BY <1>1, <1>2, <1>4
<1> QED BY <1>1, <1>3, <1>5, Zenon DEF PlaceOf

\* A payload that is not streamed has no repetitions.
LEMMA PlainHost ==
  ASSUME NEW C, C.width \in Nat, NEW j \in Nat, j < C.width
  PROVE  PlaceIn(C, j) = Place(C.addr + j, 0)
<1>1. j \in 0 .. (C.width - 1) /\ C.width > 0
  OBVIOUS
<1>2. j % C.width = j /\ j \div C.width = 0
  BY <1>1, AlignedFirst
<1> QED BY <1>2, Zenon DEF PlaceIn

-----------------------------------------------------------------------------
(* Function set 3 *)

\* The functions for a single word change nothing but the address.
LEMMA SingleCarries ==
  ASSUME NEW txn \in Payload, NEW D \in Nat, D > 0, NEW bus \in Nat, bus > 0,
         InLimits("single", txn, D, bus), NEW C, C = to_single(txn, D, bus)
  PROVE  LET t == [i \in Offsets(D) |-> i]
         IN Carries(C, t, D, txn, D, bus) /\ Writes(C, t, txn)
<1> DEFINE t == [i \in Offsets(D) |-> i]
<1>1. PICK len \in Nat : /\ len = Len(txn.data) /\ len > 0 /\ DOMAIN txn.data = 1 .. len
                         /\ txn.addr \in Nat
  BY PayloadParts
<1>2. len = D /\ txn.width >= Len(txn.data) /\ (txn.addr % bus) + D <= bus
  BY <1>1 DEF InLimits
<1>3. PICK o \in 0 .. (bus - 1), al \in Int :
        /\ o = txn.addr % bus /\ al = Aligned(txn.addr, bus) /\ al = txn.addr - o /\ Multiple(al, bus)
  <2>1. PICK a \in Int : a = txn.addr
    BY <1>1
  <2>2. a % bus \in 0 .. (bus - 1) /\ Aligned(a, bus) = a - (a % bus) /\ Multiple(Aligned(a, bus), bus)
    BY AlignedParts
  <2>3. Aligned(a, bus) \in Int
    BY <2>2 DEF Multiple
  <2> QED BY <2>1, <2>2, <2>3
<1>4. C.addr = al + bus - o - D /\ C.width = txn.width /\ C.data = txn.data /\ C.be = txn.be
  <2>1. txn = [read |-> txn.read, addr |-> txn.addr, data |-> txn.data, be |-> txn.be, width |-> txn.width]
    BY DEF Payload
  <2>2. C = [txn EXCEPT !.addr = al + bus - o - D]
    BY <1>3 DEF to_single
  <2> QED BY <2>1, <2>2
<1>5. Placement(t, D, D)
  BY DEF Placement
<1>6. ASSUME NEW i \in Offsets(D) PROVE PlaceIn(C, t[i]) = PlaceOf(txn, D, bus, i)
  <2>1. i \in 0 .. (D - 1) /\ t[i] = i /\ i \in Nat
    BY DEF Offsets
  <2>2. C.width \in Nat /\ i < C.width
    BY <1>1, <1>2, <1>4, <2>1 DEF Payload
  <2>3. PlaceIn(C, i) = Place(C.addr + i, 0)
    BY <2>1, <2>2, PlainHost
  <2>4. PlaceOf(txn, D, bus, i) = Place(Flip(txn.addr + Flip(i, D), bus), 0)
    BY <1>1, <1>2, PlainPlaces
  <2>5. Flip(i, D) = D - 1 - i
    BY <2>1, AlignedFirst
  <2>6. PICK r \in 0 .. (bus - 1) : r = o + (D - 1 - i)
    BY <1>2, <1>3, <2>1
  <2>7. Flip(r, bus) = bus - 1 - r /\ r \in Int
    BY <2>6, AlignedFirst
  <2>8. Flip(al + r, bus) = al + Flip(r, bus)
    BY <1>3, <2>7, AlignedShift
  <2>9. al + r = txn.addr + Flip(i, D)
    BY <1>1, <1>3, <2>1, <2>5, <2>6
  <2>10. al + Flip(r, bus) = C.addr + i
    BY <1>3, <1>4, <2>1, <2>6, <2>7
  <2> QED BY <2>1, <2>3, <2>4, <2>8, <2>9, <2>10
<1>7. ASSUME NEW j \in Offsets(D)
      PROVE  Enabled(C.be, j) <=> \E i \in Offsets(D) : t[i] = j /\ Enabled(txn.be, i)
  BY <1>4
<1>8. Writes(C, t, txn)
  BY <1>1, <1>2, <1>4 DEF Writes
<1> QED BY <1>1, <1>2, <1>4, <1>5, <1>6, <1>7, <1>8 DEF Carries

-----------------------------------------------------------------------------
(* Function set 0 *)

\* A byte has the same place in its data word and in that of the stream word.
LEMMA StreamedByte ==
  ASSUME NEW D \in Nat, D > 0, NEW W \in Nat, W > 0, Multiple(W, D), NEW i \in Nat
  PROVE  i % D = (i % W) % D
<1>1. PICK r \in Nat, q \in Nat : r = i % W /\ i = W * q + r
  <2>1. i % W \in 0 .. (W - 1) /\ i \div W \in Nat /\ i = W * (i \div W) + (i % W)
    BY Quotients
  <2>2. i % W \in Nat
    BY <2>1
  <2> QED BY <2>1, <2>2
<1>2. PICK c \in Int : c = W * q
  OBVIOUS
<1>3. Multiple(c, W)
  BY <1>2 DEF Multiple
<1>4. Multiple(c, D)
  BY <1>3, MultipleThrough
<1>5. (c + r) % D = r % D
  <2>1. r \in Int
    BY <1>1
  <2> QED BY <1>4, <2>1, AlignedShift
<1> QED BY <1>1, <1>2, <1>5

\* The place of a byte in the new buffer.
GenericPlace(txn, D, bus, i) ==
  Flip(txn.addr + Flip(i % StreamWidth(txn), D), bus) - Aligned(txn.addr, bus)
    + (i \div StreamWidth(txn)) * NewStreamWidth(txn, bus)

\* The pairs that are copied are those of each byte and its place.
LEMMA GenericMoves ==
  ASSUME NEW txn \in Payload, NEW D \in Nat, D > 0, NEW bus \in Nat, bus > 0, Multiple(StreamWidth(txn), D)
  PROVE  GenericPairs(txn, D, bus) = {<<i, GenericPlace(txn, D, bus, i)>> : i \in Offsets(Len(txn.data))}
<1>1. PICK len \in Nat, W \in Nat : /\ len = Len(txn.data) /\ W = StreamWidth(txn) /\ W > 0
                                    /\ txn.addr \in Nat
  BY PayloadParts
<1> DEFINE A(i) == txn.addr + ((i % W) \div D) * D + D - 1 - (i % D)
<1>2. ASSUME NEW i \in Offsets(len) PROVE A(i) = txn.addr + Flip(i % W, D)
  <2>1. i \in Nat
    BY DEF Offsets
  <2>2. PICK r \in Nat, q \in Nat : r = i % W /\ q = i \div W /\ i = W * q + r
    <3>1. i % W \in 0 .. (W - 1) /\ i \div W \in Nat /\ i = W * (i \div W) + (i % W)
      BY <1>1, <2>1, Quotients
    <3>2. i % W \in Nat
      BY <3>1
    <3> QED BY <3>1, <3>2
  <2>3. i % D = r % D
    BY <1>1, <2>1, <2>2, StreamedByte
  <2>4. PICK m \in Nat, s \in 0 .. (D - 1), z \in Nat : m = r \div D /\ s = r % D /\ z = D * m /\ r = z + s
    <3>1. r % D \in 0 .. (D - 1) /\ r \div D \in Nat /\ r = D * (r \div D) + (r % D)
      BY <2>2, Quotients
    <3>2. PICK z \in Nat : z = D * (r \div D)
      BY <3>1
    <3> QED BY <3>1, <3>2
  <2>5. Flip(r, D) = r + D - 1 - 2 * (r % D)
    <3>1. r \in Int
      BY <2>2
    <3> QED BY <3>1, AlignedParts
  <2>6. m * D = z
    BY <2>4
  <2>7. txn.addr + z + D - 1 - s = txn.addr + Flip(r, D)
    BY <1>1, <2>4, <2>5
  <2>8. A(i) = txn.addr + m * D + D - 1 - s
    BY <2>2, <2>3, <2>4
  <2> QED BY <2>2, <2>6, <2>7, <2>8
<1> DEFINE H(i) == Flip(A(i), bus) - Aligned(txn.addr, bus) + (i \div W) * NewStreamWidth(txn, bus)
<1>3. ASSUME NEW i \in Offsets(len) PROVE H(i) = GenericPlace(txn, D, bus, i)
  <2>1. A(i) = txn.addr + Flip(i % W, D)
    BY <1>2
  <2> HIDE DEF A
  <2> QED BY <1>1, <2>1, Zenon DEF GenericPlace
<1>4. GenericPairs(txn, D, bus) = {<<i, H(i)>> : i \in Offsets(len)}
  BY <1>1, Zenon DEF GenericPairs
<1> HIDE DEF H
<1> QED BY <1>1, <1>3, <1>4, Zenon

LEMMA WholeMultiple ==
  ASSUME NEW b \in Nat, b > 0, NEW a \in Nat, a % b = 0
  PROVE  Multiple(a, b) /\ a = b * (a \div b) /\ a \div b \in Nat
<1>1. a \div b \in Nat /\ a = b * (a \div b) + (a % b)
  BY Quotients
<1>2. PICK q \in Nat : q = a \div b
  BY <1>1
<1>3. a = b * q
  <2>1. PICK c \in Int : c = b * q
    OBVIOUS
  <2> QED BY <1>1, <1>2, <2>1
<1>4. Multiple(a, b)
  BY <1>3 DEF Multiple
<1> QED BY <1>2, <1>3, <1>4

\* The bus words that a stream word needs.
LEMMA StreamFits ==
  ASSUME NEW addr \in Nat, NEW W \in Nat, W > 0, NEW D \in Nat, D > 0, Multiple(W, D),
         NEW bus \in Nat, bus > 0, NEW r \in 0 .. (W - 1), NEW N,
         N = Aligned(addr + W - 1, bus) - Aligned(addr, bus) + bus
  PROVE  /\ N \in Nat /\ N > 0
         /\ Flip(addr + Flip(r, D), bus) - Aligned(addr, bus) \in 0 .. (N - 1)
<1>1. PICK f \in 0 .. (W - 1) : f = Flip(r, D)
  BY FlipWithin
<1>2. PICK x \in Int, y \in Int : x = addr + f /\ y = addr + W - 1 /\ addr <= x /\ x <= y /\ addr <= y
  BY <1>1
<1>3. addr \in Int
  OBVIOUS
<1>4. PICK u \in Int, v \in Int : u = Aligned(addr, bus) /\ v = Aligned(y, bus) /\ u <= v
  BY <1>2, <1>3, AlignedOrder
<1>5. Flip(x, bus) \in u .. (v + bus - 1)
  BY <1>2, <1>3, <1>4, FlipBetween
<1>6. N = v - u + bus
  BY <1>2, <1>4
<1>7. Flip(x, bus) - u \in 0 .. (N - 1) /\ N \in Nat /\ N > 0
  BY <1>4, <1>5, <1>6
<1> QED BY <1>1, <1>2, <1>4, <1>7

\* Byte r of stream word q lies at byte h of stream word q of the new buffer.
GenericParts(txn, D, bus, i, q, r, h) ==
  /\ q = i \div StreamWidth(txn) /\ r = i % StreamWidth(txn)
  /\ i = StreamWidth(txn) * q + r
  /\ h = Flip(txn.addr + Flip(r, D), bus) - Aligned(txn.addr, bus)
  /\ Divided(GenericPlace(txn, D, bus, i), NewStreamWidth(txn, bus), q, h)

\* The place of a byte: its repetition is the quotient by the new width.
LEMMA GenericByte ==
  ASSUME NEW txn \in Payload, NEW D \in Nat, D > 0, NEW bus \in Nat, bus > 0, Multiple(StreamWidth(txn), D),
         NEW i \in Nat
  PROVE  \E q \in Nat, r \in 0 .. (StreamWidth(txn) - 1), h \in 0 .. (NewStreamWidth(txn, bus) - 1) :
           GenericParts(txn, D, bus, i, q, r, h)
<1>1. PICK W \in Nat, addr \in Nat : W = StreamWidth(txn) /\ W > 0 /\ addr = txn.addr
  BY PayloadParts
<1>2. PICK N : N = NewStreamWidth(txn, bus) /\ N = Aligned(addr + W - 1, bus) - Aligned(addr, bus) + bus
  BY <1>1 DEF NewStreamWidth
<1>3. PICK q \in Nat, r \in 0 .. (W - 1) : q = i \div W /\ r = i % W /\ i = W * q + r
  <2>1. i % W \in 0 .. (W - 1) /\ i \div W \in Nat /\ i = W * (i \div W) + (i % W)
    BY <1>1, Quotients
  <2> QED BY <2>1
<1>4. PICK h \in 0 .. (N - 1) : h = Flip(addr + Flip(r, D), bus) - Aligned(addr, bus)
  BY <1>1, <1>2, StreamFits
<1>5. N \in Nat
  BY <1>1, <1>2, StreamFits
<1>6. Divided(GenericPlace(txn, D, bus, i), N, q, h)
  <2>1. GenericPlace(txn, D, bus, i) = h + q * N
    BY <1>1, <1>2, <1>3, <1>4, Zenon DEF GenericPlace
  <2>2. PICK z \in Nat : z = N * q /\ z = q * N
    BY <1>5
  <2>3. GenericPlace(txn, D, bus, i) = N * q + h /\ q \in Int
    BY <1>5, <2>1, <2>2
  <2> QED BY <2>3 DEF Divided
<1>7. GenericParts(txn, D, bus, i, q, r, h)
  BY <1>1, <1>2, <1>3, <1>4, <1>6, Zenon DEF GenericParts
<1> QED BY <1>1, <1>2, <1>7, Zenon

LEMMA GenericInside ==
  ASSUME NEW N \in Nat, N > 0, NEW K \in Nat, NEW q \in Nat, q < K, NEW h \in 0 .. (N - 1), NEW j,
         Divided(j, N, q, h)
  PROVE  j \in Offsets(N * K)
<1>1. PICK e \in Nat : K = q + 1 + e
  <2>1. K - q - 1 \in Nat /\ K = q + 1 + (K - q - 1)
    OBVIOUS
  <2> QED BY <2>1
<1>2. N * (q + 1 + e) = N * q + N + N * e /\ N * e \in Nat /\ N * q \in Nat
  OBVIOUS
<1>3. PICK u \in Nat, v \in Nat : u = N * q /\ v = N * e /\ N * K = u + N + v
  BY <1>1, <1>2
<1>4. j = u + h
  BY <1>3 DEF Divided
<1> QED BY <1>3, <1>4 DEF Offsets

\* Multiplication by a positive number keeps the order.
LEMMA QuotientBelow ==
  ASSUME NEW W \in Nat, W > 0, NEW K \in Nat, NEW q \in Nat, NEW r \in Nat, W * q + r < W * K
  PROVE  q < K
<1>1. SUFFICES ASSUME K <= q PROVE FALSE
  OBVIOUS
<1>2. PICK e \in Nat : q = K + e
  <2>1. q - K \in Nat /\ q = K + (q - K)
    BY <1>1
  <2> QED BY <2>1
<1>3. W * (K + e) = W * K + W * e /\ W * e \in Nat /\ W * K \in Nat
  OBVIOUS
<1>4. PICK u \in Nat, v \in Nat : u = W * K /\ v = W * e /\ W * q = u + v
  BY <1>2, <1>3
<1> QED BY <1>4

\* Different addresses stay different.
LEMMA FlipsApart ==
  ASSUME NEW b \in Nat, b > 0, NEW x \in Int, NEW y \in Int, Flip(x, b) = Flip(y, b)
  PROVE  x = y
<1>1. Flip(Flip(x, b), b) = x /\ Flip(Flip(y, b), b) = y
  BY AlignedParts
<1> QED BY <1>1, Zenon

\* No two bytes have the same place, and all are inside the new buffer.
LEMMA GenericPlaces ==
  ASSUME NEW txn \in Payload, NEW D \in Nat, D > 0, NEW bus \in Nat, bus > 0, Multiple(StreamWidth(txn), D),
         NEW K \in Nat, Len(txn.data) = StreamWidth(txn) * K, NEW t,
         t = [i \in Offsets(Len(txn.data)) |-> GenericPlace(txn, D, bus, i)]
  PROVE  Placement(t, Len(txn.data), NewStreamWidth(txn, bus) * K) /\ NewStreamWidth(txn, bus) \in Nat
<1>1. PICK len \in Nat, W \in Nat, addr \in Nat :
        /\ len = Len(txn.data) /\ len > 0 /\ W = StreamWidth(txn) /\ W > 0 /\ addr = txn.addr
  BY PayloadParts
<1>2. PICK N \in Nat : N = NewStreamWidth(txn, bus) /\ N > 0
  <2>1. 0 \in 0 .. (W - 1)
    BY <1>1
  <2>2. PICK M : M = NewStreamWidth(txn, bus) /\ M = Aligned(addr + W - 1, bus) - Aligned(addr, bus) + bus
    BY <1>1 DEF NewStreamWidth
  <2>3. Multiple(W, D)
    BY <1>1
  <2>4. M \in Nat /\ M > 0
    BY <1>1, <2>1, <2>2, <2>3, StreamFits
  <2> QED BY <2>2, <2>4
<1>3. ASSUME NEW i \in Offsets(len)
      PROVE  \E q \in Nat, r \in 0 .. (W - 1), h \in 0 .. (N - 1) :
               GenericParts(txn, D, bus, i, q, r, h) /\ t[i] = GenericPlace(txn, D, bus, i)
  <2>1. i \in Nat
    BY DEF Offsets
  <2>2. PICK q \in Nat, r \in 0 .. (W - 1), h \in 0 .. (N - 1) : GenericParts(txn, D, bus, i, q, r, h)
    BY <1>1, <1>2, <2>1, GenericByte
  <2>3. t[i] = GenericPlace(txn, D, bus, i)
    BY <1>1
  <2> QED BY <2>2, <2>3
<1>4. ASSUME NEW i \in Offsets(len) PROVE t[i] \in Offsets(N * K)
  <2>1. PICK q \in Nat, r \in 0 .. (W - 1), h \in 0 .. (N - 1) :
          GenericParts(txn, D, bus, i, q, r, h) /\ t[i] = GenericPlace(txn, D, bus, i)
    BY <1>3
  <2>2. i = W * q + r /\ Divided(t[i], N, q, h)
    BY <1>1, <1>2, <2>1, Zenon DEF GenericParts
  <2>3. W * q + r < W * K /\ r \in Nat
    <3>1. i < len
      BY <1>1 DEF Offsets
    <3> QED BY <1>1, <2>2, <3>1
  <2>4. q < K
    BY <1>1, <2>3, QuotientBelow
  <2> QED BY <1>2, <2>2, <2>4, GenericInside
<1>5. ASSUME NEW i \in Offsets(len), NEW k \in Offsets(len), t[i] = t[k] PROVE i = k
  <2>1. PICK q \in Nat, r \in 0 .. (W - 1), h \in 0 .. (N - 1) :
          GenericParts(txn, D, bus, i, q, r, h) /\ t[i] = GenericPlace(txn, D, bus, i)
    BY <1>3
  <2>2. PICK p \in Nat, s \in 0 .. (W - 1), g \in 0 .. (N - 1) :
          GenericParts(txn, D, bus, k, p, s, g) /\ t[k] = GenericPlace(txn, D, bus, k)
    BY <1>3
  <2>3. i = W * q + r /\ Divided(t[i], N, q, h) /\ h = Flip(addr + Flip(r, D), bus) - Aligned(addr, bus)
    BY <1>1, <1>2, <2>1, Zenon DEF GenericParts
  <2>4. k = W * p + s /\ Divided(t[i], N, p, g) /\ g = Flip(addr + Flip(s, D), bus) - Aligned(addr, bus)
    BY <1>1, <1>2, <1>5, <2>2, Zenon DEF GenericParts
  <2>5. q = p /\ h = g
    <3>1. PICK a : Divided(a, N, q, h) /\ Divided(a, N, p, g)
      BY <2>3, <2>4, Zenon
    <3> QED BY <1>2, <3>1, SameQuotient
  <2>6. PICK x \in Int, y \in Int, f \in Int, e \in Int :
          x = addr + f /\ f = Flip(r, D) /\ y = addr + e /\ e = Flip(s, D)
    <3>1. r \in Int /\ s \in Int
      OBVIOUS
    <3>2. Flip(r, D) \in Int /\ Flip(s, D) \in Int
      BY <3>1, AlignedParts
    <3> QED BY <3>2
  <2>7. Flip(x, bus) = Flip(y, bus)
    <3>1. Flip(x, bus) \in Int /\ Flip(y, bus) \in Int /\ Aligned(addr, bus) \in Int
      <4>1. addr \in Int /\ addr <= addr
        OBVIOUS
      <4> QED BY <4>1, AlignedParts, AlignedOrder
    <3>2. Flip(x, bus) - Aligned(addr, bus) = Flip(y, bus) - Aligned(addr, bus)
      BY <2>3, <2>4, <2>5, <2>6
    <3> QED BY <3>1, <3>2
  <2>8. x = y
    BY <2>7, FlipsApart
  <2>9. Flip(r, D) = Flip(s, D)
    BY <2>6, <2>8
  <2>10. r = s
    <3>1. r \in Int /\ s \in Int
      OBVIOUS
    <3> QED BY <2>9, <3>1, FlipsApart
  <2> QED BY <2>3, <2>4, <2>5, <2>10, Zenon
<1>6. t \in [Offsets(len) -> Offsets(N * K)]
  BY <1>1, <1>4
<1> QED BY <1>1, <1>2, <1>5, <1>6 DEF Placement

\* The generic functions move each byte to its place and fetch it from there.
LEMMA GenericCarries ==
  ASSUME NEW txn \in Payload, NEW D \in Nat, D > 0, NEW bus \in Nat, bus > 0,
         InLimits("generic", txn, D, bus), NEW C, C = to_generic(txn, D, bus)
  PROVE  \E t, n : /\ Carries(C, t, n, txn, D, bus)
                   /\ ~txn.read => Writes(C, t, txn)
                   /\ \A he : txn.read /\ he.be = C.be => Fetches(from_generic(txn, he, D, bus), he, t, txn)
<1>1. PICK len \in Nat, W \in Nat, addr \in Nat :
        /\ len = Len(txn.data) /\ len > 0 /\ DOMAIN txn.data = 1 .. len
        /\ W = StreamWidth(txn) /\ W > 0 /\ addr = txn.addr
  BY PayloadParts
<1>2. W % D = 0 /\ len % W = 0
  BY <1>1 DEF InLimits
<1>3. Multiple(W, D)
  BY <1>2, WholeMultiple
<1>4. PICK K \in Nat : K = len \div W /\ len = W * K
  <2>1. len = W * (len \div W) /\ len \div W \in Nat
    BY <1>1, <1>2, WholeMultiple
  <2> QED BY <2>1, Zenon
<1>5. PICK t : t = [i \in Offsets(len) |-> GenericPlace(txn, D, bus, i)]
  OBVIOUS
<1>6. PICK N : N = NewStreamWidth(txn, bus)
  OBVIOUS
<1>7. Placement(t, len, N * K) /\ N \in Nat
  BY <1>1, <1>3, <1>4, <1>5, <1>6, GenericPlaces
<1>8. PICK n \in Nat : n = N * K
  BY <1>7
<1>9. PICK P : P = GenericPairs(txn, D, bus)
  OBVIOUS
<1>10. P = {<<i, t[i]>> : i \in Offsets(len)}
  <2>1. P = {<<i, GenericPlace(txn, D, bus, i)>> : i \in Offsets(len)}
    BY <1>1, <1>3, <1>9, GenericMoves, Zenon
  <2>2. \A i \in Offsets(len) : t[i] = GenericPlace(txn, D, bus, i)
    BY <1>5
  <2> QED BY <2>1, <2>2, Zenon
<1>11. Moves(P, t, len)
  BY <1>10, PairsMove
<1>12. PICK moved : moved = IF txn.read THEN {} ELSE P
  OBVIOUS
<1>13. C = [ read |-> txn.read, addr |-> Aligned(addr, bus), width |-> N,
             data |-> NewData(n, moved, txn.data), be |-> NewEnables(n, P, txn.be) ]
  BY <1>1, <1>4, <1>6, <1>8, <1>9, <1>12, Zenon DEF to_generic
<1>14. /\ C.addr = Aligned(addr, bus) /\ C.width = N
       /\ C.data = NewData(n, moved, txn.data) /\ C.be = NewEnables(n, P, txn.be)
  BY <1>13
<1>15. Len(C.data) = n /\ DOMAIN C.data = 1 .. n
  <2>1. DOMAIN NewData(n, moved, txn.data) = 1 .. n
    BY DEF NewData
  <2> QED BY <1>14, <2>1, NewLengths
<1>16. ASSUME NEW i \in Offsets(len) PROVE PlaceIn(C, t[i]) = PlaceOf(txn, D, bus, i)
  <2>1. i \in Nat
    BY DEF Offsets
  <2>2. PICK q \in Nat, r \in 0 .. (W - 1), h \in 0 .. (N - 1) : GenericParts(txn, D, bus, i, q, r, h)
    BY <1>1, <1>3, <1>6, <2>1, GenericByte
  <2>3. /\ q = i \div W /\ r = i % W /\ h = Flip(addr + Flip(r, D), bus) - Aligned(addr, bus)
        /\ Divided(t[i], N, q, h)
    BY <1>1, <1>5, <1>6, <2>2, Zenon DEF GenericParts
  <2>4. t[i] \div N = q /\ t[i] % N = h
    <3>1. N > 0
      BY <1>7, <2>2
    <3> QED BY <1>7, <2>3, <3>1, ByQuotient, Zenon
  <2>5. PICK f \in Int, a \in Int, x \in Int :
          f = Flip(r, D) /\ a = Aligned(addr, bus) /\ x = Flip(addr + f, bus)
    <3>1. r \in Int /\ addr \in Int /\ addr <= addr
      OBVIOUS
    <3>2. Flip(r, D) \in Int /\ Aligned(addr, bus) \in Int
      BY <3>1, AlignedParts, AlignedOrder
    <3>3. addr + Flip(r, D) \in Int
      BY <3>2
    <3>4. Flip(addr + Flip(r, D), bus) \in Int
      BY <3>3, AlignedParts
    <3> QED BY <3>2, <3>4
  <2>6. a + h = x
    BY <2>3, <2>5
  <2>7. PlaceIn(C, t[i]) = Place(x, q)
    BY <1>14, <2>4, <2>5, <2>6, Zenon DEF PlaceIn
  <2>8. addr + Aligned(i % W, D) + D - 1 - (i % D) = addr + f
    <3>1. i % D = r % D
      BY <1>1, <1>3, <2>1, <2>3, StreamedByte
    <3>2. r \in Int
      OBVIOUS
    <3>3. PICK s \in 0 .. (D - 1) : s = r % D /\ Aligned(r, D) = r - s /\ f = r + D - 1 - 2 * s
      BY <2>5, <3>2, AlignedParts
    <3> QED BY <2>3, <3>1, <3>3
  <2>9. PlaceOf(txn, D, bus, i) = Place(Flip(addr + f, bus), q)
    BY <1>1, <2>3, <2>8, Zenon DEF PlaceOf
  <2> QED BY <2>5, <2>7, <2>9, Zenon
<1>17. ASSUME NEW j \in Offsets(n)
       PROVE  Enabled(C.be, j) <=> \E i \in Offsets(len) : t[i] = j /\ Enabled(txn.be, i)
  <2>1. Enabled(NewEnables(n, P, txn.be), j) <=> \E i \in Offsets(len) : t[i] = j /\ Enabled(txn.be, i)
    BY <1>11, MovedEnables
  <2> QED BY <1>14, <2>1, Zenon
<1>18. Carries(C, t, n, txn, D, bus)
  BY <1>1, <1>7, <1>8, <1>15, <1>16, <1>17, Zenon DEF Carries
<1>19. ASSUME ~txn.read PROVE Writes(C, t, txn)
  <2>1. ASSUME NEW i \in Offsets(len) PROVE C.data[t[i] + 1] = txn.data[i + 1]
    <3>1. NewData(n, P, txn.data)[t[i] + 1] = txn.data[i + 1]
      BY <1>7, <1>8, <1>11, MovedData
    <3> QED BY <1>12, <1>14, <1>19, <3>1, Zenon
  <2> QED BY <1>1, <2>1, Zenon DEF Writes
<1>20. ASSUME NEW he, txn.read, he.be = C.be
       PROVE  Fetches(from_generic(txn, he, D, bus), he, t, txn)
  <2>1. PICK data : data = from_generic(txn, he, D, bus)
    OBVIOUS
  <2>2. ASSUME NEW i \in Offsets(len)
        PROVE  data[i + 1] = IF Enabled(txn.be, i) THEN he.data[t[i] + 1] ELSE txn.data[i + 1]
    <3>1. i + 1 \in DOMAIN txn.data /\ (i + 1) - 1 = i
      BY <1>1 DEF Offsets
    <3>2. PICK c : c = CHOOSE p \in P : p[1] = (i + 1) - 1
      OBVIOUS
    <3>3. c \in P /\ c[1] = i
      <4>1. \E p \in P : p[1] = (i + 1) - 1
        BY <1>11, <3>1 DEF Moves
      <4> QED BY <3>1, <3>2, <4>1, Zenon
    <3>4. c[2] = t[i]
      BY <1>11, <3>3 DEF Moves
    <3>5. data[i + 1] = IF txn.read /\ he.be[c[2] + 1] THEN he.data[c[2] + 1] ELSE txn.data[i + 1]
      <4>1. data = [k \in DOMAIN txn.data |->
                      IF txn.read /\ he.be[(CHOOSE p \in P : p[1] = k - 1)[2] + 1]
                      THEN he.data[(CHOOSE p \in P : p[1] = k - 1)[2] + 1] ELSE txn.data[k]]
        BY <1>9, <2>1 DEF from_generic
      <4>2. PICK k \in DOMAIN txn.data : k = i + 1 /\ k - 1 = (i + 1) - 1
        BY <3>1
      <4>3. data[k] = IF txn.read /\ he.be[(CHOOSE p \in P : p[1] = k - 1)[2] + 1]
                      THEN he.data[(CHOOSE p \in P : p[1] = k - 1)[2] + 1] ELSE txn.data[k]
        BY <4>1, Zenon
      <4>4. c = CHOOSE p \in P : p[1] = k - 1
        BY <3>2, <4>2, Zenon
      <4> QED BY <4>2, <4>3, <4>4, Zenon
    <3>6. he.be[t[i] + 1] <=> Enabled(txn.be, i)
      <4>1. NewEnables(n, P, txn.be)[t[i] + 1] <=> Enabled(txn.be, i)
        BY <1>7, <1>8, <1>11, MovedEnable
      <4> QED BY <1>14, <1>20, <4>1, Zenon
    <3> QED BY <1>20, <3>4, <3>5, <3>6, Zenon
  <2> QED BY <1>1, <2>1, <2>2, Zenon DEF Fetches
<1> QED BY <1>18, <1>19, <1>20, Zenon

-----------------------------------------------------------------------------
(* Function set 2 *)

\* Byte r of the data word at v of the bus word at u.
InWords(i, u, v, r, D, bus) ==
  /\ u \in Int /\ v \in 0 .. (bus - D) /\ r \in 0 .. (D - 1) /\ i = u + v + r
  /\ Multiple(u, bus) /\ Multiple(v, D)

\* The bus word of a byte, its data word in that and its place there.
LEMMA HasWords ==
  ASSUME NEW D \in Nat, D > 0, NEW bus \in Nat, bus > 0, Multiple(bus, D), NEW i \in Int
  PROVE  \E u, v, r : InWords(i, u, v, r, D, bus)
<1>1. PICK u \in Int, s \in 0 .. (bus - 1) : Multiple(u, bus) /\ i = u + s
  <2>1. i % bus \in 0 .. (bus - 1) /\ Aligned(i, bus) = i - (i % bus) /\ Multiple(Aligned(i, bus), bus)
    BY AlignedParts
  <2>2. Aligned(i, bus) \in Int
    BY <2>1 DEF Multiple
  <2> QED BY <2>1, <2>2
<1>2. PICK v \in Int, r \in 0 .. (D - 1) : Multiple(v, D) /\ s = v + r
  <2>1. s \in Int
    OBVIOUS
  <2>2. s % D \in 0 .. (D - 1) /\ Aligned(s, D) = s - (s % D) /\ Multiple(Aligned(s, D), D)
    BY <2>1, AlignedParts
  <2>3. Aligned(s, D) \in Int
    BY <2>2 DEF Multiple
  <2> QED BY <2>2, <2>3
<1>3. v < bus
  BY <1>2
<1>4. v + D <= bus
  BY <1>2, <1>3, MultiplesApart
<1>5. v >= 0
  <2>1. SUFFICES ASSUME v < 0 PROVE FALSE
    OBVIOUS
  <2>2. Multiple(0, D)
    BY MultipleOf
  <2>3. v + D <= 0
    BY <1>2, <2>1, <2>2, MultiplesApart
  <2> QED BY <1>2, <2>3
<1>6. InWords(i, u, v, r, D, bus)
  BY <1>1, <1>2, <1>4, <1>5 DEF InWords
<1> QED BY <1>6

\* The data words of a bus word in reverse.
Shuffle(i, D, bus) == Aligned(i, bus) + bus - D - Aligned(i % bus, D) + (i % D)

\* Flipped in the data word and then in the bus word.
LEMMA WordsFlipped ==
  ASSUME NEW D \in Nat, D > 0, NEW bus \in Nat, bus > 0, Multiple(bus, D), NEW i, NEW u, NEW v, NEW r,
         InWords(i, u, v, r, D, bus)
  PROVE  /\ i \in Int /\ i % D = r /\ Aligned(i, D) = u + v
         /\ Shuffle(i, D, bus) = u + (bus - D - v) + r
         /\ Flip(Flip(i, D), bus) = u + (bus - D - v) + r
<1>1. /\ u \in Int /\ v \in 0 .. (bus - D) /\ r \in 0 .. (D - 1) /\ i = u + v + r
      /\ Multiple(u, bus) /\ Multiple(v, D)
  BY DEF InWords
<1>2. PICK s \in 0 .. (bus - 1) : s = v + r /\ i = u + s
  BY <1>1
<1>3. i \in Int /\ s \in Int /\ r \in Int /\ v \in Int
  BY <1>1, <1>2
<1>4. s % bus = s /\ Aligned(s, bus) = 0
  BY AlignedFirst
<1>5. (u + s) % bus = s % bus /\ Aligned(u + s, bus) = u + Aligned(s, bus)
  BY <1>1, <1>3, AlignedShift
<1>6. r % D = r /\ Aligned(r, D) = 0 /\ Flip(r, D) = D - 1 - r
  BY <1>1, AlignedFirst
<1>7. (v + r) % D = r % D /\ Aligned(v + r, D) = v + Aligned(r, D) /\ Flip(v + r, D) = v + Flip(r, D)
  BY <1>1, <1>3, AlignedShift
<1>8. Multiple(u, D)
  BY <1>1, MultipleThrough
<1>9. (u + s) % D = s % D /\ Aligned(u + s, D) = u + Aligned(s, D) /\ Flip(u + s, D) = u + Flip(s, D)
  BY <1>3, <1>8, AlignedShift
<1>10. i % bus = s /\ Aligned(i, bus) = u /\ Aligned(s, D) = v /\ i % D = r /\ Aligned(i, D) = u + v
  <2>1. i % bus = s /\ Aligned(i, bus) = u + 0
    BY <1>2, <1>4, <1>5
  <2>2. s % D = r /\ Aligned(s, D) = v + 0
    BY <1>2, <1>6, <1>7
  <2>3. i % D = s % D /\ Aligned(i, D) = u + Aligned(s, D)
    BY <1>2, <1>9
  <2> QED BY <1>1, <1>3, <2>1, <2>2, <2>3
<1>11. Shuffle(i, D, bus) = u + (bus - D - v) + r
  <2>1. Shuffle(i, D, bus) = u + bus - D - v + r
    BY <1>10, Zenon DEF Shuffle
  <2> QED BY <1>1, <1>3, <2>1
<1>12. PICK f \in 0 .. (bus - 1) : f = v + (D - 1 - r)
  BY <1>1
<1>13. Flip(i, D) = u + f
  <2>1. Flip(s, D) = f
    BY <1>2, <1>6, <1>7, <1>12
  <2> QED BY <1>2, <1>9, <2>1
<1>14. Flip(u + f, bus) = u + Flip(f, bus) /\ Flip(f, bus) = bus - 1 - f
  <2>1. f \in Int
    OBVIOUS
  <2>2. Flip(f, bus) = bus - 1 - f
    BY AlignedFirst
  <2> QED BY <1>1, <2>1, <2>2, AlignedShift
<1>15. Flip(Flip(i, D), bus) = u + (bus - 1 - f)
  BY <1>13, <1>14
<1>16. u + (bus - 1 - f) = u + (bus - D - v) + r
  BY <1>1, <1>12
<1> QED BY <1>3, <1>10, <1>11, <1>15, <1>16

LEMMA WordsShuffled ==
  ASSUME NEW D \in Nat, D > 0, NEW bus \in Nat, bus > 0, Multiple(bus, D), NEW i, NEW u, NEW v, NEW r,
         InWords(i, u, v, r, D, bus)
  PROVE  InWords(Shuffle(i, D, bus), u, bus - D - v, r, D, bus) /\ InWords(u + v, u, v, 0, D, bus)
<1>1. /\ u \in Int /\ v \in 0 .. (bus - D) /\ r \in 0 .. (D - 1) /\ i = u + v + r
      /\ Multiple(u, bus) /\ Multiple(v, D)
  BY DEF InWords
<1>2. Shuffle(i, D, bus) = u + (bus - D - v) + r
  BY WordsFlipped
<1>3. Multiple(bus - D - v, D)
  <2>1. Multiple(D, D)
    BY MultipleOf
  <2>2. Multiple(bus - D, D)
    BY <2>1, MultipleSum
  <2> QED BY <1>1, <2>2, MultipleSum
<1>4. bus - D - v \in 0 .. (bus - D)
  BY <1>1
<1>5. 0 \in 0 .. (D - 1) /\ u + v = u + v + 0
  BY <1>1
<1> QED BY <1>1, <1>2, <1>3, <1>4, <1>5 DEF InWords

\* A byte that is moved twice is back, and the first byte of its data word with it.
LEMMA ShuffleTwice ==
  ASSUME NEW D \in Nat, D > 0, NEW bus \in Nat, bus > 0, Multiple(bus, D), NEW i \in Int
  PROVE  /\ Shuffle(i, D, bus) \in Int /\ Shuffle(i, D, bus) = Flip(Flip(i, D), bus)
         /\ Shuffle(Shuffle(i, D, bus), D, bus) = i
         /\ Shuffle(Aligned(Shuffle(i, D, bus), D), D, bus) = Aligned(i, D)
<1>1. PICK u, v, r : InWords(i, u, v, r, D, bus)
  BY HasWords
<1>2. PICK g, z : g = Shuffle(i, D, bus) /\ z = bus - D - v
  OBVIOUS
<1>3. InWords(g, u, z, r, D, bus)
  BY <1>1, <1>2, WordsShuffled
<1>4. InWords(u + z, u, z, 0, D, bus)
  BY <1>3, WordsShuffled
<1>5. /\ u \in Int /\ v \in Int /\ z \in Int /\ r \in Int /\ i = u + v + r /\ g = u + z + r
      /\ bus - D - z = v
  BY <1>1, <1>2, <1>3 DEF InWords
<1>6. Aligned(i, D) = u + v /\ Flip(Flip(i, D), bus) = u + (bus - D - v) + r
  BY <1>1, WordsFlipped
<1>7. Aligned(g, D) = u + z /\ Shuffle(g, D, bus) = u + (bus - D - z) + r
  BY <1>3, WordsFlipped
<1>8. Shuffle(u + z, D, bus) = u + (bus - D - z) + 0
  BY <1>4, WordsFlipped
<1>9. g \in Int /\ g = Flip(Flip(i, D), bus) /\ Shuffle(g, D, bus) = i /\ Shuffle(Aligned(g, D), D, bus) = Aligned(i, D)
  BY <1>2, <1>5, <1>6, <1>7, <1>8
<1> QED BY <1>2, <1>9

\* In whole bus words nothing leaves them.
LEMMA ShuffleWithin ==
  ASSUME NEW D \in Nat, D > 0, NEW bus \in Nat, bus > 0, Multiple(bus, D),
         NEW n \in Nat, Multiple(n, bus), NEW i \in Offsets(n)
  PROVE  Shuffle(i, D, bus) \in Offsets(n)
<1>1. PICK a \in 0 .. (n - 1) : a = i /\ a \in Int
  BY DEF Offsets
<1>2. PICK f \in 0 .. (n - 1) : f = Flip(a, D)
  <2>1. Multiple(n, D)
    BY MultipleThrough
  <2> QED BY <2>1, FlipWithin
<1>3. Flip(f, bus) \in 0 .. (n - 1)
  BY FlipWithin
<1>4. Shuffle(a, D, bus) = Flip(f, bus)
  BY <1>1, <1>2, ShuffleTwice
<1> QED BY <1>1, <1>3, <1>4 DEF Offsets

\* No streaming, and enables that are those of data words.
PlainPayload(txn, D, bus) ==
  /\ D <= bus /\ txn.width >= Len(txn.data) /\ Multiple(Len(txn.data), D)
  /\ txn.be # <<>> => /\ Len(txn.be) = Len(txn.data)
                      /\ \A k \in DOMAIN txn.be : txn.be[k] = txn.be[Aligned(k - 1, D) + 1]

\* What the limits of the three other sets have in common.
LEMMA LimitsPlain ==
  ASSUME NEW txn \in Payload, NEW D \in Nat, D > 0, NEW bus \in Nat, bus > 0,
         NEW f \in {"word", "aligned", "single"}, InLimits(f, txn, D, bus)
  PROVE  PlainPayload(txn, D, bus)
<1>1. PICK len \in Nat : len = Len(txn.data)
  BY PayloadParts
<1>2. Multiple(len, D)
  <2>1. len % D = 0
    BY <1>1 DEF InLimits
  <2> QED BY <2>1, WholeMultiple
<1>3. /\ D <= bus /\ txn.width >= len
      /\ txn.be # <<>> => /\ Len(txn.be) = len
                          /\ \A k \in DOMAIN txn.be : txn.be[k] = txn.be[Aligned(k - 1, D) + 1]
  BY <1>1 DEF InLimits
<1> QED BY <1>1, <1>2, <1>3 DEF PlainPayload

\* The first byte of a data word decides for the word.
LEMMA PlainEnabled ==
  ASSUME NEW txn \in Payload, NEW D \in Nat, D > 0, NEW bus, PlainPayload(txn, D, bus),
         NEW i \in Offsets(Len(txn.data))
  PROVE  Aligned(i, D) \in Offsets(Len(txn.data)) /\ (Enabled(txn.be, Aligned(i, D)) <=> Enabled(txn.be, i))
<1>1. PICK len \in Nat : len = Len(txn.data) /\ len > 0
  BY PayloadParts
<1>2. PICK be : be = txn.be /\ be \in Seq(BOOLEAN)
  BY DEF Payload
<1>3. i \in 0 .. (len - 1) /\ i \in Int
  BY <1>1 DEF Offsets
<1>4. PICK a \in 0 .. (len - 1) : a = Aligned(i, D)
  <2>1. i % D \in 0 .. (D - 1) /\ Aligned(i, D) = i - (i % D)
    BY <1>3, AlignedParts
  <2>2. Aligned(0, D) = 0
    <3>1. 0 \in 0 .. (D - 1)
      OBVIOUS
    <3> QED BY <3>1, AlignedFirst
  <2>3. Aligned(i, D) \in Int /\ Aligned(0, D) <= Aligned(i, D)
    <3>1. 0 \in Int /\ 0 <= i
      BY <1>3
    <3> QED BY <1>3, <3>1, AlignedOrder
  <2> QED BY <1>3, <2>1, <2>2, <2>3
<1>5. CASE be = <<>>
  <2>1. Enabled(be, a) /\ Enabled(be, i)
    BY <1>5, Zenon DEF Enabled
  <2> QED BY <1>1, <1>2, <1>4, <2>1 DEF Offsets
<1>6. CASE be # <<>>
  <2>1. Len(be) = len /\ \A k \in DOMAIN be : be[k] = be[Aligned(k - 1, D) + 1]
    BY <1>1, <1>2, <1>6, Zenon DEF PlainPayload
  <2>2. DOMAIN be = 1 .. len /\ i + 1 \in DOMAIN be /\ (i + 1) - 1 = i
    BY <1>1, <1>2, <1>3, <2>1
  <2>3. be[i + 1] = be[a + 1]
    BY <1>4, <2>1, <2>2
  <2>4. i % len = i /\ a % len = a
    BY <1>1, <1>3, <1>4, AlignedFirst
  <2>5. Enabled(be, i) = (FALSE \/ be[i + 1]) /\ Enabled(be, a) = (FALSE \/ be[a + 1])
    BY <1>6, <2>1, <2>4, Zenon DEF Enabled
  <2>6. Enabled(be, a) <=> Enabled(be, i)
    BY <2>3, <2>5, Zenon
  <2> QED BY <1>1, <1>2, <1>4, <2>6 DEF Offsets
<1> QED BY <1>5, <1>6

\* The aligned functions move each byte to its place and fetch it from there.
LEMMA AlignedCarries ==
  ASSUME NEW txn \in Payload, NEW D \in Nat, D > 0, NEW bus \in Nat, bus > 0, Multiple(bus, D),
         PlainPayload(txn, D, bus), Multiple(txn.addr, bus), Multiple(Len(txn.data), bus),
         NEW C, C = to_aligned(txn, D, bus)
  PROVE  \E t, n : /\ Carries(C, t, n, txn, D, bus)
                   /\ ~txn.read => Writes(C, t, txn)
                   /\ \A he : /\ txn.read /\ he.be = C.be
                              /\ \A j \in Offsets(n) : ~Enabled(C.be, j) => he.data[j + 1] = C.data[j + 1]
                              => Fetches(from_aligned(txn, he, D, bus), he, t, txn)
<1>1. PICK len \in Nat, addr \in Nat : /\ len = Len(txn.data) /\ len > 0 /\ DOMAIN txn.data = 1 .. len
                                       /\ addr = txn.addr
  BY PayloadParts
<1>2. txn.width >= len /\ txn.width \in Nat /\ Multiple(len, bus) /\ Multiple(addr, bus)
  BY <1>1 DEF PlainPayload, Payload
<1>3. PICK t : t = [i \in Offsets(len) |-> Shuffle(i, D, bus)]
  OBVIOUS
<1>4. ASSUME NEW i \in Offsets(len)
      PROVE  /\ t[i] = Shuffle(i, D, bus) /\ t[i] \in Offsets(len) /\ t[t[i]] = i
             /\ i \in Nat /\ i < len
  <2>1. t[i] = Shuffle(i, D, bus)
    BY <1>3
  <2>2. t[i] \in Offsets(len)
    BY <1>2, <2>1, ShuffleWithin
  <2>3. i \in Nat /\ i < len /\ i \in Int
    BY DEF Offsets
  <2>4. Shuffle(Shuffle(i, D, bus), D, bus) = i
    BY <2>3, ShuffleTwice
  <2>5. t[t[i]] = i
    BY <1>3, <2>1, <2>2, <2>4
  <2> QED BY <2>1, <2>2, <2>3, <2>5
<1>5. Placement(t, len, len)
  <2>1. t \in [Offsets(len) -> Offsets(len)]
    BY <1>3, <1>4
  <2>2. ASSUME NEW i \in Offsets(len), NEW k \in Offsets(len), t[i] = t[k] PROVE i = k
    BY <1>4, <2>2, Zenon
  <2> QED BY <2>1, <2>2 DEF Placement
<1>6. PICK P : P = AlignedPairs(len, D, bus)
  OBVIOUS
<1>7. P = {<<t[i], i>> : i \in Offsets(len)}
  <2>1. P = {<<Shuffle(i, D, bus), i>> : i \in Offsets(len)}
    BY <1>6, Zenon DEF AlignedPairs, Shuffle
  <2> QED BY <1>4, <2>1, Zenon
<1>8. Moves(P, t, len)
  <2>1. ASSUME NEW p \in P PROVE p[1] \in Offsets(len) /\ p[2] = t[p[1]]
    <3>1. PICK i \in Offsets(len) : p = <<t[i], i>>
      BY <1>7
    <3> QED BY <1>4, <3>1
  <2>2. ASSUME NEW i \in Offsets(len) PROVE \E p \in P : p[1] = i
    <3>1. t[i] \in Offsets(len) /\ t[t[i]] = i
      BY <1>4
    <3>2. <<t[t[i]], t[i]>> \in P
      BY <1>7, <3>1
    <3> QED BY <3>1, <3>2
  <2> QED BY <2>1, <2>2 DEF Moves
<1>9. ASSUME bus = D, NEW i \in Offsets(len) PROVE t[i] = i
  <2>1. i \in Int
    BY <1>4
  <2>2. i % D \in 0 .. (D - 1) /\ Aligned(i, D) = i - (i % D)
    BY <2>1, AlignedParts
  <2>3. PICK r \in 0 .. (D - 1) : r = i % D
    BY <2>2
  <2>4. Aligned(r, D) = 0
    BY AlignedFirst
  <2>5. t[i] = (i - r) + D - D - 0 + r
    BY <1>4, <1>9, <2>2, <2>3, <2>4 DEF Shuffle
  <2> QED BY <2>1, <2>5
<1>10. /\ C.addr = addr /\ C.width = txn.width /\ (bus = D => C = txn)
       /\ bus # D => C.data = NewData(len, IF txn.read THEN {} ELSE P, txn.data)
       /\ C.be = IF bus = D \/ txn.be = <<>> THEN txn.be ELSE NewEnables(len, P, txn.be)
  <2>1. CASE bus = D
    <3>1. C = txn
      BY <2>1 DEF to_aligned
    <3> QED BY <1>1, <2>1, <3>1
  <2>2. CASE bus # D
    <3>1. txn = [read |-> txn.read, addr |-> addr, data |-> txn.data, be |-> txn.be, width |-> txn.width]
      BY <1>1 DEF Payload
    <3>2. PICK d, e : /\ d = NewData(len, IF txn.read THEN {} ELSE P, txn.data)
                      /\ e = IF txn.be = <<>> THEN <<>> ELSE NewEnables(len, P, txn.be)
      OBVIOUS
    <3>3. C = [txn EXCEPT !.data = d, !.be = e]
      BY <1>1, <1>6, <2>2, <3>2 DEF to_aligned
    <3>4. C.addr = addr /\ C.width = txn.width /\ C.data = d /\ C.be = e
      BY <3>1, <3>3
    <3>5. e = IF bus = D \/ txn.be = <<>> THEN txn.be ELSE NewEnables(len, P, txn.be)
      BY <2>2, <3>2
    <3> QED BY <2>2, <3>2, <3>4, <3>5, Zenon
  <2> QED BY <2>1, <2>2
<1>11. Len(C.data) = len /\ DOMAIN C.data = 1 .. len
  <2>1. CASE bus = D
    BY <1>1, <1>10, <2>1
  <2>2. CASE bus # D
    <3>1. PICK moved : C.data = NewData(len, moved, txn.data)
      BY <1>10, <2>2
    <3>2. DOMAIN NewData(len, moved, txn.data) = 1 .. len
      BY DEF NewData
    <3> QED BY <3>1, <3>2, NewLengths
  <2> QED BY <2>1, <2>2
<1>12. ASSUME NEW i \in Offsets(len) PROVE PlaceIn(C, t[i]) = PlaceOf(txn, D, bus, i)
  <2>1. PICK j \in Nat : j = t[i] /\ j = Shuffle(i, D, bus) /\ j < len
    <3>1. t[i] \in Offsets(len) /\ t[i] = Shuffle(i, D, bus)
      BY <1>4
    <3> QED BY <1>4, <3>1 DEF Offsets
  <2>2. PlaceIn(C, j) = Place(C.addr + j, 0)
    <3>1. C.width \in Nat /\ j < C.width
      BY <1>2, <1>10, <2>1
    <3> QED BY <3>1, PlainHost
  <2>3. PlaceOf(txn, D, bus, i) = Place(Flip(addr + Flip(i, D), bus), 0)
    BY <1>1, <1>2, PlainPlaces
  <2>4. i \in Int
    BY <1>4
  <2>5. Flip(i, D) \in Int /\ j = Flip(Flip(i, D), bus)
    BY <2>1, <2>4, AlignedParts, ShuffleTwice
  <2>6. Flip(addr + Flip(i, D), bus) = addr + j
    BY <1>2, <2>5, AlignedShift
  <2> QED BY <1>10, <2>1, <2>2, <2>3, <2>6, Zenon
<1>13. ASSUME NEW j \in Offsets(len)
       PROVE  Enabled(C.be, j) <=> \E i \in Offsets(len) : t[i] = j /\ Enabled(txn.be, i)
  <2>1. CASE bus = D
    <3>1. C.be = txn.be
      BY <1>10, <2>1
    <3> QED BY <1>9, <2>1, <3>1, Zenon
  <2>2. CASE bus # D /\ txn.be = <<>>
    <3>1. Enabled(C.be, j) /\ \A i \in Offsets(len) : Enabled(txn.be, i)
      BY <1>10, <2>2, Zenon DEF Enabled
    <3> QED BY <1>4, <3>1, Zenon
  <2>3. CASE bus # D /\ txn.be # <<>>
    <3>1. Enabled(NewEnables(len, P, txn.be), j) <=> \E i \in Offsets(len) : t[i] = j /\ Enabled(txn.be, i)
      BY <1>8, MovedEnables
    <3> QED BY <1>10, <2>3, <3>1, Zenon
  <2> QED BY <2>1, <2>2, <2>3
<1>14. Carries(C, t, len, txn, D, bus)
  BY <1>1, <1>5, <1>11, <1>12, <1>13, Zenon DEF Carries
<1>15. ASSUME ~txn.read PROVE Writes(C, t, txn)
  <2>1. ASSUME NEW i \in Offsets(len) PROVE C.data[t[i] + 1] = txn.data[i + 1]
    <3>1. CASE bus = D
      BY <1>9, <1>10, <3>1, Zenon
    <3>2. CASE bus # D
      <4>1. NewData(len, P, txn.data)[t[i] + 1] = txn.data[i + 1]
        BY <1>5, <1>8, DataMoved
      <4>2. C.data = NewData(len, P, txn.data)
        BY <1>10, <1>15, <3>2, Zenon
      <4> QED BY <4>1, <4>2, Zenon
    <3> QED BY <3>1, <3>2
  <2> QED BY <1>1, <2>1, Zenon DEF Writes
<1>16. ASSUME NEW he, txn.read, he.be = C.be,
              \A j \in Offsets(len) : ~Enabled(C.be, j) => he.data[j + 1] = C.data[j + 1]
       PROVE  Fetches(from_aligned(txn, he, D, bus), he, t, txn)
  <2>1. PICK data : data = from_aligned(txn, he, D, bus)
    OBVIOUS
  <2>2. ASSUME NEW i \in Offsets(len)
        PROVE  data[i + 1] = IF Enabled(txn.be, i) THEN he.data[t[i] + 1] ELSE txn.data[i + 1]
    <3>1. CASE bus = D
      <4>1. data = he.data
        BY <2>1, <3>1 DEF from_aligned
      <4>2. C = txn
        BY <1>10, <3>1
      <4>3. t[i] = i
        BY <1>9, <3>1
      <4>4. ~Enabled(txn.be, i) => he.data[i + 1] = txn.data[i + 1]
        BY <1>16, <4>2, Zenon
      <4> QED BY <4>1, <4>3, <4>4, Zenon
    <3>2. CASE bus # D
      <4>1. i + 1 \in DOMAIN txn.data /\ (i + 1) - 1 = i
        BY <1>1, <1>4
      <4>2. PICK k \in DOMAIN txn.data : k = i + 1 /\ k - 1 = i
        BY <4>1
      <4>3. PICK c : c = CHOOSE p \in P : p[2] = k - 1
        OBVIOUS
      <4>4. c \in P /\ c[2] = i
        <5>1. <<t[i], i>> \in P
          BY <1>7
        <5>2. \E p \in P : p[2] = k - 1
          BY <4>2, <5>1
        <5> QED BY <4>2, <4>3, <5>2, Zenon
      <4>5. c[1] = t[i]
        <5>1. PICK m \in Offsets(len) : c = <<t[m], m>>
          BY <1>7, <4>4
        <5> QED BY <4>4, <5>1
      <4>6. data[k] = IF txn.read /\ Enabled(he.be, Aligned(c[1], D)) THEN he.data[c[1] + 1] ELSE txn.data[k]
        <5>1. data = [l \in DOMAIN txn.data |->
                        IF txn.read /\ Enabled(he.be, Aligned((CHOOSE p \in P : p[2] = l - 1)[1], D))
                        THEN he.data[(CHOOSE p \in P : p[2] = l - 1)[1] + 1] ELSE txn.data[l]]
          BY <1>1, <1>6, <2>1, <3>2 DEF from_aligned
        <5>2. data[k] = IF txn.read /\ Enabled(he.be, Aligned((CHOOSE p \in P : p[2] = k - 1)[1], D))
                        THEN he.data[(CHOOSE p \in P : p[2] = k - 1)[1] + 1] ELSE txn.data[k]
          BY <5>1, Zenon
        <5> QED BY <4>3, <5>2, Zenon
      <4>7. Enabled(C.be, Aligned(t[i], D)) <=> Enabled(txn.be, i)
        <5>1. PICK a \in Offsets(len) : a = Aligned(t[i], D)
          <6>1. t[i] \in Offsets(len)
            BY <1>4
          <6> QED BY <1>1, <6>1, PlainEnabled
        <5>2. i \in Int
          BY <1>4
        <5>3. t[a] = Aligned(i, D)
          <6>1. Shuffle(Aligned(Shuffle(i, D, bus), D), D, bus) = Aligned(i, D)
            BY <5>2, ShuffleTwice
          <6> QED BY <1>4, <5>1, <6>1, Zenon
        <5>4. Enabled(C.be, a) <=> Enabled(txn.be, t[a])
          <6>1. t[a] \in Offsets(len) /\ t[t[a]] = a
            BY <1>4
          <6>2. \A m \in Offsets(len) : t[m] = a => m = t[a]
            BY <1>4, Zenon
          <6> QED BY <1>13, <6>1, <6>2, Zenon
        <5>5. Enabled(txn.be, Aligned(i, D)) <=> Enabled(txn.be, i)
          BY <1>1, PlainEnabled
        <5> QED BY <5>1, <5>3, <5>4, <5>5, Zenon
      <4> QED BY <1>16, <4>2, <4>5, <4>6, <4>7, Zenon
    <3> QED BY <3>1, <3>2
  <2> QED BY <1>1, <2>1, <2>2, Zenon DEF Fetches
<1> QED BY <1>14, <1>15, <1>16, Zenon

-----------------------------------------------------------------------------
(* Function set 1: where a byte goes *)

\* The place of byte i of a buffer, in whole bus words of which the first has the buffer's
\* address at offset o.
Dest(i, o, D, bus) == Flip(o + Flip(i, D), bus)

\* Different bytes go to different places.
LEMMA DestApart ==
  ASSUME NEW D \in Nat, D > 0, NEW bus \in Nat, bus > 0, NEW o \in Int, NEW i \in Int
  PROVE  /\ Dest(i, o, D, bus) \in Int
         /\ \A k \in Int : Dest(i, o, D, bus) = Dest(k, o, D, bus) => i = k
<1>1. ASSUME NEW k \in Int
      PROVE  \E f \in Int : /\ f = Flip(k, D) /\ Flip(f, D) = k
                            /\ Dest(k, o, D, bus) = Flip(o + f, bus) /\ Flip(o + f, bus) \in Int
                            /\ Flip(Flip(o + f, bus), bus) = o + f
  <2>1. PICK f \in Int : f = Flip(k, D) /\ Flip(f, D) = k
    BY AlignedParts
  <2>2. PICK a \in Int : a = o + f
    OBVIOUS
  <2>3. Flip(a, bus) \in Int /\ Flip(Flip(a, bus), bus) = a
    BY AlignedParts
  <2>4. Dest(k, o, D, bus) = Flip(o + f, bus)
    BY <2>1, Zenon DEF Dest
  <2> QED BY <2>1, <2>2, <2>3, <2>4, Zenon
<1>2. PICK f \in Int : /\ f = Flip(i, D) /\ Flip(f, D) = i
                       /\ Dest(i, o, D, bus) = Flip(o + f, bus) /\ Flip(o + f, bus) \in Int
                       /\ Flip(Flip(o + f, bus), bus) = o + f
  BY <1>1
<1>3. ASSUME NEW k \in Int, Dest(i, o, D, bus) = Dest(k, o, D, bus) PROVE i = k
  <2>1. PICK h \in Int : /\ h = Flip(k, D) /\ Flip(h, D) = k
                         /\ Dest(k, o, D, bus) = Flip(o + h, bus) /\ Flip(o + h, bus) \in Int
                         /\ Flip(Flip(o + h, bus), bus) = o + h
    BY <1>1
  <2>2. o + f = o + h
    BY <1>2, <1>3, <2>1, Zenon
  <2>3. f = h
    BY <2>2
  <2> QED BY <1>2, <2>1, <2>3, Zenon
<1> QED BY <1>2, <1>3, Zenon

\* No place lies behind two more bus words than there are whole ones in the buffer.
LEMMA DestWithin ==
  ASSUME NEW D \in Nat, D > 0, NEW bus \in Nat, bus > 0, NEW o \in 0 .. (bus - 1),
         NEW len \in Nat, Multiple(len, D), NEW i \in Offsets(len)
  PROVE  len \div bus \in Nat /\ Dest(i, o, D, bus) \in 0 .. (bus * ((len \div bus) + 2) - 1)
<1>1. PICK q \in Nat, r \in 0 .. (bus - 1) : q = len \div bus /\ len = bus * q + r
  BY Quotients
<1>2. PICK f \in 0 .. (len - 1) : f = Flip(i, D)
  <2>1. i \in 0 .. (len - 1)
    BY DEF Offsets
  <2> QED BY <2>1, FlipWithin
<1>3. PICK w \in Nat : w = bus * (q + 2) /\ w = bus * q + 2 * bus
  OBVIOUS
<1>4. o + f \in 0 .. (w - 1)
  <2>1. PICK c \in Int : c = bus * q
    OBVIOUS
  <2> QED BY <1>1, <1>3, <2>1
<1>5. Multiple(w, bus)
  <2>1. q + 2 \in Int
    OBVIOUS
  <2> QED BY <1>3, <2>1, MultipleOf
<1>6. Flip(o + f, bus) \in 0 .. (w - 1)
  BY <1>4, <1>5, FlipWithin
<1> QED BY <1>1, <1>2, <1>3, <1>6, Zenon DEF Dest

\* How far the first byte of a data word is behind the address, in the loop's terms: u is
\* the offset of the last data word that ends in the first bus word, which ends len0 after it.
Starts(o, u, len0, D, bus) ==
  /\ o \in 0 .. (bus - 1) /\ len0 \in 0 .. (D - 1) /\ u = (bus - o) - len0 /\ Multiple(u, D)

\* Where the byte goes that lies r behind v behind the start of bus word w.
LEMMA DestOf ==
  ASSUME NEW D \in Nat, D > 0, NEW bus \in Nat, bus > 0, Multiple(bus, D),
         NEW o, NEW u, NEW len0, Starts(o, u, len0, D, bus),
         NEW w, Multiple(w, bus), NEW v, Multiple(v, D), NEW r \in 0 .. (D - 1),
         len0 - v - D + r \in 0 .. (bus - 1)
  PROVE  Dest(w + u + v + r, o, D, bus) = w + (len0 - v - D + r)
<1>1. /\ o \in Int /\ u \in Int /\ len0 \in Int /\ w \in Int /\ v \in Int
      /\ u = (bus - o) - len0
  BY DEF Starts, Multiple
<1>2. PICK z \in Int : z = w + u + v /\ Multiple(z, D)
  <2>1. Multiple(w, D) /\ Multiple(u, D)
    BY MultipleThrough DEF Starts
  <2>2. Multiple(w + u, D)
    BY <2>1, MultipleSum
  <2>3. Multiple(w + u + v, D)
    BY <2>2, MultipleSum
  <2> QED BY <1>1, <2>3
<1>3. Flip(z + r, D) = z + (D - 1 - r)
  <2>1. Flip(r, D) = D - 1 - r
    BY AlignedFirst
  <2>2. r \in Int
    OBVIOUS
  <2>3. Flip(z + r, D) = z + Flip(r, D)
    BY <1>2, <2>2, AlignedShift
  <2> QED BY <2>1, <2>3, Zenon
<1>4. PICK e \in 0 .. (bus - 1) : e = len0 - v - D + r
  OBVIOUS
<1>5. PICK g \in 0 .. (bus - 1) : g = bus - 1 - e
  OBVIOUS
<1>6. o + (z + (D - 1 - r)) = w + g
  BY <1>1, <1>2, <1>4, <1>5
<1>7. Flip(w + g, bus) = w + e
  <2>1. Flip(g, bus) = bus - 1 - g /\ g \in Int
    BY AlignedFirst
  <2>2. Flip(w + g, bus) = w + Flip(g, bus)
    BY <2>1, AlignedShift
  <2>3. bus - 1 - g = e
    BY <1>5
  <2> QED BY <2>1, <2>2, <2>3, Zenon
<1>8. w + u + v + r = z + r
  BY <1>2
<1> QED BY <1>3, <1>4, <1>6, <1>7, <1>8, Zenon DEF Dest

-----------------------------------------------------------------------------
(* Function set 1: a fragment *)

Copying == [src : Int, dest : Nat, left : Int, done : BOOLEAN, pairs : SUBSET (Int \X Int \X Int)]

LEMMA FragmentType ==
  ASSUME NEW s \in Copying, NEW n \in Nat, NEW len \in Nat, NEW move \in Int
  PROVE  Fragment(s, n, len, move) \in Copying
<1>1. s.src \in Int /\ s.dest \in Nat /\ s.left \in Int /\ s.done \in BOOLEAN /\ s.pairs \in SUBSET (Int \X Int \X Int)
  BY DEF Copying
<1>2. CASE s.done
  BY <1>2 DEF Fragment
<1>3. CASE ~s.done /\ s.src \in Offsets(len)
  <2>1. PICK new : new = {<<s.src + i, s.dest + i, IF move < 0 THEN s.src ELSE s.src + i>> : i \in Offsets(n)}
    OBVIOUS
  <2>2. new \in SUBSET (Int \X Int \X Int)
    <3>1. \A i \in Offsets(n) : <<s.src + i, s.dest + i, IF move < 0 THEN s.src ELSE s.src + i>> \in Int \X Int \X Int
      BY <1>1 DEF Offsets
    <3> QED BY <2>1, <3>1
  <2>3. Fragment(s, n, len, move) = [ src |-> s.src + move, dest |-> s.dest + n, left |-> s.left - n,
                                      done |-> s.left <= n, pairs |-> s.pairs \cup new ]
    BY <1>3, <2>1, Zenon DEF Fragment
  <2>4. s.src + move \in Int /\ s.dest + n \in Nat /\ s.left - n \in Int /\ (s.left <= n) \in BOOLEAN
    BY <1>1
  <2>5. s.pairs \cup new \in SUBSET (Int \X Int \X Int)
    BY <1>1, <2>2
  <2> QED BY <2>3, <2>4, <2>5 DEF Copying
<1>4. CASE ~s.done /\ s.src \notin Offsets(len)
  <2>1. Fragment(s, n, len, move) = [s EXCEPT !.src = @ + move, !.dest = @ + n]
    BY <1>4 DEF Fragment
  <2>2. s.src + move \in Int /\ s.dest + n \in Nat
    BY <1>1
  <2> QED BY <2>1, <2>2 DEF Copying
<1> QED BY <1>1, <1>2, <1>3, <1>4

Behind(d, len, o, D, bus) == {i \in Offsets(len) : Dest(i, o, D, bus) < d}

\* The pairs are those of the bytes that go before dest, and as many are left as have not been copied.
Copied(s, len, o, D, bus) ==
  /\ \A p \in s.pairs : /\ p[1] \in Behind(s.dest, len, o, D, bus)
                        /\ p[2] = Dest(p[1], o, D, bus)
                        /\ p[3] = p[1] \/ p[3] = Aligned(p[1], D)
  /\ \A i \in Behind(s.dest, len, o, D, bus) : \E p \in s.pairs : p[1] = i
  /\ s.left = len - Cardinality(Behind(s.dest, len, o, D, bus))
  /\ s.done => s.left <= 0

\* The n bytes behind x go to the n places behind d.
Stretch(x, d, n, o, D, bus) == \A g \in Offsets(n) : Dest(x + g, o, D, bus) = d + g

\* The bytes of a data word are all in the buffer or all outside of it.
LEMMA StretchInside ==
  ASSUME NEW D \in Nat, D > 0, NEW len \in Nat, Multiple(len, D), NEW z, Multiple(z, D),
         NEW r \in Nat, NEW n \in Nat, r + n <= D, NEW x, x = z + r, NEW g \in Offsets(n)
  PROVE  x + g \in Offsets(len) <=> x \in Offsets(len)
<1>1. z \in Int /\ len \in Int /\ g \in 0 .. (n - 1) /\ x \in Int
  BY DEF Multiple, Offsets
<1>2. CASE x < 0
  <2>1. z < 0
    BY <1>1, <1>2
  <2>2. z + D <= 0
    <3>1. Multiple(0, D)
      BY <1>1, MultipleOf
    <3> QED BY <2>1, <3>1, MultiplesApart
  <2>3. x + g < 0
    BY <1>1, <2>2
  <2> QED BY <1>1, <1>2, <2>3 DEF Offsets
<1>3. CASE x >= len
  BY <1>1, <1>3 DEF Offsets
<1>4. CASE x >= 0 /\ x < len
  <2>1. z < len
    BY <1>1, <1>4
  <2>2. z + D <= len
    BY <2>1, MultiplesApart
  <2>3. x + g \in 0 .. (len - 1) /\ x \in 0 .. (len - 1)
    BY <1>1, <1>4, <2>2
  <2> QED BY <2>3 DEF Offsets
<1> QED BY <1>1, <1>2, <1>3, <1>4

BytesFrom(x, n) == {x + g : g \in Offsets(n)}

\* The bytes behind the next n places.
LEMMA StretchBehind ==
  ASSUME NEW D \in Nat, D > 0, NEW bus \in Nat, bus > 0, NEW o \in Int,
         NEW len \in Nat, Multiple(len, D), NEW z, Multiple(z, D),
         NEW r \in Nat, NEW n \in Nat, r + n <= D, NEW x, x = z + r, NEW d \in Nat, Stretch(x, d, n, o, D, bus)
  PROVE  /\ x \notin Offsets(len) => Behind(d + n, len, o, D, bus) = Behind(d, len, o, D, bus)
         /\ x \in Offsets(len) =>
              /\ Behind(d + n, len, o, D, bus) = Behind(d, len, o, D, bus) \cup BytesFrom(x, n)
              /\ Cardinality(Behind(d + n, len, o, D, bus)) = Cardinality(Behind(d, len, o, D, bus)) + n
<1> DEFINE old == Behind(d, len, o, D, bus)
           new == Behind(d + n, len, o, D, bus)
           bytes == BytesFrom(x, n)
<1>1. z \in Int /\ x \in Int
  BY DEF Multiple
<1>2. ASSUME NEW g \in Offsets(n)
      PROVE  /\ g \in 0 .. (n - 1) /\ x + g \in Int /\ Dest(x + g, o, D, bus) = d + g
             /\ x + g \in Offsets(len) <=> x \in Offsets(len)
  <2>1. x + g \in Offsets(len) <=> x \in Offsets(len)
    BY StretchInside
  <2>2. g \in 0 .. (n - 1) /\ x + g \in Int
    BY <1>1 DEF Offsets
  <2>3. Dest(x + g, o, D, bus) = d + g
    BY Zenon DEF Stretch
  <2> QED BY <2>1, <2>2, <2>3, Zenon
<1>3. ASSUME NEW i \in Offsets(len)
      PROVE  /\ i \in Int /\ Dest(i, o, D, bus) \in Int
             /\ Dest(i, o, D, bus) < d => i \in new
             /\ Dest(i, o, D, bus) < d + n => i \in old \/ \E g \in Offsets(n) : i = x + g
  <2>1. i \in Int
    BY DEF Offsets
  <2>2. PICK e \in Int : e = Dest(i, o, D, bus)
    BY <2>1, DestApart
  <2>3. e < d => e < d + n
    OBVIOUS
  <2>4. ASSUME e >= d, e < d + n PROVE \E g \in Offsets(n) : i = x + g
    <3>1. PICK g \in Offsets(n) : e = d + g
      <4>1. e - d \in 0 .. (n - 1) /\ e = d + (e - d)
        BY <2>4
      <4> QED BY <4>1 DEF Offsets
    <3>2. PICK k \in Int : k = x + g /\ Dest(k, o, D, bus) = e
      BY <1>2, <3>1
    <3>3. i = k
      <4>1. \A m \in Int : Dest(i, o, D, bus) = Dest(m, o, D, bus) => i = m
        BY <2>1, DestApart
      <4> QED BY <2>2, <3>2, <4>1, Zenon
    <3> QED BY <3>2, <3>3
  <2>5. e < d \/ e >= d
    BY <2>2
  <2> QED BY <2>1, <2>2, <2>3, <2>4, <2>5, Zenon DEF Behind
<1>4. old \subseteq new
  BY <1>3 DEF Behind
<1>5. CASE x \notin Offsets(len)
  <2>1. new \subseteq old
    <3>1. SUFFICES ASSUME NEW i \in new PROVE i \in old
      OBVIOUS
    <3>2. i \in Offsets(len) /\ Dest(i, o, D, bus) < d + n
      BY <3>1 DEF Behind
    <3>3. i \in old \/ \E g \in Offsets(n) : i = x + g
      BY <1>3, <3>2
    <3> HIDE DEF old, new
    <3> QED BY <1>2, <1>5, <3>2, <3>3, Zenon
  <2> QED BY <1>4, <1>5, <2>1
<1>6. CASE x \in Offsets(len)
  <2>1. new \subseteq old \cup bytes
    <3>1. SUFFICES ASSUME NEW i \in new PROVE i \in old \cup bytes
      OBVIOUS
    <3>2. i \in Offsets(len) /\ Dest(i, o, D, bus) < d + n
      BY <3>1 DEF Behind
    <3>3. i \in old \/ \E g \in Offsets(n) : i = x + g
      BY <1>3, <3>2
    <3> HIDE DEF old, new
    <3> QED BY <3>3, Zenon DEF BytesFrom
  <2>2. ASSUME NEW g \in Offsets(n) PROVE x + g \in new /\ x + g \notin old
    <3>1. x + g \in Offsets(len) /\ Dest(x + g, o, D, bus) = d + g /\ g \in 0 .. (n - 1)
      BY <1>2, <1>6
    <3>2. d + g < d + n /\ ~(d + g < d)
      BY <3>1
    <3> QED BY <3>1, <3>2, Zenon DEF Behind
  <2>3. new = old \cup bytes /\ old \cap bytes = {}
    <3> HIDE DEF old, new
    <3> QED BY <1>4, <2>1, <2>2 DEF BytesFrom
  <2>4. IsFiniteSet(Offsets(len))
    BY FS_Interval DEF Offsets
  <2>5. IsFiniteSet(old) /\ Cardinality(old) \in Nat
    <3>1. old \in SUBSET Offsets(len)
      BY DEF Behind
    <3> HIDE DEF old
    <3>2. IsFiniteSet(old)
      BY <2>4, <3>1, FS_Subset
    <3> QED BY <3>2, FS_CardinalityType
  <2>6. IsFiniteSet(bytes) /\ Cardinality(bytes) = n
    <3>1. bytes = x .. (x + n - 1)
      <4> USE DEF BytesFrom
      <4>1. ASSUME NEW k \in x .. (x + n - 1) PROVE k \in bytes
        <5>1. k - x \in Offsets(n) /\ k = x + (k - x)
          BY <1>1 DEF Offsets
        <5> QED BY <5>1
      <4>2. ASSUME NEW g \in Offsets(n) PROVE x + g \in x .. (x + n - 1)
        BY <1>1 DEF Offsets
      <4> QED BY <4>1, <4>2
    <3>2. PICK y \in Int : y = x + n - 1
      BY <1>1
    <3>3. IsFiniteSet(x .. y) /\ Cardinality(x .. y) = IF x > y THEN 0 ELSE y - x + 1
      BY <1>1, FS_Interval
    <3>4. (IF x > y THEN 0 ELSE y - x + 1) = n
      BY <1>1, <3>2
    <3> HIDE DEF bytes
    <3> QED BY <3>1, <3>2, <3>3, <3>4
  <2>7. Cardinality(old \cup bytes) = Cardinality(old) + Cardinality(bytes) - Cardinality(old \cap bytes)
    <3> HIDE DEF old, bytes
    <3> QED BY <2>5, <2>6, FS_Union
  <2>8. Cardinality(old \cap bytes) = 0
    <3> HIDE DEF old, bytes
    <3> QED BY <2>3, FS_EmptySet
  <2>9. Cardinality(new) = Cardinality(old) + n
    <3> HIDE DEF old, bytes, new
    <3> QED BY <2>3, <2>5, <2>6, <2>7, <2>8
  <2> QED BY <1>6, <2>3, <2>9
<1> QED BY <1>5, <1>6

\* A fragment that lies in a data word is copied to its places, if it is in the buffer.
LEMMA FragmentCopies ==
  ASSUME NEW D \in Nat, D > 0, NEW bus \in Nat, bus > 0, NEW o \in Int,
         NEW len \in Nat, Multiple(len, D), NEW z, Multiple(z, D),
         NEW r \in Nat, NEW n \in Nat, r + n <= D, NEW move \in Int, move < 0 => r = 0,
         NEW s \in Copying, Copied(s, len, o, D, bus), NEW x, x = z + r, NEW d,
         ~s.done => s.src = x /\ s.dest = d /\ Stretch(x, d, n, o, D, bus),
         NEW f, f = Fragment(s, n, len, move)
  PROVE  Copied(f, len, o, D, bus) /\ (f.done \/ (f.src = x + move /\ f.dest = d + n))
<1> DEFINE Old == Behind(d, len, o, D, bus)
           New == Behind(d + n, len, o, D, bus)
<1>1. CASE s.done
  <2>1. f = s
    BY <1>1, Zenon DEF Fragment
  <2> HIDE DEF Old, New
  <2>2. Copied(f, len, o, D, bus) /\ f.done
    BY <1>1, <2>1
  <2> QED BY <2>2
<1>2. ASSUME ~s.done
      PROVE  /\ s.src = x /\ s.dest = d /\ Stretch(x, d, n, o, D, bus) /\ x \in Int /\ d \in Nat
             /\ s.left \in Int /\ z \in Int
             /\ s.left = len - Cardinality(Old)
             /\ \A p \in s.pairs : /\ p[1] \in Old /\ p[2] = Dest(p[1], o, D, bus)
                                   /\ p[3] = p[1] \/ p[3] = Aligned(p[1], D)
             /\ \A i \in Old : \E p \in s.pairs : p[1] = i
  <2>1. s.src = x /\ s.dest = d /\ Stretch(x, d, n, o, D, bus)
    BY <1>2
  <2>2. x \in Int /\ d \in Nat /\ s.left \in Int /\ z \in Int
    BY <2>1 DEF Copying, Multiple
  <2> QED BY <2>1, <2>2, Zenon DEF Copied
<1>3. CASE ~s.done /\ x \notin Offsets(len)
  <2>1. f = [s EXCEPT !.src = @ + move, !.dest = @ + n]
    BY <1>2, <1>3 DEF Fragment
  <2>2. /\ f.src = x + move /\ f.dest = d + n /\ f.left = s.left
        /\ f.done = FALSE /\ f.pairs = s.pairs
    BY <1>2, <1>3, <2>1 DEF Copying
  <2>3. New = Old
    BY <1>2, <1>3, StretchBehind
  <2> HIDE DEF Old, New
  <2>4. /\ f.left = len - Cardinality(New)
        /\ \A p \in f.pairs : /\ p[1] \in New /\ p[2] = Dest(p[1], o, D, bus)
                              /\ p[3] = p[1] \/ p[3] = Aligned(p[1], D)
        /\ \A i \in New : \E p \in f.pairs : p[1] = i
    BY <1>2, <1>3, <2>2, <2>3, Zenon
  <2>5. Copied(f, len, o, D, bus)
    BY <2>2, <2>4, Zenon DEF Copied, New
  <2> QED BY <2>2, <2>5
<1>4. CASE ~s.done /\ x \in Offsets(len)
  <2>1. PICK new : new = {<<x + i, d + i, IF move < 0 THEN x ELSE x + i>> : i \in Offsets(n)}
    OBVIOUS
  <2>2. f = [ src |-> x + move, dest |-> d + n, left |-> s.left - n,
              done |-> s.left <= n, pairs |-> s.pairs \cup new ]
    <3>1. f = [ src |-> s.src + move, dest |-> s.dest + n, left |-> s.left - n, done |-> s.left <= n,
                pairs |-> s.pairs \cup {<<s.src + i, s.dest + i, IF move < 0 THEN s.src ELSE s.src + i>>
                                          : i \in Offsets(n)} ]
      <4>1. s.src \in Offsets(len)
        BY <1>2, <1>4, Zenon
      <4> QED BY <1>4, <4>1, Zenon DEF Fragment
    <3>2. s.src = x /\ s.dest = d
      BY <1>2, <1>4, Zenon
    <3>3. {<<s.src + i, s.dest + i, IF move < 0 THEN s.src ELSE s.src + i>> : i \in Offsets(n)} = new
      BY <2>1, <3>2
    <3> QED BY <3>1, <3>2, <3>3, Zenon
  <2>3. /\ f.src = x + move /\ f.dest = d + n /\ f.left = s.left - n
        /\ f.done = (s.left <= n) /\ f.pairs = s.pairs \cup new
    BY <2>2
  <2>4. New = Old \cup BytesFrom(x, n) /\ Cardinality(New) = Cardinality(Old) + n
    BY <1>2, <1>4, StretchBehind
  <2>5. Cardinality(Old) \in Int
    <3>1. IsFiniteSet(Offsets(len))
      BY FS_Interval DEF Offsets
    <3>2. Old \in SUBSET Offsets(len)
      BY DEF Behind
    <3> HIDE DEF Old
    <3>3. IsFiniteSet(Old)
      BY <3>1, <3>2, FS_Subset
    <3> QED BY <3>3, FS_CardinalityType
  <2>6. ASSUME NEW g \in Offsets(n)
        PROVE  LET p == <<x + g, d + g, IF move < 0 THEN x ELSE x + g>>
               IN p[2] = Dest(p[1], o, D, bus) /\ (p[3] = p[1] \/ p[3] = Aligned(p[1], D))
    <3>1. Dest(x + g, o, D, bus) = d + g
      BY <1>2, <1>4, <2>6, Zenon DEF Stretch
    <3>2. ASSUME move < 0 PROVE x = Aligned(x + g, D)
      <4>1. x = z /\ g \in 0 .. (D - 1) /\ g \in Int
        BY <1>2, <1>4, <3>2 DEF Offsets
      <4>2. Aligned(z + g, D) = z + Aligned(g, D)
        BY <4>1, AlignedShift
      <4>3. Aligned(g, D) = 0
        BY <4>1, AlignedFirst
      <4>4. z + 0 = z
        BY <1>2, <1>4
      <4> QED BY <4>1, <4>2, <4>3, <4>4, Zenon
    <3> QED BY <3>1, <3>2
  <2>7. \A p \in f.pairs : /\ p[1] \in New /\ p[2] = Dest(p[1], o, D, bus)
                           /\ p[3] = p[1] \/ p[3] = Aligned(p[1], D)
    <3>1. ASSUME NEW p \in s.pairs
          PROVE  /\ p[1] \in New /\ p[2] = Dest(p[1], o, D, bus)
                 /\ p[3] = p[1] \/ p[3] = Aligned(p[1], D)
      <4> HIDE DEF Old, New
      <4>1. p[1] \in Old /\ Old \subseteq New
        BY <1>2, <1>4, <2>4
      <4> QED BY <1>2, <1>4, <4>1, Zenon
    <3>2. ASSUME NEW p \in new
          PROVE  /\ p[1] \in New /\ p[2] = Dest(p[1], o, D, bus)
                 /\ p[3] = p[1] \/ p[3] = Aligned(p[1], D)
      <4>1. PICK g \in Offsets(n) : p = <<x + g, d + g, IF move < 0 THEN x ELSE x + g>>
        BY <2>1
      <4>2. x + g \in New
        <5> HIDE DEF Old, New
        <5> QED BY <2>4 DEF BytesFrom
      <4>3. p[1] = x + g
        BY <4>1
      <4>4. p[2] = Dest(p[1], o, D, bus) /\ (p[3] = p[1] \/ p[3] = Aligned(p[1], D))
        BY <2>6, <4>1, Zenon
      <4> QED BY <4>2, <4>3, <4>4, Zenon
    <3> HIDE DEF New
    <3> QED BY <2>3, <3>1, <3>2
  <2>8. ASSUME NEW i \in New PROVE \E p \in f.pairs : p[1] = i
    <3>1. CASE i \in Old
      <4> HIDE DEF Old, New
      <4>1. PICK p \in s.pairs : p[1] = i
        BY <1>2, <1>4, <3>1, Zenon
      <4>2. p \in f.pairs
        BY <2>3
      <4> QED BY <4>1, <4>2
    <3>2. ASSUME NEW g \in Offsets(n), i = x + g PROVE \E p \in f.pairs : p[1] = i
      <4>1. PICK p \in new : p = <<x + g, d + g, IF move < 0 THEN x ELSE x + g>>
        BY <2>1
      <4>2. p \in f.pairs /\ p[1] = i
        BY <2>3, <3>2, <4>1
      <4> QED BY <4>2
    <3> HIDE DEF Old, New
    <3> QED BY <2>4, <3>1, <3>2 DEF BytesFrom
  <2>9. f.left = len - Cardinality(New) /\ (f.done => f.left <= 0)
    <3> HIDE DEF Old, New
    <3>1. PICK c \in Int, left \in Int : c = Cardinality(Old) /\ left = s.left
      BY <1>2, <1>4, <2>5
    <3>2. left = len - c /\ f.left = left - n /\ Cardinality(New) = c + n
      BY <1>2, <1>4, <2>3, <2>4, <3>1, Zenon
    <3>3. f.left = len - Cardinality(New)
      BY <3>2
    <3>4. f.done => left <= n
      BY <2>3, <3>1, Zenon
    <3> QED BY <3>2, <3>3, <3>4
  <2>10. Copied(f, len, o, D, bus)
    <3> HIDE DEF Old
    <3> QED BY <2>3, <2>7, <2>8, <2>9, Zenon DEF Copied, New
  <2> QED BY <2>3, <2>10
<1> QED BY <1>2, <1>3, <1>4, <1>1

-----------------------------------------------------------------------------
(* Function set 1: the loops *)

\* How often the loops are passed.
WordsIn(n, bus, size) == n = (bus \div size) - 1

BusWords(n, len, bus) == n = (len \div bus) + 2

HeadLength(len0, txn, D, bus) == len0 = (bus - (txn.addr % bus)) % D

Passes(n) == [0 .. n -> Copying]

\* The loop over the data words of a bus word, pass by pass.
LEMMA WholeWordsLoop ==
  ASSUME NEW size \in Nat, NEW bus \in Nat, NEW len \in Nat, NEW n \in Nat, WordsIn(n, bus, size), NEW begin \in Copying
  PROVE  \E h \in Passes(n) :
           /\ h[0] = begin
           /\ \A i \in 1 .. n : h[i] = Fragment(h[i - 1], size, len, -size)
           /\ h[n] = WholeWords(begin, len, size, bus)
<1> DEFINE D == 1 .. n
           S == Copying
           a == begin
           l == [i \in 1 .. n |-> i]
           g == [p \in Nat \X S |-> IF p[1] \in 1 .. n THEN Fragment(p[2], size, len, -size) ELSE p[2]]
           Body(F, t) == Fragment(F[t \ {Max(t)}], size, len, -size)
           value[t \in SUBSET DOMAIN l] == IF t = {} THEN a ELSE Body(value, t)
<1>1. D = DOMAIN l /\ \A i \in D : l[i] = i
  OBVIOUS
<1>2. WholeWords(begin, len, size, bus) = value[D]
  <2>1. PICK end : end = value[DOMAIN l]
    OBVIOUS
  <2>2. WholeWords(begin, len, size, bus) = end
    BY <2>1 DEF WordsIn, WholeWords, FoldLeft, MapThenFoldSet
  <2> HIDE DEF value, D, l
  <2> QED BY <1>1, <2>1, <2>2
<1>3. ASSUME NEW i \in 1 .. n, NEW s \in S PROVE Fragment(s, size, len, -size) \in S
  <2> -size \in Int
    OBVIOUS
  <2> QED BY FragmentType
<1>4. g \in [Nat \X S -> S]
  <2> HIDE DEF S
  <2> QED BY <1>3
<1>5. \A i \in 1 .. n, s \in S : g[<<i, s>>] = Fragment(s, size, len, -size)
  <2> TAKE i \in 1 .. n, s \in S
  <2>1. <<i, s>> \in Nat \X S
    OBVIOUS
  <2> QED BY <2>1
<1>6. a \in S
  OBVIOUS
<1> HIDE DEF g, S, a, l
<1>7. PICK F \in [SUBSET D -> S] : FoldsLeft(F, n, a, g)
  BY <1>4, <1>6, FoldsLeftExist
<1>8. ASSUME NEW t \in SUBSET D, t # {}
      PROVE  Max(t) \in D /\ t \ {Max(t)} \in SUBSET D /\ l[Max(t)] = Max(t)
  BY <1>1, <1>8, MaxIn
<1>9. ASSUME NEW t \in SUBSET D PROVE F[t] = IF t = {} THEN a ELSE Body(F, t)
  <2>1. F[t] = IF t = {} THEN a ELSE g[<<Max(t), F[t \ {Max(t)}]>>]
    BY <1>7 DEF FoldsLeft
  <2>2. CASE t # {}
    <3>1. Max(t) \in 1 .. n /\ F[t \ {Max(t)}] \in S /\ l[Max(t)] = Max(t)
      BY <1>8, <2>2
    <3>2. g[<<Max(t), F[t \ {Max(t)}]>>] = Body(F, t)
      BY <1>5, <3>1
    <3> QED BY <2>1, <2>2, <3>2
  <2> QED BY <2>1, <2>2
<1>10. F = [t \in SUBSET DOMAIN l |-> IF t = {} THEN a ELSE Body(F, t)]
  <2> HIDE DEF D, Body
  <2>1. F = [t \in SUBSET D |-> F[t]]
    BY <1>7
  <2> QED BY <1>1, <1>9, <2>1
<1>11. value = CHOOSE v : v = [t \in SUBSET DOMAIN l |-> IF t = {} THEN a ELSE Body(v, t)]
  OBVIOUS
<1> HIDE DEF value
<1>12. value = [t \in SUBSET DOMAIN l |-> IF t = {} THEN a ELSE Body(value, t)]
  <2> HIDE DEF Body
  <2> QED BY <1>10, <1>11
<1>13. \A t \in SUBSET D : value[t] = IF t = {} THEN a ELSE Body(value, t)
  <2> HIDE DEF Body, D
  <2> QED BY <1>1, <1>12
<1>14. PICK h : Solves(h, n, S, a, g)
  BY <1>4, <1>6, SolutionExists
<1>15. h \in [0 .. n -> S] /\ h[0] = a
  BY <1>14 DEF Solves
<1>16. ASSUME NEW i \in 1 .. n PROVE h[i] = Fragment(h[i - 1], size, len, -size)
  <2>1. h[i] = g[<<i, h[i - 1]>>] /\ h[i - 1] \in S
    BY <1>14, <1>15 DEF Solves
  <2> QED BY <1>5, <2>1
<1>17. value[D] = h[n]
  <2>1. value[{}] = h[0]
    BY <1>13, <1>15
  <2>2. ASSUME NEW i \in 1 .. n, value[1 .. (i - 1)] = h[i - 1] PROVE value[1 .. i] = h[i]
    <3>1. /\ i \in Nat /\ 1 .. i \in SUBSET D /\ 1 .. i # {}
          /\ (1 .. i) \ {i} = 1 .. (i - 1) /\ Max(1 .. i) = i
      BY FirstIndices
    <3>2. value[1 .. i] = Body(value, 1 .. i)
      <4> HIDE DEF Body, D
      <4> QED BY <1>13, <3>1
    <3>3. value[1 .. i] = Fragment(h[i - 1], size, len, -size)
      BY <1>1, <2>2, <3>1, <3>2
    <3> QED BY <1>16, <3>3
  <2>3. Along(value, h, n)
    <3> HIDE DEF Body, D
    <3> QED BY <2>1, <2>2 DEF Along
  <2>4. value[1 .. n] = h[n]
    <3> HIDE DEF Body, D
    <3> QED BY <2>3, AlongPasses
  <2> QED BY <2>4
<1> QED BY <1>2, <1>15, <1>16, <1>17 DEF S, a, Passes

WordsPassed(h, n, begin, len, D, bus) ==
  /\ h \in Passes(n) /\ h[0] = begin /\ \A i \in 1 .. n : h[i] = Fragment(h[i - 1], D, len, -D)
  /\ h[n] = WholeWords(begin, len, D, bus)

LEMMA WordsPasses ==
  ASSUME NEW D \in Nat, NEW bus \in Nat, NEW len \in Nat, NEW n \in Nat, WordsIn(n, bus, D), NEW begin \in Copying
  PROVE  \E h : WordsPassed(h, n, begin, len, D, bus)
BY WholeWordsLoop DEF WordsPassed

LEMMA SkipType ==
  ASSUME NEW s \in Copying, NEW n \in Int
  PROVE  Skip(s, n) \in Copying /\ Skip(s, n) = [s EXCEPT !.src = s.src + n]
BY DEF Skip, Copying

LEMMA BusWordType ==
  ASSUME NEW s \in Copying, NEW D \in Nat, D > 0, NEW bus \in Nat, NEW len \in Nat, NEW m \in Nat, WordsIn(m, bus, D),
         NEW len0 \in 0 .. (D - 1)
  PROVE  BusWord(s, len, len0, D, bus) \in Copying
<1>1. PICK a \in Copying : a = Skip(Fragment(s, len0, len, len0), -2 * D)
  <2>1. len0 \in Nat /\ len0 \in Int /\ -2 * D \in Int
    OBVIOUS
  <2>2. Fragment(s, len0, len, len0) \in Copying
    BY <2>1, FragmentType
  <2> QED BY <2>1, <2>2, SkipType
<1>2. PICK b \in Copying : b = WholeWords(a, len, D, bus)
  <2>1. PICK h : WordsPassed(h, m, a, len, D, bus)
    BY WordsPasses
  <2> QED BY <2>1 DEF WordsPassed, Passes
<1>3. PICK c \in Copying : c = Skip(Fragment(b, D - len0, len, D - len0), 2 * bus)
  <2>1. D - len0 \in Nat /\ D - len0 \in Int /\ 2 * bus \in Int
    OBVIOUS
  <2>2. Fragment(b, D - len0, len, D - len0) \in Copying
    BY <2>1, FragmentType
  <2> QED BY <2>1, <2>2, SkipType
<1>4. BusWord(s, len, len0, D, bus) = c
  BY <1>1, <1>2, <1>3, Zenon DEF BusWord
<1> QED BY <1>4

\* loop_word1, bus word by bus word.
LEMMA WordLoopPasses ==
  ASSUME NEW size \in Nat, size > 0, NEW bus \in Nat, bus > 0, NEW txn \in Payload, NEW len \in Nat, len = Len(txn.data),
         NEW m \in Nat, WordsIn(m, bus, size), NEW n \in Nat, BusWords(n, len, bus),
         NEW len0 \in 0 .. (size - 1), HeadLength(len0, txn, size, bus)
  PROVE  \E h \in Passes(n) :
           /\ h[0] = [ src |-> (bus - (txn.addr % bus)) - len0 + (size - len0), dest |-> 0,
                       left |-> len, done |-> FALSE, pairs |-> {} ]
           /\ \A i \in 1 .. n : h[i] = BusWord(h[i - 1], len, len0, size, bus)
           /\ h[n] = WordLoop(txn, size, bus)
<1> DEFINE D == 1 .. n
           S == Copying
           a == [ src |-> (bus - (txn.addr % bus)) - len0 + (size - len0), dest |-> 0,
                  left |-> len, done |-> FALSE, pairs |-> {} ]
           l == [k \in 1 .. n |-> k]
           g == [p \in Nat \X S |-> IF p[1] \in 1 .. n THEN BusWord(p[2], len, len0, size, bus) ELSE p[2]]
           Body(F, t) == BusWord(F[t \ {Max(t)}], len, len0, size, bus)
           value[t \in SUBSET DOMAIN l] == IF t = {} THEN a ELSE Body(value, t)
<1>1. D = DOMAIN l /\ \A i \in D : l[i] = i
  OBVIOUS
<1>2. WordLoop(txn, size, bus) = value[D]
  <2>1. PICK end : end = value[DOMAIN l]
    OBVIOUS
  <2>2. WordLoop(txn, size, bus) = end
    BY <2>1 DEF BusWords, HeadLength, WordLoop, FoldLeft, MapThenFoldSet
  <2> HIDE DEF value, D, l
  <2> QED BY <1>1, <2>1, <2>2
<1>3. ASSUME NEW i \in 1 .. n, NEW s \in S PROVE BusWord(s, len, len0, size, bus) \in S
  BY BusWordType
<1>4. g \in [Nat \X S -> S]
  <2> HIDE DEF S
  <2> QED BY <1>3
<1>5. \A i \in 1 .. n, s \in S : g[<<i, s>>] = BusWord(s, len, len0, size, bus)
  <2> TAKE i \in 1 .. n, s \in S
  <2>1. <<i, s>> \in Nat \X S
    OBVIOUS
  <2> QED BY <2>1
<1>6. a \in S
  <2>1. txn.addr % bus \in Int
    <3>1. PICK addr \in Int : addr = txn.addr
      BY DEF Payload
    <3>2. addr % bus \in 0 .. (bus - 1)
      BY AlignedParts
    <3> QED BY <3>1, <3>2
  <2>2. (bus - (txn.addr % bus)) - len0 + (size - len0) \in Int
    BY <2>1
  <2>3. {} \in SUBSET (Int \X Int \X Int)
    OBVIOUS
  <2> QED BY <2>2, <2>3 DEF Copying
<1> HIDE DEF g, S, a, l
<1>7. PICK F \in [SUBSET D -> S] : FoldsLeft(F, n, a, g)
  BY <1>4, <1>6, FoldsLeftExist
<1>8. ASSUME NEW t \in SUBSET D, t # {}
      PROVE  Max(t) \in D /\ t \ {Max(t)} \in SUBSET D /\ l[Max(t)] = Max(t)
  BY <1>1, <1>8, MaxIn
<1>9. ASSUME NEW t \in SUBSET D PROVE F[t] = IF t = {} THEN a ELSE Body(F, t)
  <2>1. F[t] = IF t = {} THEN a ELSE g[<<Max(t), F[t \ {Max(t)}]>>]
    BY <1>7 DEF FoldsLeft
  <2>2. CASE t # {}
    <3>1. Max(t) \in 1 .. n /\ F[t \ {Max(t)}] \in S /\ l[Max(t)] = Max(t)
      BY <1>8, <2>2
    <3>2. g[<<Max(t), F[t \ {Max(t)}]>>] = Body(F, t)
      BY <1>5, <3>1
    <3> QED BY <2>1, <2>2, <3>2
  <2> QED BY <2>1, <2>2
<1>10. F = [t \in SUBSET DOMAIN l |-> IF t = {} THEN a ELSE Body(F, t)]
  <2> HIDE DEF D, Body
  <2>1. F = [t \in SUBSET D |-> F[t]]
    BY <1>7
  <2> QED BY <1>1, <1>9, <2>1
<1>11. value = CHOOSE v : v = [t \in SUBSET DOMAIN l |-> IF t = {} THEN a ELSE Body(v, t)]
  OBVIOUS
<1> HIDE DEF value
<1>12. value = [t \in SUBSET DOMAIN l |-> IF t = {} THEN a ELSE Body(value, t)]
  <2> HIDE DEF Body
  <2> QED BY <1>10, <1>11
<1>13. \A t \in SUBSET D : value[t] = IF t = {} THEN a ELSE Body(value, t)
  <2> HIDE DEF Body, D
  <2> QED BY <1>1, <1>12
<1>14. PICK h : Solves(h, n, S, a, g)
  BY <1>4, <1>6, SolutionExists
<1>15. h \in [0 .. n -> S] /\ h[0] = a
  BY <1>14 DEF Solves
<1>16. ASSUME NEW i \in 1 .. n PROVE h[i] = BusWord(h[i - 1], len, len0, size, bus)
  <2>1. h[i] = g[<<i, h[i - 1]>>] /\ h[i - 1] \in S
    BY <1>14, <1>15 DEF Solves
  <2> QED BY <1>5, <2>1
<1>17. value[D] = h[n]
  <2>1. value[{}] = h[0]
    BY <1>13, <1>15
  <2>2. ASSUME NEW i \in 1 .. n, value[1 .. (i - 1)] = h[i - 1] PROVE value[1 .. i] = h[i]
    <3>1. /\ i \in Nat /\ 1 .. i \in SUBSET D /\ 1 .. i # {}
          /\ (1 .. i) \ {i} = 1 .. (i - 1) /\ Max(1 .. i) = i
      BY FirstIndices
    <3>2. value[1 .. i] = Body(value, 1 .. i)
      <4> HIDE DEF Body, D
      <4> QED BY <1>13, <3>1
    <3>3. value[1 .. i] = BusWord(h[i - 1], len, len0, size, bus)
      BY <1>1, <2>2, <3>1, <3>2
    <3> QED BY <1>16, <3>3
  <2>3. Along(value, h, n)
    <3> HIDE DEF Body, D
    <3> QED BY <2>1, <2>2 DEF Along
  <2>4. value[1 .. n] = h[n]
    <3> HIDE DEF Body, D
    <3> QED BY <2>3, AlongPasses
  <2> QED BY <2>4
<1> QED BY <1>2, <1>15, <1>16, <1>17 DEF S, a, Passes

LoopPassed(h, n, txn, len, len0, D, bus) ==
  /\ h \in Passes(n)
  /\ h[0] = [ src |-> (bus - (txn.addr % bus)) - len0 + (D - len0), dest |-> 0,
              left |-> len, done |-> FALSE, pairs |-> {} ]
  /\ \A i \in 1 .. n : h[i] = BusWord(h[i - 1], len, len0, D, bus)
  /\ h[n] = WordLoop(txn, D, bus)

LEMMA LoopPasses ==
  ASSUME NEW D \in Nat, D > 0, NEW bus \in Nat, bus > 0, NEW txn \in Payload, NEW len \in Nat, len = Len(txn.data),
         NEW m \in Nat, WordsIn(m, bus, D), NEW n \in Nat, BusWords(n, len, bus),
         NEW len0 \in 0 .. (D - 1), HeadLength(len0, txn, D, bus)
  PROVE  \E h : LoopPassed(h, n, txn, len, len0, D, bus)
BY WordLoopPasses DEF LoopPassed

LEMMA StretchOf ==
  ASSUME NEW D \in Nat, D > 0, NEW bus \in Nat, bus > 0, Multiple(bus, D),
         NEW o, NEW u, NEW len0, Starts(o, u, len0, D, bus),
         NEW w, Multiple(w, bus), NEW v, Multiple(v, D), NEW r \in Nat, NEW n \in Nat, r + n <= D,
         NEW e \in Nat, e = len0 - v - D + r, e + n <= bus
  PROVE  Stretch(w + u + v + r, w + e, n, o, D, bus)
<1>1. w \in Int /\ u \in Int /\ v \in Int /\ len0 \in Int
  BY DEF Starts, Multiple
<1>2. ASSUME NEW g \in Offsets(n) PROVE Dest((w + u + v + r) + g, o, D, bus) = (w + e) + g
  <2>1. PICK k \in 0 .. (D - 1) : k = r + g /\ g \in 0 .. (n - 1)
    BY DEF Offsets
  <2>2. len0 - v - D + k \in 0 .. (bus - 1) /\ len0 - v - D + k = e + g
    BY <1>1, <2>1
  <2>3. Dest(w + u + v + k, o, D, bus) = w + (len0 - v - D + k)
    BY <2>2, DestOf
  <2>4. (w + u + v + r) + g = w + u + v + k /\ w + (len0 - v - D + k) = (w + e) + g
    BY <1>1, <2>1, <2>2
  <2> QED BY <2>3, <2>4, Zenon
<1> QED BY <1>2, Zenon DEF Stretch

At(s, src, dest) == s.done \/ (s.src = src /\ s.dest = dest)

\* A fragment is copied and the loop goes on behind it.
LEMMA MovesOn ==
  ASSUME NEW D \in Nat, D > 0, NEW bus \in Nat, bus > 0, NEW o \in Int,
         NEW len \in Nat, Multiple(len, D), NEW z, Multiple(z, D),
         NEW r \in Nat, NEW n \in Nat, r + n <= D, NEW move \in Int, move < 0 => r = 0,
         NEW s \in Copying, Copied(s, len, o, D, bus), NEW x, x = z + r, NEW d,
         At(s, x, d), Stretch(x, d, n, o, D, bus)
  PROVE  /\ Fragment(s, n, len, move) \in Copying /\ Copied(Fragment(s, n, len, move), len, o, D, bus)
         /\ At(Fragment(s, n, len, move), x + move, d + n)
<1>1. PICK f \in Copying : f = Fragment(s, n, len, move)
  BY FragmentType
<1>2. ~s.done => s.src = x /\ s.dest = d /\ Stretch(x, d, n, o, D, bus)
  BY DEF At
<1>3. Copied(f, len, o, D, bus) /\ (f.done \/ (f.src = x + move /\ f.dest = d + n))
  BY <1>1, <1>2, FragmentCopies
<1> QED BY <1>1, <1>3, Zenon DEF At

LEMMA SkipsOn ==
  ASSUME NEW s \in Copying, NEW len, NEW o, NEW D, NEW bus, Copied(s, len, o, D, bus), NEW x, NEW d, At(s, x, d),
         NEW n \in Int
  PROVE  /\ Skip(s, n) \in Copying /\ Copied(Skip(s, n), len, o, D, bus) /\ At(Skip(s, n), x + n, d)
<1>1. PICK k \in Copying : k = Skip(s, n) /\ k = [s EXCEPT !.src = s.src + n]
  BY SkipType
<1>2. k.src = s.src + n /\ k.dest = s.dest /\ k.left = s.left /\ k.done = s.done /\ k.pairs = s.pairs
  BY <1>1 DEF Copying
<1>3. Copied(k, len, o, D, bus)
  BY <1>2, Zenon DEF Copied
<1>4. At(k, x + n, d)
  BY <1>2, Zenon DEF At
<1> QED BY <1>1, <1>3, <1>4, Zenon

\* In a bus word there are m data words and the two parts of one.
LEMMA WordsFill ==
  ASSUME NEW D \in Nat, D > 0, NEW bus \in Nat, bus > 0, Multiple(bus, D)
  PROVE  \E m \in Nat : WordsIn(m, bus, D) /\ bus = D * m + D
<1>1. PICK q \in Int : bus = D * q
  BY DEF Multiple
<1>2. q > 0
  <2>1. q <= 0 => D * q <= 0
    OBVIOUS
  <2> QED BY <1>1, <2>1
<1>3. PICK m \in Nat : m = q - 1 /\ q = m + 1
  BY <1>2
<1>4. bus \div D = q
  <2>1. Divided(bus, D, q, 0)
    BY <1>1 DEF Divided
  <2> QED BY <2>1, ByQuotient
<1>5. D * q = D * m + D
  <2>1. D * (m + 1) = D * m + D
    OBVIOUS
  <2> QED BY <1>3, <2>1
<1> QED BY <1>1, <1>3, <1>4, <1>5 DEF WordsIn

\* One bus word: what lies before dest is copied, and dest is a bus word further.
LEMMA BusWordCopies ==
  ASSUME NEW D \in Nat, D > 0, NEW bus \in Nat, bus > 0, Multiple(bus, D),
         NEW o \in Int, NEW u \in Int, NEW len0 \in 0 .. (D - 1), Starts(o, u, len0, D, bus),
         NEW len \in Nat, Multiple(len, D), NEW w \in Nat, Multiple(w, bus),
         NEW s \in Copying, Copied(s, len, o, D, bus), At(s, w + u + (D - len0), w)
  PROVE  /\ BusWord(s, len, len0, D, bus) \in Copying
         /\ Copied(BusWord(s, len, len0, D, bus), len, o, D, bus)
         /\ At(BusWord(s, len, len0, D, bus), (w + bus) + u + (D - len0), w + bus)
<1>1. PICK m \in Nat : WordsIn(m, bus, D) /\ bus = D * m + D
  BY WordsFill
<1>2. PICK z \in Int : z = w + u /\ Multiple(z, D)
  <2>1. Multiple(w, D) /\ Multiple(u, D)
    BY MultipleThrough DEF Starts
  <2> QED BY <2>1, MultipleSum
<1>3. ASSUME NEW v \in Int, Multiple(v, D), NEW r \in Nat, NEW n \in Nat, r + n <= D,
             NEW e \in Nat, e = len0 - v - D + r, e + n <= bus, NEW move \in Int, move < 0 => r = 0,
             NEW k \in Copying, Copied(k, len, o, D, bus), At(k, z + v + r, w + e)
      PROVE  /\ Fragment(k, n, len, move) \in Copying /\ Copied(Fragment(k, n, len, move), len, o, D, bus)
             /\ At(Fragment(k, n, len, move), z + v + r + move, w + e + n)
  <2>1. Stretch(w + u + v + r, w + e, n, o, D, bus)
    BY <1>3, StretchOf
  <2>2. PICK zv \in Int : zv = z + v /\ Multiple(zv, D)
    BY <1>2, <1>3, MultipleSum
  <2>3. PICK x \in Int, d \in Nat : x = z + v + r /\ x = zv + r /\ d = w + e /\ w + u + v + r = x
    BY <1>2, <2>2
  <2>4. At(k, x, d) /\ Stretch(x, d, n, o, D, bus)
    BY <1>3, <2>1, <2>3, Zenon
  <2>5. /\ Fragment(k, n, len, move) \in Copying /\ Copied(Fragment(k, n, len, move), len, o, D, bus)
        /\ At(Fragment(k, n, len, move), x + move, d + n)
    <3>1. x = zv + r /\ Multiple(zv, D) /\ r + n <= D /\ (move < 0 => r = 0)
      BY <1>3, <2>2, <2>3
    <3>2. k \in Copying /\ Copied(k, len, o, D, bus)
      BY <1>3
    <3>3. n \in Nat /\ r \in Nat /\ move \in Int /\ Multiple(len, D)
      OBVIOUS
    <3> QED BY <2>4, <3>1, <3>2, <3>3, MovesOn
  <2> QED BY <2>3, <2>5, Zenon
<1>4. PICK a \in Copying : /\ a = Skip(Fragment(s, len0, len, len0), -2 * D)
                           /\ Copied(a, len, o, D, bus) /\ At(a, z - D, w + len0)
  <2>1. PICK r \in Nat : r = D - len0
    OBVIOUS
  <2>2. Multiple(0, D)
    <3>1. 0 \in Int
      OBVIOUS
    <3> QED BY <3>1, MultipleOf
  <2>3. 0 = len0 - 0 - D + r /\ 0 + len0 <= bus /\ len0 \in Nat /\ len0 \in Int /\ r + len0 <= D /\ ~(len0 < 0)
    <3>1. D * m \in Nat
      OBVIOUS
    <3> QED BY <1>1, <2>1, <3>1
  <2>4. z + 0 + r = w + u + (D - len0) /\ w + 0 = w
    BY <1>2, <2>1
  <2>5. At(s, z + 0 + r, w + 0)
    BY <2>4, Zenon
  <2>6. /\ Fragment(s, len0, len, len0) \in Copying /\ Copied(Fragment(s, len0, len, len0), len, o, D, bus)
        /\ At(Fragment(s, len0, len, len0), z + 0 + r + len0, w + 0 + len0)
    BY <1>3, <2>2, <2>3, <2>5
  <2>7. PICK f \in Copying : /\ f = Fragment(s, len0, len, len0) /\ Copied(f, len, o, D, bus)
                             /\ At(f, z + 0 + r + len0, w + 0 + len0)
    BY <2>6
  <2>8. -2 * D \in Int
    OBVIOUS
  <2>9. /\ Skip(f, -2 * D) \in Copying /\ Copied(Skip(f, -2 * D), len, o, D, bus)
        /\ At(Skip(f, -2 * D), (z + 0 + r + len0) + (-2 * D), w + 0 + len0)
    BY <2>7, <2>8, SkipsOn
  <2>10. (z + 0 + r + len0) + (-2 * D) = z - D /\ w + 0 + len0 = w + len0
    BY <2>1
  <2> QED BY <2>7, <2>9, <2>10, Zenon
<1>5. PICK h : WordsPassed(h, m, a, len, D, bus)
  BY <1>1, WordsPasses
<1> DEFINE P == {i \in 0 .. m : /\ h[i] \in Copying /\ Copied(h[i], len, o, D, bus)
                                /\ At(h[i], z - D * (i + 1), w + (len0 + D * i))}
<1>6. 0 \in P
  <2>1. h[0] = a /\ z - D * (0 + 1) = z - D /\ w + (len0 + D * 0) = w + len0
    BY <1>5 DEF WordsPassed
  <2>2. At(h[0], z - D * (0 + 1), w + (len0 + D * 0))
    BY <1>4, <2>1, Zenon
  <2> QED BY <1>4, <2>1, <2>2
<1>7. ASSUME NEW i \in 1 .. m, i - 1 \in P PROVE i \in P
  <2>1. PICK k \in Copying : /\ k = h[i - 1] /\ Copied(k, len, o, D, bus)
                             /\ At(k, z - D * ((i - 1) + 1), w + (len0 + D * (i - 1)))
    BY <1>7
  <2>2. PICK v \in Int : v = -(D * i) /\ Multiple(v, D)
    <3>1. PICK b \in Int : b = -i
      OBVIOUS
    <3>2. D * (-i) = -(D * i)
      OBVIOUS
    <3>3. D * b = -(D * i)
      BY <3>1, <3>2
    <3>4. Multiple(D * b, D)
      BY MultipleOf
    <3>5. -(D * i) \in Int
      OBVIOUS
    <3> QED BY <3>3, <3>4, <3>5, Zenon
  <2>3. PICK y \in Nat : y = D * (i - 1) /\ D * i = y + D /\ y + 2 * D <= bus
    <3>1. D * i = D * (i - 1) + D /\ D * (i - 1) \in Nat
      OBVIOUS
    <3>2. PICK j \in Nat : j = m - i /\ m = i + j
      OBVIOUS
    <3>3. D * m = D * i + D * j /\ D * j >= 0
      BY <3>2
    <3> QED BY <1>1, <3>1, <3>3
  <2>4. PICK e \in Nat : e = len0 + y
    OBVIOUS
  <2>5. e = len0 - v - D + 0 /\ e + D <= bus /\ 0 + D <= D /\ -D \in Int
    BY <2>2, <2>3, <2>4
  <2>6. z - D * ((i - 1) + 1) = z + v + 0 /\ w + (len0 + D * (i - 1)) = w + e
    <3>1. (i - 1) + 1 = i
      OBVIOUS
    <3> QED BY <2>2, <2>3, <2>4, <3>1
  <2>7. At(k, z + v + 0, w + e)
    BY <2>1, <2>6, Zenon
  <2>8. /\ Fragment(k, D, len, -D) \in Copying /\ Copied(Fragment(k, D, len, -D), len, o, D, bus)
        /\ At(Fragment(k, D, len, -D), z + v + 0 + (-D), w + e + D)
    BY <1>3, <2>1, <2>2, <2>5, <2>7
  <2>9. h[i] = Fragment(k, D, len, -D)
    BY <1>5, <2>1 DEF WordsPassed
  <2>10. z + v + 0 + (-D) = z - D * (i + 1) /\ w + e + D = w + (len0 + D * i)
    <3>1. D * (i + 1) = D * i + D
      OBVIOUS
    <3> QED BY <2>2, <2>3, <2>4, <3>1
  <2>11. At(h[i], z - D * (i + 1), w + (len0 + D * i))
    BY <2>8, <2>9, <2>10, Zenon
  <2>12. h[i] \in Copying /\ Copied(h[i], len, o, D, bus) /\ i \in 0 .. m
    BY <2>8, <2>9
  <2> QED BY <2>11, <2>12
<1>8. m \in P
  <2>1. \A i \in 0 .. m : i \in P
    <3> HIDE DEF P
    <3> QED BY <1>6, <1>7, UpTo
  <2> QED BY <2>1
<1>9. PICK b \in Copying : /\ b = WholeWords(a, len, D, bus) /\ Copied(b, len, o, D, bus)
                           /\ At(b, z - bus, w + (len0 + bus - D))
  <2>1. PICK c \in Int : c = D * m /\ c = bus - D /\ D * (m + 1) = c + D
    BY <1>1
  <2>2. z - D * (m + 1) = z - bus /\ w + (len0 + D * m) = w + (len0 + bus - D)
    BY <2>1
  <2>3. h[m] \in Copying /\ Copied(h[m], len, o, D, bus) /\ At(h[m], z - D * (m + 1), w + (len0 + D * m))
    BY <1>8
  <2>4. h[m] = WholeWords(a, len, D, bus)
    BY <1>5 DEF WordsPassed
  <2> QED BY <2>2, <2>3, <2>4, Zenon
<1>10. PICK f \in Copying : /\ f = Fragment(b, D - len0, len, D - len0) /\ Copied(f, len, o, D, bus)
                            /\ At(f, z - bus + (D - len0), w + bus)
  <2>1. PICK v \in Int : v = -bus /\ Multiple(v, D)
    <3>1. Multiple(0, D)
      <4>1. 0 \in Int
        OBVIOUS
      <4> QED BY <4>1, MultipleOf
    <3>2. Multiple(0 - bus, D)
      BY <3>1, MultipleSum
    <3>3. 0 - bus = -bus /\ -bus \in Int
      OBVIOUS
    <3> QED BY <3>2, <3>3, Zenon
  <2>2. PICK n \in Nat : n = D - len0
    OBVIOUS
  <2>3. PICK e \in Nat : e = len0 + bus - D
    <3>1. D * m \in Nat
      OBVIOUS
    <3> QED BY <1>1, <3>1
  <2>4. e = len0 - v - D + 0 /\ e + n <= bus /\ 0 + n <= D /\ n \in Int /\ ~(n < 0)
    BY <2>1, <2>2, <2>3
  <2>5. z - bus = z + v + 0
    BY <2>1
  <2>6. At(b, z + v + 0, w + e)
    BY <1>9, <2>3, <2>5, Zenon
  <2>7. /\ Fragment(b, n, len, n) \in Copying /\ Copied(Fragment(b, n, len, n), len, o, D, bus)
        /\ At(Fragment(b, n, len, n), z + v + 0 + n, w + e + n)
    BY <1>3, <1>9, <2>1, <2>4, <2>6
  <2>8. z + v + 0 + n = z - bus + (D - len0) /\ w + e + n = w + bus
    BY <2>1, <2>2, <2>3
  <2> QED BY <2>2, <2>7, <2>8, Zenon
<1>11. /\ Skip(f, 2 * bus) \in Copying /\ Copied(Skip(f, 2 * bus), len, o, D, bus)
       /\ At(Skip(f, 2 * bus), (z - bus + (D - len0)) + 2 * bus, w + bus)
  <2>1. 2 * bus \in Int
    OBVIOUS
  <2> QED BY <1>10, <2>1, SkipsOn
<1>12. (z - bus + (D - len0)) + 2 * bus = (w + bus) + u + (D - len0)
  BY <1>2
<1>13. BusWord(s, len, len0, D, bus) = Skip(f, 2 * bus)
  BY <1>4, <1>9, <1>10, Zenon DEF BusWord
<1> QED BY <1>11, <1>12, <1>13, Zenon

\* Where the loop is before the bus word w of the new buffer.
Before(s, w, u, len0, D) == At(s, w + u + (D - len0), w)

LEMMA BusWordMoves ==
  ASSUME NEW D \in Nat, D > 0, NEW bus \in Nat, bus > 0, Multiple(bus, D),
         NEW o \in Int, NEW u \in Int, NEW len0 \in 0 .. (D - 1), Starts(o, u, len0, D, bus),
         NEW len \in Nat, Multiple(len, D), NEW w \in Nat, Multiple(w, bus),
         NEW s \in Copying, Copied(s, len, o, D, bus), Before(s, w, u, len0, D)
  PROVE  /\ BusWord(s, len, len0, D, bus) \in Copying
         /\ Copied(BusWord(s, len, len0, D, bus), len, o, D, bus)
         /\ Before(BusWord(s, len, len0, D, bus), w + bus, u, len0, D)
<1>1. At(s, w + u + (D - len0), w)
  BY Zenon DEF Before
<1>2. /\ BusWord(s, len, len0, D, bus) \in Copying
      /\ Copied(BusWord(s, len, len0, D, bus), len, o, D, bus)
      /\ At(BusWord(s, len, len0, D, bus), (w + bus) + u + (D - len0), w + bus)
  BY <1>1, BusWordCopies
<1> QED BY <1>2, Zenon DEF Before

\* Before the first bus word.
LEMMA NothingCopied ==
  ASSUME NEW D \in Nat, D > 0, NEW bus \in Nat, bus > 0, NEW o \in 0 .. (bus - 1),
         NEW len \in Nat, Multiple(len, D), NEW s, s.dest = 0, s.left = len, s.done = FALSE, s.pairs = {}
  PROVE  Copied(s, len, o, D, bus)
<1>1. Behind(0, len, o, D, bus) = {}
  <2>1. ASSUME NEW i \in Offsets(len), Dest(i, o, D, bus) < 0 PROVE FALSE
    <3>1. PICK w \in Int : w = bus * ((len \div bus) + 2) - 1 /\ Dest(i, o, D, bus) \in 0 .. w
      BY DestWithin
    <3> QED BY <2>1, <3>1
  <2> QED BY <2>1, Zenon DEF Behind
<1>2. len = len - Cardinality(Behind(0, len, o, D, bus))
  BY <1>1, FS_EmptySet
<1> QED BY <1>1, <1>2 DEF Copied

Ended(s, len, bus) == s.done \/ s.dest = bus * ((len \div bus) + 2)

\* When no bytes are left, or all bus words have been passed, all bytes are copied.
LEMMA AllCopied ==
  ASSUME NEW D \in Nat, D > 0, NEW bus \in Nat, bus > 0, NEW o \in 0 .. (bus - 1),
         NEW len \in Nat, Multiple(len, D), NEW s, Copied(s, len, o, D, bus),
         Ended(s, len, bus)
  PROVE  Behind(s.dest, len, o, D, bus) = Offsets(len)
<1> DEFINE B == Behind(s.dest, len, o, D, bus)
<1>1. B \in SUBSET Offsets(len)
  BY DEF Behind
<1>2. CASE s.done
  <2>1. IsFiniteSet(Offsets(len)) /\ Cardinality(Offsets(len)) = len
    <3>1. PICK y \in Int : y = len - 1
      OBVIOUS
    <3>2. IsFiniteSet(0 .. y) /\ Cardinality(0 .. y) = IF 0 > y THEN 0 ELSE y - 0 + 1
      BY FS_Interval
    <3>3. (IF 0 > y THEN 0 ELSE y - 0 + 1) = len
      BY <3>1
    <3> QED BY <3>1, <3>2, <3>3 DEF Offsets
  <2> HIDE DEF B
  <2>2. IsFiniteSet(B) /\ Cardinality(B) <= len /\ (len = Cardinality(B) => Offsets(len) = B)
    BY <1>1, <2>1, FS_Subset
  <2>3. Cardinality(B) \in Int
    BY <2>2, FS_CardinalityType
  <2>4. len - Cardinality(B) <= 0
    <3>1. s.left = len - Cardinality(B) /\ s.left <= 0
      BY <1>2 DEF Copied, B
    <3> QED BY <3>1
  <2>5. len = Cardinality(B)
    BY <2>2, <2>3, <2>4
  <2> QED BY <2>2, <2>5 DEF B
<1>3. CASE s.dest = bus * ((len \div bus) + 2)
  <2>1. ASSUME NEW i \in Offsets(len) PROVE i \in B
    <3>1. len \div bus \in Nat /\ Dest(i, o, D, bus) \in 0 .. (bus * ((len \div bus) + 2) - 1)
      BY DestWithin
    <3>2. PICK w \in Nat : w = bus * ((len \div bus) + 2)
      <4>1. PICK q \in Nat : q = len \div bus
        BY <3>1
      <4>2. bus * (q + 2) \in Nat
        OBVIOUS
      <4> QED BY <4>1, <4>2
    <3>3. Dest(i, o, D, bus) \in 0 .. (w - 1)
      BY <3>1, <3>2, Zenon
    <3>4. Dest(i, o, D, bus) < s.dest
      BY <1>3, <3>2, <3>3
    <3> QED BY <3>4 DEF Behind
  <2> HIDE DEF B
  <2>2. B = Offsets(len)
    BY <1>1, <2>1
  <2> QED BY <2>2 DEF B
<1> QED BY <1>2, <1>3 DEF Ended

WordsCopied(s, len, o, D, bus) ==
  /\ s.dest \in Nat
  /\ \A p \in s.pairs : /\ p[1] \in Offsets(len) /\ p[2] = Dest(p[1], o, D, bus)
                        /\ p[3] = p[1] \/ p[3] = Aligned(p[1], D)
  /\ \A i \in Offsets(len) : Dest(i, o, D, bus) < s.dest /\ \E p \in s.pairs : p[1] = i

\* The loop ends when all bytes are copied, each to its place.
LEMMA WordLoopCopies ==
  ASSUME NEW txn \in Payload, NEW D \in Nat, D > 0, NEW bus \in Nat, bus > 0, Multiple(bus, D),
         NEW len \in Nat, len = Len(txn.data), Multiple(len, D), NEW o \in 0 .. (bus - 1), o = txn.addr % bus
  PROVE  WordsCopied(WordLoop(txn, D, bus), len, o, D, bus)
<1>1. PICK len0 \in 0 .. (D - 1) : len0 = (bus - (txn.addr % bus)) % D /\ Multiple((bus - o) - len0, D)
  <2>1. PICK a \in Int : a = bus - o /\ a = bus - (txn.addr % bus)
    OBVIOUS
  <2>2. a % D \in 0 .. (D - 1) /\ Aligned(a, D) = a - (a % D) /\ Multiple(Aligned(a, D), D)
    BY AlignedParts
  <2> QED BY <2>1, <2>2, Zenon
<1>2. PICK u \in Int : u = (bus - o) - len0
  OBVIOUS
<1>3. Starts(o, u, len0, D, bus)
  BY <1>1, <1>2 DEF Starts
<1>4. PICK m \in Nat : WordsIn(m, bus, D)
  BY WordsFill
<1>5. PICK n \in Nat : BusWords(n, len, bus) /\ n = (len \div bus) + 2
  <2>1. PICK q \in Nat : q = len \div bus
    BY Quotients
  <2>2. PICK k \in Nat : k = q + 2
    OBVIOUS
  <2>3. k = (len \div bus) + 2
    BY <2>1, <2>2
  <2> QED BY <2>3, Zenon DEF BusWords
<1>6. PICK h : LoopPassed(h, n, txn, len, len0, D, bus)
  <2>1. HeadLength(len0, txn, D, bus)
    BY <1>1, Zenon DEF HeadLength
  <2> QED BY <2>1, <1>4, <1>5, LoopPasses
<1> DEFINE P == {i \in 0 .. n : /\ h[i] \in Copying /\ Copied(h[i], len, o, D, bus)
                                /\ Before(h[i], bus * i, u, len0, D)}
<1>7. 0 \in P
  <2>1. PICK s : s = h[0]
    OBVIOUS
  <2>2. s.src = (bus - o) - len0 + (D - len0) /\ s.dest = 0 /\ s.left = len /\ s.done = FALSE /\ s.pairs = {}
    BY <1>6, <2>1 DEF LoopPassed
  <2>3. Copied(s, len, o, D, bus)
    BY <2>2, NothingCopied
  <2>4. bus * 0 = 0 /\ bus * 0 + u + (D - len0) = (bus - o) - len0 + (D - len0)
    BY <1>2
  <2>5. Before(s, bus * 0, u, len0, D)
    BY <2>2, <2>4, Zenon DEF At, Before
  <2>6. s \in Copying
    <3>1. h \in [0 .. n -> Copying] /\ 0 \in 0 .. n
      BY <1>6 DEF LoopPassed, Passes
    <3> QED BY <2>1, <3>1
  <2> QED BY <2>1, <2>3, <2>5, <2>6
<1>8. ASSUME NEW i \in 1 .. n, i - 1 \in P PROVE i \in P
  <2>1. PICK w \in Nat : w = bus * (i - 1) /\ bus * i = w + bus /\ Multiple(w, bus)
    <3>1. PICK j \in Nat : j = i - 1 /\ i = j + 1 /\ j \in Int
      OBVIOUS
    <3>2. bus * (j + 1) = bus * j + bus /\ bus * j \in Nat
      OBVIOUS
    <3>3. Multiple(bus * j, bus)
      BY <3>1, MultipleOf
    <3> QED BY <3>1, <3>2, <3>3
  <2>2. PICK k \in Copying : /\ k = h[i - 1] /\ Copied(k, len, o, D, bus)
                             /\ Before(k, w, u, len0, D)
    BY <1>8, <2>1
  <2>3. /\ BusWord(k, len, len0, D, bus) \in Copying
        /\ Copied(BusWord(k, len, len0, D, bus), len, o, D, bus)
        /\ Before(BusWord(k, len, len0, D, bus), w + bus, u, len0, D)
    <3>1. o \in Int
      OBVIOUS
    <3> QED BY <1>3, <2>1, <2>2, <3>1, BusWordMoves
  <2>4. h[i] = BusWord(k, len, len0, D, bus) /\ i \in 0 .. n
    <3>1. h[i] = BusWord(h[i - 1], len, len0, D, bus)
      BY <1>6, Zenon DEF LoopPassed
    <3>2. i \in 0 .. n
      OBVIOUS
    <3> QED BY <2>2, <3>1, <3>2, Zenon
  <2>5. h[i] \in Copying /\ Copied(h[i], len, o, D, bus) /\ Before(h[i], bus * i, u, len0, D)
    BY <2>1, <2>3, <2>4, Zenon
  <2> QED BY <2>4, <2>5
<1>9. n \in P
  <2>1. \A i \in 0 .. n : i \in P
    <3> HIDE DEF P
    <3> QED BY <1>7, <1>8, UpTo
  <2> QED BY <2>1
<1>10. PICK s \in Copying : /\ s = WordLoop(txn, D, bus) /\ Copied(s, len, o, D, bus)
                            /\ Ended(s, len, bus)
  <2>1. h[n] \in Copying /\ Copied(h[n], len, o, D, bus) /\ Before(h[n], bus * n, u, len0, D)
    BY <1>9
  <2>2. PICK s \in Copying : /\ s = h[n] /\ Copied(s, len, o, D, bus)
                             /\ Before(s, bus * n, u, len0, D)
    BY <2>1
  <2>3. s.done \/ s.dest = bus * n
    BY <2>2, Zenon DEF At, Before
  <2>4. Ended(s, len, bus)
    BY <1>5, <2>3, Zenon DEF Ended
  <2>5. s = WordLoop(txn, D, bus)
    BY <1>6, <2>2, Zenon DEF LoopPassed
  <2> QED BY <2>2, <2>4, <2>5
<1>11. Behind(s.dest, len, o, D, bus) = Offsets(len)
  BY <1>10, AllCopied
<1>12. s.dest \in Nat
  BY DEF Copying
<1>13. \A p \in s.pairs : /\ p[1] \in Offsets(len) /\ p[2] = Dest(p[1], o, D, bus)
                          /\ p[3] = p[1] \/ p[3] = Aligned(p[1], D)
  BY <1>10, <1>11, Zenon DEF Copied
<1>14. \A i \in Offsets(len) : Dest(i, o, D, bus) < s.dest /\ \E p \in s.pairs : p[1] = i
  <2> TAKE i \in Offsets(len)
  <2>1. i \in Behind(s.dest, len, o, D, bus)
    BY <1>11
  <2>2. Dest(i, o, D, bus) < s.dest
    BY <2>1 DEF Behind
  <2>3. \E p \in s.pairs : p[1] = i
    BY <1>10, <2>1, Zenon DEF Copied
  <2> QED BY <2>2, <2>3
<1> QED BY <1>10, <1>12, <1>13, <1>14, Zenon DEF WordsCopied

\* The functions for words move each byte to its place and fetch it from there.
LEMMA WordCarries ==
  ASSUME NEW txn \in Payload, NEW D \in Nat, D > 0, NEW bus \in Nat, bus > 0, Multiple(bus, D),
         PlainPayload(txn, D, bus), NEW C, C = to_word(txn, D, bus)
  PROVE  \E t, n : /\ Carries(C, t, n, txn, D, bus)
                   /\ ~txn.read => Writes(C, t, txn)
                   /\ \A he : txn.read => Fetches(from_word(txn, he, D, bus), he, t, txn)
<1>1. PICK len \in Nat, addr \in Nat : /\ len = Len(txn.data) /\ len > 0 /\ DOMAIN txn.data = 1 .. len
                                       /\ addr = txn.addr
  BY PayloadParts
<1>2. txn.width >= len /\ Multiple(len, D)
  BY <1>1 DEF PlainPayload
<1>3. PICK o \in 0 .. (bus - 1) : o = txn.addr % bus /\ Aligned(addr, bus) = addr - o /\ Multiple(addr - o, bus)
  <2>1. addr % bus \in 0 .. (bus - 1) /\ Aligned(addr, bus) = addr - (addr % bus) /\ Multiple(Aligned(addr, bus), bus)
    <3>1. addr \in Int
      OBVIOUS
    <3> QED BY <3>1, AlignedParts
  <2> QED BY <1>1, <2>1, Zenon
<1>4. PICK loop : loop = WordLoop(txn, D, bus) /\ WordsCopied(loop, len, o, D, bus)
  BY <1>1, <1>2, <1>3, WordLoopCopies
<1>5. PICK n \in Nat : n = loop.dest
  BY <1>4 DEF WordsCopied
<1>5a. PICK P : P = loop.pairs
  OBVIOUS
<1>6. PICK t : t = [i \in Offsets(len) |-> Dest(i, o, D, bus)]
  OBVIOUS
<1>7. ASSUME NEW i \in Offsets(len)
      PROVE  /\ t[i] = Dest(i, o, D, bus) /\ t[i] \in Offsets(n) /\ i \in Nat /\ i < len
             /\ \A k \in Offsets(len) : t[i] = t[k] => i = k
  <2>1. i \in Nat /\ i < len /\ i \in Int /\ o \in Int
    BY DEF Offsets
  <2>2. PICK d \in Int : d = Dest(i, o, D, bus)
    BY <2>1, DestApart
  <2>3. d < n
    BY <1>4, <1>5, <1>5a, <2>2 DEF WordsCopied
  <2>4. d >= 0
    <3>1. PICK w \in Int : w = bus * ((len \div bus) + 2) - 1 /\ Dest(i, o, D, bus) \in 0 .. w
      BY <1>2, DestWithin
    <3> QED BY <2>2, <3>1
  <2>5. d \in Offsets(n)
    BY <2>3, <2>4 DEF Offsets
  <2>6. ASSUME NEW k \in Offsets(len), t[i] = t[k] PROVE i = k
    <3>1. \A m \in Int : Dest(i, o, D, bus) = Dest(m, o, D, bus) => i = m
      BY <2>1, DestApart
    <3>2. k \in Int
      BY DEF Offsets
    <3>3. Dest(i, o, D, bus) = Dest(k, o, D, bus)
      BY <1>6, <2>6
    <3> QED BY <3>1, <3>2, <3>3, Zenon
  <2> QED BY <1>6, <2>1, <2>2, <2>5, <2>6
<1>8. Placement(t, len, n)
  <2>1. t \in [Offsets(len) -> Offsets(n)]
    BY <1>6, <1>7
  <2> QED BY <1>7, <2>1, Zenon DEF Placement
<1>9. Moves(P, t, len)
  <2>1. ASSUME NEW p \in P PROVE p[1] \in Offsets(len) /\ p[2] = t[p[1]]
    <3>1. p[1] \in Offsets(len) /\ p[2] = Dest(p[1], o, D, bus)
      BY <1>4, <1>5, <1>5a, Zenon DEF WordsCopied
    <3> QED BY <1>7, <3>1, Zenon
  <2>2. ASSUME NEW i \in Offsets(len) PROVE \E p \in P : p[1] = i
    BY <1>4, <1>5, <1>5a, Zenon DEF WordsCopied
  <2> QED BY <2>1, <2>2, Zenon DEF Moves
<1>10. PICK moved : moved = IF txn.read THEN {} ELSE P
  OBVIOUS
<1>11. C = [ read |-> txn.read, addr |-> Aligned(addr, bus), width |-> n,
             data |-> NewData(n, moved, txn.data), be |-> NewEnables(n, P, txn.be) ]
  BY <1>1, <1>4, <1>5, <1>5a, <1>10, Zenon DEF to_word
<1>12. /\ C.addr = Aligned(addr, bus) /\ C.width = n
       /\ C.data = NewData(n, moved, txn.data) /\ C.be = NewEnables(n, P, txn.be)
  BY <1>11
<1>13. Len(C.data) = n /\ DOMAIN C.data = 1 .. n
  <2>1. DOMAIN NewData(n, moved, txn.data) = 1 .. n
    BY DEF NewData
  <2> QED BY <1>12, <2>1, NewLengths
<1>14. ASSUME NEW i \in Offsets(len) PROVE PlaceIn(C, t[i]) = PlaceOf(txn, D, bus, i)
  <2>1. PICK j \in Nat : j = t[i] /\ j = Dest(i, o, D, bus) /\ j < n
    <3>1. t[i] \in Offsets(n) /\ t[i] = Dest(i, o, D, bus)
      BY <1>7
    <3> QED BY <3>1 DEF Offsets
  <2>2. PlaceIn(C, j) = Place(C.addr + j, 0)
    <3>1. C.width \in Nat /\ j < C.width
      BY <1>12, <2>1
    <3> QED BY <3>1, PlainHost
  <2>3. PlaceOf(txn, D, bus, i) = Place(Flip(addr + Flip(i, D), bus), 0)
    BY <1>1, <1>2, PlainPlaces
  <2>4. PICK f \in Int, a \in Int : f = Flip(i, D) /\ a = addr - o
    <3>1. i \in Int
      BY <1>7
    <3> QED BY <3>1, AlignedParts
  <2>5. j = Flip(o + f, bus)
    BY <2>1, <2>4, Zenon DEF Dest
  <2>6. Flip(a + (o + f), bus) = a + j
    <3>1. o + f \in Int
      OBVIOUS
    <3> QED BY <1>3, <2>4, <2>5, <3>1, AlignedShift
  <2>7. a + (o + f) = addr + f
    BY <2>4
  <2> QED BY <1>3, <1>12, <2>1, <2>2, <2>3, <2>4, <2>6, <2>7, Zenon
<1>15. ASSUME NEW j \in Offsets(n)
       PROVE  Enabled(C.be, j) <=> \E i \in Offsets(len) : t[i] = j /\ Enabled(txn.be, i)
  <2>1. Enabled(NewEnables(n, P, txn.be), j) <=> \E i \in Offsets(len) : t[i] = j /\ Enabled(txn.be, i)
    BY <1>9, MovedEnables
  <2> QED BY <1>12, <2>1, Zenon
<1>16. Carries(C, t, n, txn, D, bus)
  BY <1>1, <1>8, <1>13, <1>14, <1>15, Zenon DEF Carries
<1>17. ASSUME ~txn.read PROVE Writes(C, t, txn)
  <2>1. ASSUME NEW i \in Offsets(len) PROVE C.data[t[i] + 1] = txn.data[i + 1]
    <3>1. NewData(n, P, txn.data)[t[i] + 1] = txn.data[i + 1]
      BY <1>8, <1>9, MovedData
    <3> QED BY <1>10, <1>12, <1>17, <3>1, Zenon
  <2> QED BY <1>1, <2>1, Zenon DEF Writes
<1>18. ASSUME NEW he, txn.read
       PROVE  Fetches(from_word(txn, he, D, bus), he, t, txn)
  <2>1. PICK data : data = from_word(txn, he, D, bus)
    OBVIOUS
  <2>2. PICK Q : Q = {p \in P : Enabled(txn.be, p[3])}
    OBVIOUS
  <2>3. ASSUME NEW p \in P PROVE Enabled(txn.be, p[3]) <=> Enabled(txn.be, p[1])
    <3>1. p[1] \in Offsets(len) /\ (p[3] = p[1] \/ p[3] = Aligned(p[1], D))
      BY <1>4, <1>5, <1>5a, Zenon DEF WordsCopied
    <3>2. PICK i \in Offsets(len) : i = p[1]
      BY <3>1
    <3>3. Enabled(txn.be, Aligned(i, D)) <=> Enabled(txn.be, i)
      BY <1>1, PlainEnabled
    <3> QED BY <3>1, <3>2, <3>3, Zenon
  <2>4. data = [k \in DOMAIN txn.data |->
                  IF txn.read /\ \E p \in Q : p[1] = k - 1
                  THEN he.data[(CHOOSE p \in Q : p[1] = k - 1)[2] + 1] ELSE txn.data[k]]
    BY <1>4, <1>5, <1>5a, <2>1, <2>2, Zenon DEF from_word
  <2>5. ASSUME NEW i \in Offsets(len)
        PROVE  data[i + 1] = IF Enabled(txn.be, i) THEN he.data[t[i] + 1] ELSE txn.data[i + 1]
    <3>1. i + 1 \in DOMAIN txn.data /\ (i + 1) - 1 = i
      BY <1>1 DEF Offsets
    <3>2. PICK k \in DOMAIN txn.data : k = i + 1 /\ k - 1 = i
      BY <3>1
    <3>3. (\E p \in Q : p[1] = k - 1) <=> Enabled(txn.be, i)
      <4>1. ASSUME NEW p \in Q, p[1] = k - 1 PROVE Enabled(txn.be, i)
        BY <2>2, <2>3, <3>2, <4>1
      <4>2. ASSUME Enabled(txn.be, i) PROVE \E p \in Q : p[1] = k - 1
        <5>1. PICK p \in P : p[1] = i
          BY <1>9 DEF Moves
        <5>2. p \in Q
          BY <2>2, <2>3, <4>2, <5>1
        <5> QED BY <3>2, <5>1, <5>2
      <4> QED BY <4>1, <4>2
    <3>4. data[k] = IF txn.read /\ \E p \in Q : p[1] = k - 1
                    THEN he.data[(CHOOSE p \in Q : p[1] = k - 1)[2] + 1] ELSE txn.data[k]
      BY <2>4, Zenon
    <3>5. PICK c : c = CHOOSE p \in Q : p[1] = k - 1
      OBVIOUS
    <3>6. ASSUME \E p \in Q : p[1] = k - 1 PROVE c[2] = t[i]
      <4>1. c \in Q /\ c[1] = k - 1
        BY <3>5, <3>6, Zenon
      <4>2. c \in P /\ c[1] = i
        BY <2>2, <3>2, <4>1
      <4> QED BY <1>9, <4>2 DEF Moves
    <3> QED BY <1>18, <3>2, <3>3, <3>4, <3>5, <3>6, Zenon
  <2> QED BY <1>1, <2>1, <2>5, Zenon DEF Fetches
<1> QED BY <1>16, <1>17, <1>18, Zenon

-----------------------------------------------------------------------------
(* All functions *)

\* The sizes of data words and bus words are powers of 2, so that the smaller one divides the other.
LEMMA PowersDivide ==
  ASSUME NEW D \in Nat, PowerOf2(D), NEW bus \in Nat, PowerOf2(bus)
  PROVE  D > 0 /\ bus > 0 /\ (D <= bus => Multiple(bus, D))
<1>1. PICK a \in Nat : D = 2 ^ a
  BY DEF PowerOf2
<1>2. PICK b \in Nat : bus = 2 ^ b
  BY DEF PowerOf2
<1>3. D > 0 /\ bus > 0
  BY <1>1, <1>2, PowerPositive
<1>4. CASE a <= b
  <2>1. PICK k \in Nat : k = b - a
    BY <1>4
  <2>2. PICK c \in Nat : c = 2 ^ k
    BY PowerPositive
  <2>3. bus = D * c
    BY <1>1, <1>2, <1>4, <2>1, <2>2, PowerDown
  <2>4. Multiple(bus, D)
    BY <2>3 DEF Multiple
  <2> QED BY <1>3, <2>4
<1>5. CASE ~(a <= b)
  <2>1. PICK k \in Nat : k = a - b /\ k > 0 /\ b <= a
    BY <1>5
  <2>2. D = bus * 2 ^ k
    BY <1>1, <1>2, <2>1, PowerDown
  <2>3. PICK c \in Nat : 2 ^ k = 2 * c /\ c > 0
    BY <2>1, PowerEven
  <2>4. bus * (2 * c) > bus
    <3>1. bus * (2 * c) = 2 * (bus * c) /\ bus * c >= bus
      <4>1. PICK d \in Nat : c = d + 1
        <5>1. c - 1 \in Nat /\ c = (c - 1) + 1
          BY <2>3
        <5> QED BY <5>1
      <4>2. bus * c = bus * d + bus /\ bus * d \in Nat
        BY <4>1
      <4>3. bus * (2 * c) = 2 * (bus * c)
        OBVIOUS
      <4> QED BY <4>2, <4>3
    <3> QED BY <1>3, <3>1
  <2>5. D > bus
    BY <2>2, <2>3, <2>4
  <2> QED BY <1>3, <2>5
<1> QED BY <1>4, <1>5

Fields(C) ==
  C = [read |-> C.read, addr |-> C.addr, data |-> C.data, be |-> C.be, width |-> C.width]

LEMMA AnswerFields ==
  ASSUME NEW C, Fields(C)
  PROVE  /\ Answer(C).be = C.be
         /\ Answer(C).data = [k \in DOMAIN C.data |-> IF Enabled(C.be, k - 1) THEN PlaceIn(C, k - 1) ELSE C.data[k]]
<1>1. PICK d : d = [k \in DOMAIN C.data |-> IF Enabled(C.be, k - 1) THEN PlaceIn(C, k - 1) ELSE C.data[k]]
  OBVIOUS
<1>2. Answer(C) = [C EXCEPT !.data = d]
  BY <1>1 DEF Answer
<1>3. [C EXCEPT !.data = d].be = C.be /\ [C EXCEPT !.data = d].data = d
  BY DEF Fields
<1> QED BY <1>1, <1>2, <1>3, Zenon

\* The bytes reach their places, and come back from there.
Conveyed(f, txn, D, bus, C) ==
  \E t, n : /\ Carries(C, t, n, txn, D, bus)
            /\ ~txn.read => Writes(C, t, txn)
            /\ txn.read => Fetches(from_hostendian(f, txn, Answer(C), D, bus), Answer(C), t, txn)

LEMMA GenericConveyed ==
  ASSUME NEW txn \in Payload, NEW D \in Nat, D > 0, NEW bus \in Nat, bus > 0, InLimits("generic", txn, D, bus),
         NEW C, C = to_generic(txn, D, bus)
  PROVE  Conveyed("generic", txn, D, bus, C)
<1>1. Fields(C)
  BY DEF to_generic, Fields
<1>2. PICK he : he = Answer(C) /\ he.be = C.be
  BY <1>1, AnswerFields
<1>3. PICK t, n : /\ Carries(C, t, n, txn, D, bus)
                  /\ ~txn.read => Writes(C, t, txn)
                  /\ txn.read => Fetches(from_generic(txn, he, D, bus), he, t, txn)
  BY <1>2, GenericCarries
<1>4. from_hostendian("generic", txn, he, D, bus) = from_generic(txn, he, D, bus)
  BY DEF from_hostendian
<1> QED BY <1>2, <1>3, <1>4, Zenon DEF Conveyed

\* Of each function set: written to its place, and read from it.
LEMMA WordConveyed ==
  ASSUME NEW txn \in Payload, NEW D \in Nat, D > 0, NEW bus \in Nat, bus > 0, Multiple(bus, D),
         PlainPayload(txn, D, bus), NEW C, C = to_word(txn, D, bus)
  PROVE  Conveyed("word", txn, D, bus, C)
<1>1. PICK t, n : /\ Carries(C, t, n, txn, D, bus)
                  /\ ~txn.read => Writes(C, t, txn)
                  /\ \A he : txn.read => Fetches(from_word(txn, he, D, bus), he, t, txn)
  BY WordCarries
<1>2. from_hostendian("word", txn, Answer(C), D, bus) = from_word(txn, Answer(C), D, bus)
  BY DEF from_hostendian
<1> QED BY <1>1, <1>2, Zenon DEF Conveyed

LEMMA AlignedConveyed ==
  ASSUME NEW txn \in Payload, NEW D \in Nat, D > 0, NEW bus \in Nat, bus > 0, Multiple(bus, D),
         PlainPayload(txn, D, bus), Multiple(txn.addr, bus), Multiple(Len(txn.data), bus),
         NEW C, C = to_aligned(txn, D, bus)
  PROVE  Conveyed("aligned", txn, D, bus, C)
<1>1. Fields(C)
  <2>1. txn = [read |-> txn.read, addr |-> txn.addr, data |-> txn.data, be |-> txn.be, width |-> txn.width]
    BY DEF Payload
  <2>2. ASSUME NEW d, NEW e, C = [txn EXCEPT !.data = d, !.be = e] PROVE Fields(C)
    BY <2>1, <2>2 DEF Fields
  <2>3. C = txn \/ \E d, e : C = [txn EXCEPT !.data = d, !.be = e]
    BY Zenon DEF to_aligned
  <2> QED BY <2>1, <2>2, <2>3 DEF Fields
<1>2. PICK he : /\ he = Answer(C) /\ he.be = C.be
                /\ he.data = [k \in DOMAIN C.data |->
                                IF Enabled(C.be, k - 1) THEN PlaceIn(C, k - 1) ELSE C.data[k]]
  BY <1>1, AnswerFields
<1>3. PICK t, n : /\ Carries(C, t, n, txn, D, bus)
                  /\ ~txn.read => Writes(C, t, txn)
                  /\ \A a : /\ txn.read /\ a.be = C.be
                            /\ \A j \in Offsets(n) : ~Enabled(C.be, j) => a.data[j + 1] = C.data[j + 1]
                            => Fetches(from_aligned(txn, a, D, bus), a, t, txn)
  BY AlignedCarries
<1>4. ASSUME NEW j \in Offsets(n), ~Enabled(C.be, j) PROVE he.data[j + 1] = C.data[j + 1]
  <2>1. PICK k \in DOMAIN C.data : k = j + 1 /\ k - 1 = j
    BY <1>3 DEF Carries, Offsets
  <2>2. he.data[k] = IF Enabled(C.be, k - 1) THEN PlaceIn(C, k - 1) ELSE C.data[k]
    BY <1>2, Zenon
  <2> QED BY <1>4, <2>1, <2>2, Zenon
<1>5. from_hostendian("aligned", txn, he, D, bus) = from_aligned(txn, he, D, bus)
  BY DEF from_hostendian
<1> QED BY <1>2, <1>3, <1>4, <1>5, Zenon DEF Conveyed

LEMMA SingleConveyed ==
  ASSUME NEW txn \in Payload, NEW D \in Nat, D > 0, NEW bus \in Nat, bus > 0,
         InLimits("single", txn, D, bus), NEW C, C = to_single(txn, D, bus)
  PROVE  Conveyed("single", txn, D, bus, C)
<1>1. Fields(C) /\ C.data = txn.data /\ C.be = txn.be
  <2>1. txn = [read |-> txn.read, addr |-> txn.addr, data |-> txn.data, be |-> txn.be, width |-> txn.width]
    BY DEF Payload
  <2>2. PICK a : C = [txn EXCEPT !.addr = a]
    BY DEF to_single
  <2> QED BY <2>1, <2>2 DEF Fields
<1>2. PICK he : /\ he = Answer(C)
                /\ he.data = [k \in DOMAIN C.data |->
                                IF Enabled(C.be, k - 1) THEN PlaceIn(C, k - 1) ELSE C.data[k]]
  BY <1>1, AnswerFields
<1>3. PICK t : t = [i \in Offsets(D) |-> i]
  OBVIOUS
<1>4. Carries(C, t, D, txn, D, bus) /\ Writes(C, t, txn)
  BY <1>3, SingleCarries
<1>5. Len(txn.data) = D
  BY DEF InLimits
<1>6. Fetches(he.data, he, t, txn)
  <2>1. ASSUME NEW i \in Offsets(D)
        PROVE  he.data[i + 1] = IF Enabled(txn.be, i) THEN he.data[t[i] + 1] ELSE txn.data[i + 1]
    <3>1. PICK k \in DOMAIN C.data : k = i + 1 /\ k - 1 = i
      BY <1>4 DEF Carries, Offsets
    <3>2. he.data[k] = IF Enabled(C.be, k - 1) THEN PlaceIn(C, k - 1) ELSE C.data[k]
      BY <1>2, Zenon
    <3>3. t[i] = i
      BY <1>3
    <3> QED BY <1>1, <3>1, <3>2, <3>3, Zenon
  <2> QED BY <1>5, <2>1, Zenon DEF Fetches
<1>7. from_hostendian("single", txn, he, D, bus) = he.data
  BY DEF from_hostendian, from_single
<1> QED BY <1>2, <1>4, <1>6, <1>7, Zenon DEF Conveyed

\* All four function sets, for words of powers of 2.
LEMMA EveryConveyed ==
  ASSUME NEW txn \in Payload, NEW D \in Nat, PowerOf2(D), NEW bus \in Nat, PowerOf2(bus),
         NEW f \in {"generic", "word", "aligned", "single"}, InLimits(f, txn, D, bus),
         NEW C, C = to_hostendian(f, txn, D, bus)
  PROVE  Conveyed(f, txn, D, bus, C) /\ Fields(C)
<1>1. D > 0 /\ bus > 0 /\ (D <= bus => Multiple(bus, D))
  BY PowersDivide
<1>2. txn = [read |-> txn.read, addr |-> txn.addr, data |-> txn.data, be |-> txn.be, width |-> txn.width]
  BY DEF Payload
<1>3. CASE f = "generic"
  <2>1. C = to_generic(txn, D, bus)
    BY <1>3 DEF to_hostendian
  <2>2. Fields(C)
    BY <2>1 DEF to_generic, Fields
  <2>3. Conveyed("generic", txn, D, bus, C)
    BY <1>1, <1>3, <2>1, GenericConveyed
  <2> QED BY <1>3, <2>2, <2>3
<1>4. CASE f = "word"
  <2>1. C = to_word(txn, D, bus)
    BY <1>4 DEF to_hostendian
  <2>2. Fields(C)
    BY <2>1 DEF to_word, Fields
  <2>3. PlainPayload(txn, D, bus)
    <3>1. "word" \in {"word", "aligned", "single"} /\ InLimits("word", txn, D, bus)
      BY <1>4
    <3> QED BY <1>1, <3>1, LimitsPlain
  <2>4. Multiple(bus, D)
    BY <1>1, <2>3 DEF PlainPayload
  <2>5. Conveyed("word", txn, D, bus, C)
    BY <1>1, <2>1, <2>3, <2>4, WordConveyed
  <2> QED BY <1>4, <2>2, <2>5
<1>5. CASE f = "aligned"
  <2>1. C = to_aligned(txn, D, bus)
    BY <1>5 DEF to_hostendian
  <2>2. Fields(C)
    <3>1. ASSUME NEW d, NEW e, C = [txn EXCEPT !.data = d, !.be = e] PROVE Fields(C)
      BY <1>2, <3>1 DEF Fields
    <3>2. C = txn \/ \E d, e : C = [txn EXCEPT !.data = d, !.be = e]
      BY <2>1, Zenon DEF to_aligned
    <3> QED BY <1>2, <3>1, <3>2 DEF Fields
  <2>3. PlainPayload(txn, D, bus)
    <3>3. "aligned" \in {"word", "aligned", "single"} /\ InLimits("aligned", txn, D, bus)
      BY <1>5
    <3> QED BY <1>1, <3>3, LimitsPlain
  <2>4. Multiple(bus, D)
    BY <1>1, <2>3 DEF PlainPayload
  <2>5. Multiple(txn.addr, bus) /\ Multiple(Len(txn.data), bus)
    <3>1. PICK len \in Nat, addr \in Nat : len = Len(txn.data) /\ addr = txn.addr
      BY PayloadParts
    <3>2. addr % bus = 0 /\ len % bus = 0
      BY <1>5, <3>1 DEF InLimits
    <3>3. Multiple(addr, bus) /\ Multiple(len, bus)
      BY <1>1, <3>2, WholeMultiple
    <3> QED BY <3>1, <3>3
  <2>6. Conveyed("aligned", txn, D, bus, C)
    BY <1>1, <2>1, <2>3, <2>4, <2>5, AlignedConveyed
  <2> QED BY <1>5, <2>2, <2>6
<1>6. CASE f = "single"
  <2>1. C = to_single(txn, D, bus)
    BY <1>6 DEF to_hostendian
  <2>2. Fields(C)
    BY <1>2, <2>1 DEF to_single, Fields
  <2>3. Conveyed("single", txn, D, bus, C)
    BY <1>1, <1>6, <2>1, SingleConveyed
  <2> QED BY <1>6, <2>2, <2>3
<1> QED BY <1>3, <1>4, <1>5, <1>6

===============================================================================
