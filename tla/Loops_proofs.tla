------------------------------ MODULE Loops_proofs ----------------------------
(*****************************************************************************)
(* Proofs about loops over data of any length.  Of Algorithms: the plan of a *)
(* download, the comparison of digit vectors and their copies of another     *)
(* width, and the conversions of payloads (the words are in Words_proofs).   *)
(* Of JtagSequence: the data sent is in its places wherever the offsets      *)
(* count it, and a run returns one value for each command that has one.      *)
(* Of StreamSock, whose agent answers in a loop: the counts are those of the *)
(* unanswered commands, the limits are kept, and the output stays in order.  *)
(* A loop is a recursive function or a fold, which is a function on sets of  *)
(* indices; that it has a solution, and what the solution is after i passes, *)
(* is shown by induction on i over the numbers up to the length.             *)
(*****************************************************************************)
EXTENDS Algorithms, StreamSock, JtagSequence, Operators_proofs

-----------------------------------------------------------------------------
(* Sequences put together *)

\* Concatenation under a name that the provers leave closed, so that they reason about
\* equations and not about elements.
Cat(s, t) == s \o t

LEMMA CatType ==
  ASSUME NEW T, NEW s \in Seq(T), NEW t \in Seq(T)
  PROVE  Cat(s, t) \in Seq(T) /\ Len(Cat(s, t)) = Len(s) + Len(t)
BY DEF Cat

LEMMA CatEmpty ==
  ASSUME NEW T, NEW s \in Seq(T)
  PROVE  Cat(s, <<>>) = s /\ Cat(<<>>, s) = s
BY DEF Cat

LEMMA CatAssociative ==
  ASSUME NEW T, NEW s \in Seq(T), NEW t \in Seq(T), NEW u \in Seq(T)
  PROVE  Cat(Cat(s, t), u) = Cat(s, Cat(t, u))
BY ConcatAssociative DEF Cat

\* Sequences of sequences.
Lists(T) == Seq(Seq(T))

\* h[i] is the first i sequences of ss, one after the other.
Joins(h, ss, T) ==
  /\ h \in [0 .. Len(ss) -> Seq(T)] /\ h[0] = <<>>
  /\ \A i \in 1 .. Len(ss) : h[i] = Cat(h[i - 1], ss[i])

LEMMA JoinsExist ==
  ASSUME NEW T, NEW ss \in Lists(T)
  PROVE  \E h : Joins(h, ss, T)
<1> DEFINE S == Seq(T)
           n == Len(ss)
           g == [x \in Nat \X S |-> IF x[1] \in 1 .. Len(ss) THEN Cat(x[2], ss[x[1]]) ELSE x[2]]
<1>1. g \in [Nat \X S -> S]
  <2> SUFFICES ASSUME NEW x \in Nat \X S
               PROVE  (IF x[1] \in 1 .. Len(ss) THEN Cat(x[2], ss[x[1]]) ELSE x[2]) \in S
    OBVIOUS
  <2>1. x[2] \in Seq(T) /\ (x[1] \in 1 .. Len(ss) => ss[x[1]] \in Seq(T))
    BY DEF Lists
  <2> QED BY <2>1, CatType
<1>2. n \in Nat /\ <<>> \in S
  BY DEF Lists
<1>3. PICK h : Solves(h, n, S, <<>>, g)
  <2> HIDE DEF g, S, n
  <2> QED BY <1>1, <1>2, SolutionExists
<1>4. h \in [0 .. n -> S] /\ h[0] = <<>> /\ \A i \in 1 .. n : h[i] = g[<<i, h[i - 1]>>]
  <2> HIDE DEF g, S, n
  <2> QED BY <1>3 DEF Solves
<1>5. ASSUME NEW i \in 1 .. n PROVE h[i] = Cat(h[i - 1], ss[i])
  <2>1. i \in Nat /\ i - 1 \in 0 .. n
    BY <1>2
  <2>2. h[i - 1] \in S
    <3> HIDE DEF S, n, g
    <3> QED BY <1>4, <2>1
  <2>3. g[<<i, h[i - 1]>>] = Cat(h[i - 1], ss[i])
    BY <2>1, <2>2
  <2> QED BY <1>4, <2>3
<1> QED BY <1>4, <1>5 DEF Joins

\* FlattenSeq puts them all together.
LEMMA FlattenJoins ==
  ASSUME NEW T, NEW ss \in Lists(T), NEW h, Joins(h, ss, T)
  PROVE  FlattenSeq(ss) = h[Len(ss)]
<1> DEFINE n == Len(ss)
           flatten[i \in 1 .. Len(ss)] == IF i = 1 THEN ss[i] ELSE flatten[i - 1] \o ss[i]
<1>1. n \in Nat
  BY DEF Lists
<1>2. CASE n = 0
  BY <1>2 DEF FlattenSeq, Joins
<1>3. CASE n # 0
  <2>1. FlattenSeq(ss) = flatten[n]
    BY <1>3 DEF FlattenSeq
  <2>2. ASSUME NEW i \in 1 .. n
        PROVE  h[i] = Cat(h[i - 1], ss[i]) /\ ss[i] \in Seq(T) /\ (i = 1 => h[i] = ss[i])
    <3>1. h[i] = Cat(h[i - 1], ss[i]) /\ ss[i] \in Seq(T) /\ (i = 1 => h[i - 1] = <<>>)
      BY DEF Joins, Lists
    <3> QED BY <3>1, CatEmpty
  <2> DEFINE f == [i \in 1 .. n |-> h[i]]
  <2>3. f = [i \in 1 .. n |-> IF i = 1 THEN ss[i] ELSE f[i - 1] \o ss[i]]
    <3> SUFFICES ASSUME NEW i \in 1 .. n
                 PROVE  h[i] = IF i = 1 THEN ss[i] ELSE f[i - 1] \o ss[i]
      OBVIOUS
    <3>1. CASE i = 1
      BY <2>2, <3>1
    <3>2. CASE i # 1
      <4>1. f[i - 1] = h[i - 1]
        BY <1>1, <3>2
      <4> QED BY <2>2, <3>2, <4>1, Zenon DEF Cat
    <3> QED BY <3>1, <3>2
  <2>4. flatten = CHOOSE x : x = [i \in 1 .. n |-> IF i = 1 THEN ss[i] ELSE x[i - 1] \o ss[i]]
    OBVIOUS
  <2> HIDE DEF flatten, f
  <2>5. flatten = [i \in 1 .. n |-> IF i = 1 THEN ss[i] ELSE flatten[i - 1] \o ss[i]]
    BY <2>3, <2>4, Zenon
  <2> HIDE DEF n
  <2>6. ASSUME NEW i \in 1 .. n
        PROVE  flatten[i] = IF i = 1 THEN ss[i] ELSE flatten[i - 1] \o ss[i]
    BY <2>5
  <2> DEFINE P == {i \in Nat : i = 0 \/ flatten[i] = h[i]}
  <2>7. 0 \in P
    OBVIOUS
  <2>8. ASSUME NEW i \in 1 .. n, i - 1 \in P PROVE i \in P
    <3>1. i \in Nat /\ (i # 1 => i - 1 # 0)
      BY <1>1
    <3>2. i = 1 \/ flatten[i - 1] = h[i - 1]
      BY <2>8, <3>1
    <3>3. flatten[i] = h[i]
      <4>1. CASE i = 1
        BY <2>2, <2>6, <4>1
      <4>2. CASE i # 1
        <5>1. flatten[i] = flatten[i - 1] \o ss[i]
          BY <2>6, <4>2
        <5>2. flatten[i] = Cat(flatten[i - 1], ss[i])
          BY <5>1 DEF Cat
        <5> QED BY <2>2, <3>2, <4>2, <5>2
      <4> QED BY <4>1, <4>2
    <3> QED BY <3>1, <3>3
  <2>9. \A i \in 0 .. n : i \in P
    <3> HIDE DEF P
    <3> QED BY <1>1, <2>7, <2>8, UpTo
  <2>10. n \in P
    BY <1>1, <2>9
  <2>11. flatten[n] = h[n]
    BY <1>3, <2>10
  <2> QED BY <2>1, <2>11 DEF n
<1> QED BY <1>2, <1>3

-----------------------------------------------------------------------------
(* The plan of a download: what is written and counted *)

BytesCounted(a) == IF a.op \in {"copy", "clear"} THEN a.size ELSE 0

Action == [op : {"copy", "clear", "profile", "setpc"}, off : Nat, addr : Nat, size : Nat]

\* f[i] is the number of bytes of the first i actions.
Totals(f, s) ==
  /\ f \in [0 .. Len(s) -> Nat] /\ f[0] = 0
  /\ \A i \in 1 .. Len(s) : f[i] = f[i - 1] + BytesCounted(s[i])

\* What an action counts for is a number of bytes.
LEMMA CountedType == ASSUME NEW a \in Action PROVE BytesCounted(a) \in Nat
BY DEF BytesCounted, Action

\* The sums after each action exist.
LEMMA TotalsExist ==
  ASSUME NEW s \in Seq(Action)
  PROVE  \E f : Totals(f, s)
<1>0. PICK n \in Nat : n = Len(s)
  OBVIOUS
<1>1. \A i \in 1 .. n : s[i] \in Action /\ BytesCounted(s[i]) \in Nat
  BY <1>0, CountedType
<1> DEFINE g == [x \in Nat \X Nat |-> IF x[1] \in 1 .. n THEN x[2] + BytesCounted(s[x[1]]) ELSE x[2]]
<1>2. g \in [Nat \X Nat -> Nat]
  BY <1>1
<1>3. \A i \in Nat, m \in Nat : g[<<i, m>>] = IF i \in 1 .. n THEN m + BytesCounted(s[i]) ELSE m
  OBVIOUS
<1>4. PICK f : Solves(f, n, Nat, 0, g)
  <2> HIDE DEF g
  <2> QED BY <1>2, SolutionExists
<1>5. ASSUME NEW i \in 1 .. n PROVE f[i] = f[i - 1] + BytesCounted(s[i])
  <2> HIDE DEF g
  <2>1. f \in [0 .. n -> Nat] /\ f[i] = g[<<i, f[i - 1]>>]
    BY <1>4 DEF Solves
  <2>2. f[i - 1] \in Nat /\ i \in Nat
    BY <2>1
  <2> QED BY <1>3, <2>1, <2>2
<1> QED BY <1>0, <1>4, <1>5 DEF Solves, Totals

\* TotalBytes is the sum after the last action.
LEMMA TotalBytesLoop ==
  ASSUME NEW s \in Seq(Action), NEW f, Totals(f, s)
  PROVE  TotalBytes(s) = f[Len(s)]
<1>0. PICK n \in Nat : n = Len(s)
  OBVIOUS
<1> DEFINE D == 1 .. n
           g == [x \in Nat \X Nat |-> IF x[1] \in 1 .. n THEN x[2] + BytesCounted(s[x[1]]) ELSE x[2]]
           Body(F, t) == IF s[Max(t)].op \in {"copy", "clear"} THEN F[t \ {Max(t)}] + s[Max(t)].size
                         ELSE F[t \ {Max(t)}]
           total[t \in SUBSET DOMAIN s] ==
             IF t = {} THEN 0
             ELSE LET x == Max(t)
                  IN IF s[x].op \in {"copy", "clear"} THEN total[t \ {x}] + s[x].size ELSE total[t \ {x}]
<1>1. n \in Nat /\ D = DOMAIN s
  BY <1>0
<1>2. TotalBytes(s) = total[D]
  <2> HIDE DEF total, D, g, Body
  <2>1. TotalBytes(s) = total[DOMAIN s]
    BY DEF TotalBytes, FoldLeft, MapThenFoldSet, total
  <2> QED BY <1>1, <2>1
<1>3. \A i \in 1 .. n : s[i] \in Action /\ BytesCounted(s[i]) \in Nat
  BY <1>0, CountedType
<1>4. g \in [Nat \X Nat -> Nat]
  BY <1>3
<1>5. \A i \in Nat, m \in Nat : g[<<i, m>>] = IF i \in 1 .. n THEN m + BytesCounted(s[i]) ELSE m
  OBVIOUS
<1>6. PICK F \in [SUBSET D -> Nat] : FoldsLeft(F, n, 0, g)
  <2> HIDE DEF g
  <2> QED BY <1>1, <1>4, FoldsLeftExist
<1>7. ASSUME NEW t \in SUBSET D, t # {}
      PROVE  Max(t) \in D /\ t \ {Max(t)} \in SUBSET D
  BY <1>1, <1>7, MaxIn
<1>8. \A t \in SUBSET D : F[t] = IF t = {} THEN 0 ELSE g[<<Max(t), F[t \ {Max(t)}]>>]
  BY <1>6, Zenon DEF FoldsLeft
<1> HIDE DEF g
<1>9. ASSUME NEW t \in SUBSET D, t # {} PROVE F[t] = Body(F, t)
  <2>1. Max(t) \in Nat /\ Max(t) \in 1 .. n /\ F[t \ {Max(t)}] \in Nat
    BY <1>1, <1>7, <1>9
  <2>2. g[<<Max(t), F[t \ {Max(t)}]>>] = F[t \ {Max(t)}] + BytesCounted(s[Max(t)])
    BY <1>5, <2>1
  <2>3. F[t \ {Max(t)}] + BytesCounted(s[Max(t)]) = Body(F, t)
    BY <2>1 DEF BytesCounted
  <2> QED BY <1>8, <1>9, <2>2, <2>3
<1>10. F = [t \in SUBSET DOMAIN s |-> IF t = {} THEN 0 ELSE Body(F, t)]
  <2> HIDE DEF D, Body
  <2>1. F = [t \in SUBSET D |-> F[t]]
    BY <1>6
  <2>2. \A t \in SUBSET D : F[t] = IF t = {} THEN 0 ELSE Body(F, t)
    BY <1>8, <1>9
  <2> QED BY <1>1, <2>1, <2>2
<1>11. total = CHOOSE x : x = [t \in SUBSET DOMAIN s |-> IF t = {} THEN 0 ELSE Body(x, t)]
  OBVIOUS
<1> HIDE DEF total
<1>12. total = [t \in SUBSET DOMAIN s |-> IF t = {} THEN 0 ELSE Body(total, t)]
  <2> HIDE DEF Body
  <2> QED BY <1>10, <1>11
<1>13. \A t \in SUBSET D : total[t] = IF t = {} THEN 0 ELSE Body(total, t)
  <2> HIDE DEF Body, D
  <2> QED BY <1>1, <1>12
<1> DEFINE P == {i \in Nat : total[1 .. i] = f[i]}
<1>14. f \in [0 .. n -> Nat] /\ f[0] = 0 /\ \A i \in 1 .. n : f[i] = f[i - 1] + BytesCounted(s[i])
  BY <1>0 DEF Totals
<1>15. 0 \in P
  <2>1. 1 .. 0 = {}
    OBVIOUS
  <2>2. total[{}] = 0
    BY <1>13
  <2> QED BY <1>14, <2>1, <2>2
<1>16. ASSUME NEW i \in 1 .. n, i - 1 \in P PROVE i \in P
  <2>1. /\ i \in Nat /\ 1 .. i \in SUBSET D /\ 1 .. i # {}
        /\ (1 .. i) \ {i} = 1 .. (i - 1) /\ Max(1 .. i) = i
    BY FirstIndices
  <2>3. total[1 .. (i - 1)] = f[i - 1]
    BY <1>16
  <2>4. total[1 .. i] = Body(total, 1 .. i)
    <3> HIDE DEF Body, D
    <3> QED BY <1>13, <2>1
  <2>5. total[1 .. i] = f[i - 1] + BytesCounted(s[i])
    <3>1. f[i - 1] \in Nat
      BY <1>1, <1>14
    <3>2. total[1 .. i] = IF s[i].op \in {"copy", "clear"} THEN total[(1 .. i) \ {i}] + s[i].size
                          ELSE total[(1 .. i) \ {i}]
      BY <2>1, <2>4
    <3>3. total[1 .. i] = IF s[i].op \in {"copy", "clear"} THEN f[i - 1] + s[i].size ELSE f[i - 1]
      BY <2>1, <2>3, <3>2
    <3> QED BY <3>1, <3>3 DEF BytesCounted
  <2> QED BY <1>14, <2>1, <2>5
<1>17. \A i \in 0 .. n : i \in P
  <2> HIDE DEF P
  <2> QED BY <1>1, <1>15, <1>16, UpTo
<1>18. n \in P
  <2> HIDE DEF P
  <2> QED BY <1>1, <1>17
<1> QED BY <1>0, <1>2, <1>18

\* TotalBytes adds up the sizes of the copies and the clears.
LEMMA TotalNone == ASSUME NEW s \in Seq(Action), Len(s) = 0 PROVE TotalBytes(s) = 0
<1>1. PICK f : Totals(f, s)
  BY TotalsExist
<1>2. TotalBytes(s) = f[Len(s)]
  BY <1>1, TotalBytesLoop
<1> QED BY <1>1, <1>2 DEF Totals

\* One more action adds the bytes it is counted for.
LEMMA TotalAppend ==
  ASSUME NEW s \in Seq(Action), NEW a \in Action
  PROVE  /\ TotalBytes(s) \in Nat
         /\ Append(s, a) \in Seq(Action)
         /\ TotalBytes(Append(s, a)) = TotalBytes(s) + BytesCounted(a)
<1>1. PICK n \in Nat : n = Len(s)
  OBVIOUS
<1>2. PICK t : t = Append(s, a)
  OBVIOUS
<1>3. t \in Seq(Action) /\ Len(t) = n + 1 /\ t[n + 1] = a /\ \A i \in 1 .. n : t[i] = s[i]
  BY <1>1, <1>2
<1>4. PICK f : Totals(f, t)
  BY <1>3, TotalsExist
<1>5. f \in [0 .. (n + 1) -> Nat] /\ f[0] = 0 /\ \A i \in 1 .. (n + 1) : f[i] = f[i - 1] + BytesCounted(t[i])
  BY <1>3, <1>4 DEF Totals
<1>6. PICK e : e = [i \in 0 .. n |-> f[i]]
  OBVIOUS
<1>7. Totals(e, s)
  <2>1. e \in [0 .. n -> Nat] /\ e[0] = 0
    BY <1>5, <1>6
  <2>2. ASSUME NEW i \in 1 .. n PROVE e[i] = e[i - 1] + BytesCounted(s[i])
    <3>1. e[i] = f[i] /\ e[i - 1] = f[i - 1] /\ t[i] = s[i]
      BY <1>3, <1>6
    <3>2. f[i] = f[i - 1] + BytesCounted(t[i])
      BY <1>5
    <3> QED BY <3>1, <3>2
  <2> QED BY <1>1, <2>1, <2>2 DEF Totals
<1>8. TotalBytes(s) = f[n] /\ f[n] \in Nat
  <2>1. TotalBytes(s) = e[n]
    BY <1>1, <1>7, TotalBytesLoop
  <2> QED BY <1>5, <1>6, <2>1
<1>9. TotalBytes(t) = f[n + 1]
  BY <1>3, <1>4, TotalBytesLoop
<1>10. f[n + 1] = f[n] + BytesCounted(a)
  <2>1. PICK m \in 1 .. (n + 1) : m = n + 1
    OBVIOUS
  <2>2. f[m] = f[m - 1] + BytesCounted(t[m]) /\ m - 1 = n
    BY <1>5, <2>1
  <2> QED BY <1>3, <2>1, <2>2
<1> QED BY <1>2, <1>3, <1>8, <1>9, <1>10

\* What is written is added, too.
LEMMA CoverNone == ASSUME NEW s \in Seq(Action), Len(s) = 0 PROVE Cover(s) = {}
BY DEF Cover

\* One more action adds the bytes it writes.
LEMMA CoverAppend ==
  ASSUME NEW s \in Seq(Action), NEW a \in Action
  PROVE  Cover(Append(s, a)) = Cover(s) \cup Written(a)
<1>1. PICK n \in Nat : n = Len(s)
  OBVIOUS
<1>2. PICK t : t = Append(s, a)
  OBVIOUS
<1>3. /\ DOMAIN t = 1 .. (n + 1) /\ DOMAIN s = 1 .. n
      /\ t[n + 1] = a /\ \A i \in 1 .. n : t[i] = s[i]
  BY <1>1, <1>2
<1>4. 1 .. (n + 1) = (1 .. n) \cup {n + 1}
  OBVIOUS
<1>5. Cover(t) = UNION {Written(t[k]) : k \in (1 .. n) \cup {n + 1}}
  BY <1>3, <1>4 DEF Cover
<1>6. Cover(s) = UNION {Written(t[k]) : k \in 1 .. n}
  BY <1>3 DEF Cover
<1>7. Cover(t) = Cover(s) \cup Written(t[n + 1])
  BY <1>5, <1>6
<1> QED BY <1>2, <1>3, <1>7

\* A range of bytes has as many as the range.
LEMMA RangeCount ==
  ASSUME NEW m \in Nat, NEW n \in Nat, m <= n, NEW p \in Nat, NEW S, NEW h \in [m .. (n - 1) -> S],
         \A b \in m .. (n - 1) : h[b][1] = p + b,
         \A x \in S : \E b \in m .. (n - 1) : x = h[b]
  PROVE  IsFiniteSet(S) /\ Cardinality(S) = n - m
<1>1. ASSUME NEW b \in m .. (n - 1), NEW c \in m .. (n - 1), h[b] = h[c] PROVE b = c
  <2>1. p + b = p + c
    BY <1>1
  <2> QED BY <2>1
<1>2. h \in Bijection(m .. (n - 1), S)
  BY <1>1 DEF Bijection, Injection, Surjection, IsInjective
<1>3. ExistsBijection(m .. (n - 1), S)
  BY <1>2 DEF ExistsBijection
<1>4. IsFiniteSet(m .. (n - 1)) /\ Cardinality(m .. (n - 1)) = n - m
  <2>1. m \in Int /\ n - 1 \in Int
    OBVIOUS
  <2>2. IsFiniteSet(m .. (n - 1)) /\ Cardinality(m .. (n - 1)) = IF m > n - 1 THEN 0 ELSE (n - 1) - m + 1
    BY <2>1, FS_Interval
  <2>3. (IF m > n - 1 THEN 0 ELSE (n - 1) - m + 1) = n - m
    OBVIOUS
  <2> QED BY <2>2, <2>3
<1> QED BY <1>3, <1>4, FS_Bijection

\* The bytes of a segment that are in the file are filesz.
LEMMA FileCount ==
  ASSUME NEW ph \in Header
  PROVE  IsFiniteSet(FileBytes(ph)) /\ Cardinality(FileBytes(ph)) = ph.filesz
<1>1. PICK n \in Nat, p \in Nat : n = ph.filesz /\ p = ph.paddr
  BY DEF Header
<1>2. PICK S : S = FileBytes(ph)
  OBVIOUS
<1>3. S = {<<p + b, "file", ph.offset + b>> : b \in 0 .. (n - 1)}
  BY <1>1, <1>2 DEF FileBytes
<1>4. PICK h : h = [b \in 0 .. (n - 1) |-> <<p + b, "file", ph.offset + b>>]
  OBVIOUS
<1>5. h \in [0 .. (n - 1) -> S]
  BY <1>3, <1>4
<1>6. /\ \A b \in 0 .. (n - 1) : h[b][1] = p + b
      /\ \A x \in S : \E b \in 0 .. (n - 1) : x = h[b]
  BY <1>3, <1>4
<1>7. 0 \in Nat /\ 0 <= n /\ n - 0 = n
  OBVIOUS
<1>8. IsFiniteSet(S) /\ Cardinality(S) = n - 0
  BY <1>5, <1>6, <1>7, RangeCount
<1> QED BY <1>1, <1>2, <1>7, <1>8

\* The bytes of a segment that are not in the file are the rest of memsz.
LEMMA ZeroCount ==
  ASSUME NEW ph \in Header
  PROVE  /\ IsFiniteSet(ZeroBytes(ph))
         /\ Cardinality(ZeroBytes(ph)) = IF ph.filesz < ph.memsz THEN ph.memsz - ph.filesz ELSE 0
<1>1. PICK m \in Nat, n \in Nat, p \in Nat : m = ph.filesz /\ n = ph.memsz /\ p = ph.paddr
  BY DEF Header
<1>2. PICK S : S = ZeroBytes(ph)
  OBVIOUS
<1>3. S = {<<p + b, "zero", 0>> : b \in m .. (n - 1)}
  BY <1>1, <1>2 DEF ZeroBytes
<1>4. CASE m < n
  <2>1. PICK h : h = [b \in m .. (n - 1) |-> <<p + b, "zero", 0>>]
    OBVIOUS
  <2>2. h \in [m .. (n - 1) -> S]
    BY <1>3, <2>1
  <2>3. /\ \A b \in m .. (n - 1) : h[b][1] = p + b
        /\ \A x \in S : \E b \in m .. (n - 1) : x = h[b]
    BY <1>3, <2>1
  <2>4. m <= n
    BY <1>4
  <2>5. IsFiniteSet(S) /\ Cardinality(S) = n - m
    BY <2>2, <2>3, <2>4, RangeCount
  <2> QED BY <1>1, <1>2, <1>4, <2>5
<1>5. CASE ~(m < n)
  <2>1. S = {}
    BY <1>3, <1>5
  <2> QED BY <1>1, <1>2, <1>5, <2>1, FS_EmptySet
<1> QED BY <1>4, <1>5

-----------------------------------------------------------------------------
(* The image of a segment *)

SegmentSize(ph, bss) == ph.filesz + IF bss /\ ph.filesz < ph.memsz THEN ph.memsz - ph.filesz ELSE 0

\* What is written for a segment, how much that is, and where.
LEMMA SegmentCount ==
  ASSUME NEW ph \in Header, NEW bss \in BOOLEAN
  PROVE  /\ IsFiniteSet(SegmentImage(ph, bss)) /\ SegmentSize(ph, bss) \in Nat
         /\ Cardinality(SegmentImage(ph, bss)) = SegmentSize(ph, bss)
<1>1. /\ IsFiniteSet(FileBytes(ph)) /\ Cardinality(FileBytes(ph)) = ph.filesz /\ ph.filesz \in Nat
      /\ ph.memsz \in Nat
  BY FileCount DEF Header
<1>2. CASE bss
  <2>1. FileBytes(ph) \cap ZeroBytes(ph) = {}
    BY DEF FileBytes, ZeroBytes
  <2>2. Cardinality(FileBytes(ph) \cap ZeroBytes(ph)) = 0
    BY <2>1, FS_EmptySet
  <2>3. /\ IsFiniteSet(ZeroBytes(ph))
        /\ Cardinality(ZeroBytes(ph)) = IF ph.filesz < ph.memsz THEN ph.memsz - ph.filesz ELSE 0
    BY ZeroCount
  <2>4. /\ IsFiniteSet(FileBytes(ph) \cup ZeroBytes(ph))
        /\ Cardinality(FileBytes(ph) \cup ZeroBytes(ph))
             = Cardinality(FileBytes(ph)) + Cardinality(ZeroBytes(ph)) - Cardinality(FileBytes(ph) \cap ZeroBytes(ph))
    BY <1>1, <2>3, FS_Union
  <2>5. SegmentImage(ph, bss) = FileBytes(ph) \cup ZeroBytes(ph)
    BY <1>2 DEF SegmentImage
  <2>6. SegmentSize(ph, bss) = ph.filesz + Cardinality(ZeroBytes(ph))
    BY <1>2, <2>3 DEF SegmentSize
  <2>7. Cardinality(ZeroBytes(ph)) \in Nat
    BY <1>1, <2>3
  <2> QED BY <1>1, <2>2, <2>4, <2>5, <2>6, <2>7
<1>3. CASE ~bss
  <2>1. SegmentImage(ph, bss) = FileBytes(ph)
    BY <1>3 DEF SegmentImage
  <2> QED BY <1>1, <1>3, <2>1 DEF SegmentSize
<1> QED BY <1>2, <1>3

\* What is written for a segment is where the segment is.
LEMMA SegmentPlace ==
  ASSUME NEW ph \in Header, NEW bss \in BOOLEAN, NEW x \in SegmentImage(ph, bss)
  PROVE  x[1] \in Occupied(ph)
<1>1. PICK m \in Nat, n \in Nat, p \in Nat : m = ph.filesz /\ n = ph.memsz /\ p = ph.paddr
  BY DEF Header
<1>2. CASE x \in FileBytes(ph)
  <2>1. PICK b \in 0 .. (m - 1) : x = <<p + b, "file", ph.offset + b>>
    BY <1>1, <1>2 DEF FileBytes
  <2>2. p + b \in p .. (p + (IF m < n THEN n ELSE m) - 1)
    OBVIOUS
  <2> QED BY <1>1, <2>1, <2>2 DEF Occupied
<1>3. CASE x \in ZeroBytes(ph)
  <2>1. PICK b \in m .. (n - 1) : x = <<p + b, "zero", 0>>
    BY <1>1, <1>3 DEF ZeroBytes
  <2>2. p + b \in p .. (p + (IF m < n THEN n ELSE m) - 1)
    OBVIOUS
  <2> QED BY <1>1, <2>1, <2>2 DEF Occupied
<1> QED BY <1>2, <1>3 DEF SegmentImage

\* The actions of a segment, after others.
LEMMA CopyWrites ==
  ASSUME NEW ph \in Header
  PROVE  LET a == CopyAction(ph.offset, ph.paddr, ph.filesz)
         IN a \in Action /\ Written(a) = FileBytes(ph) /\ BytesCounted(a) = ph.filesz
BY DEF CopyAction, Header, Action, Written, FileBytes, BytesCounted

LEMMA ClearWrites ==
  ASSUME NEW ph \in Header, ph.filesz < ph.memsz
  PROVE  LET a == ClearAction(ph.paddr + ph.filesz, ph.memsz - ph.filesz)
         IN a \in Action /\ Written(a) = ZeroBytes(ph) /\ BytesCounted(a) = ph.memsz - ph.filesz
<1>1. PICK m \in Nat, n \in Nat, p \in Nat : m = ph.filesz /\ n = ph.memsz /\ p = ph.paddr
  BY DEF Header
<1>2. PICK a : a = [op |-> "clear", off |-> 0, addr |-> p + m, size |-> n - m]
  OBVIOUS
<1>3. a \in Action /\ BytesCounted(a) = n - m
  BY <1>1, <1>2 DEF Action, BytesCounted
<1>4. Written(a) = {<<p + m + b, "zero", 0>> : b \in 0 .. (n - m - 1)}
  BY <1>2 DEF Written
<1>5. ZeroBytes(ph) = {<<p + b, "zero", 0>> : b \in m .. (n - 1)}
  BY <1>1 DEF ZeroBytes
<1>6. ASSUME NEW b \in 0 .. (n - m - 1) PROVE <<p + m + b, "zero", 0>> \in {<<p + c, "zero", 0>> : c \in m .. (n - 1)}
  <2>1. PICK c \in m .. (n - 1) : p + c = p + m + b
    <3>1. m + b \in m .. (n - 1) /\ p + (m + b) = p + m + b
      OBVIOUS
    <3> QED BY <3>1
  <2> QED BY <2>1
<1>7. ASSUME NEW c \in m .. (n - 1) PROVE <<p + c, "zero", 0>> \in {<<p + m + b, "zero", 0>> : b \in 0 .. (n - m - 1)}
  <2>1. PICK b \in 0 .. (n - m - 1) : p + c = p + m + b
    <3>1. c - m \in 0 .. (n - m - 1) /\ p + m + (c - m) = p + c
      OBVIOUS
    <3> QED BY <3>1
  <2> QED BY <2>1
<1>8. Written(a) = ZeroBytes(ph)
  BY <1>4, <1>5, <1>6, <1>7
<1>9. a = ClearAction(ph.paddr + ph.filesz, ph.memsz - ph.filesz)
  BY <1>1, <1>2 DEF ClearAction
<1> QED BY <1>1, <1>3, <1>8, <1>9

\* Appending one element is putting its sequence behind.
LEMMA CatOne ==
  ASSUME NEW T, NEW s \in Seq(T), NEW a \in T
  PROVE  Cat(s, <<a>>) = Append(s, a) /\ <<a>> \in Seq(T)
BY DEF Cat

\* SegmentActions adds the image of its segment to what is written, and its size to
\* TotalBytes.
LEMMA SegmentWrites ==
  ASSUME NEW s \in Seq(Action), NEW ph \in Header, NEW bss \in BOOLEAN
  PROVE  LET t == Cat(s, SegmentActions(ph, bss))
             new == IF ph.type = PTLoad THEN SegmentImage(ph, bss) ELSE {}
         IN /\ SegmentActions(ph, bss) \in Seq(Action)
            /\ Cover(t) = Cover(s) \cup new
            /\ TotalBytes(t) = TotalBytes(s) + IF ph.type = PTLoad THEN SegmentSize(ph, bss) ELSE 0
<1>0. ph.filesz \in Nat /\ ph.memsz \in Nat /\ <<>> \in Seq(Action) /\ TotalBytes(s) \in Nat
  BY CopyWrites, TotalAppend DEF Header
<1>1. PICK c : c = CopyAction(ph.offset, ph.paddr, ph.filesz)
  OBVIOUS
<1>2. PICK z : z = ClearAction(ph.paddr + ph.filesz, ph.memsz - ph.filesz)
  OBVIOUS
<1>3. c \in Action /\ Written(c) = FileBytes(ph) /\ BytesCounted(c) = ph.filesz
  BY <1>1, CopyWrites
<1>4. ASSUME ph.filesz < ph.memsz
      PROVE  z \in Action /\ Written(z) = ZeroBytes(ph) /\ BytesCounted(z) = ph.memsz - ph.filesz
  BY <1>2, <1>4, ClearWrites
<1>5. PICK first : first = IF ph.type = PTLoad /\ ph.filesz > 0 THEN <<c>> ELSE <<>>
  OBVIOUS
<1>6. PICK last : last = IF ph.type = PTLoad /\ bss /\ ph.filesz < ph.memsz THEN <<z>> ELSE <<>>
  OBVIOUS
<1>7. SegmentActions(ph, bss) = Cat(first, last)
  BY <1>1, <1>2, <1>5, <1>6 DEF SegmentActions, Cat
<1>8. first \in Seq(Action) /\ last \in Seq(Action)
  BY <1>0, <1>3, <1>4, <1>5, <1>6, CatOne
<1>9. PICK m : m = Cat(s, first)
  OBVIOUS
<1>10. PICK t : t = Cat(m, last)
  OBVIOUS
<1>11. t = Cat(s, SegmentActions(ph, bss)) /\ SegmentActions(ph, bss) \in Seq(Action)
  BY <1>7, <1>8, <1>9, <1>10, CatAssociative, CatType
<1>12. /\ m \in Seq(Action) /\ TotalBytes(m) \in Nat
       /\ Cover(m) = Cover(s) \cup IF ph.type = PTLoad THEN FileBytes(ph) ELSE {}
       /\ TotalBytes(m) = TotalBytes(s) + IF ph.type = PTLoad THEN ph.filesz ELSE 0
  <2>1. CASE ph.type = PTLoad /\ ph.filesz > 0
    <3>1. m = Append(s, c)
      BY <1>3, <1>5, <1>9, <2>1, CatOne
    <3>2. Cover(m) = Cover(s) \cup Written(c)
      BY <1>3, <3>1, CoverAppend
    <3>3. m \in Seq(Action) /\ TotalBytes(m) = TotalBytes(s) + BytesCounted(c)
      BY <1>3, <3>1, TotalAppend
    <3> QED BY <1>0, <1>3, <2>1, <3>2, <3>3
  <2>2. CASE ~(ph.type = PTLoad /\ ph.filesz > 0)
    <3>1. m = s
      BY <1>5, <1>9, <2>2, CatEmpty
    <3>2. ph.type = PTLoad => ph.filesz = 0 /\ FileBytes(ph) = {}
      <4>1. ph.type = PTLoad => ph.filesz = 0
        BY <1>0, <2>2
      <4>2. ph.filesz = 0 => FileBytes(ph) = {}
        BY DEF FileBytes
      <4> QED BY <4>1, <4>2
    <3> QED BY <1>0, <3>1, <3>2
  <2> QED BY <2>1, <2>2
<1>13. /\ Cover(t) = Cover(m) \cup IF ph.type = PTLoad /\ bss THEN ZeroBytes(ph) ELSE {}
       /\ TotalBytes(t) = TotalBytes(m)
            + IF ph.type = PTLoad /\ bss /\ ph.filesz < ph.memsz THEN ph.memsz - ph.filesz ELSE 0
  <2>1. CASE ph.type = PTLoad /\ bss /\ ph.filesz < ph.memsz
    <3>1. t = Append(m, z)
      BY <1>4, <1>6, <1>10, <1>12, <2>1, CatOne
    <3>2. Cover(t) = Cover(m) \cup Written(z)
      BY <1>4, <1>12, <2>1, <3>1, CoverAppend
    <3>3. TotalBytes(t) = TotalBytes(m) + BytesCounted(z)
      BY <1>4, <1>12, <2>1, <3>1, TotalAppend
    <3> QED BY <1>4, <2>1, <3>2, <3>3
  <2>2. CASE ~(ph.type = PTLoad /\ bss /\ ph.filesz < ph.memsz)
    <3>1. t = m
      BY <1>6, <1>10, <1>12, <2>2, CatEmpty
    <3>2. ph.type = PTLoad /\ bss => ZeroBytes(ph) = {}
      <4>1. ~(ph.filesz < ph.memsz) => ZeroBytes(ph) = {}
        BY <1>0 DEF ZeroBytes
      <4> QED BY <2>2, <4>1
    <3> QED BY <1>12, <2>2, <3>1, <3>2
  <2> QED BY <2>1, <2>2
<1>14. Cover(t) = Cover(s) \cup IF ph.type = PTLoad THEN SegmentImage(ph, bss) ELSE {}
  BY <1>12, <1>13 DEF SegmentImage
<1>15. TotalBytes(t) = TotalBytes(s) + IF ph.type = PTLoad THEN SegmentSize(ph, bss) ELSE 0
  BY <1>0, <1>12, <1>13 DEF SegmentSize
<1> QED BY <1>11, <1>14, <1>15

-----------------------------------------------------------------------------
(* The image of a file *)

\* The image of the first i segments.
ImageUpTo(phlist, bss, i) ==
  UNION {SegmentImage(phlist[k], bss) : k \in {j \in Loaded(phlist) : j <= i}}

\* The image of one more segment.
LEMMA ImageGrows ==
  ASSUME NEW phlist \in Seq(Header), NEW bss \in BOOLEAN, NEW i \in 1 .. Len(phlist)
  PROVE  ImageUpTo(phlist, bss, i)
           = ImageUpTo(phlist, bss, i - 1)
             \cup IF phlist[i].type = PTLoad THEN SegmentImage(phlist[i], bss) ELSE {}
<1>1. i \in Nat /\ \A j \in Loaded(phlist) : j \in Nat
  BY DEF Loaded
<1>2. {j \in Loaded(phlist) : j <= i}
        = {j \in Loaded(phlist) : j <= i - 1} \cup IF phlist[i].type = PTLoad THEN {i} ELSE {}
  <2>1. i \in Loaded(phlist) <=> phlist[i].type = PTLoad
    BY DEF Loaded
  <2>2. \A j \in Loaded(phlist) : j <= i <=> (j <= i - 1 \/ j = i)
    BY <1>1
  <2> QED BY <1>1, <2>1, <2>2
<1> QED BY <1>2 DEF ImageUpTo

\* The segments before have no byte in common with one that is apart from them.
LEMMA ImageApart ==
  ASSUME NEW phlist \in Seq(Header), NEW bss \in BOOLEAN, NEW i \in 1 .. Len(phlist),
         Apart(phlist), phlist[i].type = PTLoad
  PROVE  ImageUpTo(phlist, bss, i - 1) \cap SegmentImage(phlist[i], bss) = {}
<1>1. i \in Nat /\ i \in Loaded(phlist) /\ phlist[i] \in Header
  BY DEF Loaded
<1>2. SUFFICES ASSUME NEW x \in ImageUpTo(phlist, bss, i - 1), x \in SegmentImage(phlist[i], bss)
               PROVE  FALSE
  OBVIOUS
<1>3. PICK j \in Loaded(phlist) : j <= i - 1 /\ x \in SegmentImage(phlist[j], bss)
  BY DEF ImageUpTo
<1>4. j \in Nat /\ j # i /\ phlist[j] \in Header
  BY <1>1, <1>3 DEF Loaded
<1>5. x[1] \in Occupied(phlist[j]) /\ x[1] \in Occupied(phlist[i])
  BY <1>1, <1>2, <1>3, <1>4, SegmentPlace
<1> QED BY <1>1, <1>3, <1>4, <1>5 DEF Apart

\* The image, and its number of bytes if the segments are apart, after the first i
\* segments.
LEMMA ImagePlanned ==
  ASSUME NEW phlist \in Seq(Header), NEW bss \in BOOLEAN,
         NEW ss, ss = [i \in DOMAIN phlist |-> SegmentActions(phlist[i], bss)]
  PROVE  /\ FlattenSeq(ss) \in Seq(Action)
         /\ Cover(FlattenSeq(ss)) = Image(phlist, bss)
         /\ Apart(phlist) => TotalBytes(FlattenSeq(ss)) = Cardinality(Image(phlist, bss))
<1>1. PICK n \in Nat : n = Len(phlist)
  OBVIOUS
<1>2. \A i \in 1 .. n : phlist[i] \in Header
  BY <1>1
<1>3. <<>> \in Seq(Action)
  OBVIOUS
<1>4. \A i \in 1 .. n : SegmentActions(phlist[i], bss) \in Seq(Action)
  BY <1>2, <1>3, SegmentWrites
<1>5. ss \in Lists(Action) /\ Len(ss) = n /\ \A i \in 1 .. n : ss[i] = SegmentActions(phlist[i], bss)
  <2>1. DOMAIN phlist = 1 .. n
    BY <1>1
  <2>2. \A i \in 1 .. n : ss[i] = SegmentActions(phlist[i], bss)
    BY <2>1
  <2>3. ss \in [1 .. n -> Seq(Action)]
    BY <1>4, <2>1
  <2>4. \A s \in [1 .. n -> Seq(Action)] : s \in Lists(Action) /\ Len(s) = n
    BY <1>1 DEF Lists
  <2> QED BY <2>2, <2>3, <2>4
<1>6. PICK h : Joins(h, ss, Action)
  BY <1>5, JoinsExist
<1>7. /\ h \in [0 .. n -> Seq(Action)] /\ h[0] = <<>>
      /\ \A i \in 1 .. n : h[i] = Cat(h[i - 1], ss[i])
  BY <1>5, <1>6 DEF Joins
<1>8. FlattenSeq(ss) = h[n]
  BY <1>5, <1>6, FlattenJoins
<1> DEFINE Planned(i) ==
             /\ Cover(h[i]) = ImageUpTo(phlist, bss, i)
             /\ Apart(phlist) => /\ IsFiniteSet(ImageUpTo(phlist, bss, i))
                                /\ TotalBytes(h[i]) = Cardinality(ImageUpTo(phlist, bss, i))
           P == {i \in Nat : Planned(i)}
<1>9. 0 \in P
  <2>1. h[0] \in Seq(Action) /\ Len(h[0]) = 0
    BY <1>7
  <2>2. {j \in Loaded(phlist) : j <= 0} = {}
    BY DEF Loaded
  <2>3. ImageUpTo(phlist, bss, 0) = {}
    BY <2>2 DEF ImageUpTo
  <2>4. Cover(h[0]) = {} /\ TotalBytes(h[0]) = 0
    BY <2>1, CoverNone, TotalNone
  <2>5. IsFiniteSet(ImageUpTo(phlist, bss, 0)) /\ Cardinality(ImageUpTo(phlist, bss, 0)) = 0
    BY <2>3, FS_EmptySet
  <2> QED BY <2>3, <2>4, <2>5
<1>10. ASSUME NEW i \in 1 .. n, i - 1 \in P PROVE i \in P
  <2>1. i \in Nat /\ i - 1 \in 0 .. n /\ i \in 1 .. Len(phlist)
    BY <1>1, FirstIndices
  <2>2. PICK s \in Seq(Action) : s = h[i - 1]
    BY <1>7, <2>1
  <2>3. PICK ph \in Header : ph = phlist[i]
    BY <1>2
  <2>4. Planned(i - 1)
    BY <1>10
  <2>5. h[i] = Cat(s, SegmentActions(ph, bss))
    BY <1>5, <1>7, <2>2, <2>3
  <2>6. /\ Cover(h[i]) = Cover(s) \cup IF ph.type = PTLoad THEN SegmentImage(ph, bss) ELSE {}
        /\ TotalBytes(h[i]) = TotalBytes(s) + IF ph.type = PTLoad THEN SegmentSize(ph, bss) ELSE 0
    BY <2>5, SegmentWrites
  <2>7. PICK before : before = ImageUpTo(phlist, bss, i - 1)
    OBVIOUS
  <2>8. ImageUpTo(phlist, bss, i)
          = before \cup IF ph.type = PTLoad THEN SegmentImage(ph, bss) ELSE {}
    BY <2>1, <2>3, <2>7, ImageGrows
  <2>9. Cover(h[i]) = ImageUpTo(phlist, bss, i)
    BY <2>2, <2>4, <2>6, <2>7, <2>8
  <2>10. ASSUME Apart(phlist)
         PROVE  /\ IsFiniteSet(ImageUpTo(phlist, bss, i))
                /\ TotalBytes(h[i]) = Cardinality(ImageUpTo(phlist, bss, i))
    <3>1. IsFiniteSet(before) /\ TotalBytes(s) = Cardinality(before)
      BY <2>2, <2>4, <2>7, <2>10
    <3>2. TotalBytes(s) \in Nat
      <4>1. Cardinality(before) \in Nat
        BY <3>1, FS_CardinalityType
      <4> QED BY <3>1, <4>1
    <3>3. CASE ph.type = PTLoad
      <4>1. PICK S : S = SegmentImage(ph, bss)
        OBVIOUS
      <4>2. IsFiniteSet(S) /\ Cardinality(S) = SegmentSize(ph, bss) /\ SegmentSize(ph, bss) \in Nat
        BY <4>1, SegmentCount
      <4>3. before \cap S = {}
        BY <2>1, <2>3, <2>7, <2>10, <3>3, <4>1, ImageApart
      <4>4. Cardinality(before \cap S) = 0
        BY <4>3, FS_EmptySet
      <4>5. /\ IsFiniteSet(before \cup S)
            /\ Cardinality(before \cup S) = Cardinality(before) + Cardinality(S) - Cardinality(before \cap S)
        BY <3>1, <4>2, FS_Union
      <4>6. ImageUpTo(phlist, bss, i) = before \cup S
        BY <2>8, <3>3, <4>1
      <4>7. TotalBytes(h[i]) = TotalBytes(s) + SegmentSize(ph, bss)
        BY <2>6, <3>3
      <4> QED BY <3>1, <3>2, <4>2, <4>4, <4>5, <4>6, <4>7
    <3>4. CASE ph.type # PTLoad
      <4>1. ImageUpTo(phlist, bss, i) = before
        BY <2>8, <3>4
      <4>2. TotalBytes(h[i]) = TotalBytes(s)
        BY <2>6, <3>2, <3>4
      <4> QED BY <3>1, <4>1, <4>2
    <3> QED BY <3>3, <3>4
  <2>11. Planned(i)
    BY <2>9, <2>10
  <2> QED BY <2>1, <2>11
<1>11. \A i \in 0 .. n : i \in P
  <2> HIDE DEF P
  <2> QED BY <1>9, <1>10, UpTo
<1>12. Planned(n)
  <2>1. n \in P
    <3> HIDE DEF P
    <3> QED BY <1>11
  <2> QED BY <2>1
<1>13. ImageUpTo(phlist, bss, n) = Image(phlist, bss)
  <2>1. {j \in Loaded(phlist) : j <= n} = Loaded(phlist)
    BY <1>1 DEF Loaded
  <2> QED BY <2>1 DEF ImageUpTo, Image
<1>14. h[n] \in Seq(Action)
  BY <1>7
<1> QED BY <1>8, <1>12, <1>13, <1>14

\* Neither profiling nor the entry point writes a byte.
LEMMA TailWrites ==
  ASSUME NEW s \in Seq(Action), NEW op \in {"profile", "setpc"}, NEW size \in Nat, NEW there \in BOOLEAN
  PROVE  LET t == Cat(s, IF there THEN <<[op |-> op, off |-> 0, addr |-> 0, size |-> size]>> ELSE <<>>)
         IN t \in Seq(Action) /\ Cover(t) = Cover(s) /\ TotalBytes(t) = TotalBytes(s)
<1>1. PICK a : a = [op |-> op, off |-> 0, addr |-> 0, size |-> size]
  OBVIOUS
<1>2. a \in Action /\ Written(a) = {} /\ BytesCounted(a) = 0
  BY <1>1 DEF Action, Written, BytesCounted
<1>3. PICK t : t = Cat(s, IF there THEN <<a>> ELSE <<>>)
  OBVIOUS
<1>4. CASE there
  <2>1. t = Append(s, a)
    BY <1>2, <1>3, <1>4, CatOne
  <2>2. t \in Seq(Action) /\ Cover(t) = Cover(s) \cup Written(a)
    BY <1>2, <2>1, CoverAppend, TotalAppend
  <2>3. TotalBytes(s) \in Nat /\ TotalBytes(t) = TotalBytes(s) + BytesCounted(a)
    BY <1>2, <2>1, TotalAppend
  <2>4. Cover(t) = Cover(s) /\ TotalBytes(t) = TotalBytes(s)
    BY <1>2, <2>2, <2>3
  <2> QED BY <1>1, <1>3, <2>2, <2>4
<1>5. CASE ~there
  <2>1. t = s
    BY <1>3, <1>5, CatEmpty
  <2> QED BY <1>1, <1>3, <2>1
<1> QED BY <1>4, <1>5

\* The plan of a file, with profiling and the entry point or without.
LEMMA PlanWritesImage ==
  ASSUME NEW file \in [phlist : Seq(Header), clear : BOOLEAN, profile : Nat, entry : BOOLEAN]
  PROVE  /\ Cover(PlanOf(file)) = Image(file.phlist, file.clear)
         /\ Apart(file.phlist) => TotalBytes(PlanOf(file)) = Cardinality(Image(file.phlist, file.clear))
<1>1. /\ file.phlist \in Seq(Header) /\ file.clear \in BOOLEAN
      /\ file.profile \in Nat /\ file.entry \in BOOLEAN
  OBVIOUS
<1>2. PICK ss : ss = [i \in DOMAIN file.phlist |-> SegmentActions(file.phlist[i], file.clear)]
  OBVIOUS
<1>3. PICK s : s = FlattenSeq(ss)
  OBVIOUS
<1>4. /\ s \in Seq(Action)
      /\ Cover(s) = Image(file.phlist, file.clear)
      /\ Apart(file.phlist) => TotalBytes(s) = Cardinality(Image(file.phlist, file.clear))
  BY <1>1, <1>2, <1>3, ImagePlanned
<1>5. PICK profiled \in BOOLEAN : profiled <=> file.profile > 0
  <2>1. CASE file.profile > 0
    BY <2>1
  <2>2. CASE ~(file.profile > 0)
    BY <2>2
  <2> QED BY <2>1, <2>2
<1>6. PICK t : t = Cat(s, IF profiled THEN <<[op |-> "profile", off |-> 0, addr |-> 0, size |-> file.profile]>>
                          ELSE <<>>)
  OBVIOUS
<1>7. t \in Seq(Action) /\ Cover(t) = Cover(s) /\ TotalBytes(t) = TotalBytes(s)
  BY <1>1, <1>4, <1>6, TailWrites
<1>8. PICK u : u = Cat(t, IF file.entry THEN <<[op |-> "setpc", off |-> 0, addr |-> 0, size |-> 0]>> ELSE <<>>)
  OBVIOUS
<1>9. Cover(u) = Cover(t) /\ TotalBytes(u) = TotalBytes(t)
  BY <1>1, <1>7, <1>8, TailWrites
<1>10. PlanOf(file) = u
  BY <1>2, <1>3, <1>5, <1>6, <1>8 DEF PlanOf, ElfActions, Cat
<1> QED BY <1>4, <1>7, <1>9, <1>10

\* The least of a set of numbers from k on that has k.
LEMMA MinDownTo ==
  ASSUME NEW n \in Nat, NEW k \in 1 .. n, NEW s \in SUBSET (k .. n), k \in s
  PROVE  Min(s) = k
<1>1. \A x \in s : x \in Nat /\ k <= x
  OBVIOUS
<1>2. \A x \in s : (\A y \in s : x <= y) => x = k
  BY <1>1
<1>3. \E x \in s : \A y \in s : x <= y
  BY <1>1
<1> QED BY <1>2, <1>3 DEF Min

\* A set of numbers up to n that is not empty has a least element, and Min is it.
LEMMA MinIn ==
  ASSUME NEW n \in Nat, NEW s \in SUBSET (1 .. n), s # {}
  PROVE  Min(s) \in s
<1> DEFINE P == {j \in Nat : \A t \in SUBSET ((n - j + 1) .. n) : t # {} => Min(t) \in t}
<1>1. 0 \in P
  <2>1. \A t \in SUBSET ((n - 0 + 1) .. n) : t = {}
    OBVIOUS
  <2> QED BY <2>1
<1>2. ASSUME NEW j \in 1 .. n, j - 1 \in P PROVE j \in P
  <2>1. PICK k \in 1 .. n : k = n - j + 1 /\ k + 1 = n - (j - 1) + 1 /\ k \in Nat /\ j \in Nat
    OBVIOUS
  <2>2. ASSUME NEW t \in SUBSET (k .. n), t # {} PROVE Min(t) \in t
    <3>1. CASE k \in t
      BY <2>1, <3>1, MinDownTo
    <3>2. CASE k \notin t
      <4>1. t \in SUBSET ((k + 1) .. n)
        BY <2>1, <3>2
      <4>2. \A u \in SUBSET ((k + 1) .. n) : u # {} => Min(u) \in u
        BY <1>2, <2>1
      <4> QED BY <2>2, <4>1, <4>2
    <3> QED BY <3>1, <3>2
  <2> QED BY <2>1, <2>2
<1>3. \A j \in 0 .. n : j \in P
  <2> HIDE DEF P
  <2> QED BY <1>1, <1>2, UpTo
<1>4. n \in P
  <2> HIDE DEF P
  <2> QED BY <1>3
<1>5. n - n + 1 = 1
  OBVIOUS
<1> QED BY <1>4, <1>5

\* The indices from i on: taking the first of them away leaves those from i + 1 on.
LEMMA LastIndices ==
  ASSUME NEW n \in Nat, NEW i \in 1 .. n
  PROVE  /\ i \in Nat /\ i + 1 \in 1 .. (n + 1)
         /\ i .. n \in SUBSET (1 .. n) /\ i .. n # {}
         /\ (i .. n) \ {i} = (i + 1) .. n /\ Min(i .. n) = i
<1>1. i \in Nat /\ i + 1 \in 1 .. (n + 1)
  OBVIOUS
<1>2. i .. n \in SUBSET (1 .. n) /\ i .. n \in SUBSET (i .. n)
  OBVIOUS
<1>3. i \in i .. n
  BY <1>1
<1>4. (i .. n) \ {i} = (i + 1) .. n
  BY <1>1
<1>5. Min(i .. n) = i
  BY <1>2, <1>3, MinDownTo
<1> QED BY <1>1, <1>2, <1>3, <1>4, <1>5

\* F is the fold of FoldRight over sets of indices: it takes the least away first.
FoldsRight(F, n, a, g) ==
  F = [s \in SUBSET (1 .. n) |-> IF s = {} THEN a ELSE g[<<Min(s), F[s \ {Min(s)}]>>]]

\* FoldRight is defined by a function on sets of indices: it exists.
LEMMA FoldsRightExist ==
  ASSUME NEW n \in Nat, NEW S, NEW a \in S, NEW g \in [Nat \X S -> S]
  PROVE  \E F : FoldsRight(F, n, a, g) /\ F \in [SUBSET (1 .. n) -> S]
<1> DEFINE Fo(k, F) == \A s \in SUBSET (k .. n) : F[s] = IF s = {} THEN a ELSE g[<<Min(s), F[s \ {Min(s)}]>>]
           P == {j \in Nat : \E F \in [SUBSET ((n - j + 1) .. n) -> S] : Fo(n - j + 1, F)}
<1>1. 0 \in P
  <2>1. \A s \in SUBSET ((n - 0 + 1) .. n) : s = {}
    OBVIOUS
  <2>2. PICK F \in [SUBSET ((n - 0 + 1) .. n) -> S] : F = [s \in SUBSET ((n - 0 + 1) .. n) |-> a]
    OBVIOUS
  <2>3. Fo(n - 0 + 1, F)
    BY <2>1, <2>2
  <2> HIDE DEF Fo
  <2> QED BY <2>3
<1>2. ASSUME NEW j \in 1 .. n, j - 1 \in P PROVE j \in P
  <2>0. PICK k \in 1 .. n : k = n - j + 1 /\ k + 1 = n - (j - 1) + 1 /\ k \in Nat /\ j \in Nat
    OBVIOUS
  <2>1. PICK F \in [SUBSET ((k + 1) .. n) -> S] : Fo(k + 1, F)
    <3> HIDE DEF Fo
    <3> QED BY <1>2, <2>0
  <2>3. ASSUME NEW s \in SUBSET (k .. n), k \notin s PROVE s \in SUBSET ((k + 1) .. n)
    BY <2>0, <2>3
  <2>4. ASSUME NEW s \in SUBSET (k .. n), k \in s
        PROVE  s \ {k} \in SUBSET ((k + 1) .. n) /\ Min(s) = k /\ s # {} /\ k \notin s \ {k}
    BY <2>0, <2>4, MinDownTo
  <2>5. ASSUME NEW s \in SUBSET (k .. n), k \notin s
        PROVE  s \ {Min(s)} \in SUBSET (k .. n) /\ k \notin s \ {Min(s)}
    BY <2>5
  <2> DEFINE G == [s \in SUBSET (k .. n) |-> IF k \in s THEN g[<<k, F[s \ {k}]>>] ELSE F[s]]
  <2>6. G \in [SUBSET (k .. n) -> S]
    <3> SUFFICES ASSUME NEW s \in SUBSET (k .. n)
                 PROVE  (IF k \in s THEN g[<<k, F[s \ {k}]>>] ELSE F[s]) \in S
      OBVIOUS
    <3>1. CASE k \in s
      <4>1. F[s \ {k}] \in S
        BY <2>4, <3>1
      <4>2. <<k, F[s \ {k}]>> \in Nat \X S
        BY <2>0, <4>1
      <4>3. g[<<k, F[s \ {k}]>>] \in S
        BY <4>2
      <4> QED BY <3>1, <4>3
    <3>2. CASE k \notin s
      <4>1. F[s] \in S
        BY <2>3, <3>2
      <4> QED BY <3>2, <4>1
    <3> QED BY <3>1, <3>2
  <2>7. \A s \in SUBSET (k .. n) : G[s] = IF k \in s THEN g[<<k, F[s \ {k}]>>] ELSE F[s]
    OBVIOUS
  <2> HIDE DEF G
  <2>8. ASSUME NEW s \in SUBSET (k .. n)
        PROVE  G[s] = IF s = {} THEN a ELSE g[<<Min(s), G[s \ {Min(s)}]>>]
    <3>1. CASE k \in s
      <4>1. G[s \ {k}] = F[s \ {k}]
        <5>1. s \ {k} \in SUBSET (k .. n)
          OBVIOUS
        <5> QED BY <2>4, <2>7, <3>1, <5>1
      <4>2. G[s] = g[<<k, F[s \ {k}]>>]
        BY <2>7, <3>1
      <4> QED BY <2>4, <3>1, <4>1, <4>2
    <3>2. CASE k \notin s
      <4>1. G[s] = F[s]
        BY <2>7, <3>2
      <4>2. G[s \ {Min(s)}] = F[s \ {Min(s)}]
        BY <2>5, <2>7, <3>2
      <4>3. F[s] = IF s = {} THEN a ELSE g[<<Min(s), F[s \ {Min(s)}]>>]
        BY <2>1, <2>3, <3>2
      <4> QED BY <4>1, <4>2, <4>3
    <3> QED BY <3>1, <3>2
  <2>9. Fo(k, G)
    BY <2>8
  <2> HIDE DEF Fo
  <2> QED BY <2>0, <2>6, <2>9
<1>3. \A j \in 0 .. n : j \in P
  <2> HIDE DEF P
  <2> QED BY <1>1, <1>2, UpTo
<1>4. n \in P
  <2> HIDE DEF P
  <2> QED BY <1>3
<1>5. n - n + 1 = 1
  OBVIOUS
<1>6. PICK F \in [SUBSET (1 .. n) -> S] : Fo(1, F)
  <2> HIDE DEF Fo
  <2> QED BY <1>4, <1>5
<1> HIDE DEF P
<1>7. F = [s \in SUBSET (1 .. n) |-> F[s]]
  OBVIOUS
<1>8. F = [s \in SUBSET (1 .. n) |-> IF s = {} THEN a ELSE g[<<Min(s), F[s \ {Min(s)}]>>]]
  BY <1>6, <1>7
<1> QED BY <1>8 DEF FoldsRight

-----------------------------------------------------------------------------
(* Numbers in places *)

\* V[i] is the value of the places from i on.
Tails(V, radix, s) ==
  /\ V \in [1 .. (Len(s) + 1) -> Int] /\ V[Len(s) + 1] = 0
  /\ \A i \in 1 .. Len(s) : V[i] = s[i] + radix * V[i + 1]

\* The values of the places from each place on exist.
LEMMA TailsExist ==
  ASSUME NEW radix \in Int, NEW s \in Seq(Int)
  PROVE  \E V : Tails(V, radix, s)
<1>0. PICK n \in Nat : n = Len(s)
  OBVIOUS
<1> DEFINE g == [x \in Nat \X Int |-> IF x[1] \in 1 .. n THEN s[n + 1 - x[1]] + radix * x[2] ELSE x[2]]
<1>1. g \in [Nat \X Int -> Int]
  <2> SUFFICES ASSUME NEW x \in Nat \X Int
               PROVE  (IF x[1] \in 1 .. n THEN s[n + 1 - x[1]] + radix * x[2] ELSE x[2]) \in Int
    OBVIOUS
  <2>1. x[1] \in Nat /\ x[2] \in Int
    OBVIOUS
  <2>2. CASE x[1] \in 1 .. n
    <3>1. n + 1 - x[1] \in 1 .. n
      BY <2>1, <2>2
    <3>2. s[n + 1 - x[1]] \in Int
      BY <1>0, <3>1
    <3> QED BY <2>1, <2>2, <3>2
  <2>3. CASE x[1] \notin 1 .. n
    BY <2>1, <2>3
  <2> QED BY <2>2, <2>3
<1>2. \A i \in 1 .. n, m \in Int : g[<<i, m>>] = s[n + 1 - i] + radix * m
  <2> TAKE i \in 1 .. n, m \in Int
  <2>1. <<i, m>> \in Nat \X Int
    OBVIOUS
  <2> QED BY <2>1
<1> HIDE DEF g
<1>3. PICK f : Solves(f, n, Int, 0, g)
  <2>1. 0 \in Int
    OBVIOUS
  <2> QED BY <1>1, <2>1, SolutionExists
<1>4. f \in [0 .. n -> Int] /\ f[0] = 0 /\ \A i \in 1 .. n : f[i] = g[<<i, f[i - 1]>>]
  BY <1>3 DEF Solves
<1>5. PICK V : V = [i \in 1 .. (n + 1) |-> f[n + 1 - i]]
  OBVIOUS
<1>6. V \in [1 .. (n + 1) -> Int]
  BY <1>4, <1>5
<1>7. V[n + 1] = 0
  <2>1. n + 1 \in 1 .. (n + 1) /\ n + 1 - (n + 1) = 0
    OBVIOUS
  <2>2. V[n + 1] = f[n + 1 - (n + 1)]
    BY <1>5, <2>1
  <2> QED BY <1>4, <2>1, <2>2
<1>8. ASSUME NEW i \in 1 .. n PROVE V[i] = s[i] + radix * V[i + 1]
  <2>1. PICK j \in 1 .. n : j = n + 1 - i
    OBVIOUS
  <2>2. i \in 1 .. (n + 1) /\ i + 1 \in 1 .. (n + 1) /\ n + 1 - (i + 1) = j - 1 /\ j - 1 \in 0 .. n /\ n + 1 - j = i
    BY <2>1
  <2>3. V[i] = f[j] /\ V[i + 1] = f[j - 1]
    BY <1>5, <2>1, <2>2
  <2>4. f[j - 1] \in Int
    BY <1>4, <2>2
  <2>5. g[<<j, f[j - 1]>>] = s[n + 1 - j] + radix * f[j - 1]
    BY <1>2, <2>4
  <2>6. f[j] = g[<<j, f[j - 1]>>]
    BY <1>4
  <2> QED BY <2>2, <2>3, <2>5, <2>6
<1> QED BY <1>0, <1>6, <1>7, <1>8 DEF Tails

\* The value of places is the value of the places from the first on.
LEMMA PositionalTails ==
  ASSUME NEW radix \in Int, NEW s \in Seq(Int), NEW V, Tails(V, radix, s)
  PROVE  Positional(radix, s) = V[1]
<1>0. PICK n \in Nat : n = Len(s)
  OBVIOUS
<1> DEFINE D == 1 .. n
           g == [x \in Nat \X Int |-> IF x[1] \in 1 .. n THEN s[x[1]] + radix * x[2] ELSE x[2]]
           Body(F, t) == s[Min(t)] + radix * F[t \ {Min(t)}]
           value[t \in SUBSET DOMAIN s] ==
             IF t = {} THEN 0 ELSE LET x == Min(t) IN s[x] + radix * value[t \ {x}]
<1>1. n \in Nat /\ D = DOMAIN s
  BY <1>0
<1>2. Positional(radix, s) = value[D]
  <2> HIDE DEF value, D, g, Body
  <2>1. Positional(radix, s) = value[DOMAIN s]
    BY DEF Positional, FoldRight, MapThenFoldSet, value
  <2> QED BY <1>1, <2>1
<1>3. \A i \in 1 .. n : s[i] \in Int
  BY <1>0
<1>4. g \in [Nat \X Int -> Int]
  <2> SUFFICES ASSUME NEW x \in Nat \X Int
               PROVE  (IF x[1] \in 1 .. n THEN s[x[1]] + radix * x[2] ELSE x[2]) \in Int
    OBVIOUS
  <2>1. x[2] \in Int
    OBVIOUS
  <2> QED BY <1>3, <2>1
<1>5. \A i \in 1 .. n, m \in Int : g[<<i, m>>] = s[i] + radix * m
  <2> TAKE i \in 1 .. n, m \in Int
  <2>1. <<i, m>> \in Nat \X Int
    OBVIOUS
  <2> QED BY <2>1
<1>6. PICK F \in [SUBSET D -> Int] : FoldsRight(F, n, 0, g)
  <2> HIDE DEF g
  <2>1. 0 \in Int
    OBVIOUS
  <2> QED BY <1>4, <2>1, FoldsRightExist
<1>7. ASSUME NEW t \in SUBSET D, t # {}
      PROVE  Min(t) \in D /\ t \ {Min(t)} \in SUBSET D
  BY <1>1, <1>7, MinIn
<1>8. \A t \in SUBSET D : F[t] = IF t = {} THEN 0 ELSE g[<<Min(t), F[t \ {Min(t)}]>>]
  BY <1>6 DEF FoldsRight
<1> HIDE DEF g
<1>9. ASSUME NEW t \in SUBSET D, t # {} PROVE F[t] = Body(F, t)
  <2>1. Min(t) \in 1 .. n /\ F[t \ {Min(t)}] \in Int
    BY <1>7, <1>9
  <2>2. g[<<Min(t), F[t \ {Min(t)}]>>] = Body(F, t)
    BY <1>5, <2>1
  <2> QED BY <1>8, <1>9, <2>2
<1>10. F = [t \in SUBSET DOMAIN s |-> IF t = {} THEN 0 ELSE Body(F, t)]
  <2> HIDE DEF D, Body
  <2>1. F = [t \in SUBSET D |-> F[t]]
    BY <1>6
  <2>2. \A t \in SUBSET D : F[t] = IF t = {} THEN 0 ELSE Body(F, t)
    BY <1>8, <1>9
  <2> QED BY <1>1, <2>1, <2>2
<1>11. value = CHOOSE x : x = [t \in SUBSET DOMAIN s |-> IF t = {} THEN 0 ELSE Body(x, t)]
  OBVIOUS
<1> HIDE DEF value
<1>12. value = [t \in SUBSET DOMAIN s |-> IF t = {} THEN 0 ELSE Body(value, t)]
  <2> HIDE DEF Body
  <2> QED BY <1>10, <1>11
<1>13. \A t \in SUBSET D : value[t] = IF t = {} THEN 0 ELSE Body(value, t)
  <2> HIDE DEF Body, D
  <2> QED BY <1>1, <1>12
<1>14. V[n + 1] = 0 /\ \A i \in 1 .. n : V[i] = s[i] + radix * V[i + 1]
  BY <1>0 DEF Tails
<1> DEFINE P == {j \in Nat : value[(n - j + 1) .. n] = V[n - j + 1]}
<1>15. 0 \in P
  <2>1. (n - 0 + 1) .. n = {} /\ n - 0 + 1 = n + 1
    OBVIOUS
  <2>2. value[{}] = 0
    BY <1>13
  <2> QED BY <1>14, <2>1, <2>2
<1>16. ASSUME NEW j \in 1 .. n, j - 1 \in P PROVE j \in P
  <2>0. PICK i \in 1 .. n : i = n - j + 1 /\ i + 1 = n - (j - 1) + 1 /\ j \in Nat
    OBVIOUS
  <2>1. /\ i .. n \in SUBSET D /\ i .. n # {}
        /\ (i .. n) \ {i} = (i + 1) .. n /\ Min(i .. n) = i
    BY LastIndices
  <2>2. value[(i + 1) .. n] = V[i + 1]
    BY <1>16, <2>0
  <2>3. value[i .. n] = Body(value, i .. n)
    <3> HIDE DEF Body, D
    <3> QED BY <1>13, <2>1
  <2>4. value[i .. n] = s[i] + radix * V[i + 1]
    BY <2>1, <2>2, <2>3
  <2> QED BY <1>14, <2>0, <2>4
<1>17. \A j \in 0 .. n : j \in P
  <2> HIDE DEF P
  <2> QED BY <1>15, <1>16, UpTo
<1>18. value[(n - n + 1) .. n] = V[n - n + 1]
  <2>1. n \in P
    <3> HIDE DEF P
    <3> QED BY <1>17
  <2> QED BY <2>1
<1>19. n - n + 1 = 1
  OBVIOUS
<1> QED BY <1>2, <1>18, <1>19

-----------------------------------------------------------------------------
(* The comparison of digit vectors *)

\* A set of numbers up to n that is not empty has a greatest element.
LEMMA Greatest ==
  ASSUME NEW n \in Nat, NEW s \in SUBSET (1 .. n), s # {}
  PROVE  \E k \in s : \A j \in s : j <= k
<1>2. \E k \in s : \A j \in s : k >= j
  <2> DEFINE P == {k \in Nat : \A t \in SUBSET (1 .. k) : t # {} => \E m \in t : \A j \in t : m >= j}
  <2>1. 0 \in P
    <3>1. \A t \in SUBSET (1 .. 0) : t = {}
      OBVIOUS
    <3> QED BY <3>1
  <2>2. ASSUME NEW k \in 1 .. n, k - 1 \in P PROVE k \in P
    <3>1. k \in Nat /\ k > 0
      OBVIOUS
    <3>2. ASSUME NEW t \in SUBSET (1 .. k), t # {} PROVE \E m \in t : \A j \in t : m >= j
      <4>1. CASE k \in t
        <5>1. \A j \in t : k >= j
          BY <3>1
        <5> QED BY <4>1, <5>1
      <4>2. CASE k \notin t
        <5>1. t \in SUBSET (1 .. (k - 1))
          BY <3>1, <4>2
        <5> QED BY <2>2, <3>2, <5>1
      <4> QED BY <4>1, <4>2
    <3> QED BY <3>1, <3>2
  <2>3. \A k \in 0 .. n : k \in P
    <3> HIDE DEF P
    <3> QED BY <2>1, <2>2, UpTo
  <2>4. n \in P
    <3> HIDE DEF P
    <3> QED BY <2>3
  <2> QED BY <2>4
<1>3. PICK k \in s : \A j \in s : k >= j
  BY <1>2
<1>4. \A j \in s : j <= k
  BY <1>3
<1> QED BY <1>4

LEMMA RadixPositive == DigitRadix \in Nat /\ DigitRadix > 0
<1>1. BitsPerDigit \in Nat
  BY BitsPerDigitAssumption
<1> QED BY <1>1, PowerPositive DEF DigitRadix

Digits0(n, u) == [i \in 1 .. n |-> IF i <= Len(u) THEN u[i] ELSE 0]

\* V[i] is the value of the digits d from i on.
Values(V, n, radix, d) ==
  /\ V \in [1 .. (n + 1) -> Nat] /\ V[n + 1] = 0
  /\ \A i \in 1 .. n : V[i] = d[i] + radix * V[i + 1]

\* The value of a vector is that of the vector with zeroes behind it.
LEMMA PaddedValue ==
  ASSUME NEW radix \in Nat, NEW u \in Seq(Nat), NEW n \in Nat, Len(u) <= n
  PROVE  \E V : Values(V, n, radix, Digits0(n, u)) /\ V[1] = Positional(radix, u)
<1>0. PICK m \in Nat : m = Len(u)
  OBVIOUS
<1>1. PICK V : Tails(V, radix, u)
  <2>1. radix \in Int /\ u \in Seq(Int)
    OBVIOUS
  <2> QED BY <2>1, TailsExist
<1>2. /\ V \in [1 .. (m + 1) -> Int] /\ V[m + 1] = 0 
      /\ \A i \in 1 .. m : V[i] = u[i] + radix * V[i + 1]
  BY <1>0, <1>1 DEF Tails
<1>3. \A i \in 1 .. (m + 1) : V[i] \in Nat
  <2> DEFINE P == {j \in Nat : V[m - j + 1] \in Nat}
  <2>1. 0 \in P
    BY <1>2
  <2>2. ASSUME NEW j \in 1 .. m, j - 1 \in P PROVE j \in P
    <3>1. PICK i \in 1 .. m : i = m - j + 1 /\ i + 1 = m - (j - 1) + 1 /\ j \in Nat
      OBVIOUS
    <3>2. V[i + 1] \in Nat
      BY <2>2, <3>1
    <3>3. u[i] \in Nat
      BY <1>0
    <3>4. PICK r : r = radix * V[i + 1]
      OBVIOUS
    <3>5. r \in Nat
      BY <3>2, <3>4
    <3>6. V[i] = u[i] + r
      BY <1>2, <3>4
    <3>7. V[i] \in Nat
      BY <3>3, <3>5, <3>6
    <3> QED BY <3>1, <3>7
  <2>3. \A j \in 0 .. m : j \in P
    <3> HIDE DEF P
    <3> QED BY <2>1, <2>2, UpTo
  <2> TAKE i \in 1 .. (m + 1)
  <2>4. PICK j \in 0 .. m : i = m - j + 1
    <3>1. m + 1 - i \in 0 .. m /\ i = m - (m + 1 - i) + 1
      OBVIOUS
    <3> QED BY <3>1
  <2> QED BY <2>3, <2>4
<1>4. PICK U : U = [i \in 1 .. (n + 1) |-> IF i <= m THEN V[i] ELSE 0]
  OBVIOUS
<1>5. U \in [1 .. (n + 1) -> Nat] /\ U[n + 1] = 0
  <2>1. \A i \in 1 .. (n + 1) : i <= m => V[i] \in Nat
    BY <1>3
  <2>2. n + 1 \in 1 .. (n + 1) /\ ~(n + 1 <= m)
    BY <1>0
  <2> QED BY <1>4, <2>1, <2>2
<1>6. ASSUME NEW i \in 1 .. n PROVE U[i] = Digits0(n, u)[i] + radix * U[i + 1]
  <2>1. i \in 1 .. (n + 1) /\ i + 1 \in 1 .. (n + 1) /\ i \in Nat
    OBVIOUS
  <2>2. /\ U[i] = IF i <= m THEN V[i] ELSE 0
        /\ U[i + 1] = IF i + 1 <= m THEN V[i + 1] ELSE 0
        /\ Digits0(n, u)[i] = IF i <= m THEN u[i] ELSE 0
    BY <1>0, <1>4, <2>1 DEF Digits0
  <2>3. CASE i < m
    BY <1>2, <2>1, <2>2, <2>3
  <2>4. CASE i = m
    <3>1. V[i] = u[i] + radix * V[i + 1] /\ V[i + 1] = 0 /\ U[i + 1] = 0
      BY <1>2, <2>1, <2>2, <2>4
    <3> QED BY <2>1, <2>2, <2>4, <3>1
  <2>5. CASE i > m
    <3>1. U[i] = 0 /\ U[i + 1] = 0 /\ Digits0(n, u)[i] = 0
      BY <2>1, <2>2, <2>5
    <3>2. radix * 0 = 0
      OBVIOUS
    <3> QED BY <3>1, <3>2
  <2> QED BY <2>1, <2>3, <2>4, <2>5
<1>7. Positional(radix, u) = V[1]
  <2>1. u \in Seq(Int)
    OBVIOUS
  <2> QED BY <1>1, <2>1, PositionalTails
<1>8. U[1] = V[1]
  <2>1. 1 \in 1 .. (n + 1) /\ 1 \in 1 .. (m + 1)
    OBVIOUS
  <2>2. CASE 1 <= m
    BY <1>4, <2>1, <2>2
  <2>3. CASE ~(1 <= m)
    BY <1>2, <1>4, <2>1, <2>3
  <2> QED BY <2>2, <2>3
<1> QED BY <1>5, <1>6, <1>7, <1>8 DEF Values

SameAbove(n, k, c, d) == \A i \in 1 .. n : i > k => c[i] = d[i]

\* The greatest place that differs decides, whatever is below it.
LEMMA GreatestDecides ==
  ASSUME NEW n \in Nat, NEW radix \in Nat, radix > 0,
         NEW c \in [1 .. n -> 0 .. (radix - 1)], NEW d \in [1 .. n -> 0 .. (radix - 1)],
         NEW U, Values(U, n, radix, c), NEW V, Values(V, n, radix, d),
         NEW k \in 1 .. n, c[k] < d[k], SameAbove(n, k, c, d)
  PROVE  U[1] < V[1]
<1>1. /\ U \in [1 .. (n + 1) -> Nat] /\ U[n + 1] = 0 /\ \A i \in 1 .. n : U[i] = c[i] + radix * U[i + 1]
      /\ V \in [1 .. (n + 1) -> Nat] /\ V[n + 1] = 0 /\ \A i \in 1 .. n : V[i] = d[i] + radix * V[i + 1]
  BY DEF Values
<1> DEFINE P == {j \in Nat : LET i == n - j + 1 IN IF i > k THEN U[i] = V[i] ELSE U[i] < V[i]}
<1>2. 0 \in P
  BY <1>1
<1>3. ASSUME NEW j \in 1 .. n, j - 1 \in P PROVE j \in P
  <2>1. PICK i \in 1 .. n : i = n - j + 1 /\ i + 1 = n - (j - 1) + 1 /\ j \in Nat /\ i \in Nat
    OBVIOUS
  <2>2. IF i + 1 > k THEN U[i + 1] = V[i + 1] ELSE U[i + 1] < V[i + 1]
    BY <1>3, <2>1
  <2>3. PICK u \in Nat, v \in Nat : u = U[i + 1] /\ v = V[i + 1]
    <3>1. i + 1 \in 1 .. (n + 1)
      BY <2>1
    <3>2. U[i + 1] \in Nat /\ V[i + 1] \in Nat
      BY <1>1, <3>1
    <3> QED BY <3>2
  <2>4. U[i] = c[i] + radix * u /\ V[i] = d[i] + radix * v
    BY <1>1, <2>3
  <2>5. c[i] \in 0 .. (radix - 1) /\ d[i] \in 0 .. (radix - 1)
    OBVIOUS
  <2>6. radix * u \in Nat /\ radix * v \in Nat
    OBVIOUS
  <2>7. IF i > k THEN U[i] = V[i] ELSE U[i] < V[i]
    <3>1. CASE i > k
      <4>1. u = v
        BY <2>1, <2>2, <2>3, <3>1
      <4>2. c[i] = d[i]
        BY <3>1 DEF SameAbove
      <4> QED BY <2>4, <3>1, <4>1, <4>2
    <3>2. CASE i = k
      <4>1. u = v
        BY <2>2, <2>3, <3>2
      <4> QED BY <2>4, <2>5, <2>6, <3>2, <4>1
    <3>3. CASE i < k
      <4>1. u + 1 <= v
        <5>1. i + 1 <= k /\ ~(i + 1 > k)
          BY <2>1, <2>2, <3>3
        <5>2. u < v
          BY <2>2, <2>3, <5>1
        <5> QED BY <5>2
      <4>2. PICK w \in Nat : v = u + 1 + w
        <5>1. v - (u + 1) \in Nat /\ v = u + 1 + (v - (u + 1))
          BY <4>1
        <5> QED BY <5>1
      <4>3. PICK p \in Nat, q \in Nat, r \in Nat : p = radix * u /\ q = radix * v /\ r = radix * w
        BY <2>6, <4>2
      <4>4. q = p + radix + r
        BY <4>2, <4>3
      <4>5. PICK a \in 0 .. (radix - 1), b \in 0 .. (radix - 1) : a = c[i] /\ b = d[i]
        BY <2>5
      <4>6. a + p < b + q
        BY <4>4
      <4>7. U[i] < V[i]
        BY <2>4, <4>3, <4>5, <4>6
      <4> QED BY <3>3, <4>7
    <3> QED BY <2>1, <3>1, <3>2, <3>3
  <2> QED BY <2>1, <2>7
<1>4. \A j \in 0 .. n : j \in P
  <2> HIDE DEF P
  <2> QED BY <1>2, <1>3, UpTo
<1>5. n \in P
  <2> HIDE DEF P
  <2> QED BY <1>4
<1>6. n - n + 1 = 1 /\ ~(1 > k)
  OBVIOUS
<1> QED BY <1>5, <1>6

\* Vectors without a place that differs have the same value.
LEMMA NoneDiffers ==
  ASSUME NEW n \in Nat, NEW radix \in Nat, NEW c,
         NEW U, Values(U, n, radix, c), NEW V, Values(V, n, radix, c)
  PROVE  U[1] = V[1]
<1>1. /\ U \in [1 .. (n + 1) -> Nat] /\ U[n + 1] = 0 /\ \A i \in 1 .. n : U[i] = c[i] + radix * U[i + 1]
      /\ V \in [1 .. (n + 1) -> Nat] /\ V[n + 1] = 0 /\ \A i \in 1 .. n : V[i] = c[i] + radix * V[i + 1]
  BY DEF Values
<1> DEFINE P == {j \in Nat : U[n - j + 1] = V[n - j + 1]}
<1>2. 0 \in P
  BY <1>1
<1>3. ASSUME NEW j \in 1 .. n, j - 1 \in P PROVE j \in P
  <2>1. PICK i \in 1 .. n : i = n - j + 1 /\ i + 1 = n - (j - 1) + 1 /\ j \in Nat
    OBVIOUS
  <2>2. U[i + 1] = V[i + 1]
    BY <1>3, <2>1
  <2>3. U[i] = V[i]
    BY <1>1, <2>2
  <2> QED BY <2>1, <2>3
<1>4. \A j \in 0 .. n : j \in P
  <2> HIDE DEF P
  <2> QED BY <1>2, <1>3, UpTo
<1>5. n \in P
  <2> HIDE DEF P
  <2> QED BY <1>4
<1> QED BY <1>5

\* The digits behind the leading zeroes are 0, and the one before them is not.
LEMMA LeadingZeros ==
  ASSUME NEW u \in Seq(Nat)
  PROVE  LET l == vec_skip_leading_zeros(u)
         IN /\ l \in 0 .. Len(u) /\ (l > 0 => u[l] > 0)
            /\ \A i \in 1 .. Len(u) : i > l => u[i] = 0
<1>0. PICK n \in Nat : n = Len(u)
  OBVIOUS
<1>1. PICK nonzero : nonzero = {k \in DOMAIN u : u[k] # 0}
  OBVIOUS
<1>4. nonzero \in SUBSET (1 .. n)
  BY <1>0, <1>1
<1>2. CASE nonzero = {}
  <2>1. vec_skip_leading_zeros(u) = 0
    BY <1>1, <1>2 DEF vec_skip_leading_zeros
  <2> QED BY <1>1, <1>2, <2>1
<1>3. CASE nonzero # {}
  <2>1. \E k \in nonzero : \A j \in nonzero : j <= k
    BY <1>3, <1>4, Greatest
  <2>2. PICK l : l = CHOOSE k \in nonzero : \A j \in nonzero : j <= k
    OBVIOUS
  <2>3. l \in nonzero /\ \A j \in nonzero : j <= l
    BY <2>1, <2>2
  <2>4. vec_skip_leading_zeros(u) = l
    BY <1>1, <1>3, <2>2 DEF vec_skip_leading_zeros
  <2>5. l \in 1 .. Len(u) /\ u[l] > 0
    BY <1>1, <2>3
  <2>6. \A i \in 1 .. Len(u) : i > l => u[i] = 0
    BY <1>1, <2>3, <2>5
  <2> QED BY <2>4, <2>5, <2>6
<1> QED BY <1>2, <1>3

\* vec_skip_and_cmp compares the values of two vectors, whatever zeroes they start with.
LEMMA ComparesDigits ==
  ASSUME NEW radix \in Nat, radix > 0, NEW u \in Seq(0 .. (radix - 1)), NEW v \in Seq(0 .. (radix - 1))
  PROVE  LET result == vec_skip_and_cmp(u, v)
         IN /\ result < 0 <=> Positional(radix, u) < Positional(radix, v)
            /\ result = 0 <=> Positional(radix, u) = Positional(radix, v)
<1>0. u \in Seq(Nat) /\ v \in Seq(Nat)
  OBVIOUS
<1>1. PICK n \in Nat : Len(u) <= n /\ Len(v) <= n
  <2>1. Len(u) \in Nat /\ Len(v) \in Nat /\ Len(u) <= Len(u) + Len(v) /\ Len(v) <= Len(u) + Len(v)
    OBVIOUS
  <2> QED BY <2>1
<1>2. PICK c : c = Digits0(n, u)
  OBVIOUS
<1>3. PICK d : d = Digits0(n, v)
  OBVIOUS
<1>4. c \in [1 .. n -> 0 .. (radix - 1)]
  BY <1>2 DEF Digits0
<1>40. d \in [1 .. n -> 0 .. (radix - 1)]
  BY <1>3 DEF Digits0
<1>5. PICK U : Values(U, n, radix, c) /\ U[1] = Positional(radix, u)
  BY <1>0, <1>1, <1>2, PaddedValue
<1>6. PICK V : Values(V, n, radix, d) /\ V[1] = Positional(radix, v)
  BY <1>0, <1>1, <1>3, PaddedValue
<1>41. \A k \in 1 .. n : c[k] < d[k] /\ (\A i \in 1 .. n : i > k => c[i] = d[i]) => U[1] < V[1]
  <2> TAKE k \in 1 .. n
  <2> HAVE c[k] < d[k] /\ (\A i \in 1 .. n : i > k => c[i] = d[i])
  <2>3. c[k] < d[k]
    OBVIOUS
  <2>4. SameAbove(n, k, c, d)
    BY DEF SameAbove
  <2>1. Values(U, n, radix, c)
    BY <1>5
  <2>2. Values(V, n, radix, d)
    BY <1>6
  <2> QED BY <1>4, <1>40, <2>1, <2>2, <2>3, <2>4, GreatestDecides
<1>42. \A k \in 1 .. n : d[k] < c[k] /\ (\A i \in 1 .. n : i > k => d[i] = c[i]) => V[1] < U[1]
  <2> TAKE k \in 1 .. n
  <2> HAVE d[k] < c[k] /\ (\A i \in 1 .. n : i > k => d[i] = c[i])
  <2>3. d[k] < c[k]
    OBVIOUS
  <2>4. SameAbove(n, k, d, c)
    BY DEF SameAbove
  <2>1. Values(U, n, radix, c)
    BY <1>5
  <2>2. Values(V, n, radix, d)
    BY <1>6
  <2> QED BY <1>4, <1>40, <2>1, <2>2, <2>3, <2>4, GreatestDecides
<1>7. U[1] \in Nat /\ V[1] \in Nat
  BY <1>1, <1>5, <1>6 DEF Values
<1>8. PICK l : l = vec_skip_leading_zeros(u)
  OBVIOUS
<1>9. PICK m : m = vec_skip_leading_zeros(v)
  OBVIOUS
<1>10. /\ l \in 0 .. Len(u) /\ (l > 0 => u[l] > 0)
       /\ \A i \in 1 .. Len(u) : i > l => u[i] = 0
  BY <1>0, <1>8, LeadingZeros
<1>11. /\ m \in 0 .. Len(v) /\ (m > 0 => v[m] > 0)
       /\ \A i \in 1 .. Len(v) : i > m => v[i] = 0
  BY <1>0, <1>9, LeadingZeros
<1>12. /\ l \in 0 .. n /\ \A i \in 1 .. n : (i > l => c[i] = 0) /\ (i <= l => c[i] = u[i])
       /\ m \in 0 .. n /\ \A i \in 1 .. n : (i > m => d[i] = 0) /\ (i <= m => d[i] = v[i])
  BY <1>1, <1>2, <1>3, <1>10, <1>11 DEF Digits0
<1>13. PICK differ : differ = {k \in 1 .. l : u[k] # v[k]}
  OBVIOUS
<1>14. PICK result : result = vec_skip_and_cmp(u, v)
  OBVIOUS
<1>15. result = IF l # m THEN l - m
                ELSE IF differ = {} THEN 0
                ELSE LET k == CHOOSE k \in differ : \A j \in differ : j <= k IN u[k] - v[k]
  BY <1>8, <1>9, <1>13, <1>14 DEF vec_skip_and_cmp
<1>16. CASE l < m
  <2>1. m \in 1 .. n /\ c[m] < d[m] /\ \A i \in 1 .. n : i > m => c[i] = d[i]
    <3>1. m \in 1 .. n /\ m > l /\ m > 0
      BY <1>12, <1>16
    <3>2. c[m] = 0 /\ d[m] > 0
      BY <1>11, <1>12, <3>1
    <3>3. \A i \in 1 .. n : i > m => c[i] = d[i]
      BY <1>12, <1>16
    <3> QED BY <3>1, <3>2, <3>3
  <2>2. U[1] < V[1]
    BY <1>41, <2>1
  <2>3. result < 0 /\ result # 0
    BY <1>12, <1>15, <1>16
  <2> QED BY <1>5, <1>6, <1>7, <1>14, <2>2, <2>3
<1>17. CASE m < l
  <2>1. l \in 1 .. n /\ d[l] < c[l] /\ \A i \in 1 .. n : i > l => d[i] = c[i]
    <3>1. l \in 1 .. n /\ l > m /\ l > 0
      BY <1>12, <1>17
    <3>2. d[l] = 0 /\ c[l] > 0
      BY <1>10, <1>12, <3>1
    <3>3. \A i \in 1 .. n : i > l => d[i] = c[i]
      BY <1>12, <1>17
    <3> QED BY <3>1, <3>2, <3>3
  <2>2. V[1] < U[1]
    BY <1>42, <2>1
  <2>3. ~(result < 0) /\ result # 0
    BY <1>12, <1>15, <1>17
  <2> QED BY <1>5, <1>6, <1>7, <1>14, <2>2, <2>3
<1>18. CASE l = m /\ differ = {}
  <2>1. \A i \in 1 .. n : c[i] = d[i]
    <3> TAKE i \in 1 .. n
    <3>1. CASE i > l
      BY <1>12, <1>18, <3>1
    <3>2. CASE ~(i > l)
      <4>1. i \in 1 .. l /\ i <= l
        BY <1>12, <3>2
      <4>2. u[i] = v[i]
        BY <1>13, <1>18, <4>1
      <4> QED BY <1>12, <1>18, <4>1, <4>2
    <3> QED BY <3>1, <3>2
  <2>2. c = d
    BY <1>4, <1>40, <2>1
  <2>3. U[1] = V[1]
    BY <1>5, <1>6, <2>2, NoneDiffers
  <2>4. result = 0
    BY <1>15, <1>18
  <2> QED BY <1>5, <1>6, <1>7, <1>14, <2>3, <2>4
<1>19. CASE l = m /\ differ # {}
  <2>1. l \in Nat /\ \E k \in differ : \A j \in differ : j <= k
    <3>1. l \in Nat /\ differ \in SUBSET (1 .. l)
      BY <1>12, <1>13
    <3> QED BY <1>19, <3>1, Greatest
  <2>2. PICK k : k = CHOOSE top \in differ : \A j \in differ : j <= top
    OBVIOUS
  <2>3. k \in differ /\ \A j \in differ : j <= k
    BY <2>1, <2>2
  <2>4. result = u[k] - v[k]
    BY <1>15, <1>19, <2>2
  <2>5. k \in 1 .. n /\ k <= l /\ k \in 1 .. Len(u) /\ k \in 1 .. Len(v) /\ u[k] # v[k]
    <3>1. k \in 1 .. l /\ u[k] # v[k]
      BY <1>13, <2>3
    <3>2. l \in 0 .. Len(u) /\ l \in 0 .. Len(v) /\ l \in 0 .. n /\ Len(u) \in Nat /\ Len(v) \in Nat
      BY <1>10, <1>11, <1>12, <1>19
    <3> QED BY <3>1, <3>2
  <2>6. c[k] = u[k] /\ d[k] = v[k] /\ u[k] \in Nat /\ v[k] \in Nat
    BY <1>0, <1>12, <1>19, <2>5
  <2>7. \A i \in 1 .. n : i > k => c[i] = d[i]
    <3> SUFFICES ASSUME NEW i \in 1 .. n, i > k PROVE c[i] = d[i]
      OBVIOUS
    <3>1. CASE i > l
      BY <1>12, <1>19, <3>1
    <3>2. CASE ~(i > l)
      <4>1. i \in 1 .. l /\ i <= l
        BY <1>12, <3>2
      <4>2. u[i] = v[i]
        <5>1. i \notin differ
          BY <2>3, <2>5, <4>1
        <5> QED BY <1>13, <4>1, <5>1
      <4> QED BY <1>12, <1>19, <4>1, <4>2
    <3> QED BY <3>1, <3>2
  <2>8. CASE u[k] < v[k]
    <3>1. U[1] < V[1]
      BY <1>41, <2>5, <2>6, <2>7, <2>8
    <3>2. result < 0 /\ result # 0
      BY <2>4, <2>6, <2>8
    <3> QED BY <1>5, <1>6, <1>7, <1>14, <3>1, <3>2
  <2>9. CASE v[k] < u[k]
    <3>1. \A i \in 1 .. n : i > k => d[i] = c[i]
      BY <2>7
    <3>2. V[1] < U[1]
      BY <1>42, <2>5, <2>6, <2>9, <3>1
    <3>3. ~(result < 0) /\ result # 0
      BY <2>4, <2>6, <2>9
    <3> QED BY <1>5, <1>6, <1>7, <1>14, <3>2, <3>3
  <2> QED BY <2>5, <2>6, <2>8, <2>9
<1> QED BY <1>12, <1>16, <1>17, <1>18, <1>19

-----------------------------------------------------------------------------
(* Passes that append a value *)

\* Words appended one after another.
Appends(d, w, n) == d[0] = <<>> /\ \A i \in 1 .. n : d[i] = Append(d[i - 1], w[i])

LEMMA Appended ==
  ASSUME NEW n \in Nat, NEW S, NEW w \in [1 .. n -> S], NEW d, Appends(d, w, n)
  PROVE  d[n] = w
<1> DEFINE P == {i \in Nat : d[i] = [k \in 1 .. i |-> w[k]]}
<1>1. 0 \in P
  <2>1. d[0] = <<>>
    BY Zenon DEF Appends
  <2> QED BY <2>1
<1>2. ASSUME NEW i \in 1 .. n, i - 1 \in P PROVE i \in P
  <2>0. i \in Nat
    OBVIOUS
  <2>1. i \in Nat /\ d[i] = Append(d[i - 1], w[i])
    BY <2>0, Zenon DEF Appends
  <2>2. PICK e \in Seq(S) : e = d[i - 1] /\ Len(e) = i - 1 /\ \A k \in 1 .. (i - 1) : e[k] = w[k]
    <3>1. [k \in 1 .. (i - 1) |-> w[k]] \in Seq(S)
      OBVIOUS
    <3> QED BY <1>2, <3>1
  <2>3. Append(e, w[i]) = [k \in 1 .. i |-> w[k]]
    <3>1. PICK a : a = Append(e, w[i])
      OBVIOUS
    <3>2. w[i] \in S
      OBVIOUS
    <3>3. /\ a \in Seq(S) /\ Len(a) = Len(e) + 1 /\ a[Len(e) + 1] = w[i]
          /\ \A k \in 1 .. Len(e) : a[k] = e[k]
      BY <2>2, <3>1, <3>2, AppendProperties
    <3>4. Len(a) = i
      BY <2>1, <2>2, <3>3
    <3>5. \A k \in 1 .. i : a[k] = w[k]
      <4> TAKE k \in 1 .. i
      <4>1. CASE k = i
        BY <2>1, <2>2, <3>3, <4>1
      <4>2. CASE k # i
        <5>1. k \in 1 .. (i - 1) /\ k \in 1 .. Len(e)
          BY <2>1, <2>2, <4>2
        <5> QED BY <2>2, <3>3, <5>1
      <4> QED BY <4>1, <4>2
    <3>6. a = [k \in 1 .. i |-> a[k]]
      BY <3>3, <3>4
    <3> QED BY <3>1, <3>5, <3>6
  <2> QED BY <2>1, <2>2, <2>3
<1>3. \A i \in 0 .. n : i \in P
  <2> HIDE DEF P
  <2> QED BY <1>1, <1>2, UpTo
<1>4. n \in P
  <2> HIDE DEF P
  <2> QED BY <1>3
<1> QED BY <1>4

-----------------------------------------------------------------------------
(* Numbers from their lowest place up *)

\* pw[k] is w to the power k.
Powers(pw, w, n) ==
  (\A k \in 0 .. n : pw[k] \in Nat) /\ pw[0] = 1 /\ \A k \in 1 .. n : pw[k] = w * pw[k - 1]

\* L[k] is the value of the places up to k.
Lows(L, pw, s, n) ==
  L \in [0 .. n -> Int] /\ L[0] = 0 /\ \A k \in 1 .. n : L[k] = L[k - 1] + pw[k - 1] * s[k]

LEMMA PowersExist ==
  ASSUME NEW w \in Nat, NEW n \in Nat
  PROVE  \E pw : Powers(pw, w, n)
<1> DEFINE g == [x \in Nat \X Nat |-> w * x[2]]
<1>1. g \in [Nat \X Nat -> Nat]
  <2> SUFFICES ASSUME NEW x \in Nat \X Nat PROVE w * x[2] \in Nat
    OBVIOUS
  <2>1. x[2] \in Nat
    OBVIOUS
  <2> QED BY <2>1
<1>2. \A i \in Nat, m \in Nat : g[<<i, m>>] = w * m
  <2> TAKE i \in Nat, m \in Nat
  <2>1. <<i, m>> \in Nat \X Nat
    OBVIOUS
  <2> QED BY <2>1
<1> HIDE DEF g
<1>3. PICK f : Solves(f, n, Nat, 1, g)
  <2>1. 1 \in Nat
    OBVIOUS
  <2> QED BY <1>1, <2>1, SolutionExists
<1>4. f \in [0 .. n -> Nat] /\ f[0] = 1 /\ \A i \in 1 .. n : f[i] = g[<<i, f[i - 1]>>]
  BY <1>3 DEF Solves
<1>5. \A k \in 1 .. n : f[k] = w * f[k - 1]
  <2> TAKE k \in 1 .. n
  <2>1. k \in Nat /\ k - 1 \in 0 .. n
    OBVIOUS
  <2>2. f[k - 1] \in Nat
    BY <1>4, <2>1
  <2> QED BY <1>2, <1>4, <2>1, <2>2
<1> QED BY <1>4, <1>5 DEF Powers

LEMMA LowsExist ==
  ASSUME NEW w \in Nat, NEW n \in Nat, NEW pw, Powers(pw, w, n), NEW s \in [1 .. n -> Int]
  PROVE  \E L : Lows(L, pw, s, n)
<1> DEFINE g == [x \in Nat \X Int |-> IF x[1] \in 1 .. n THEN x[2] + pw[x[1] - 1] * s[x[1]] ELSE x[2]]
<1>0. ASSUME NEW i \in 1 .. n PROVE pw[i - 1] * s[i] \in Int
  <2>1. i - 1 \in 0 .. n
    OBVIOUS
  <2>2. pw[i - 1] \in Nat /\ s[i] \in Int
    BY <2>1 DEF Powers
  <2> QED BY <2>2
<1>1. g \in [Nat \X Int -> Int]
  <2> SUFFICES ASSUME NEW x \in Nat \X Int
               PROVE  (IF x[1] \in 1 .. n THEN x[2] + pw[x[1] - 1] * s[x[1]] ELSE x[2]) \in Int
    OBVIOUS
  <2>1. x[2] \in Int
    OBVIOUS
  <2>2. CASE x[1] \in 1 .. n
    <3>1. pw[x[1] - 1] * s[x[1]] \in Int
      BY <1>0, <2>2
    <3> QED BY <2>1, <2>2, <3>1
  <2> QED BY <2>1, <2>2
<1>2. \A i \in 1 .. n, m \in Int : g[<<i, m>>] = m + pw[i - 1] * s[i]
  <2> TAKE i \in 1 .. n, m \in Int
  <2>1. <<i, m>> \in Nat \X Int
    OBVIOUS
  <2> QED BY <2>1
<1> HIDE DEF g
<1>3. PICK f : Solves(f, n, Int, 0, g)
  <2>1. 0 \in Int
    OBVIOUS
  <2> QED BY <1>1, <2>1, SolutionExists
<1>4. f \in [0 .. n -> Int] /\ f[0] = 0 /\ \A i \in 1 .. n : f[i] = g[<<i, f[i - 1]>>]
  BY <1>3 DEF Solves
<1>5. \A k \in 1 .. n : f[k] = f[k - 1] + pw[k - 1] * s[k]
  <2> TAKE k \in 1 .. n
  <2>1. k - 1 \in 0 .. n
    OBVIOUS
  <2>2. f[k - 1] \in Int
    BY <1>4, <2>1
  <2> QED BY <1>2, <1>4, <2>2
<1> QED BY <1>4, <1>5 DEF Lows

\* The value of all places, counted from either end.
LEMMA LowsValue ==
  ASSUME NEW w \in Nat, NEW n \in Nat, NEW pw, Powers(pw, w, n),
         NEW s \in Seq(Int), Len(s) = n, NEW L, Lows(L, pw, s, n)
  PROVE  Positional(w, s) = L[n]
<1>1. PICK V : Tails(V, w, s)
  BY TailsExist
<1>2. V \in [1 .. (n + 1) -> Int] /\ V[n + 1] = 0 /\ \A i \in 1 .. n : V[i] = s[i] + w * V[i + 1]
  BY <1>1 DEF Tails
<1>3. (\A k \in 0 .. n : pw[k] \in Nat) /\ pw[0] = 1 /\ \A k \in 1 .. n : pw[k] = w * pw[k - 1]
  BY DEF Powers
<1>4. L \in [0 .. n -> Int] /\ L[0] = 0 /\ \A k \in 1 .. n : L[k] = L[k - 1] + pw[k - 1] * s[k]
  BY DEF Lows
<1> DEFINE P == {k \in Nat : L[k] + pw[k] * V[k + 1] = V[1]}
<1>5. 0 \in P
  <2>1. PICK v \in Int : v = V[1]
    BY <1>2
  <2>2. 0 + 1 * v = v /\ 0 + 1 = 1
    OBVIOUS
  <2>3. L[0] = 0 /\ pw[0] = 1 /\ V[0 + 1] = v
    BY <1>3, <1>4, <2>1
  <2> QED BY <2>1, <2>2, <2>3
<1>6. ASSUME NEW k \in 1 .. n, k - 1 \in P PROVE k \in P
  <2>1. k \in Nat /\ k - 1 \in 0 .. n /\ k \in 0 .. n /\ k + 1 \in 1 .. (n + 1) /\ k - 1 + 1 = k
    OBVIOUS
  <2>2. L[k - 1] + pw[k - 1] * V[k] = V[1]
    BY <1>6, <2>1
  <2>3. PICK p \in Int, v \in Int, a \in Int, l \in Int :
          p = pw[k - 1] /\ v = V[k + 1] /\ a = s[k] /\ l = L[k - 1]
    <3>1. pw[k - 1] \in Int /\ L[k - 1] \in Int
      BY <1>3, <1>4, <2>1
    <3>2. V[k + 1] \in Int
      BY <1>2, <2>1
    <3>3. s[k] \in Int
      OBVIOUS
    <3> QED BY <3>1, <3>2, <3>3
  <2>4. L[k] = l + p * a /\ pw[k] = w * p /\ V[k] = a + w * v
    BY <1>2, <1>3, <1>4, <2>3
  <2>5. (l + p * a) + (w * p) * v = l + p * (a + w * v)
    <3>1. p * (a + w * v) = p * a + (w * p) * v
      OBVIOUS
    <3>2. p * a \in Int /\ (w * p) * v \in Int
      OBVIOUS
    <3> QED BY <3>1, <3>2
  <2>6. L[k] + pw[k] * V[k + 1] = V[1]
    BY <2>2, <2>3, <2>4, <2>5, Zenon
  <2> QED BY <2>1, <2>6
<1>7. \A k \in 0 .. n : k \in P
  <2> HIDE DEF P
  <2> QED BY <1>5, <1>6, UpTo
<1>8. L[n] + pw[n] * V[n + 1] = V[1]
  <2>1. n \in P
    <3> HIDE DEF P
    <3> QED BY <1>7
  <2> QED BY <2>1
<1>9. L[n] = V[1]
  <2>1. PICK p \in Int, l \in Int : p = pw[n] /\ l = L[n]
    <3>1. n \in 0 .. n
      OBVIOUS
    <3>2. pw[n] \in Nat /\ L[n] \in Int
      BY <1>3, <1>4, <3>1
    <3> QED BY <3>2
  <2>2. p * 0 = 0
    OBVIOUS
  <2>3. l + p * 0 = V[1]
    BY <1>2, <1>8, <2>1
  <2> QED BY <2>1, <2>2, <2>3
<1> QED BY <1>1, <1>9, PositionalTails

\* Powers add their exponents.
LEMMA PowersTimes ==
  ASSUME NEW w \in Nat, NEW n \in Nat, NEW pw, Powers(pw, w, n),
         NEW a \in Nat, NEW m \in Nat, a + m <= n
  PROVE  pw[a] * pw[m] = pw[a + m]
<1>1. (\A k \in 0 .. n : pw[k] \in Nat) /\ pw[0] = 1 /\ \A k \in 1 .. n : pw[k] = w * pw[k - 1]
  BY DEF Powers
<1> DEFINE P == {b \in Nat : pw[a] * pw[b] = pw[a + b]}
<1>2. 0 \in P
  <2>1. a \in 0 .. n /\ a + 0 = a
    OBVIOUS
  <2>2. PICK p \in Nat : p = pw[a]
    BY <1>1, <2>1
  <2>3. p * 1 = p
    OBVIOUS
  <2> QED BY <1>1, <2>1, <2>2, <2>3
<1>3. ASSUME NEW b \in 1 .. m, b - 1 \in P PROVE b \in P
  <2>1. /\ b \in Nat /\ b \in 1 .. n /\ a + b \in 1 .. n /\ a \in 0 .. n /\ b - 1 \in 0 .. n
        /\ a + (b - 1) \in 0 .. n /\ a + b - 1 = a + (b - 1)
    OBVIOUS
  <2>2. PICK p \in Nat, q \in Nat, r \in Nat : p = pw[a] /\ q = pw[b - 1] /\ r = pw[a + (b - 1)]
    BY <1>1, <2>1
  <2>3. p * q = r
    BY <1>3, <2>2
  <2>4. pw[b] = w * q /\ pw[a + b] = w * r
    BY <1>1, <2>1, <2>2
  <2>5. p * (w * q) = w * r
    <3>1. p * (w * q) = w * (p * q)
      OBVIOUS
    <3> QED BY <2>3, <3>1
  <2> QED BY <2>1, <2>2, <2>4, <2>5
<1>4. m \in P
  <2>1. \A b \in 0 .. m : b \in P
    <3> HIDE DEF P
    <3> QED BY <1>2, <1>3, UpTo
  <2>2. m \in 0 .. m
    OBVIOUS
  <2> HIDE DEF P
  <2> QED BY <2>1, <2>2
<1> QED BY <1>4

SharedPlaces(d, e, i) == \A k \in 1 .. i : e[k] = d[k]

LEMMA LowsShared ==
  ASSUME NEW n \in Nat, NEW pw, NEW d, NEW e, NEW L, Lows(L, pw, d, n), NEW E, Lows(E, pw, e, n),
         NEW i \in 0 .. n, SharedPlaces(d, e, i)
  PROVE  E[i] = L[i]
<1>1. L[0] = 0 /\ \A k \in 1 .. n : L[k] = L[k - 1] + pw[k - 1] * d[k]
  BY DEF Lows
<1>2. E[0] = 0 /\ \A k \in 1 .. n : E[k] = E[k - 1] + pw[k - 1] * e[k]
  BY DEF Lows
<1> DEFINE P == {k \in Nat : E[k] = L[k]}
<1>3. 0 \in P
  BY <1>1, <1>2
<1>4. ASSUME NEW k \in 1 .. i, k - 1 \in P PROVE k \in P
  <2>1. k \in 1 .. n /\ k \in Nat /\ e[k] = d[k] /\ E[k - 1] = L[k - 1]
    BY <1>4 DEF SharedPlaces
  <2>2. E[k] = L[k]
    BY <1>1, <1>2, <2>1, Zenon
  <2> QED BY <2>1, <2>2
<1>5. \A k \in 0 .. i : k \in P
  <2> HIDE DEF P
  <2> QED BY <1>3, <1>4, UpTo
<1>6. i \in P
  <2>1. i \in 0 .. i
    OBVIOUS
  <2> HIDE DEF P
  <2> QED BY <1>5, <2>1
<1> QED BY <1>6

-----------------------------------------------------------------------------
(* The lowest places of a number *)

LEMMA BelowSum ==
  ASSUME NEW p \in Nat, NEW v \in 0 .. (p - 1), NEW a \in Nat, NEW c \in Nat
  PROVE  v + a \in 0 .. (a + p + c - 1)
OBVIOUS

\* The value of the places up to k is below the power of k.
LEMMA LowsWithin ==
  ASSUME NEW w \in Nat, NEW n \in Nat, NEW pw, Powers(pw, w, n),
         NEW s \in [1 .. n -> 0 .. (w - 1)], NEW L, Lows(L, pw, s, n)
  PROVE  \A k \in 0 .. n : L[k] \in 0 .. (pw[k] - 1)
<1>1. (\A k \in 0 .. n : pw[k] \in Nat) /\ pw[0] = 1 /\ \A k \in 1 .. n : pw[k] = w * pw[k - 1]
  BY DEF Powers
<1>2. L[0] = 0 /\ \A k \in 1 .. n : L[k] = L[k - 1] + pw[k - 1] * s[k]
  BY DEF Lows
<1> DEFINE P == {k \in Nat : L[k] \in 0 .. (pw[k] - 1)}
<1>3. 0 \in P
  BY <1>1, <1>2
<1>4. ASSUME NEW k \in 1 .. n, k - 1 \in P PROVE k \in P
  <2>1. k \in Nat /\ k - 1 \in 0 .. n
    OBVIOUS
  <2>2. PICK p \in Nat : p = pw[k - 1]
    BY <1>1, <2>1
  <2>3. PICK v \in 0 .. (p - 1) : v = L[k - 1]
    BY <1>4, <2>2
  <2>4. PICK u \in 0 .. (w - 1) : u = s[k]
    OBVIOUS
  <2>5. L[k] = v + p * u
    BY <1>2, <2>2, <2>3, <2>4
  <2>6. pw[k] = w * p
    BY <1>1, <2>2
  <2>7. PICK t \in Nat : u + 1 + t = w
    <3>1. w - u - 1 \in Nat /\ u + 1 + (w - u - 1) = w
      OBVIOUS
    <3> QED BY <3>1
  <2>8. w * p = p * u + p + p * t
    <3>1. (u + 1 + t) * p = p * u + p + p * t
      OBVIOUS
    <3> QED BY <2>7, <3>1
  <2>9. PICK a \in Nat, c \in Nat : a = p * u /\ c = p * t
    <3>1. p * u \in Nat /\ p * t \in Nat
      OBVIOUS
    <3> QED BY <3>1
  <2>10. L[k] = v + a /\ pw[k] = a + p + c
    BY <2>5, <2>6, <2>8, <2>9
  <2>11. v + a \in 0 .. (a + p + c - 1)
    BY BelowSum
  <2>12. L[k] \in 0 .. (pw[k] - 1)
    BY <2>10, <2>11
  <2> QED BY <2>1, <2>12
<1>5. \A k \in 0 .. n : k \in P
  <2> HIDE DEF P
  <2> QED BY <1>3, <1>4, UpTo
<1> QED BY <1>5

\* The powers of a power of 2.
LEMMA PowersOfTwo ==
  ASSUME NEW b \in Nat, NEW w, w = 2 ^ b, NEW n \in Nat, NEW pw, Powers(pw, w, n)
  PROVE  \A k \in 0 .. n : pw[k] = 2 ^ (b * k)
<1>1. pw[0] = 1 /\ \A k \in 1 .. n : pw[k] = w * pw[k - 1]
  BY DEF Powers
<1> DEFINE P == {k \in Nat : pw[k] = 2 ^ (b * k)}
<1>2. 0 \in P
  <2>1. 2 ^ (b * 0) = 1
    <3>1. b * 0 = 0
      OBVIOUS
    <3> QED BY <3>1, PowerOfZero
  <2> QED BY <1>1, <2>1
<1>3. ASSUME NEW k \in 1 .. n, k - 1 \in P PROVE k \in P
  <2>1. PICK j \in Nat : j = k - 1
    OBVIOUS
  <2>2. PICK c \in Nat : c = b * j
    OBVIOUS
  <2>3. b * k = b + c
    <3>1. k = j + 1
      BY <2>1
    <3>2. b * (j + 1) = b * j + b
      OBVIOUS
    <3> QED BY <2>2, <3>1, <3>2
  <2>4. pw[j] = 2 ^ c
    BY <1>3, <2>1, <2>2
  <2>5. pw[k] = w * pw[j]
    BY <1>1, <2>1
  <2>6. 2 ^ (b + c) = 2 ^ b * 2 ^ c
    BY PowerOfSum
  <2>7. pw[k] = 2 ^ (b * k)
    BY <2>3, <2>4, <2>5, <2>6, Zenon
  <2> QED BY <2>7
<1>4. \A k \in 0 .. n : k \in P
  <2> HIDE DEF P
  <2> QED BY <1>2, <1>3, UpTo
<1> QED BY <1>4

\* What lies above the places up to k is a multiple of the power of k.
LEMMA LowsAbove ==
  ASSUME NEW w \in Nat, NEW n \in Nat, NEW pw, Powers(pw, w, n),
         NEW s \in [1 .. n -> Nat], NEW L, Lows(L, pw, s, n), NEW k \in 0 .. n
  PROVE  \E q \in Nat : L[n] = L[k] + pw[k] * q
<1>1. \A i \in 0 .. n : pw[i] \in Nat
  BY DEF Powers
<1>2. L \in [0 .. n -> Int] /\ \A i \in 1 .. n : L[i] = L[i - 1] + pw[i - 1] * s[i]
  BY DEF Lows
<1>3. PICK p \in Nat, l \in Int : p = pw[k] /\ l = L[k]
  BY <1>1, <1>2
<1> DEFINE P == {j \in Nat : \E q \in Nat : L[k + j] = l + p * q}
<1>4. 0 \in P
  <2>1. L[k + 0] = l /\ l + p * 0 = l /\ 0 \in Nat
    BY <1>3
  <2> QED BY <2>1
<1>5. ASSUME NEW j \in 1 .. (n - k), j - 1 \in P PROVE j \in P
  <2>1. PICK i \in 1 .. n : i = k + j
    OBVIOUS
  <2>2. k + (j - 1) = i - 1 /\ j - 1 \in Nat /\ j \in Nat /\ k \in Nat /\ k + (j - 1) <= n /\ j - 1 \in 0 .. n
    BY <2>1
  <2>3. PICK q \in Nat : L[i - 1] = l + p * q
    BY <1>5, <2>2
  <2>4. PICK r \in Nat, u \in Nat : r = pw[j - 1] /\ u = s[i]
    BY <1>1, <2>2
  <2>5. pw[i - 1] = p * r
    <3>1. pw[k] * pw[j - 1] = pw[k + (j - 1)]
      BY <2>2, PowersTimes
    <3> QED BY <1>3, <2>2, <2>4, <3>1
  <2>6. L[i] = (l + p * q) + (p * r) * u
    BY <1>2, <2>3, <2>4, <2>5
  <2>7. (l + p * q) + (p * r) * u = l + p * (q + r * u)
    <3>1. p * (q + r * u) = p * q + (p * r) * u
      OBVIOUS
    <3>2. p * q \in Int /\ (p * r) * u \in Int
      OBVIOUS
    <3> QED BY <3>1, <3>2
  <2>8. q + r * u \in Nat
    OBVIOUS
  <2>9. L[k + j] = l + p * (q + r * u)
    BY <2>1, <2>6, <2>7, Zenon
  <2> QED BY <2>2, <2>8, <2>9
<1>6. n - k \in P
  <2> HIDE DEF P
  <2>1. n - k \in Nat /\ n - k \in 0 .. (n - k)
    OBVIOUS
  <2>2. \A j \in 0 .. (n - k) : j \in P
    BY <1>4, <1>5, <2>1, UpTo
  <2> QED BY <2>1, <2>2
<1>7. k + (n - k) = n
  OBVIOUS
<1> QED BY <1>3, <1>6, <1>7

\* Places that are 0 add nothing.
LEMMA LowsIdle ==
  ASSUME NEW n \in Nat, NEW w \in Nat, NEW pw, Powers(pw, w, n), NEW s, NEW L, Lows(L, pw, s, n), NEW k \in 0 .. n,
         \A i \in 1 .. n : i > k => s[i] = 0
  PROVE  L[n] = L[k]
<1>1. \A i \in 0 .. n : pw[i] \in Nat
  BY DEF Powers
<1>2. L \in [0 .. n -> Int] /\ \A i \in 1 .. n : L[i] = L[i - 1] + pw[i - 1] * s[i]
  BY DEF Lows
<1> DEFINE P == {j \in Nat : L[k + j] = L[k]}
<1>4. 0 \in P
  <2>1. k + 0 = k
    OBVIOUS
  <2> QED BY <2>1
<1>5. ASSUME NEW j \in 1 .. (n - k), j - 1 \in P PROVE j \in P
  <2>1. PICK i \in 1 .. n : i = k + j
    OBVIOUS
  <2>2. k + (j - 1) = i - 1 /\ i - 1 \in 0 .. n /\ j \in Nat /\ i > k
    BY <2>1
  <2>3. PICK p \in Nat, l \in Int : p = pw[i - 1] /\ l = L[i - 1]
    BY <1>1, <1>2, <2>2
  <2>4. l + p * 0 = l
    OBVIOUS
  <2>5. L[i] = l + p * 0
    BY <1>2, <2>2, <2>3
  <2>6. L[k + j] = L[k]
    BY <1>5, <2>1, <2>2, <2>3, <2>4, <2>5
  <2> QED BY <2>2, <2>6
<1>6. n - k \in P
  <2> HIDE DEF P
  <2>1. n - k \in Nat /\ n - k \in 0 .. (n - k)
    OBVIOUS
  <2>2. \A j \in 0 .. (n - k) : j \in P
    BY <1>4, <1>5, <2>1, UpTo
  <2> QED BY <2>1, <2>2
<1>7. k + (n - k) = n
  OBVIOUS
<1> QED BY <1>6, <1>7

\* The values of the lowest places are those of the number they make up.
LEMMA LowsOfLowest ==
  ASSUME NEW n \in Nat, NEW pw, NEW e, NEW E, Lows(E, pw, e, n), NEW m \in 0 .. n,
         NEW s, \A k \in 1 .. m : s[k] = e[k]
  PROVE  Lows([k \in 0 .. m |-> E[k]], pw, s, m)
<1>1. E \in [0 .. n -> Int] /\ E[0] = 0 /\ \A k \in 1 .. n : E[k] = E[k - 1] + pw[k - 1] * e[k]
  BY DEF Lows
<1>2. PICK L : L = [k \in 0 .. m |-> E[k]]
  OBVIOUS
<1>3. L \in [0 .. m -> Int] /\ L[0] = 0
  BY <1>1, <1>2
<1>4. ASSUME NEW k \in 1 .. m PROVE L[k] = L[k - 1] + pw[k - 1] * s[k]
  <2>1. L[k] = E[k] /\ L[k - 1] = E[k - 1] /\ e[k] = s[k] /\ k \in 1 .. n
    BY <1>2
  <2> QED BY <1>1, <2>1, Zenon
<1> QED BY <1>2, <1>3, <1>4 DEF Lows

LEMMA PowerGrows ==
  ASSUME NEW a \in Nat, NEW n \in Nat, a <= n
  PROVE  2 ^ a <= 2 ^ n
<1>1. PICK p \in Nat : p = 2 ^ a
  BY PowerPositive
<1>2. PICK k \in Nat : k = n - a
  OBVIOUS
<1>3. PICK q \in Nat : q = 2 ^ k /\ q > 0
  BY PowerPositive
<1>4. 2 ^ n = p * q
  <2>1. 2 ^ n = 2 ^ a * 2 ^ (n - a)
    BY PowerDown
  <2> QED BY <1>1, <1>2, <1>3, <2>1, Zenon
<1>5. PICK r \in Nat : q = r + 1
  <2>1. q - 1 \in Nat /\ q = (q - 1) + 1
    BY <1>3
  <2> QED BY <2>1
<1>6. p * q = p * r + p /\ p * r \in Nat
  <2>1. p * (r + 1) = p * r + p /\ p * r \in Nat
    OBVIOUS
  <2> QED BY <1>5, <2>1
<1>7. PICK t \in Nat : t = p * r
  BY <1>6
<1>8. p <= t + p
  OBVIOUS
<1> QED BY <1>1, <1>4, <1>6, <1>7, <1>8

\* A place is a word and a bit of it.
LEMMA PlaceParts ==
  ASSUME NEW n \in Nat, n > 0, NEW mark \in Nat
  PROVE  \E q \in Nat, r \in 0 .. (n - 1) : q = mark \div n /\ r = mark % n /\ mark = n * q + r
<1>1. PICK q \in Nat, r \in 0 .. (n - 1) : mark = n * q + r
  BY HasQuotient
<1>2. Divided(mark, n, q, r)
  BY <1>1 DEF Divided
<1>3. mark \div n = q /\ mark % n = r
  BY <1>2, ByQuotient
<1> QED BY <1>1, <1>3

-----------------------------------------------------------------------------
(* Digits, copied and cut *)

DigitPlaces(n) == [1 .. n -> 0 .. (DigitRadix - 1)]

\* The powers of DigitRadix, and the values of the digits of d.
ValuesOf(pw, L, n, d) ==
  /\ Powers(pw, DigitRadix, n) /\ \A k \in 0 .. n : pw[k] \in Nat /\ pw[k] = 2 ^ (BitsPerDigit * k)
  /\ Lows(L, pw, d, n) /\ \A k \in 0 .. n : L[k] \in 0 .. (pw[k] - 1)
  /\ DigitsValue(d) = L[n]

LEMMA DigitPlacesType ==
  ASSUME NEW n \in Nat, NEW d \in DigitPlaces(n)
  PROVE  d \in [1 .. n -> Nat] /\ d \in Seq(0 .. (DigitRadix - 1)) /\ d \in Seq(Int) /\ Len(d) = n
<1>1. PICK r \in Nat : r = DigitRadix
  BY RadixPositive
<1>2. d \in [1 .. n -> 0 .. (r - 1)]
  BY <1>1 DEF DigitPlaces
<1>3. d \in [1 .. n -> Nat] /\ d \in [1 .. n -> Int]
  BY <1>2
<1>4. d \in Seq(0 .. (r - 1)) /\ d \in Seq(Int) /\ Len(d) = n
  BY <1>2, <1>3
<1> QED BY <1>1, <1>3, <1>4

LEMMA DigitPowers ==
  ASSUME NEW n \in Nat, NEW pw, Powers(pw, DigitRadix, n)
  PROVE  \A k \in 0 .. n : pw[k] \in Nat /\ pw[k] = 2 ^ (BitsPerDigit * k)
<1>1. BitsPerDigit \in Nat /\ DigitRadix = 2 ^ BitsPerDigit
  BY BitsPerDigitAssumption DEF DigitRadix
<1>2. \A k \in 0 .. n : pw[k] = 2 ^ (BitsPerDigit * k)
  BY <1>1, PowersOfTwo
<1>3. \A k \in 0 .. n : pw[k] \in Nat
  BY DEF Powers
<1> QED BY <1>2, <1>3

LEMMA HasValues ==
  ASSUME NEW n \in Nat, NEW pw, Powers(pw, DigitRadix, n), NEW d \in DigitPlaces(n)
  PROVE  \E L : ValuesOf(pw, L, n, d)
<1>1. PICK r \in Nat : r = DigitRadix
  BY RadixPositive
<1>2. d \in [1 .. n -> 0 .. (r - 1)] /\ d \in Seq(Int) /\ Len(d) = n /\ d \in [1 .. n -> Int]
  <2>1. d \in [1 .. n -> 0 .. (r - 1)]
    BY <1>1 DEF DigitPlaces
  <2>2. d \in Seq(Int) /\ Len(d) = n
    BY DigitPlacesType
  <2> QED BY <2>1, <2>2
<1>3. Powers(pw, r, n)
  BY <1>1
<1>4. PICK L : Lows(L, pw, d, n)
  BY <1>2, <1>3, LowsExist
<1>5. \A k \in 0 .. n : L[k] \in 0 .. (pw[k] - 1)
  BY <1>2, <1>3, <1>4, LowsWithin
<1>6. Positional(r, d) = L[n]
  BY <1>2, <1>3, <1>4, LowsValue
<1>7. DigitsValue(d) = L[n]
  BY <1>1, <1>6 DEF DigitsValue
<1>8. \A k \in 0 .. n : pw[k] \in Nat /\ pw[k] = 2 ^ (BitsPerDigit * k)
  BY DigitPowers
<1> QED BY <1>4, <1>5, <1>7, <1>8 DEF ValuesOf

\* A vector of n digits is a number below 2 to the power of its bits.
LEMMA DigitsBelow ==
  ASSUME NEW n \in Nat, NEW d \in DigitPlaces(n)
  PROVE  DigitsValue(d) \in 0 .. (2 ^ (BitsPerDigit * n) - 1)
<1>1. PICK pw : Powers(pw, DigitRadix, n)
  BY RadixPositive, PowersExist
<1>2. PICK L : ValuesOf(pw, L, n, d)
  BY <1>1, HasValues
<1>3. n \in 0 .. n
  OBVIOUS
<1>4. L[n] \in 0 .. (pw[n] - 1) /\ pw[n] = 2 ^ (BitsPerDigit * n) /\ DigitsValue(d) = L[n]
  BY <1>2, <1>3 DEF ValuesOf
<1> QED BY <1>4

LEMMA CopyType ==
  ASSUME NEW n \in Nat, NEW v \in Seq(0 .. (DigitRadix - 1))
  PROVE  vec_copy_and_zero(n, v) \in DigitPlaces(n)
<1>1. PICK r \in Nat : r = DigitRadix /\ r > 0
  BY RadixPositive
<1>2. ASSUME NEW k \in 1 .. n PROVE (IF k <= Len(v) THEN v[k] ELSE 0) \in 0 .. (r - 1)
  <2>1. v \in Seq(0 .. (r - 1))
    BY <1>1
  <2>2. k <= Len(v) => v[k] \in 0 .. (r - 1)
    BY <2>1
  <2>3. 0 \in 0 .. (r - 1)
    BY <1>1
  <2> QED BY <2>2, <2>3
<1> QED BY <1>1, <1>2 DEF vec_copy_and_zero, DigitPlaces

\* A copy in n digits is the number modulo the width of n digits.
LEMMA CopyValue ==
  ASSUME NEW n \in Nat, NEW v \in Seq(0 .. (DigitRadix - 1))
  PROVE  \E q \in Nat : DigitsValue(v) = 2 ^ (BitsPerDigit * n) * q + DigitsValue(vec_copy_and_zero(n, v))
<1>1. PICK m \in Nat : m = Len(v)
  OBVIOUS
<1>6. PICK r \in Nat : r = DigitRadix
  BY RadixPositive
<1>2. PICK N \in Nat : N = m + n
  OBVIOUS
<1>3. PICK e : e = vec_copy_and_zero(N, v)
  OBVIOUS
<1>4. PICK c : c = vec_copy_and_zero(n, v)
  OBVIOUS
<1>5. e \in DigitPlaces(N) /\ c \in DigitPlaces(n) /\ v \in DigitPlaces(m)
  <2>1. e \in DigitPlaces(N) /\ c \in DigitPlaces(n)
    BY <1>3, <1>4, CopyType
  <2>2. v \in DigitPlaces(m)
    <3>1. v \in Seq(0 .. (r - 1))
      BY <1>6
    <3>2. v \in [1 .. m -> 0 .. (r - 1)]
      BY <1>1, <3>1
    <3> QED BY <1>6, <3>2 DEF DigitPlaces
  <2> QED BY <2>1, <2>2
<1>7. PICK pw : Powers(pw, r, N)
  BY PowersExist
<1>8. PICK E : ValuesOf(pw, E, N, e)
  BY <1>5, <1>6, <1>7, HasValues
<1>9. Lows(E, pw, e, N)
  BY <1>8 DEF ValuesOf
<1>10. m \in 0 .. N /\ n \in 0 .. N
  BY <1>2
<1>11. Powers(pw, r, m) /\ Powers(pw, r, n)
  BY <1>7, <1>10 DEF Powers
<1>12. \A k \in 1 .. m : v[k] = e[k]
  BY <1>1, <1>2, <1>3 DEF vec_copy_and_zero
<1>13. \A k \in 1 .. n : c[k] = e[k]
  BY <1>2, <1>3, <1>4 DEF vec_copy_and_zero
<1>14. DigitsValue(v) = E[m]
  <2>1. PICK L : L = [k \in 0 .. m |-> E[k]]
    OBVIOUS
  <2>2. Lows(L, pw, v, m)
    BY <1>9, <1>10, <1>12, <2>1, LowsOfLowest
  <2>3. v \in Seq(Int) /\ Len(v) = m
    BY <1>5, DigitPlacesType
  <2>4. Positional(r, v) = L[m]
    BY <1>11, <2>2, <2>3, LowsValue
  <2>5. L[m] = E[m]
    BY <2>1
  <2> QED BY <1>6, <2>4, <2>5 DEF DigitsValue
<1>15. DigitsValue(c) = E[n]
  <2>1. PICK L : L = [k \in 0 .. n |-> E[k]]
    OBVIOUS
  <2>2. Lows(L, pw, c, n)
    BY <1>9, <1>10, <1>13, <2>1, LowsOfLowest
  <2>3. c \in Seq(Int) /\ Len(c) = n
    BY <1>5, DigitPlacesType
  <2>4. Positional(r, c) = L[n]
    BY <1>11, <2>2, <2>3, LowsValue
  <2>5. L[n] = E[n]
    BY <2>1
  <2> QED BY <1>6, <2>4, <2>5 DEF DigitsValue
<1>16. E[N] = E[m]
  <2>1. \A i \in 1 .. N : i > m => e[i] = 0
    BY <1>1, <1>3 DEF vec_copy_and_zero
  <2> QED BY <1>7, <1>9, <1>10, <2>1, LowsIdle
<1>17. PICK q \in Nat : E[N] = E[n] + pw[n] * q
  <2>1. e \in [1 .. N -> Nat]
    BY <1>5, DigitPlacesType
  <2> QED BY <1>7, <1>9, <1>10, <2>1, LowsAbove
<1>18. pw[n] = 2 ^ (BitsPerDigit * n) /\ pw[n] \in Nat
  BY <1>8, <1>10 DEF ValuesOf
<1>19. E[n] + pw[n] * q = pw[n] * q + E[n]
  <2>1. PICK a \in Int, b \in Int : a = E[n] /\ b = pw[n] * q
    <3>1. E[n] \in Int
      BY <1>8, <1>10 DEF ValuesOf
    <3>2. pw[n] * q \in Int
      BY <1>18
    <3> QED BY <3>1, <3>2
  <2> QED BY <2>1
<1>20. DigitsValue(v) = 2 ^ (BitsPerDigit * n) * q + DigitsValue(c)
  BY <1>14, <1>15, <1>16, <1>17, <1>18, <1>19, Zenon
<1> QED BY <1>4, <1>20

-----------------------------------------------------------------------------
(* The complement of digits *)

Complements == [u : Seq(0 .. (DigitRadix - 1)), carry : 0 .. 1]

\* t is the state of vec_complement after s and digit.
ComplementsDigit(s, t, digit) ==
  \E e \in 0 .. (DigitRadix - 1) :
    t.u = Append(s.u, e) /\ t.carry \in 0 .. 1 /\ e + DigitRadix * t.carry = s.carry + (DigitRadix - 1 - digit)

LEMMA ComplementStepExact ==
  ASSUME NEW s \in Complements, NEW digit \in 0 .. (DigitRadix - 1), NEW t, t = ComplementStep(s, digit)
  PROVE  t \in Complements /\ ComplementsDigit(s, t, digit)
<1>0. PICK r \in Nat : r = DigitRadix /\ r > 0
  BY RadixPositive
<1>1. PICK x \in 0 .. (r - 1) : x = digit
  BY <1>0
<1>2. PICK c \in 0 .. 1 : c = s.carry
  BY DEF Complements
<1>3. PICK sum \in 0 .. r : sum = c + (r - 1 - x)
  OBVIOUS
<1>4. PICK k \in 0 .. 1, e \in 0 .. (r - 1) : sum = r * k + e /\ e + r * k = sum
  <2>1. CASE sum < r
    <3>1. r * 0 = 0
      OBVIOUS
    <3>2. sum = r * 0 + sum /\ sum + r * 0 = sum /\ sum \in 0 .. (r - 1) /\ 0 \in 0 .. 1
      BY <2>1, <3>1
    <3> QED BY <3>2
  <2>2. CASE ~(sum < r)
    <3>1. r * 1 = r
      OBVIOUS
    <3>2. sum = r * 1 + 0 /\ 0 + r * 1 = sum /\ 0 \in 0 .. (r - 1) /\ 1 \in 0 .. 1
      BY <1>0, <2>2, <3>1
    <3> QED BY <3>2
  <2> QED BY <2>1, <2>2
<1>5. sum \div r = k /\ sum % r = e
  <2>1. Divided(sum, r, k, e)
    BY <1>4 DEF Divided
  <2> QED BY <1>0, <2>1, ByQuotient
<1>6. t = [u |-> Append(s.u, e), carry |-> k]
  BY <1>0, <1>1, <1>2, <1>3, <1>5, Zenon DEF ComplementStep
<1>7. t.u = Append(s.u, e) /\ t.carry = k
  BY <1>6
<1>8. t \in Complements
  <2>1. s.u \in Seq(0 .. (r - 1))
    BY <1>0 DEF Complements
  <2>2. Append(s.u, e) \in Seq(0 .. (r - 1))
    BY <2>1, AppendProperties
  <2> QED BY <1>0, <1>6, <2>2 DEF Complements
<1>9. e + r * k = c + (r - 1 - x)
  BY <1>3, <1>4, Zenon
<1>10. ComplementsDigit(s, t, digit)
  BY <1>0, <1>1, <1>2, <1>7, <1>9, Zenon DEF ComplementsDigit
<1> QED BY <1>8, <1>10

\* The loop of vec_complement, digit by digit.
LEMMA ComplementPasses ==
  ASSUME NEW n \in Nat, NEW d \in DigitPlaces(n), Len(d) = n
  PROVE  \E h \in [0 .. n -> Complements] :
           /\ h[0] = [u |-> <<>>, carry |-> 1]
           /\ \A i \in 1 .. n : h[i] = ComplementStep(h[i - 1], d[i])
           /\ FoldLeft(ComplementStep, [u |-> <<>>, carry |-> 1], d) = h[n]
<1> DEFINE D == 1 .. n
           S == Complements
           a == [u |-> <<>>, carry |-> 1]
           l == d
           g == [p \in Nat \X S |-> IF p[1] \in 1 .. n THEN ComplementStep(p[2], d[p[1]]) ELSE p[2]]
           Body(F, t) == ComplementStep(F[t \ {Max(t)}], l[Max(t)])
           value[t \in SUBSET DOMAIN l] == IF t = {} THEN a ELSE Body(value, t)
<1>1. D = DOMAIN l /\ \A i \in D : l[i] = d[i]
  BY DEF DigitPlaces
<1>2. FoldLeft(ComplementStep, [u |-> <<>>, carry |-> 1], d) = value[D]
  BY <1>1 DEF FoldLeft, MapThenFoldSet
<1>3. ASSUME NEW i \in 1 .. n, NEW s \in S PROVE ComplementStep(s, d[i]) \in S
  <2>1. d[i] \in 0 .. (DigitRadix - 1)
    BY DEF DigitPlaces
  <2> QED BY <2>1, ComplementStepExact
<1>4. g \in [Nat \X S -> S]
  <2> HIDE DEF S
  <2> QED BY <1>3
<1>5. \A i \in 1 .. n, s \in S : g[<<i, s>>] = ComplementStep(s, d[i])
  <2> TAKE i \in 1 .. n, s \in S
  <2>1. <<i, s>> \in Nat \X S
    OBVIOUS
  <2> QED BY <2>1
<1>6. a \in S
  BY DEF Complements
<1> HIDE DEF g, S, a, l
<1>7. PICK F \in [SUBSET D -> S] : FoldsLeft(F, n, a, g)
  BY <1>4, <1>6, FoldsLeftExist
<1>8. ASSUME NEW t \in SUBSET D, t # {}
      PROVE  Max(t) \in D /\ t \ {Max(t)} \in SUBSET D /\ l[Max(t)] = d[Max(t)]
  BY <1>1, <1>8, MaxIn
<1>9. ASSUME NEW t \in SUBSET D PROVE F[t] = IF t = {} THEN a ELSE Body(F, t)
  <2>1. F[t] = IF t = {} THEN a ELSE g[<<Max(t), F[t \ {Max(t)}]>>]
    BY <1>7 DEF FoldsLeft
  <2>2. CASE t # {}
    <3>1. Max(t) \in 1 .. n /\ F[t \ {Max(t)}] \in S /\ l[Max(t)] = d[Max(t)]
      BY <1>8, <2>2
    <3>2. g[<<Max(t), F[t \ {Max(t)}]>>] = Body(F, t)
      BY <1>5, <3>1
    <3> QED BY <2>1, <2>2, <3>2
  <2> QED BY <2>1, <2>2
<1>10. F = [t \in SUBSET DOMAIN l |-> IF t = {} THEN a ELSE Body(F, t)]
  <2> HIDE DEF D, Body
  <2>1. F = [t \in SUBSET D |-> F[t]]
    BY <1>7
  <2> QED BY <1>1, <1>9, <2>1
<1>11. value = CHOOSE v : v = [t \in SUBSET DOMAIN l |-> IF t = {} THEN a ELSE Body(v, t)]
  OBVIOUS
<1> HIDE DEF value
<1>12. value = [t \in SUBSET DOMAIN l |-> IF t = {} THEN a ELSE Body(value, t)]
  <2> HIDE DEF Body
  <2> QED BY <1>10, <1>11
<1>13. \A t \in SUBSET D : value[t] = IF t = {} THEN a ELSE Body(value, t)
  <2> HIDE DEF Body, D
  <2> QED BY <1>1, <1>12
<1>14. PICK h : Solves(h, n, S, a, g)
  BY <1>4, <1>6, SolutionExists
<1>15. h \in [0 .. n -> S] /\ h[0] = a
  BY <1>14 DEF Solves
<1>16. ASSUME NEW i \in 1 .. n PROVE h[i] = ComplementStep(h[i - 1], d[i])
  <2>1. h[i] = g[<<i, h[i - 1]>>] /\ h[i - 1] \in S
    BY <1>14, <1>15 DEF Solves
  <2> QED BY <1>5, <2>1
<1>17. value[D] = h[n]
  <2>1. value[{}] = h[0]
    BY <1>13, <1>15
  <2>2. ASSUME NEW i \in 1 .. n, value[1 .. (i - 1)] = h[i - 1] PROVE value[1 .. i] = h[i]
    <3>1. /\ i \in Nat /\ 1 .. i \in SUBSET D /\ 1 .. i # {}
          /\ (1 .. i) \ {i} = 1 .. (i - 1) /\ Max(1 .. i) = i
      BY FirstIndices
    <3>2. value[1 .. i] = Body(value, 1 .. i)
      <4> HIDE DEF Body, D
      <4> QED BY <1>13, <3>1
    <3>3. value[1 .. i] = ComplementStep(h[i - 1], d[i])
      BY <1>1, <2>2, <3>1, <3>2
    <3> QED BY <1>16, <3>3
  <2>3. Along(value, h, n)
    <3> HIDE DEF Body, D
    <3> QED BY <2>1, <2>2 DEF Along
  <2>4. value[1 .. n] = h[n]
    <3> HIDE DEF Body, D
    <3> QED BY <2>3, AlongPasses
  <2> QED BY <2>4
<1> QED BY <1>2, <1>15, <1>16, <1>17 DEF S, a

\* What a digit adds to the complement.
LEMMA ComplementSum ==
  ASSUME NEW p \in Int, NEW r \in Int, NEW f \in Int, NEW l \in Int, NEW j \in Int, NEW k \in Int,
         NEW w \in Int, NEW x \in Int,
         f + p * j = p - l, w + r * k = j + (r - 1 - x)
  PROVE  (f + p * w) + (r * p) * k = r * p - (l + p * x)
<1>1. PICK a \in Int, b \in Int, c \in Int, d \in Int, g \in Int :
        a = p * w /\ b = (r * p) * k /\ c = p * j /\ d = r * p /\ g = p * x
  <2>1. p * w \in Int /\ (r * p) * k \in Int /\ p * j \in Int /\ r * p \in Int /\ p * x \in Int
    OBVIOUS
  <2> QED BY <2>1
<1>2. p * (w + r * k) = a + b
  <2>1. p * (w + r * k) = p * w + (r * p) * k
    OBVIOUS
  <2> QED BY <1>1, <2>1
<1>3. p * (j + (r - 1 - x)) = c + d - p - g
  <2>1. p * (j + (r - 1 - x)) = p * j + r * p - p - p * x
    OBVIOUS
  <2> QED BY <1>1, <2>1
<1>4. a + b = c + d - p - g
  BY <1>2, <1>3
<1>5. f + c = p - l
  BY <1>1
<1>6. (f + a) + b = d - (l + g)
  <2> HIDE <1>1, <1>2, <1>3
  <2> QED BY <1>4, <1>5
<1> QED BY <1>1, <1>6, Zenon

\* A vector and its complement are 2 to the power of their bits together, if it is not 0.
LEMMA ComplementValue ==
  ASSUME NEW n \in Nat, NEW d \in DigitPlaces(n), NEW e, e = vec_complement(d)
  PROVE  /\ e \in DigitPlaces(n)
         /\ DigitsValue(d) + DigitsValue(e) \in {0, 2 ^ (BitsPerDigit * n)}
<1>0. PICK r \in Nat : r = DigitRadix /\ r > 0
  BY RadixPositive
<1>1. Len(d) = n
  BY DigitPlacesType
<1>2. PICK h \in [0 .. n -> Complements] :
        /\ h[0] = [u |-> <<>>, carry |-> 1]
        /\ \A i \in 1 .. n : h[i] = ComplementStep(h[i - 1], d[i])
        /\ FoldLeft(ComplementStep, [u |-> <<>>, carry |-> 1], d) = h[n]
  BY <1>1, ComplementPasses
<1>3. e = h[n].u
  BY <1>2 DEF vec_complement
<1>4. ASSUME NEW i \in 1 .. n PROVE ComplementsDigit(h[i - 1], h[i], d[i])
  <2>1. PICK s \in Complements : s = h[i - 1]
    <3>1. i - 1 \in 0 .. n
      OBVIOUS
    <3> QED BY <1>2, <3>1
  <2>2. PICK x \in 0 .. (DigitRadix - 1) : x = d[i]
    BY DEF DigitPlaces
  <2>3. h[i] = ComplementStep(s, x)
    BY <1>2, <2>1, <2>2
  <2>4. ComplementsDigit(s, h[i], x)
    BY <2>3, ComplementStepExact
  <2> QED BY <2>1, <2>2, <2>4
<1>5. PICK w : w = [i \in 1 .. n |-> CHOOSE x \in 0 .. (r - 1) :
                      /\ h[i].u = Append(h[i - 1].u, x) /\ h[i].carry \in 0 .. 1
                      /\ x + r * h[i].carry = h[i - 1].carry + (r - 1 - d[i])]
  OBVIOUS
<1>6. ASSUME NEW i \in 1 .. n
      PROVE  /\ w[i] \in 0 .. (r - 1) /\ h[i].u = Append(h[i - 1].u, w[i]) /\ h[i].carry \in 0 .. 1
             /\ w[i] + r * h[i].carry = h[i - 1].carry + (r - 1 - d[i])
  <2>1. \E x \in 0 .. (r - 1) : /\ h[i].u = Append(h[i - 1].u, x) /\ h[i].carry \in 0 .. 1
                                /\ x + r * h[i].carry = h[i - 1].carry + (r - 1 - d[i])
    BY <1>0, <1>4, Zenon DEF ComplementsDigit
  <2> QED BY <1>5, <2>1, Zenon
<1>7. w \in [1 .. n -> 0 .. (r - 1)]
  BY <1>5, <1>6
<1>8. e = w
  <2>1. PICK f : f = [i \in 0 .. n |-> h[i].u]
    OBVIOUS
  <2>2. f[0] = <<>>
    BY <1>2, <2>1
  <2>3. ASSUME NEW i \in 1 .. n PROVE f[i] = Append(f[i - 1], w[i])
    <3>1. f[i] = h[i].u /\ f[i - 1] = h[i - 1].u
      BY <2>1
    <3> QED BY <1>6, <3>1
  <2>4. f[n] = w
    BY <1>7, <2>2, <2>3, Appended DEF Appends
  <2>5. f[n] = h[n].u
    BY <2>1
  <2> QED BY <1>3, <2>4, <2>5
<1>9. e \in DigitPlaces(n)
  BY <1>0, <1>7, <1>8 DEF DigitPlaces
<1>10. PICK pw : Powers(pw, DigitRadix, n)
  BY RadixPositive, PowersExist
<1>11. PICK L : ValuesOf(pw, L, n, d)
  BY <1>10, HasValues
<1>12. PICK E : ValuesOf(pw, E, n, e)
  BY <1>9, <1>10, HasValues
<1>13. (\A i \in 0 .. n : pw[i] \in Nat) /\ pw[0] = 1 /\ \A i \in 1 .. n : pw[i] = r * pw[i - 1]
  BY <1>0, <1>10 DEF Powers
<1>14. L \in [0 .. n -> Int] /\ L[0] = 0 /\ \A i \in 1 .. n : L[i] = L[i - 1] + pw[i - 1] * d[i]
  BY <1>11 DEF ValuesOf, Lows
<1>15. E \in [0 .. n -> Int] /\ E[0] = 0 /\ \A i \in 1 .. n : E[i] = E[i - 1] + pw[i - 1] * w[i]
  BY <1>8, <1>12 DEF ValuesOf, Lows
<1>16. \A i \in 0 .. n : h[i].carry \in 0 .. 1
  BY <1>2 DEF Complements
<1> DEFINE P == {i \in Nat : E[i] + pw[i] * h[i].carry = pw[i] - L[i]}
<1>17. 0 \in P
  <2>1. E[0] = 0 /\ L[0] = 0 /\ pw[0] = 1 /\ h[0].carry = 1
    BY <1>2, <1>13, <1>14, <1>15
  <2>2. 0 + 1 * 1 = 1 - 0
    OBVIOUS
  <2> QED BY <2>1, <2>2
<1>18. ASSUME NEW i \in 1 .. n, i - 1 \in P PROVE i \in P
  <2>1. i \in Nat /\ i - 1 \in 0 .. n /\ i \in 0 .. n
    OBVIOUS
  <2>2. PICK p \in Int, f \in Int, l \in Int : p = pw[i - 1] /\ f = E[i - 1] /\ l = L[i - 1]
    <3>1. pw[i - 1] \in Int /\ E[i - 1] \in Int /\ L[i - 1] \in Int
      BY <1>13, <1>14, <1>15, <2>1
    <3> QED BY <3>1
  <2>3. PICK j \in Int, k \in Int : j = h[i - 1].carry /\ k = h[i].carry
    <3>1. h[i - 1].carry \in 0 .. 1 /\ h[i].carry \in 0 .. 1
      BY <1>16, <2>1
    <3> QED BY <3>1
  <2>4. PICK x \in Int, y \in Int : x = d[i] /\ y = w[i]
    <3>1. d[i] \in 0 .. (r - 1)
      BY <1>0 DEF DigitPlaces
    <3>2. w[i] \in 0 .. (r - 1)
      BY <1>6
    <3> QED BY <3>1, <3>2
  <2>5. f + p * j = p - l
    BY <1>18, <2>2, <2>3
  <2>6. y + r * k = j + (r - 1 - x)
    BY <1>6, <2>3, <2>4, Zenon
  <2>7. (f + p * y) + (r * p) * k = r * p - (l + p * x)
    <3>1. r \in Int
      OBVIOUS
    <3> QED BY <2>5, <2>6, <3>1, ComplementSum
  <2>8. E[i] = f + p * y /\ L[i] = l + p * x /\ pw[i] = r * p
    BY <1>13, <1>14, <1>15, <2>2, <2>4, Zenon
  <2>9. E[i] + pw[i] * h[i].carry = pw[i] - L[i]
    BY <2>3, <2>7, <2>8, Zenon
  <2> QED BY <2>1, <2>9
<1>19. n \in P
  <2> HIDE DEF P
  <2>1. \A i \in 0 .. n : i \in P
    BY <1>17, <1>18, UpTo
  <2>2. n \in 0 .. n
    OBVIOUS
  <2> QED BY <2>1, <2>2
<1>20. PICK m \in Nat : m = pw[n] /\ m = 2 ^ (BitsPerDigit * n)
  <2>1. n \in 0 .. n
    OBVIOUS
  <2> QED BY <1>11, <2>1 DEF ValuesOf
<1>21. PICK a \in 0 .. (m - 1), b \in 0 .. (m - 1) : /\ a = L[n] /\ a = DigitsValue(d)
                                                    /\ b = E[n] /\ b = DigitsValue(e)
  <2>1. n \in 0 .. n
    OBVIOUS
  <2>2. L[n] \in 0 .. (m - 1) /\ L[n] = DigitsValue(d)
    BY <1>11, <1>20, <2>1 DEF ValuesOf
  <2>3. E[n] \in 0 .. (m - 1) /\ E[n] = DigitsValue(e)
    BY <1>12, <1>20, <2>1 DEF ValuesOf
  <2> QED BY <2>2, <2>3
<1>22. PICK k \in 0 .. 1 : k = h[n].carry
  <2>1. n \in 0 .. n
    OBVIOUS
  <2> QED BY <1>16, <2>1
<1>23. b + m * k = m - a
  BY <1>19, <1>20, <1>21, <1>22
<1>24. a + b = 0 \/ a + b = m
  <2>1. CASE k = 0
    <3>1. m * 0 = 0
      OBVIOUS
    <3> QED BY <1>23, <2>1, <3>1
  <2>2. CASE k = 1
    <3>1. m * 1 = m
      OBVIOUS
    <3> QED BY <1>23, <2>2, <3>1
  <2> QED BY <2>1, <2>2
<1> QED BY <1>9, <1>20, <1>21, <1>24

\* The highest bit of a number of nb bits is in its last digit.
LEMMA HighestBit ==
  ASSUME NEW nb \in Nat, nb > 0
  PROVE  /\ DivCeil(nb) \in Nat /\ DivCeil(nb) > 0 /\ bit_ord(nb - 1) \in Nat
         /\ nb - 1 = BitsPerDigit * (DivCeil(nb) - 1) + bit_ord(nb - 1)
         /\ bit_ord(nb - 1) < BitsPerDigit
<1>1. PICK b \in Nat : b = BitsPerDigit /\ b > 0
  BY BitsPerDigitAssumption
<1>2. PICK m \in Nat : m = nb - 1
  OBVIOUS
<1>3. PICK q \in Nat, r \in 0 .. (b - 1) : q = m \div b /\ r = m % b /\ m = b * q + r
  BY <1>1, PlaceParts
<1>4. DivCeil(nb) = q + 1 /\ bit_ord(nb - 1) = r
  BY <1>1, <1>2, <1>3 DEF DivCeil, bit_ord
<1>5. DivCeil(nb) \in Nat /\ DivCeil(nb) > 0 /\ DivCeil(nb) - 1 = q
  BY <1>4
<1>6. r \in Nat /\ r < b
  OBVIOUS
<1> QED BY <1>1, <1>2, <1>3, <1>4, <1>5, <1>6, Zenon

\* The lowest place of two numbers that differ in the last place only.
LEMMA SameButLast ==
  ASSUME NEW m \in Nat, NEW n \in Nat, n = m + 1, NEW d \in DigitPlaces(n), NEW e \in DigitPlaces(n),
         \A k \in 1 .. m : e[k] = d[k]
  PROVE  \E u \in Nat, l \in Nat : /\ u = 2 ^ (BitsPerDigit * m) /\ l < u
                                  /\ DigitsValue(d) = l + u * d[n] /\ DigitsValue(e) = l + u * e[n]
<1>1. PICK pw : Powers(pw, DigitRadix, n)
  BY RadixPositive, PowersExist
<1>2. PICK L : ValuesOf(pw, L, n, d)
  BY <1>1, HasValues
<1>3. PICK E : ValuesOf(pw, E, n, e)
  BY <1>1, HasValues
<1>4. m \in 0 .. n /\ n \in 0 .. n /\ n \in 1 .. n /\ n - 1 = m
  OBVIOUS
<1>5. E[m] = L[m]
  <2>1. Lows(L, pw, d, n) /\ Lows(E, pw, e, n)
    BY <1>2, <1>3 DEF ValuesOf
  <2>2. SharedPlaces(d, e, m)
    BY DEF SharedPlaces
  <2> QED BY <1>4, <2>1, <2>2, LowsShared
<1>6. pw[m] \in Nat /\ L[m] \in 0 .. (pw[m] - 1) /\ pw[m] = 2 ^ (BitsPerDigit * m)
  BY <1>2, <1>4 DEF ValuesOf
<1>7. PICK u \in Nat : u = pw[m]
  BY <1>6
<1>8. PICK l \in Nat : l = L[m] /\ l < u
  BY <1>6, <1>7
<1>9. DigitsValue(d) = l + u * d[n]
  <2>1. L[n] = L[n - 1] + pw[n - 1] * d[n] /\ DigitsValue(d) = L[n]
    BY <1>2, <1>4 DEF ValuesOf, Lows
  <2> QED BY <1>4, <1>7, <1>8, <2>1, Zenon
<1>10. DigitsValue(e) = l + u * e[n]
  <2>1. E[n] = E[n - 1] + pw[n - 1] * e[n] /\ DigitsValue(e) = E[n]
    BY <1>3, <1>4 DEF ValuesOf, Lows
  <2> QED BY <1>4, <1>5, <1>7, <1>8, <2>1, Zenon
<1> QED BY <1>6, <1>7, <1>8, <1>9, <1>10, Zenon

\* e is d, of whose last digit, p * q + r, only r stays.
LastCut(d, e, n, p, q, r) ==
  q \in Nat /\ r \in 0 .. (p - 1) /\ d[n] = p * q + r /\ e = [d EXCEPT ![n] = r]

\* What remains of a number of which the last digit is cut.
LEMMA CutValue ==
  ASSUME NEW nb \in Nat, nb > 0, NEW n \in Nat, n = DivCeil(nb), NEW d \in DigitPlaces(n),
         NEW added \in Nat, NEW k \in Nat, k = bit_ord(nb - 1) + added, NEW p, p = 2 ^ k,
         NEW q, NEW r, NEW e, LastCut(d, e, n, p, q, r)
  PROVE  e \in DigitPlaces(n) /\ Divided(DigitsValue(d), 2 ^ (nb - 1 + added), q, DigitsValue(e))
<1>1. PICK b \in Nat : b = BitsPerDigit /\ b > 0
  BY BitsPerDigitAssumption
<1>2. PICK m \in Nat, j \in Nat : n = m + 1 /\ j = bit_ord(nb - 1) /\ nb - 1 = b * m + j
  <2>1. n - 1 \in Nat /\ bit_ord(nb - 1) \in Nat /\ nb - 1 = b * (n - 1) + bit_ord(nb - 1)
    BY <1>1, HighestBit
  <2>2. n = (n - 1) + 1
    OBVIOUS
  <2> QED BY <2>1, <2>2
<1>3. p \in Nat /\ p > 0
  BY PowerPositive
<1>4. PICK radix \in Nat : radix = DigitRadix
  BY RadixPositive
<1>0. q \in Nat /\ r \in 0 .. (p - 1) /\ d[n] = p * q + r /\ e = [d EXCEPT ![n] = r]
  BY DEF LastCut
<1>5. d \in [1 .. n -> 0 .. (radix - 1)] /\ n \in 1 .. n
  <2>1. d \in [1 .. n -> 0 .. (radix - 1)]
    BY <1>4 DEF DigitPlaces
  <2>2. n > 0
    BY HighestBit
  <2> QED BY <2>1, <2>2
<1>6. PICK x \in 0 .. (radix - 1) : x = d[n]
  BY <1>5
<1>7. r \in 0 .. (radix - 1)
  <2>1. PICK g \in Nat : g = p * q
    BY <1>0, <1>3
  <2>2. x = g + r
    BY <1>0, <1>6, <2>1, Zenon
  <2>3. r \in Nat
    BY <1>0, <1>3
  <2> QED BY <2>2, <2>3
<1>8. e \in DigitPlaces(n)
  <2>1. e \in [1 .. n -> 0 .. (radix - 1)]
    BY <1>0, <1>5, <1>7
  <2> QED BY <1>4, <2>1 DEF DigitPlaces
<1>9. e[n] = r /\ \A i \in 1 .. m : e[i] = d[i]
  <2>1. e[n] = r /\ \A i \in 1 .. n : i # n => e[i] = d[i]
    BY <1>0, <1>5
  <2>2. \A i \in 1 .. m : i \in 1 .. n /\ i # n
    BY <1>2
  <2> QED BY <2>1, <2>2
<1>10. n = m + 1
  BY <1>2
<1>11. PICK u \in Nat, l \in Nat : /\ u = 2 ^ (BitsPerDigit * m) /\ l < u
                                  /\ DigitsValue(d) = l + u * d[n] /\ DigitsValue(e) = l + u * e[n]
  BY <1>8, <1>9, <1>10, SameButLast
<1>12. l \in 0 .. (u - 1)
  <2>1. l < u
    BY <1>11
  <2> QED BY <2>1
<1>16. DigitsValue(d) = l + u * x
  BY <1>6, <1>11, Zenon
<1>17. DigitsValue(e) = l + u * r
  BY <1>9, <1>11, Zenon
<1>18. u * p = 2 ^ (nb - 1 + added)
  <2>1. u = 2 ^ (b * m)
    BY <1>1, <1>11, Zenon
  <2>2. PICK a \in Nat : a = b * m
    OBVIOUS
  <2>3. 2 ^ (a + k) = 2 ^ a * 2 ^ k
    BY PowerOfSum
  <2>4. a + k = nb - 1 + added
    <3>1. nb - 1 = a + j /\ k = j + added
      BY <1>2, <2>2, Zenon
    <3> QED BY <3>1
  <2> QED BY <2>1, <2>2, <2>3, <2>4, Zenon
<1>19. PICK t \in Nat : r + 1 + t = p
  <2>1. p - r - 1 \in Nat /\ r + 1 + (p - r - 1) = p
    BY <1>0, <1>3
  <2> QED BY <2>1
<1>20. PICK ur \in Nat, ut \in Nat, up \in Nat, pq \in Nat : ur = u * r /\ ut = u * t /\ up = u * p /\ pq = p * q
  <2>1. r \in Nat /\ q \in Nat
    BY <1>0, <1>3
  <2>2. u * r \in Nat /\ u * t \in Nat /\ u * p \in Nat /\ p * q \in Nat
    BY <1>3, <2>1
  <2> QED BY <2>2
<1>21. up = ur + u + ut
  <2>1. u * (r + 1 + t) = u * r + u + u * t
    <3>1. r \in Nat
      BY <1>0, <1>3
    <3> QED BY <3>1
  <2> QED BY <1>19, <1>20, <2>1
<1>22. l + ur \in 0 .. (up - 1)
  <2>1. l + ur \in 0 .. (ur + u + ut - 1)
    BY <1>12, BelowSum
  <2> QED BY <1>21, <2>1
<1>23. l + u * x = up * q + (l + ur)
  <2>0. r \in Nat /\ q \in Nat
    BY <1>0, <1>3
  <2>1. x = pq + r
    BY <1>0, <1>6, <1>20, Zenon
  <2>2. u * (pq + r) = u * pq + u * r
    BY <2>0
  <2>3. u * (p * q) = (u * p) * q
    BY <1>3, <2>0
  <2>4. PICK z \in Int : z = up * q
    BY <2>0
  <2>5. u * x = z + ur
    BY <1>20, <2>1, <2>2, <2>3, <2>4, Zenon
  <2>6. l + (z + ur) = z + (l + ur)
    OBVIOUS
  <2> QED BY <2>4, <2>5, <2>6
<1>24. Divided(l + u * x, up, q, l + ur)
  <2>1. q \in Int
    BY <1>0
  <2> QED BY <1>22, <1>23, <2>1 DEF Divided
<1> QED BY <1>8, <1>16, <1>17, <1>18, <1>20, <1>24, Zenon

\* trim leaves the number modulo 2 to the power of the bits that stay.
LEMMA TrimValue ==
  ASSUME NEW nb \in Nat, nb > 0, NEW n \in Nat, n = DivCeil(nb), NEW d \in DigitPlaces(n),
         NEW added \in Nat, NEW e, e = trim(added, nb, d)
  PROVE  e \in DigitPlaces(n) /\ DigitsValue(e) = DigitsValue(d) % 2 ^ (nb - 1 + added)
<1>1. Len(d) = n
  BY DigitPlacesType
<1>2. PICK p \in Nat : p = 2 ^ (bit_ord(nb - 1) + added) /\ p > 0
  <2>1. bit_ord(nb - 1) + added \in Nat
    BY HighestBit
  <2> QED BY <2>1, PowerPositive
<1>3. PICK x \in Nat : x = d[n]
  <2>1. n \in 1 .. n
    BY HighestBit
  <2>2. d \in [1 .. n -> Nat]
    BY DigitPlacesType
  <2> QED BY <2>1, <2>2
<1>4. x % p \in 0 .. (p - 1) /\ x \div p \in Nat /\ x = p * (x \div p) + (x % p)
  BY <1>2, Quotients
<1>5. PICK q \in Nat, r \in 0 .. (p - 1) : r = x % p /\ x = p * q + r
  BY <1>4
<1>6. e = [d EXCEPT ![n] = r]
  BY <1>1, <1>2, <1>3, <1>5 DEF trim
<1>7. d[n] = p * q + r
  BY <1>3, <1>5
<1>8. e \in DigitPlaces(n) /\ Divided(DigitsValue(d), 2 ^ (nb - 1 + added), q, DigitsValue(e))
  <2>1. LastCut(d, e, n, p, q, r)
    BY <1>6, <1>7 DEF LastCut
  <2>2. PICK k \in Nat : k = bit_ord(nb - 1) + added
    BY HighestBit
  <2>3. p = 2 ^ k
    BY <1>2, <2>2
  <2> QED BY <2>1, <2>2, <2>3, CutValue
<1>9. 2 ^ (nb - 1 + added) \in Nat /\ 2 ^ (nb - 1 + added) > 0
  <2>1. nb - 1 + added \in Nat
    OBVIOUS
  <2> QED BY <2>1, PowerPositive
<1> QED BY <1>8, <1>9, ByQuotient

\* The bits of the last digit from the highest bit on are those of the number.
LEMMA SignValue ==
  ASSUME NEW nb \in Nat, nb > 0, NEW n \in Nat, n = DivCeil(nb), NEW d \in DigitPlaces(n)
  PROVE  d[Len(d)] \div (2 ^ bit_ord(nb - 1)) = DigitsValue(d) \div 2 ^ (nb - 1)
<1>1. Len(d) = n
  BY DigitPlacesType
<1>2. PICK j \in Nat : j = bit_ord(nb - 1)
  BY HighestBit
<1>3. PICK p \in Nat : p = 2 ^ j /\ p > 0
  BY PowerPositive
<1>4. PICK x \in Nat : x = d[n]
  <2>1. n \in 1 .. n
    BY HighestBit
  <2>2. d \in [1 .. n -> Nat]
    BY DigitPlacesType
  <2> QED BY <2>1, <2>2
<1>5. x % p \in 0 .. (p - 1) /\ x \div p \in Nat /\ x = p * (x \div p) + (x % p)
  BY <1>3, Quotients
<1>6. PICK q \in Nat, r \in 0 .. (p - 1) : q = x \div p /\ x = p * q + r
  BY <1>5
<1>7. PICK e : e = [d EXCEPT ![n] = r]
  OBVIOUS
<1>8. LastCut(d, e, n, p, q, r)
  <2>1. d[n] = p * q + r
    BY <1>4, <1>6, Zenon
  <2> QED BY <1>7, <2>1 DEF LastCut
<1>9. Divided(DigitsValue(d), 2 ^ (nb - 1 + 0), q, DigitsValue(e))
  <2>1. 0 \in Nat /\ j = bit_ord(nb - 1) + 0
    BY <1>2
  <2> QED BY <1>3, <1>8, <2>1, CutValue
<1>10. nb - 1 + 0 = nb - 1 /\ nb - 1 \in Nat
  OBVIOUS
<1>11. 2 ^ (nb - 1) \in Nat /\ 2 ^ (nb - 1) > 0
  BY <1>10, PowerPositive
<1>12. DigitsValue(d) \div 2 ^ (nb - 1) = q
  BY <1>9, <1>10, <1>11, ByQuotient
<1> QED BY <1>1, <1>2, <1>3, <1>4, <1>6, <1>12, Zenon

-----------------------------------------------------------------------------
(* Numbers into and out of their widths *)

\* A vector whose digits are all skipped is 0.
LEMMA ZeroDigits ==
  ASSUME NEW n \in Nat, NEW d \in DigitPlaces(n)
  PROVE  vec_skip_leading_zeros(d) = 0 <=> DigitsValue(d) = 0
<1>1. PICK r \in Nat : r = DigitRadix /\ r > 0
  BY RadixPositive
<1>2. d \in Seq(0 .. (r - 1))
  BY <1>1, DigitPlacesType
<1>3. <<>> \in Seq(0 .. (r - 1)) /\ Len(<<>>) = 0
  OBVIOUS
<1>4. PICK l \in Nat : l = vec_skip_leading_zeros(d)
  <2>1. d \in Seq(Nat)
    BY <1>2
  <2>2. vec_skip_leading_zeros(d) \in 0 .. Len(d)
    BY <2>1, LeadingZeros
  <2> QED BY <2>1, <2>2
<1>5. vec_skip_leading_zeros(<<>>) = 0
  BY DEF vec_skip_leading_zeros
<1>6. vec_skip_and_cmp(d, <<>>) = 0 <=> l = 0
  <2>1. CASE l # 0
    <3>1. vec_skip_and_cmp(d, <<>>) = l - 0
      BY <1>4, <1>5, <2>1 DEF vec_skip_and_cmp
    <3> QED BY <2>1, <3>1
  <2>2. CASE l = 0
    <3>1. {k \in 1 .. l : d[k] # <<>>[k]} = {}
      BY <2>2
    <3>2. vec_skip_and_cmp(d, <<>>) = 0
      BY <1>4, <1>5, <2>2, <3>1 DEF vec_skip_and_cmp
    <3> QED BY <2>2, <3>2
  <2> QED BY <2>1, <2>2
<1>7. vec_skip_and_cmp(d, <<>>) = 0 <=> Positional(r, d) = Positional(r, <<>>)
  BY <1>1, <1>2, <1>3, ComparesDigits
<1>8. Positional(r, <<>>) = 0
  <2>1. PICK V : Tails(V, r, <<>>)
    <3>1. <<>> \in Seq(Int) /\ r \in Int
      OBVIOUS
    <3> QED BY <3>1, TailsExist
  <2>2. V[0 + 1] = 0
    BY <2>1 DEF Tails
  <2>3. Positional(r, <<>>) = V[1]
    <3>1. <<>> \in Seq(Int) /\ r \in Int
      OBVIOUS
    <3> QED BY <2>1, <3>1, PositionalTails
  <2>4. 0 + 1 = 1
    OBVIOUS
  <2> QED BY <2>2, <2>3, <2>4
<1> QED BY <1>1, <1>4, <1>6, <1>7, <1>8, Zenon DEF DigitsValue

\* The number modulo 2 * p, from -p to p - 1.
Wrapped(p, t) == IF t < p THEN t ELSE t - 2 * p

LEMMA WrapsSigned ==
  ASSUME NEW p \in Nat, p > 0, NEW v \in Int, NEW q \in Int, NEW t \in 0 .. (2 * p - 1), v = (2 * p) * q + t
  PROVE  ((v + p) % (2 * p)) - p = Wrapped(p, t)
<1>1. PICK w \in Nat : w = 2 * p /\ w > 0
  OBVIOUS
<1>2. PICK a \in Int : a = w * q /\ v = a + t
  BY <1>1
<1>3. w * (q + 1) = a + w
  <2>1. w * (q + 1) = w * q + w
    OBVIOUS
  <2> QED BY <1>2, <2>1
<1>4. CASE t < p
  <2>1. v + p = a + (t + p) /\ t + p \in 0 .. (w - 1)
    BY <1>1, <1>2, <1>4
  <2>2. Divided(v + p, w, q, t + p)
    BY <1>2, <2>1 DEF Divided
  <2>3. (v + p) % w = t + p
    BY <1>1, <2>2, ByQuotient
  <2>4. PICK z \in Int : z = (v + p) % (2 * p) /\ z = t + p
    BY <1>1, <2>3
  <2>5. Wrapped(p, t) = t
    BY <1>4 DEF Wrapped
  <2>6. z - p = t
    BY <2>4
  <2> QED BY <2>4, <2>5, <2>6, Zenon
<1>5. CASE ~(t < p)
  <2>1. v + p = (a + w) + (t - p) /\ t - p \in 0 .. (w - 1)
    BY <1>1, <1>2, <1>5
  <2>2. Divided(v + p, w, q + 1, t - p)
    BY <1>3, <2>1 DEF Divided
  <2>3. (v + p) % w = t - p
    BY <1>1, <2>2, ByQuotient
  <2>4. t - p - p = t - 2 * p
    OBVIOUS
  <2>5. Wrapped(p, t) = t - 2 * p
    BY <1>5 DEF Wrapped
  <2> QED BY <1>1, <2>3, <2>4, <2>5, Zenon
<1> QED BY <1>4, <1>5

\* The highest bit of a number modulo 2 * p says whether it is p or more.
LEMMA HighBit ==
  ASSUME NEW p \in Nat, p > 0, NEW c \in Nat
  PROVE  (c \div p) % 2 = 1 <=> ~(c % (2 * p) < p)
<1>1. PICK w \in Nat : w = 2 * p /\ w > 0
  OBVIOUS
<1>2. PICK z \in Nat, t \in 0 .. (w - 1) : c = w * z + t
  BY <1>1, HasQuotient
<1>3. c % w = t
  <2>1. Divided(c, w, z, t)
    BY <1>2 DEF Divided
  <2> QED BY <1>1, <2>1, ByQuotient
<1>4. PICK s \in 0 .. 1, y \in 0 .. (p - 1) : (s = 1 <=> ~(t < p)) /\ t = p * s + y
  <2>1. CASE t < p
    <3>1. p * 0 = 0 /\ t \in 0 .. (p - 1) /\ 0 \in 0 .. 1
      BY <2>1
    <3>2. t = p * 0 + t
      BY <3>1
    <3> QED BY <2>1, <3>1, <3>2
  <2>2. CASE ~(t < p)
    <3>1. p * 1 = p /\ t - p \in 0 .. (p - 1) /\ 1 \in 0 .. 1
      BY <1>1, <2>2
    <3>2. t = p * 1 + (t - p)
      BY <3>1
    <3> QED BY <2>2, <3>1, <3>2
  <2> QED BY <2>1, <2>2
<1>5. c = p * (2 * z + s) + y
  <2>1. p * (2 * z + s) = (2 * p) * z + p * s
    OBVIOUS
  <2>2. PICK g \in Int, h \in Int : g = w * z /\ h = p * s
    <3>1. w * z \in Int /\ p * s \in Int
      OBVIOUS
    <3> QED BY <3>1
  <2>3. p * (2 * z + s) = g + h
    BY <1>1, <2>1, <2>2, Zenon
  <2>4. c = g + t /\ t = h + y
    BY <1>2, <1>4, <2>2
  <2>5. g + (h + y) = (g + h) + y
    OBVIOUS
  <2> QED BY <2>3, <2>4, <2>5, Zenon
<1>6. c \div p = 2 * z + s
  <2>1. Divided(c, p, 2 * z + s, y)
    BY <1>5 DEF Divided
  <2> QED BY <2>1, ByQuotient
<1>7. (2 * z + s) % 2 = s
  <2>1. Divided(2 * z + s, 2, z, s)
    BY DEF Divided
  <2> QED BY <2>1, ByQuotient
<1> QED BY <1>1, <1>3, <1>4, <1>6, <1>7

\* The width of the digits is a multiple of that of the number.
LEMMA WidthsDivide ==
  ASSUME NEW nb \in Nat, nb > 0, NEW n \in Nat, n = DivCeil(nb), NEW k \in Nat, k <= nb
  PROVE  \E z \in Nat : 2 ^ (BitsPerDigit * n) = 2 ^ k * z
<1>1. PICK b \in Nat : b = BitsPerDigit
  BY BitsPerDigitAssumption
<1>2. PICK m \in Nat, j \in Nat : n = m + 1 /\ j < b /\ nb - 1 = b * m + j
  <2>1. n - 1 \in Nat /\ bit_ord(nb - 1) \in Nat /\ nb - 1 = b * (n - 1) + bit_ord(nb - 1) /\ bit_ord(nb - 1) < b
    BY <1>1, HighestBit
  <2>2. n = (n - 1) + 1
    OBVIOUS
  <2> QED BY <2>1, <2>2
<1>3. PICK a \in Nat : a = b * m
  OBVIOUS
<1>4. b * n = a + b
  <2>1. b * (m + 1) = b * m + b
    OBVIOUS
  <2> QED BY <1>2, <1>3, <2>1, Zenon
<1>5. PICK c \in Nat : c = b * n /\ k <= c
  <2>1. nb - 1 = a + j /\ j < b
    BY <1>2, <1>3, Zenon
  <2>2. a + b \in Nat /\ k <= a + b
    BY <2>1
  <2> QED BY <1>4, <2>2
<1>6. 2 ^ c = 2 ^ k * 2 ^ (c - k)
  BY <1>5, PowerDown
<1>7. 2 ^ (c - k) \in Nat
  <2>1. c - k \in Nat
    BY <1>5
  <2> QED BY <2>1, PowerPositive
<1> QED BY <1>1, <1>5, <1>6, <1>7

\* v is c modulo m.
Modulo(v, m, c) == \E k \in Int : v = m * k + c

\* Remainders in two steps: v is c modulo the larger width, and c is t modulo the smaller.
LEMMA ModuloModulo ==
  ASSUME NEW a \in Int, NEW z \in Int, NEW m, m = a * z, NEW v,
         NEW c, Modulo(v, m, c), NEW t \in Int, Modulo(c, a, t)
  PROVE  Modulo(v, a, t)
<1>1. PICK q \in Int : v = m * q + c
  BY DEF Modulo
<1>2. PICK q2 \in Int : c = a * q2 + t
  BY DEF Modulo
<1>3. PICK x \in Int : x = z * q
  OBVIOUS
<1>4. m * q = a * x
  <2>1. (a * z) * q = a * (z * q)
    OBVIOUS
  <2> QED BY <1>3, <2>1
<1>5. PICK y \in Int, w \in Int : y = a * x /\ w = a * q2
  OBVIOUS
<1>6. a * (x + q2) = y + w
  <2>1. a * (x + q2) = a * x + a * q2
    OBVIOUS
  <2> QED BY <1>5, <2>1
<1>7. v = y + (w + t)
  <2>1. m * q = y /\ c = w + t
    BY <1>2, <1>4, <1>5
  <2> QED BY <1>1, <2>1
<1>8. v = a * (x + q2) + t /\ x + q2 \in Int
  BY <1>6, <1>7
<1> QED BY <1>8 DEF Modulo

\* What is left when both c and its complement e are seen: e is the rest of the width.
LEMMA RestOfWidth ==
  ASSUME NEW w \in Nat, NEW z \in Nat, NEW q \in Int, NEW c \in Nat, NEW e \in Nat,
         c + e = w * z, NEW t \in 1 .. (w - 1), c = w * q + t
  PROVE  Divided(e, w, z - q - 1, w - t)
<1>1. PICK a \in Int, b \in Int : a = w * z /\ b = w * q
  OBVIOUS
<1>2. w * (z - q - 1) = a - b - w
  <2>1. w * (z - q - 1) = w * z - w * q - w
    OBVIOUS
  <2> QED BY <1>1, <2>1
<1>3. e = a - (b + t)
  BY <1>1
<1>4. e = w * (z - q - 1) + (w - t)
  BY <1>2, <1>3
<1>5. z - q - 1 \in Int /\ w - t \in 0 .. (w - 1)
  OBVIOUS
<1> QED BY <1>4, <1>5 DEF Divided

\* The same number below 0: the copied digits, or their complement.
LEMMA NegatedRest ==
  ASSUME NEW M \in Nat, NEW x \in Nat, NEW y \in Nat, Modulo(x, M, y), NEW z \in Nat, y + z \in {0, M}
  PROVE  Modulo(-x, M, z)
<1>0. PICK q \in Int : x = M * q + y
  BY DEF Modulo
<1>1. PICK a \in Int : a = M * q
  OBVIOUS
<1>2. CASE y + z = 0
  <2>1. y = 0 /\ z = 0
    BY <1>2
  <2>2. M * (-q) = -a
    <3>1. M * (-q) = -(M * q)
      OBVIOUS
    <3> QED BY <1>1, <3>1
  <2>3. -x = M * (-q) + z /\ -q \in Int
    BY <1>0, <1>1, <2>1, <2>2
  <2> QED BY <2>3 DEF Modulo
<1>3. CASE y + z = M
  <2>1. M * (-q - 1) = -a - M
    <3>1. M * (-q - 1) = -(M * q) - M
      OBVIOUS
    <3> QED BY <1>1, <3>1
  <2>2. -x = M * (-q - 1) + z /\ -q - 1 \in Int
    BY <1>0, <1>1, <1>3, <2>1
  <2> QED BY <2>2 DEF Modulo
<1> QED BY <1>2, <1>3

\* In two's complement a number is what it was, modulo the digits.
LEMMA ToComplement ==
  ASSUME NEW v \in Vector, Kept(v), NEW n \in Nat,
         NEW c, c = convert_SM_to_2C(v.sgn, vec_copy_and_zero(n, v.digit))
  PROVE  c \in DigitPlaces(n) /\ Modulo(HeldValue(v), 2 ^ (BitsPerDigit * n), DigitsValue(c))
<1>1. PICK d : d = vec_copy_and_zero(n, v.digit)
  OBVIOUS
<1>2. v.digit \in Seq(0 .. (DigitRadix - 1)) /\ v.sgn \in {-1, 0, 1}
  BY DEF Vector, Neg, Zero, Pos
<1>3. d \in DigitPlaces(n)
  BY <1>1, <1>2, CopyType
<1>4. PICK M \in Nat : M = 2 ^ (BitsPerDigit * n)
  <2>1. BitsPerDigit * n \in Nat
    BY BitsPerDigitAssumption
  <2> QED BY <2>1, PowerPositive
<1>5. PICK y \in Nat : y = DigitsValue(d)
  BY <1>3, <1>4, DigitsBelow
<1>6. PICK q \in Nat, x \in Nat : DigitsValue(v.digit) = x /\ x = M * q + y
  <2>1. PICK q \in Nat : DigitsValue(v.digit) = M * q + y
    BY <1>1, <1>2, <1>4, <1>5, CopyValue
  <2>2. M * q + y \in Nat
    OBVIOUS
  <2> QED BY <2>1, <2>2
<1>7. HeldValue(v) = v.sgn * x
  BY <1>6 DEF HeldValue
<1>8. Modulo(x, M, y)
  BY <1>6 DEF Modulo
<1>9. CASE v.sgn = -1
  <2>1. c = vec_complement(d)
    BY <1>1, <1>9 DEF convert_SM_to_2C, Neg
  <2>2. c \in DigitPlaces(n) /\ y + DigitsValue(c) \in {0, M}
    BY <1>3, <1>4, <1>5, <2>1, ComplementValue
  <2>3. PICK z \in Nat : z = DigitsValue(c)
    BY <1>4, <2>2, DigitsBelow
  <2>4. Modulo(-x, M, z)
    <3>1. y + z \in {0, M}
      BY <2>2, <2>3
    <3> QED BY <1>8, <3>1, NegatedRest
  <2>5. HeldValue(v) = -x
    <3>1. v.sgn * x = -x
      BY <1>9
    <3> QED BY <1>7, <3>1, Zenon
  <2> QED BY <1>4, <2>2, <2>3, <2>4, <2>5
<1>10. CASE v.sgn # -1
  <2>1. c = d
    BY <1>1, <1>10 DEF convert_SM_to_2C, Neg
  <2>2. HeldValue(v) = x
    <3>1. v.sgn = 0 => x = 0
      <4>1. v.sgn = 0 <=> DigitsValue(v.digit) = 0
        BY Zenon DEF Kept, Zero
      <4> QED BY <1>6, <4>1
    <3>2. v.sgn * x = x
      BY <1>2, <1>10, <3>1
    <3> QED BY <1>7, <3>2, Zenon
  <2> QED BY <1>3, <1>4, <1>5, <1>8, <2>1, <2>2
<1> QED BY <1>9, <1>10

\* A number with the sign that its digits have: 0 just for 0.
LEMMA SignOfDigits ==
  ASSUME NEW n \in Nat, NEW d \in DigitPlaces(n), NEW s, s = [sgn |-> check_for_zero(Pos, d), digit |-> d]
  PROVE  HeldValue(s) = DigitsValue(d) /\ (s.sgn = Zero <=> DigitsValue(s.digit) = 0)
<1>1. PICK x \in Nat : x = DigitsValue(d)
  <2>1. BitsPerDigit * n \in Nat
    BY BitsPerDigitAssumption
  <2>2. PICK M \in Nat : M = 2 ^ (BitsPerDigit * n)
    BY <2>1, PowerPositive
  <2> QED BY <2>2, DigitsBelow
<1>2. s.sgn = IF x = 0 THEN 0 ELSE 1
  BY <1>1, ZeroDigits DEF check_for_zero, Zero, Pos
<1>3. s.digit = d
  OBVIOUS
<1>4. s.sgn * x = x
  BY <1>2
<1>5. HeldValue(s) = x
  BY <1>1, <1>3, <1>4 DEF HeldValue
<1> QED BY <1>1, <1>2, <1>3, <1>5 DEF Zero

\* p is half the range of nb bits, and w the range.
HalfRange(p, w, nb) == p \in Nat /\ p > 0 /\ p = 2 ^ (nb - 1) /\ w = 2 * p

\* Out of the two's complement, and into the range of a signed number.
LEMMA FromSigned ==
  ASSUME NEW nb \in Nat, nb > 0, NEW n \in Nat, n = DivCeil(nb), NEW c \in DigitPlaces(n),
         NEW s, s = convert_signed_2C_to_SM(nb, c), NEW p, NEW w, HalfRange(p, w, nb),
         NEW q, NEW t, Divided(DigitsValue(c), w, q, t)
  PROVE  HeldValue(s) = Wrapped(p, t) /\ (s.sgn = Zero <=> DigitsValue(s.digit) = 0)
<1>1. /\ p \in Nat /\ p > 0 /\ p = 2 ^ (nb - 1) /\ w \in Nat /\ w = 2 * p /\ w > 0
      /\ q \in Int /\ t \in 0 .. (2 * p - 1) /\ DigitsValue(c) = w * q + t
  BY DEF HalfRange, Divided
<1>2. 2 ^ (nb - 1 + 1) = w /\ 2 ^ nb = w
  <2>1. nb - 1 \in Nat /\ nb - 1 + 1 = nb
    OBVIOUS
  <2>2. 2 ^ (nb - 1 + 1) = 2 * 2 ^ (nb - 1)
    BY <2>1, PowerNext
  <2> QED BY <1>1, <2>1, <2>2
<1>3. PICK M \in Nat : M = 2 ^ (BitsPerDigit * n)
  <2>1. BitsPerDigit * n \in Nat
    BY BitsPerDigitAssumption
  <2> QED BY <2>1, PowerPositive
<1>4. PICK x \in Nat : x = DigitsValue(c)
  BY <1>3, DigitsBelow
<1>5. Divided(x, w, q, t)
  BY <1>1, <1>4 DEF Divided
<1>6. x % w = t
  BY <1>1, <1>5, ByQuotient
<1>7. c[Len(c)] \div (2 ^ bit_ord(nb - 1)) = x \div p
  BY <1>1, <1>4, SignValue
<1>8. (c[Len(c)] \div (2 ^ bit_ord(nb - 1))) % 2 = 1 <=> ~(t < p)
  <2>1. (x \div p) % 2 = 1 <=> ~(x % (2 * p) < p)
    BY <1>1, HighBit
  <2> QED BY <1>1, <1>6, <1>7, <2>1
<1>9. CASE t < p
  <2>1. PICK d : d = trim(1, nb, c)
    OBVIOUS
  <2>2. s = [sgn |-> check_for_zero(Pos, d), digit |-> d]
    BY <1>8, <1>9, <2>1 DEF convert_signed_2C_to_SM
  <2>3. d \in DigitPlaces(n) /\ DigitsValue(d) = DigitsValue(c) % 2 ^ (nb - 1 + 1)
    <3>1. 1 \in Nat
      OBVIOUS
    <3> QED BY <2>1, <3>1, TrimValue
  <2>4. DigitsValue(d) = t
    BY <1>2, <1>4, <1>6, <2>3
  <2>5. HeldValue(s) = DigitsValue(d) /\ (s.sgn = Zero <=> DigitsValue(s.digit) = 0)
    BY <2>2, <2>3, SignOfDigits
  <2>6. Wrapped(p, t) = t
    BY <1>1, <1>9 DEF Wrapped
  <2> QED BY <2>4, <2>5, <2>6
<1>10. CASE ~(t < p)
  <2>1. PICK e : e = vec_complement(c)
    OBVIOUS
  <2>2. PICK d : d = trim(1, nb, e)
    OBVIOUS
  <2>3. s = [sgn |-> Neg, digit |-> d]
    BY <1>8, <1>10, <2>1, <2>2 DEF convert_signed_2C_to_SM
  <2>4. e \in DigitPlaces(n) /\ x + DigitsValue(e) \in {0, M}
    BY <1>3, <1>4, <2>1, ComplementValue
  <2>5. PICK y \in Nat : y = DigitsValue(e)
    BY <1>3, <2>4, DigitsBelow
  <2>6. d \in DigitPlaces(n) /\ DigitsValue(d) = y % w
    <3>1. 1 \in Nat
      OBVIOUS
    <3>2. d \in DigitPlaces(n) /\ DigitsValue(d) = DigitsValue(e) % 2 ^ (nb - 1 + 1)
      BY <2>2, <2>4, <3>1, TrimValue
    <3> QED BY <1>2, <2>5, <3>2
  <2>7. t \in 1 .. (w - 1)
    BY <1>1, <1>10
  <2>8. x # 0
    <3>1. SUFFICES ASSUME x = 0 PROVE FALSE
      OBVIOUS
    <3>2. w * 0 = 0
      BY <1>1
    <3>3. Divided(x, w, 0, 0)
      BY <1>1, <3>1, <3>2 DEF Divided
    <3>4. x % w = 0
      BY <1>1, <3>3, ByQuotient
    <3> QED BY <1>6, <2>7, <3>4
  <2>9. PICK z \in Nat : M = w * z
    <3>1. \E z \in Nat : 2 ^ (BitsPerDigit * n) = 2 ^ nb * z
      <4>1. nb <= nb
        OBVIOUS
      <4> QED BY <4>1, WidthsDivide
    <3> QED BY <1>2, <1>3, <3>1
  <2>10. x + y = w * z
    BY <2>4, <2>5, <2>8, <2>9
  <2>11. x = w * q + t
    BY <1>1, <1>4
  <2>12. Divided(y, w, z - q - 1, w - t)
    BY <1>1, <2>7, <2>10, <2>11, RestOfWidth
  <2>13. y % w = w - t
    BY <1>1, <2>12, ByQuotient
  <2>14. DigitsValue(d) = w - t
    BY <2>6, <2>13
  <2>15. HeldValue(s) = t - w
    <3>1. s.sgn = -1 /\ s.digit = d
      BY <2>3 DEF Neg
    <3> QED BY <1>1, <2>7, <2>14, <3>1 DEF HeldValue
  <2>16. Wrapped(p, t) = t - w
    BY <1>1, <1>10 DEF Wrapped
  <2>17. s.sgn # Zero /\ DigitsValue(s.digit) # 0
    BY <1>1, <2>3, <2>7, <2>14 DEF Neg, Zero
  <2> QED BY <2>15, <2>16, <2>17
<1> QED BY <1>9, <1>10

\* Out of the two's complement, and into the range of an unsigned number.
LEMMA FromUnsigned ==
  ASSUME NEW nb \in Nat, nb > 0, NEW n \in Nat, n = DivCeil(nb), NEW c \in DigitPlaces(n),
         NEW s, s = convert_unsigned_2C_to_SM(nb, c)
  PROVE  HeldValue(s) = DigitsValue(c) % 2 ^ (nb - 1) /\ (s.sgn = Zero <=> DigitsValue(s.digit) = 0)
<1>1. PICK d : d = trim(0, nb, c)
  OBVIOUS
<1>2. s = [sgn |-> check_for_zero(Pos, d), digit |-> d]
  BY <1>1 DEF convert_unsigned_2C_to_SM
<1>3. d \in DigitPlaces(n) /\ DigitsValue(d) = DigitsValue(c) % 2 ^ (nb - 1 + 0)
  <2>1. 0 \in Nat
    OBVIOUS
  <2> QED BY <1>1, <2>1, TrimValue
<1>4. nb - 1 + 0 = nb - 1
  OBVIOUS
<1>5. HeldValue(s) = DigitsValue(d) /\ (s.sgn = Zero <=> DigitsValue(s.digit) = 0)
  BY <1>2, <1>3, SignOfDigits
<1> QED BY <1>3, <1>4, <1>5

\* More bits do not take fewer digits.
LEMMA MoreBits ==
  ASSUME NEW a \in Nat, a > 0, NEW c \in Nat, a <= c
  PROVE  DivCeil(a) <= DivCeil(c)
<1>1. PICK b \in Nat : b = BitsPerDigit /\ b > 0
  BY BitsPerDigitAssumption
<1>2. PICK q \in Nat, r \in 0 .. (b - 1) : DivCeil(a) = q + 1 /\ a - 1 = b * q + r
  <2>1. a - 1 \in Nat
    OBVIOUS
  <2>2. PICK q \in Nat, r \in 0 .. (b - 1) : q = (a - 1) \div b /\ r = (a - 1) % b /\ a - 1 = b * q + r
    BY <1>1, <2>1, PlaceParts
  <2> QED BY <1>1, <2>2 DEF DivCeil
<1>3. PICK k \in Nat, t \in 0 .. (b - 1) : DivCeil(c) = k + 1 /\ c - 1 = b * k + t
  <2>1. c - 1 \in Nat
    OBVIOUS
  <2>2. PICK k \in Nat, t \in 0 .. (b - 1) : k = (c - 1) \div b /\ t = (c - 1) % b /\ c - 1 = b * k + t
    BY <1>1, <2>1, PlaceParts
  <2> QED BY <1>1, <2>2 DEF DivCeil
<1>4. SUFFICES ASSUME q >= k + 1 PROVE FALSE
  BY <1>2, <1>3
<1>5. PICK j \in Nat : j = q - k - 1 /\ q = k + 1 + j
  BY <1>4
<1>6. b * (k + 1 + j) = b * k + b + b * j
  OBVIOUS
<1>7. b * j \in Nat /\ b * k \in Nat /\ b * q \in Nat
  OBVIOUS
<1> QED BY <1>2, <1>3, <1>5, <1>6, <1>7

\* A number copied into a width that is not larger is converted, and one that fits anyway
\* is taken over.
LEMMA CopyOfNumber ==
  ASSUME NEW v \in Vector, Kept(v), NEW nb \in Nat, nb > 0, NEW s, s = copy_digits_signed(nb, v),
         NEW p \in Nat, p > 0, p = 2 ^ (nb - 1)
  PROVE  /\ HeldValue(s) = ((HeldValue(v) + p) % (2 * p)) - p
         /\ s.sgn = Zero <=> DigitsValue(s.digit) = 0
<1>1. PICK n \in Nat : n = DivCeil(nb)
  BY HighestBit
<1>2. PICK d : d = vec_copy_and_zero(n, v.digit)
  OBVIOUS
<1>3. v.digit \in Seq(0 .. (DigitRadix - 1)) /\ v.sgn \in {-1, 0, 1} /\ v.nb \in Nat /\ v.nb > 0
  BY DEF Vector, Neg, Zero, Pos
<1>4. PICK M \in Nat : M = 2 ^ (BitsPerDigit * n)
  <2>1. BitsPerDigit * n \in Nat
    BY BitsPerDigitAssumption
  <2> QED BY <2>1, PowerPositive
<1>5. d \in DigitPlaces(n)
  BY <1>2, <1>3, CopyType
<1>6. 2 ^ nb = 2 * p
  <2>1. nb - 1 \in Nat /\ nb - 1 + 1 = nb
    OBVIOUS
  <2>2. 2 ^ (nb - 1 + 1) = 2 * 2 ^ (nb - 1)
    BY <2>1, PowerNext
  <2> QED BY <2>1, <2>2
<1>7. PICK w \in Nat : w = 2 * p /\ w > 0
  OBVIOUS
<1>8. PICK z \in Nat : M = w * z
  <2>1. nb <= nb
    OBVIOUS
  <2>2. \E z \in Nat : 2 ^ (BitsPerDigit * n) = 2 ^ nb * z
    BY <1>1, <2>1, WidthsDivide
  <2> QED BY <1>4, <1>6, <1>7, <2>2
<1>9. CASE n <= Len(v.digit) /\ nb <= v.nb
  <2>1. PICK c : c = convert_SM_to_2C(v.sgn, d)
    OBVIOUS
  <2>2. s = convert_signed_2C_to_SM(nb, c)
    BY <1>1, <1>2, <1>9, <2>1 DEF copy_digits_signed
  <2>3. c \in DigitPlaces(n) /\ Modulo(HeldValue(v), M, DigitsValue(c))
    BY <1>2, <1>4, <2>1, ToComplement
  <2>5. PICK x \in Nat : x = DigitsValue(c)
    BY <1>4, <2>3, DigitsBelow
  <2>6. PICK q2 \in Nat, t \in 0 .. (w - 1) : x = w * q2 + t
    BY <1>7, HasQuotient
  <2>7. Divided(DigitsValue(c), w, q2, t) /\ HalfRange(p, w, nb)
    BY <1>7, <2>5, <2>6 DEF Divided, HalfRange
  <2>8. HeldValue(s) = Wrapped(p, t) /\ (s.sgn = Zero <=> DigitsValue(s.digit) = 0)
    BY <1>1, <2>2, <2>3, <2>7, FromSigned
  <2>9. Modulo(HeldValue(v), w, t)
    <3>1. Modulo(x, w, t)
      BY <2>6 DEF Modulo
    <3>2. Modulo(HeldValue(v), M, x)
      BY <2>3, <2>5
    <3>3. w \in Int /\ z \in Int /\ t \in Int
      OBVIOUS
    <3> QED BY <1>8, <3>1, <3>2, <3>3, ModuloModulo
  <2>10. PICK a \in Int, k \in Int : HeldValue(v) = a /\ a = w * k + t
    <3>1. PICK k \in Int : HeldValue(v) = w * k + t
      BY <2>9 DEF Modulo
    <3>2. w * k + t \in Int
      OBVIOUS
    <3> QED BY <3>1, <3>2
  <2>12. ((a + p) % (2 * p)) - p = Wrapped(p, t)
    <3>1. a = (2 * p) * k + t
      BY <1>7, <2>10
    <3>2. t \in 0 .. (2 * p - 1)
      BY <1>7
    <3> QED BY <2>10, <3>1, <3>2, WrapsSigned
  <2> QED BY <2>8, <2>10, <2>12
<1>10. CASE ~(n <= Len(v.digit) /\ nb <= v.nb)
  <2>1. s = [sgn |-> v.sgn, digit |-> d]
    BY <1>1, <1>2, <1>10 DEF copy_digits_signed
  <2>2. v.nb <= nb
    <3>1. SUFFICES ASSUME nb < v.nb PROVE FALSE
      BY <1>3
    <3>2. n <= DivCeil(v.nb)
      BY <1>1, <1>3, <3>1, MoreBits
    <3>3. Len(v.digit) = DivCeil(v.nb)
      BY Zenon DEF Kept
    <3> QED BY <1>3, <1>10, <3>1, <3>2, <3>3
  <2>3. PICK r \in Nat : r = 2 ^ (v.nb - 1) /\ r <= p
    <3>1. v.nb - 1 \in Nat /\ nb - 1 \in Nat /\ v.nb - 1 <= nb - 1
      BY <1>3, <2>2
    <3> QED BY <3>1, PowerPositive, PowerGrows
  <2>4. PICK y \in Nat : y = DigitsValue(d)
    BY <1>4, <1>5, DigitsBelow
  <2>5. y < M
    BY <1>4, <1>5, <2>4, DigitsBelow
  <2>6. PICK q \in Nat : DigitsValue(v.digit) = M * q + y
    BY <1>2, <1>3, <1>4, <2>4, CopyValue
  <2>7. PICK x \in Nat : x = M * q + y
    OBVIOUS
  <2>8. HeldValue(v) = v.sgn * x /\ (v.sgn = 0 <=> x = 0) /\ HeldValue(v) \in (-r) .. (r - 1)
    <3>1. HeldValue(v) = v.sgn * DigitsValue(v.digit)
      BY DEF HeldValue
    <3>2. (v.sgn = 0 <=> DigitsValue(v.digit) = 0) /\ HeldValue(v) \in (-(2 ^ (v.nb - 1))) .. (2 ^ (v.nb - 1) - 1)
      BY Zenon DEF Kept, Zero
    <3> QED BY <2>3, <2>6, <2>7, <3>1, <3>2
  <2>9. PICK V \in Int : V = HeldValue(v) /\ V \in (-p) .. (p - 1)
    BY <2>3, <2>8
  <2>10. V = (IF v.sgn = -1 THEN -x ELSE x) /\ x <= p
    <3>1. HeldValue(v) = v.sgn * x
      BY <2>8
    <3>2. CASE v.sgn = -1
      <4>1. v.sgn * x = -x
        BY <3>2
      <4>2. V = -x
        BY <2>9, <3>1, <4>1, Zenon
      <4> QED BY <2>9, <3>2, <4>2
    <3>3. CASE v.sgn = 0
      <4>1. x = 0
        BY <2>8, <3>3
      <4>2. v.sgn * x = x
        BY <3>3, <4>1
      <4>3. V = x
        BY <2>9, <3>1, <4>2, Zenon
      <4> QED BY <2>9, <3>3, <4>1, <4>3
    <3>4. CASE v.sgn = 1
      <4>1. v.sgn * x = x
        BY <3>4
      <4>2. V = x
        BY <2>9, <3>1, <4>1, Zenon
      <4> QED BY <2>9, <3>4, <4>2
    <3> QED BY <1>3, <3>2, <3>3, <3>4
  <2>11. x = y
    <3>1. w <= M
      <4>1. z # 0
        <5>1. w * 0 = 0
          BY <1>7
        <5> QED BY <1>8, <2>5, <5>1
      <4>2. w * (z - 1) >= 0
        BY <4>1
      <4>3. w * z = w * (z - 1) + w
        OBVIOUS
      <4> QED BY <1>8, <4>2, <4>3
    <3>2. q = 0
      <4>1. SUFFICES ASSUME q >= 1 PROVE FALSE
        OBVIOUS
      <4>2. M * (q - 1) >= 0
        BY <4>1
      <4>3. M * q = M * (q - 1) + M
        OBVIOUS
      <4> QED BY <1>7, <2>7, <2>10, <3>1, <4>2, <4>3
    <3>3. M * 0 = 0
      OBVIOUS
    <3> QED BY <2>7, <3>2, <3>3
  <2>12. HeldValue(s) = V /\ (s.sgn = Zero <=> DigitsValue(s.digit) = 0)
    <3>1. s.sgn = v.sgn /\ s.digit = d
      BY <2>1
    <3>2. HeldValue(s) = v.sgn * x
      BY <2>4, <2>11, <3>1 DEF HeldValue
    <3> QED BY <2>4, <2>8, <2>9, <2>11, <3>1, <3>2 DEF Zero
  <2>13. ((V + p) % (2 * p)) - p = V
    <3>1. CASE V >= 0
      <4>1. V \in 0 .. (2 * p - 1) /\ V = (2 * p) * 0 + V
        BY <2>9, <3>1
      <4>2. Wrapped(p, V) = V
        BY <2>9 DEF Wrapped
      <4> QED BY <4>1, <4>2, WrapsSigned
    <3>2. CASE V < 0
      <4>1. PICK t \in 0 .. (2 * p - 1) : t = V + 2 * p
        BY <2>9, <3>2
      <4>2. V = (2 * p) * (-1) + t
        BY <4>1
      <4>3. Wrapped(p, t) = V
        BY <2>9, <4>1 DEF Wrapped
      <4>4. PICK k \in Int : V = (2 * p) * k + t
        BY <4>2
      <4>5. ((V + p) % (2 * p)) - p = Wrapped(p, t)
        BY <4>4, WrapsSigned
      <4> QED BY <4>3, <4>5
    <3>3. V >= 0 \/ V < 0
      OBVIOUS
    <3> QED BY <3>1, <3>2, <3>3, Zenon
  <2> QED BY <2>9, <2>12, <2>13
<1> QED BY <1>9, <1>10

\* An unsigned copy is always converted.
LEMMA CopyUnsigned ==
  ASSUME NEW v \in Vector, Kept(v), NEW nb \in Nat, nb > 0, NEW s, s = copy_digits_unsigned(nb, v),
         NEW p \in Nat, p > 0, p = 2 ^ (nb - 1)
  PROVE  /\ HeldValue(s) = HeldValue(v) % p
         /\ s.sgn = Zero <=> DigitsValue(s.digit) = 0
<1>1. PICK n \in Nat : n = DivCeil(nb)
  BY HighestBit
<1>2. PICK c : c = convert_SM_to_2C(v.sgn, vec_copy_and_zero(n, v.digit))
  OBVIOUS
<1>3. s = convert_unsigned_2C_to_SM(nb, c)
  BY <1>1, <1>2 DEF copy_digits_unsigned
<1>4. PICK M \in Nat : M = 2 ^ (BitsPerDigit * n)
  <2>1. BitsPerDigit * n \in Nat
    BY BitsPerDigitAssumption
  <2> QED BY <2>1, PowerPositive
<1>5. c \in DigitPlaces(n) /\ Modulo(HeldValue(v), M, DigitsValue(c))
  BY <1>2, <1>4, ToComplement
<1>7. PICK x \in Nat : x = DigitsValue(c)
  BY <1>4, <1>5, DigitsBelow
<1>8. HeldValue(s) = x % p /\ (s.sgn = Zero <=> DigitsValue(s.digit) = 0)
  BY <1>1, <1>3, <1>5, <1>7, FromUnsigned
<1>9. PICK z \in Nat : M = p * z
  <2>1. nb - 1 \in Nat /\ nb - 1 <= nb
    OBVIOUS
  <2>2. \E z \in Nat : 2 ^ (BitsPerDigit * n) = 2 ^ (nb - 1) * z
    BY <1>1, <2>1, WidthsDivide
  <2> QED BY <1>4, <2>2
<1>10. PICK q2 \in Nat, t \in 0 .. (p - 1) : x = p * q2 + t
  BY HasQuotient
<1>11. x % p = t
  <2>1. Divided(x, p, q2, t)
    BY <1>10 DEF Divided
  <2> QED BY <2>1, ByQuotient
<1>12. Modulo(HeldValue(v), p, t)
  <2>1. Modulo(x, p, t)
    BY <1>10 DEF Modulo
  <2>2. Modulo(HeldValue(v), M, x)
    BY <1>5, <1>7
  <2>3. p \in Int /\ z \in Int /\ t \in Int
    OBVIOUS
  <2> QED BY <1>9, <2>1, <2>2, <2>3, ModuloModulo
<1>13. HeldValue(v) % p = t
  <2>1. PICK a \in Int, k \in Int : HeldValue(v) = a /\ a = p * k + t
    <3>1. PICK k \in Int : HeldValue(v) = p * k + t
      BY <1>12 DEF Modulo
    <3>2. p * k + t \in Int
      OBVIOUS
    <3> QED BY <3>1, <3>2
  <2>2. Divided(a, p, k, t)
    BY <2>1 DEF Divided
  <2>3. a % p = t
    BY <2>2, ByQuotient
  <2> QED BY <2>1, <2>3
<1> QED BY <1>8, <1>11, <1>13

-----------------------------------------------------------------------------
(* The inputs *)

\* What is chosen is an input that is given.
ChosenInput ==
  \/ input.of = "none"
  \/ \E file \in Files : input = [of |-> "plan", file |-> file]
  \/ \E pair \in Operands : input = [of |-> "words", x |-> pair.x, y |-> pair.y]
  \/ \E copy \in Copies : input = [of |-> "digits", v |-> copy.v, w |-> copy.w, nb |-> copy.nb]
  \/ \E range \in Ranges :
       input = [of |-> "range", x |-> range.x, mark1 |-> range.mark1, mark2 |-> range.mark2]
  \/ \E payload \in Payloads :
       input = [ of |-> "payload", f |-> payload.f, D |-> payload.D, bus |-> payload.bus,
                 txn |-> payload.txn ]

LEMMA InitChosen == ToInput => ChosenInput
BY DEF ToInput, ChosenInput, ToChoose

LEMMA StepChosen == ChosenInput /\ [Choose]_input => ChosenInput'
<1> SUFFICES ASSUME ChosenInput, [Choose]_input PROVE ChosenInput'
  OBVIOUS
<1>1. CASE PlanInput
  BY <1>1 DEF PlanInput, ChosenInput
<1>2. CASE WordsInput
  BY <1>2 DEF WordsInput, ChosenInput
<1>3. CASE RangeInput
  BY <1>3 DEF RangeInput, ChosenInput
<1>4. CASE DigitsInput
  BY <1>4 DEF DigitsInput, ChosenInput
<1>5. CASE PayloadInput
  BY <1>5 DEF PayloadInput, ChosenInput
<1>6. CASE UNCHANGED input
  BY <1>6 DEF ChosenInput
<1> QED BY <1>1, <1>2, <1>3, <1>4, <1>5, <1>6 DEF Choose

LEMMA AlwaysChosen == InputSpec => []ChosenInput
BY InitChosen, StepChosen, PTL DEF InputSpec

\* What holds of files holds of the one that is chosen.
LEMMA ChosenPlan == ChosenInput => PlanExact
<1> SUFFICES ASSUME ChosenInput, input.of = "plan" PROVE PlanExact
  BY DEF PlanExact
<1>1. PICK file \in Files : input = [of |-> "plan", file |-> file]
  BY DEF ChosenInput
<1>2. file \in [phlist : Seq(Header), clear : BOOLEAN, profile : Nat, entry : BOOLEAN]
  BY InputsAssumption
<1>3. input.file = file
  BY <1>1
<1> QED BY <1>2, <1>3, PlanWritesImage DEF PlanExact

\* For every list of program headers the actions of "open" write the image that the headers
\* describe, and total_bytes is its size if the segments are apart (xsdb.tcl 470-484).
THEOREM PlanIsExact == InputSpec => []PlanExact
BY AlwaysChosen, ChosenPlan, PTL

\* What holds of a digit vector and a width holds of those that are chosen.
LEMMA ChosenCopies == ChosenInput => CopyWraps
<1> SUFFICES ASSUME ChosenInput, input.of = "digits" PROVE CopyWraps
  BY DEF CopyWraps
<1>1. PICK copy \in Copies : input = [of |-> "digits", v |-> copy.v, w |-> copy.w, nb |-> copy.nb]
  BY DEF ChosenInput
<1>2. PICK v \in Vector : v = copy.v /\ v = input.v
  BY <1>1, InputsAssumption
<1>3. PICK nb \in Nat : nb > 0 /\ nb = copy.nb /\ nb = input.nb
  BY <1>1, InputsAssumption
<1>4. Kept(v)
  BY <1>1, <1>2, InputsAssumption
<1>5. PICK p \in Nat : p > 0 /\ p = 2 ^ (nb - 1)
  <2>1. nb - 1 \in Nat
    BY <1>3
  <2> QED BY <2>1, PowerPositive
<1>6. 2 ^ nb = 2 * p
  <2>1. nb - 1 \in Nat /\ nb - 1 + 1 = nb
    BY <1>3
  <2>2. 2 ^ (nb - 1 + 1) = 2 * 2 ^ (nb - 1)
    BY <2>1, PowerNext
  <2> QED BY <1>5, <2>1, <2>2
<1>7. (2 * p) \div 2 = p
  OBVIOUS
<1>8. PICK s : s = copy_digits_signed(nb, v)
  OBVIOUS
<1>9. PICK u : u = copy_digits_unsigned(nb, v)
  OBVIOUS
<1>10. HeldValue(s) = ((HeldValue(v) + p) % (2 * p)) - p /\ (s.sgn = Zero <=> DigitsValue(s.digit) = 0)
  BY <1>3, <1>4, <1>5, <1>8, CopyOfNumber
<1>11. HeldValue(u) = HeldValue(v) % p /\ (u.sgn = Zero <=> DigitsValue(u.digit) = 0)
  BY <1>3, <1>4, <1>5, <1>9, CopyUnsigned
<1> QED BY <1>2, <1>3, <1>6, <1>7, <1>8, <1>9, <1>10, <1>11, Zenon DEF CopyWraps

\* copy_digits_signed and copy_digits_unsigned leave a kept number as it is modulo the width
\* it is copied into, in the range of that width, and with the sign of 0 just when it is
\* 0: for every width of the number and of the copy, and digits of any width.
THEOREM CopiesWrap == InputSpec => []CopyWraps
BY AlwaysChosen, ChosenCopies, PTL

\* What holds of digit vectors holds of the ones that are chosen.
LEMMA ChosenComparison == ChosenInput => CompareMatches
<1> SUFFICES ASSUME ChosenInput, input.of = "digits" PROVE CompareMatches
  BY DEF CompareMatches
<1>1. PICK copy \in Copies : input = [of |-> "digits", v |-> copy.v, w |-> copy.w, nb |-> copy.nb]
  BY DEF ChosenInput
<1>2. PICK radix \in Nat : radix = DigitRadix /\ radix > 0
  BY RadixPositive
<1>3. input.v \in Vector /\ input.w \in Vector
  BY <1>1, InputsAssumption
<1>4. input.v.digit \in Seq(0 .. (radix - 1)) /\ input.w.digit \in Seq(0 .. (radix - 1))
  BY <1>2, <1>3 DEF Vector
<1>5. LET result == vec_skip_and_cmp(input.v.digit, input.w.digit)
      IN /\ result < 0 <=> Positional(radix, input.v.digit) < Positional(radix, input.w.digit)
         /\ result = 0 <=> Positional(radix, input.v.digit) = Positional(radix, input.w.digit)
  BY <1>2, <1>4, ComparesDigits
<1> QED BY <1>2, <1>5 DEF CompareMatches, DigitsValue

\* vec_skip_and_cmp has the sign of the difference of two digit vectors of any lengths, for
\* digits of any width (sc_nbutils.h).
THEOREM ComparisonMatches == InputSpec => []CompareMatches
BY AlwaysChosen, ChosenComparison, PTL

-----------------------------------------------------------------------------
(* The conversions of the payloads of the inputs *)

LEMMA ChosenPayload ==
  ASSUME ChosenInput, input.of = "payload"
  PROVE  /\ input.txn \in Payload /\ Conveyed(input.f, input.txn, input.D, input.bus, Converted)
         /\ Fields(Converted)
<1>1. PICK payload \in Payloads :
        input = [ of |-> "payload", f |-> payload.f, D |-> payload.D, bus |-> payload.bus,
                  txn |-> payload.txn ]
  BY DEF ChosenInput
<1>2. /\ payload.f \in {"generic", "word", "aligned", "single"} /\ payload.D \in Nat /\ payload.bus \in Nat
      /\ payload.txn \in Payload
      /\ PowerOf2(payload.D) /\ PowerOf2(payload.bus)
      /\ InLimits(payload.f, payload.txn, payload.D, payload.bus)
  BY PayloadsAssumption
<1>3. PICK f \in {"generic", "word", "aligned", "single"}, D \in Nat, bus \in Nat, txn \in Payload :
        f = input.f /\ D = input.D /\ bus = input.bus /\ txn = input.txn
        /\ PowerOf2(D) /\ PowerOf2(bus) /\ InLimits(f, txn, D, bus)
  BY <1>1, <1>2
<1>4. PICK C : C = Converted /\ C = to_hostendian(f, txn, D, bus)
  BY <1>3 DEF Converted
<1>5. Conveyed(f, txn, D, bus, C) /\ Fields(C)
  BY <1>3, <1>4, EveryConveyed
<1> QED BY <1>3, <1>4, <1>5

LEMMA HostPlaces == \A i : HostPlace(i) = PlaceOf(input.txn, input.D, input.bus, i)
BY DEF HostPlace, PlaceOf

LEMMA ChosenWrites == ChosenInput => WriteConverted
<1> SUFFICES ASSUME ChosenInput, input.of = "payload", ~input.txn.read PROVE WriteConverted
  BY Zenon DEF WriteConverted
<1>1. PICK C, txn, D, bus : C = Converted /\ txn = input.txn /\ D = input.D /\ bus = input.bus
  OBVIOUS
<1>2. PICK t, n : Carries(C, t, n, txn, D, bus) /\ Writes(C, t, txn)
  BY <1>1, ChosenPayload, Zenon DEF Conveyed
<1>3. {<<PlaceIn(C, i), C.data[i + 1]>> : i \in {j \in Offsets(Len(C.data)) : Enabled(C.be, j)}}
        = {<<PlaceOf(txn, D, bus, i), txn.data[i + 1]>> :
             i \in {j \in Offsets(Len(txn.data)) : Enabled(txn.be, j)}}
  BY <1>2, CarriedWrites
<1>4. \A i : HostPlace(i) = PlaceOf(txn, D, bus, i)
  BY <1>1, HostPlaces, Zenon
<1>5. {<<PlaceIn(C, i), C.data[i + 1]>> : i \in {j \in Offsets(Len(C.data)) : Enabled(C.be, j)}}
        = {<<HostPlace(i), txn.data[i + 1]>> :
             i \in {j \in Offsets(Len(txn.data)) : Enabled(txn.be, j)}}
  BY <1>3, <1>4, Zenon
<1>6. {<<PlaceIn(Converted, i), Converted.data[i + 1]>> :
         i \in {j \in Offsets(Len(Converted.data)) : Enabled(Converted.be, j)}}
        = {<<HostPlace(i), input.txn.data[i + 1]>> :
             i \in {j \in Offsets(Len(input.txn.data)) : Enabled(input.txn.be, j)}}
  BY <1>1, <1>5, Zenon
<1> QED BY <1>6, Zenon DEF WriteConverted

\* A converted write sets the bytes of the host's memory that the initiator means, to the
\* values it means, and no others: for the four functions of tlm_endian_conv.h, every
\* address, length, streaming width and pattern of enables within their limits, and data
\* words and bus words of any powers of 2.
THEOREM WritesAreConverted == InputSpec => []WriteConverted
BY AlwaysChosen, ChosenWrites, PTL

LEMMA ChosenReads == ChosenInput => ReadReturned
<1> SUFFICES ASSUME ChosenInput, input.of = "payload", input.txn.read PROVE ReadReturned
  BY Zenon DEF ReadReturned
<1>1. PICK C, txn, D, bus, f : /\ C = Converted /\ txn = input.txn /\ D = input.D /\ bus = input.bus /\ f = input.f
  OBVIOUS
<1>2. PICK he : he = Answer(C) /\ he = Response
  BY <1>1, Zenon DEF Answer, Response
<1>3. PICK t, n : Carries(C, t, n, txn, D, bus) /\ Fetches(from_hostendian(f, txn, he, D, bus), he, t, txn)
  BY <1>1, <1>2, ChosenPayload, Zenon DEF Conveyed
<1>4. txn \in Payload /\ Fields(C)
  BY <1>1, ChosenPayload
<1>5. he.data = [k \in DOMAIN C.data |-> IF Enabled(C.be, k - 1) THEN PlaceIn(C, k - 1) ELSE C.data[k]]
  BY <1>2, <1>4, AnswerFields
<1>6. PICK data : data = from_hostendian(f, txn, he, D, bus)
  OBVIOUS
<1>7. \A k \in DOMAIN txn.data :
        data[k] = IF Enabled(txn.be, k - 1) THEN PlaceOf(txn, D, bus, k - 1) ELSE txn.data[k]
  BY <1>3, <1>4, <1>5, <1>6, CarriedReads
<1> QED BY <1>1, <1>2, <1>6, <1>7, HostPlaces, Zenon DEF ReadReturned

\* The data of a converted read come back to the bytes that the initiator has enabled, and
\* the others stay as they were: for the same functions, payloads and words.
THEOREM ReadsAreReturned == InputSpec => []ReadReturned
BY AlwaysChosen, ChosenReads, PTL

-----------------------------------------------------------------------------
(* Counting the replies to one kind of command *)

Replies == [op : {"read", "write"}, st : {"ok", "error", "lost"}, buf : 0 .. Printed]

Places(q, op) == {i \in DOMAIN q : q[i].op = op}
Count(q, op) == Cardinality(Places(q, op))

LEMMA CountType ==
  ASSUME NEW q \in Seq(Replies), NEW op
  PROVE  /\ IsFiniteSet(Places(q, op)) /\ Count(q, op) \in Nat
         /\ Count(q, op) = 0 => \A i \in DOMAIN q : q[i].op # op
<1>1. IsFiniteSet(DOMAIN q)
  BY FS_Interval
<1>2. IsFiniteSet(Places(q, op))
  BY <1>1, FS_Subset DEF Places
<1>3. Count(q, op) \in Nat /\ (Count(q, op) = 0 => Places(q, op) = {})
  BY <1>2, FS_CardinalityType, FS_EmptySet DEF Count
<1> QED BY <1>2, <1>3 DEF Places

LEMMA CountEmpty ==
  ASSUME NEW op
  PROVE  Count(<<>>, op) = 0
<1>1. Places(<<>>, op) = {}
  BY DEF Places
<1> QED BY <1>1, FS_EmptySet DEF Count

LEMMA CountAppend ==
  ASSUME NEW q \in Seq(Replies), NEW m \in Replies, NEW op
  PROVE  Count(Append(q, m), op) = Count(q, op) + (IF m.op = op THEN 1 ELSE 0)
<1> DEFINE n == Len(q) + 1
<1>1. DOMAIN Append(q, m) = DOMAIN q \cup {n} /\ n \notin DOMAIN q
  OBVIOUS
<1>2. Append(q, m)[n] = m /\ \A i \in DOMAIN q : Append(q, m)[i] = q[i]
  OBVIOUS
<1>3. Places(Append(q, m), op) = IF m.op = op THEN Places(q, op) \cup {n} ELSE Places(q, op)
  BY <1>1, <1>2 DEF Places
<1>4. n \notin Places(q, op)
  BY <1>1 DEF Places
<1> HIDE DEF n
<1>5. IsFiniteSet(Places(q, op)) /\ Count(q, op) \in Nat
  BY CountType
<1>6. CASE m.op = op
  BY <1>3, <1>4, <1>5, <1>6, FS_AddElement DEF Count
<1>7. CASE m.op # op
  BY <1>3, <1>5, <1>7 DEF Count
<1> QED BY <1>6, <1>7

\* The same numbers, n higher.
LEMMA ShiftedCardinality ==
  ASSUME NEW S \in SUBSET Nat, IsFiniteSet(S), NEW n \in Nat
  PROVE  /\ IsFiniteSet({i + n : i \in S})
         /\ Cardinality({i + n : i \in S}) = Cardinality(S)
<1> DEFINE T == {i + n : i \in S}
           f == [i \in S |-> i + n]
<1>1. f \in Bijection(S, T)
  <2>1. f \in [S -> T] /\ IsInjective(f)
    BY DEF IsInjective
  <2>2. \A t \in T : \E s \in S : f[s] = t
    OBVIOUS
  <2> QED BY <2>1, <2>2 DEF Bijection, Injection, Surjection
<1>2. ExistsBijection(S, T)
  BY <1>1 DEF ExistsBijection
<1> HIDE DEF T, f
<1>3. IsFiniteSet(T) /\ Cardinality(T) = Cardinality(S)
  BY <1>2, FS_Bijection
<1> QED BY <1>3 DEF T

LEMMA CountConcat ==
  ASSUME NEW p \in Seq(Replies), NEW q \in Seq(Replies), NEW op
  PROVE  Count(p \o q, op) = Count(p, op) + Count(q, op)
<1> DEFINE S == Places(p, op)
           T == {i + Len(p) : i \in Places(q, op)}
<1>1. Places(p \o q, op) = S \cup T
  <2>1. \A i \in DOMAIN p : (p \o q)[i] = p[i] /\ i \in DOMAIN (p \o q)
    OBVIOUS
  <2>2. \A i \in DOMAIN q : (p \o q)[i + Len(p)] = q[i] /\ i + Len(p) \in DOMAIN (p \o q)
    OBVIOUS
  <2>3. \A i \in DOMAIN (p \o q) : i \in DOMAIN p \/ \E j \in DOMAIN q : i = j + Len(p)
    <3>1. TAKE i \in DOMAIN (p \o q)
    <3>2. CASE i > Len(p)
      <4>1. i - Len(p) \in DOMAIN q /\ i = (i - Len(p)) + Len(p)
        BY <3>1, <3>2
      <4> QED BY <4>1
    <3> QED BY <3>1, <3>2
  <2> QED BY <2>1, <2>2, <2>3 DEF Places
<1>2. S \cap T = {}
  BY DEF Places
<1>3. IsFiniteSet(S) /\ Cardinality(S) = Count(p, op) /\ Cardinality(S) \in Nat
  BY CountType DEF Count
<1>4. IsFiniteSet(T) /\ Cardinality(T) = Count(q, op) /\ Cardinality(T) \in Nat
  <2>1. IsFiniteSet(Places(q, op)) /\ Places(q, op) \in SUBSET Nat /\ Count(q, op) \in Nat
    BY CountType DEF Places
  <2>2. Len(p) \in Nat
    OBVIOUS
  <2> HIDE DEF S
  <2> QED BY <2>1, <2>2, ShiftedCardinality DEF Count
<1> HIDE DEF S, T
<1>5. Cardinality(S \cup T) = Cardinality(S) + Cardinality(T) - Cardinality({})
  BY <1>2, <1>3, <1>4, FS_Union
<1>6. Cardinality({}) = 0
  BY FS_EmptySet
<1> QED BY <1>1, <1>3, <1>4, <1>5, <1>6 DEF Count

LEMMA CountTail ==
  ASSUME NEW q \in Seq(Replies), q # <<>>, NEW op
  PROVE  Count(q, op) = Count(Tail(q), op) + (IF Head(q).op = op THEN 1 ELSE 0)
<1> DEFINE h == Head(q)
           r == Tail(q)
<1>1. h \in Replies /\ r \in Seq(Replies) /\ q = Append(<<>>, h) \o r
  OBVIOUS
<1>2. <<>> \in Seq(Replies) /\ Append(<<>>, h) \in Seq(Replies)
  BY <1>1
<1> HIDE DEF h, r
<1>3. Count(Append(<<>>, h), op) = IF h.op = op THEN 1 ELSE 0
  <2>1. Count(Append(<<>>, h), op) = Count(<<>>, op) + IF h.op = op THEN 1 ELSE 0
    BY <1>1, <1>2, CountAppend
  <2> QED BY <2>1, CountEmpty
<1>4. Count(Append(<<>>, h) \o r, op) = Count(Append(<<>>, h), op) + Count(r, op)
  <2> DEFINE p == Append(<<>>, h)
  <2>1. p \in Seq(Replies)
    BY <1>2
  <2> HIDE DEF p
  <2>2. Count(p \o r, op) = Count(p, op) + Count(r, op)
    BY <1>1, <2>1, CountConcat
  <2> QED BY <2>2 DEF p
<1>5. Count(r, op) \in Nat
  BY <1>1, CountType
<1>6. Count(q, op) = Count(r, op) + IF h.op = op THEN 1 ELSE 0
  BY <1>1, <1>3, <1>4, <1>5
<1> QED BY <1>6 DEF h, r

\* Replies that are all to one kind of command.
LEMMA CountAll ==
  ASSUME NEW q \in Seq(Replies), NEW op, \A i \in DOMAIN q : q[i].op = op
  PROVE  /\ Count(q, op) = Len(q)
         /\ \A o : o # op => Count(q, o) = 0
<1>1. Places(q, op) = 1 .. Len(q) /\ Len(q) \in Nat
  BY DEF Places
<1>2. \A o : o # op => Places(q, o) = {}
  BY DEF Places
<1>3. Cardinality(1 .. Len(q)) = Len(q)
  BY <1>1, FS_Interval
<1>4. \A o : o # op => Count(q, o) = 0
  BY <1>2, FS_EmptySet DEF Count
<1> QED BY <1>1, <1>3, <1>4 DEF Count

-----------------------------------------------------------------------------
(* Types and counts *)

\* The limits of the counts; the socket is read only while there is room for a write.
Numbers ==
  /\ client \in 0 .. Clients /\ came \in 0 .. Clients /\ typed \in 0 .. Typed
  /\ printed \in 0 .. Printed
  /\ readCount \in 0 .. 1 /\ writeCount \in 0 .. WriteLimit
  /\ readable => writeCount < WriteLimit
  /\ ~exists => client = 0

Sequences ==
  /\ sockIn \in Seq(Buffers) /\ writes \in Seq(Buffers)
  /\ sockBufs \in Seq(1 .. Printed) /\ uartOut \in Seq(1 .. Printed)
  /\ got \in [1 .. Clients -> Seq(1 .. Printed)]
  /\ replies \in Seq(Replies)
  /\ \A i \in DOMAIN replies :
       replies[i].buf # NoData => replies[i].op = "read" /\ replies[i].st = "ok"

Waits == IF reading THEN 1 ELSE 0
Counted ==
  exists => /\ writeCount = Len(writes) + Count(replies, "write")
            /\ readCount = Waits + Count(replies, "read")

CountInv == Numbers /\ Sequences /\ Counted

LEMMA CountedExact == CountInv => CountsExact
<1>1. /\ Unanswered("read") = Count(replies, "read")
      /\ Unanswered("write") = Count(replies, "write")
  BY DEF Unanswered, Count, Places
<1> QED BY <1>1, StreamAssumption DEF CountInv, Numbers, Counted, CountsExact, Waits

LEMMA InitCount == Init => CountInv
<1> SUFFICES ASSUME Init PROVE CountInv
  OBVIOUS
<1>1. Numbers
  BY StreamAssumption DEF Init, Numbers
<1>2. Sequences
  BY DEF Init, Sequences
<1>3. Counted
  BY CountEmpty DEF Init, Counted, Waits
<1> QED BY <1>1, <1>2, <1>3 DEF CountInv

\* sock_reader, whether it raises or not.
Reads(n) == SockReader(n) \/ (ReadRaises(n) /\ (readable' => readable))

\* What sock_reader leaves, called with n unanswered writes.
LEMMA SockReaderKeeps ==
  ASSUME CountInv, NEW n \in Nat, n < WriteLimit, n <= writeCount, Reads(n)
  PROVE  /\ client' \in {client, 0}
         /\ sockIn' \in Seq(Buffers) /\ writes' \in Seq(Buffers)
         /\ writeCount' \in 0 .. WriteLimit /\ (readable' => writeCount' < WriteLimit)
         /\ writeCount' = n + Len(writes') - Len(writes)
<1>1. sockIn \in Seq(Buffers) /\ writes \in Seq(Buffers) /\ WriteLimit \in Nat
  BY StreamAssumption DEF CountInv, Sequences
<1>2. CASE eofSeen
  <2>1. client' = 0 /\ sockIn' = <<>> /\ writes' = writes /\ writeCount' = n /\ readable' = FALSE
    BY <1>2 DEF Reads, ReadRaises, SockReader, ClientClose
  <2> QED BY <1>1, <2>1
<1>3. CASE ~eofSeen /\ SockReader(n)
  <2>1. client' = client /\ (readable' => writeCount' < WriteLimit)
    BY <1>3, Zenon DEF SockReader, MoreWrites
  <2>2. CASE sockIn = <<>>
    <3>1. sockIn' = sockIn /\ writes' = writes /\ writeCount' = n
      BY <1>3, <2>2 DEF SockReader
    <3> QED BY <1>1, <2>1, <3>1
  <2>3. CASE sockIn # <<>>
    <3>1. sockIn' = Tail(sockIn) /\ writes' = Append(writes, Head(sockIn)) /\ writeCount' = n + 1
      BY <1>3, <2>3 DEF SockReader
    <3>2. Head(sockIn) \in Buffers /\ Tail(sockIn) \in Seq(Buffers)
      BY <1>1, <2>3
    <3>3. /\ Append(writes, Head(sockIn)) \in Seq(Buffers)
          /\ Len(Append(writes, Head(sockIn))) = Len(writes) + 1
      BY <1>1, <3>2
    <3> QED BY <1>1, <2>1, <3>1, <3>2, <3>3
  <2> QED BY <2>2, <2>3
<1>4. CASE ~eofSeen /\ ~SockReader(n)
  <2>1. client' = client /\ sockIn' = <<>> /\ writes' = writes /\ writeCount' = n
    BY <1>4 DEF Reads, ReadRaises
  <2> QED BY <1>1, <2>1
<1> QED BY <1>2, <1>3, <1>4

\* What set_error leaves.
LEMMA SetErrorKeeps ==
  ASSUME CountInv, SetError
  PROVE  client' \in {client, 0} /\ sockIn' \in Seq(Buffers) /\ (readable' => readable)
<1>1. <<>> \in Seq(Buffers) /\ sockIn \in Seq(Buffers)
  BY DEF CountInv, Sequences
<1> QED BY <1>1 DEF SetError, ClientClose

LEMMA AcceptCounts ==
  ASSUME CountInv, Accept
  PROVE  CountInv'
<1>1. Count(replies, "read") \in Nat
  BY CountType DEF CountInv, Sequences
<1>2. /\ UNCHANGED <<exists, writeCount, sockBufs, sockIn, writes, uartOut, printed, replies, got>>
      /\ exists /\ came < Clients /\ came' = came + 1
  BY DEF Accept, instance, agent
<1>3. readCount' \in 0 .. 1 /\ readCount' = Waits' + Count(replies, "read")
  <2>1. readCount \in 0 .. 1 /\ readCount = Waits + Count(replies, "read")
    BY <1>2 DEF CountInv, Numbers, Counted
  <2>2. StreamReader \/ UNCHANGED <<readCount, reading>>
    BY DEF Accept, instance, agent
  <2> QED BY <1>1, <2>1, <2>2 DEF StreamReader, Waits
<1>4. Numbers'
  <2>1. CASE client # 0
    BY <1>2, <2>1, StreamAssumption DEF CountInv, Numbers, Accept, instance
  <2>2. CASE client = 0
    <3>1. client' = came + 1 /\ typed' = 0 /\ (readable' => writeCount < WriteLimit)
      BY <2>2, Zenon DEF Accept, MoreWrites
    <3> QED BY <1>2, <1>3, <3>1, StreamAssumption DEF CountInv, Numbers
  <2> QED BY <2>1, <2>2
<1>5. Sequences'
  BY <1>2 DEF CountInv, Sequences
<1>6. Counted'
  BY <1>2, <1>3 DEF CountInv, Counted
<1> QED BY <1>4, <1>5, <1>6 DEF CountInv

LEMMA SockReadableCounts ==
  ASSUME CountInv, SockReadable
  PROVE  CountInv'
<1>1. writeCount \in Nat /\ writeCount < WriteLimit /\ Reads(writeCount)
  BY StreamAssumption DEF CountInv, Numbers, SockReadable, Reads
<1>2. /\ client' \in {client, 0}
      /\ sockIn' \in Seq(Buffers) /\ writes' \in Seq(Buffers)
      /\ writeCount' \in 0 .. WriteLimit /\ (readable' => writeCount' < WriteLimit)
      /\ writeCount' = writeCount + Len(writes') - Len(writes)
  BY <1>1, SockReaderKeeps
<1>3. UNCHANGED <<exists, readCount, sockBufs, came, typed, got, reading, uartOut, printed, replies>>
  BY DEF SockReadable
<1>4. Numbers' /\ Sequences'
  BY <1>2, <1>3, StreamAssumption DEF CountInv, Numbers, Sequences
<1>5. Counted'
  <2>1. Count(replies, "write") \in Nat /\ writes \in Seq(Buffers)
    BY CountType DEF CountInv, Sequences
  <2> QED BY <1>2, <1>3, <2>1 DEF CountInv, Counted, Waits
<1> QED BY <1>4, <1>5 DEF CountInv

LEMMA SockWritableCounts ==
  ASSUME CountInv, SockWritable
  PROVE  CountInv'
<1>1. sockBufs \in Seq(1 .. Printed) /\ sockBufs # <<>> /\ client \in 1 .. Clients
  BY DEF CountInv, Numbers, Sequences, SockWritable
<1>2. NextBuf \in 1 .. Printed /\ Tail(sockBufs) \in Seq(1 .. Printed)
  <2> DEFINE P == 1 .. Printed
  <2>1. sockBufs \in Seq(P) /\ sockBufs # <<>>
    BY <1>1
  <2> HIDE DEF P
  <2>2. Head(sockBufs) \in P /\ Tail(sockBufs) \in Seq(P)
    BY <2>1
  <2> QED BY <2>2 DEF P, NextBuf
<1>3. got' \in [1 .. Clients -> Seq(1 .. Printed)]
  <2>1. got \in [1 .. Clients -> Seq(1 .. Printed)]
    BY DEF CountInv, Sequences
  <2>2. got[client] \in Seq(1 .. Printed)
    BY <1>1, <2>1
  <2>3. Append(got[client], NextBuf) \in Seq(1 .. Printed)
    BY <1>2, <2>2
  <2>4. got' = [got EXCEPT ![client] = Append(got[client], NextBuf)] \/ got' = got
    BY DEF SockWritable
  <2> QED BY <1>1, <2>1, <2>3, <2>4
<1>4. sockBufs' = Tail(sockBufs) /\ UNCHANGED <<exists, client, readable, readCount, writeCount,
                                               came, typed, sockIn, agent>>
  BY DEF SockWritable
<1>5. Numbers' /\ Sequences'
  BY <1>2, <1>3, <1>4 DEF CountInv, Numbers, Sequences, agent
<1>6. Counted'
  BY <1>4 DEF CountInv, Counted, agent, Waits
<1> QED BY <1>5, <1>6 DEF CountInv

\* A reply is taken.
LEMMA TakenReply ==
  ASSUME CountInv, replies # <<>>, replies' = Tail(replies)
  PROVE  /\ Head(replies) \in Replies /\ replies' \in Seq(Replies)
         /\ \A i \in DOMAIN replies' : replies'[i] = replies[i + 1] /\ i + 1 \in DOMAIN replies
         /\ \A i \in DOMAIN replies' :
              replies'[i].buf # NoData => replies'[i].op = "read" /\ replies'[i].st = "ok"
         /\ \A op \in {"read", "write"} :
              /\ Count(replies', op) \in Nat
              /\ Count(replies, op) = Count(replies', op) + (IF Head(replies).op = op THEN 1 ELSE 0)
<1>1. replies \in Seq(Replies)
  BY DEF CountInv, Sequences
<1>2. Head(replies) \in Replies /\ Tail(replies) \in Seq(Replies)
  BY <1>1
<1>3. \A i \in DOMAIN Tail(replies) : Tail(replies)[i] = replies[i + 1] /\ i + 1 \in DOMAIN replies
  BY <1>1
<1>4. \A i \in DOMAIN Tail(replies) :
        Tail(replies)[i].buf # NoData => Tail(replies)[i].op = "read" /\ Tail(replies)[i].st = "ok"
  BY <1>3 DEF CountInv, Sequences
<1>5. \A op \in {"read", "write"} :
        /\ Count(Tail(replies), op) \in Nat
        /\ Count(replies, op) = Count(Tail(replies), op) + (IF Head(replies).op = op THEN 1 ELSE 0)
  BY <1>1, <1>2, CountTail, CountType
<1> QED BY <1>2, <1>3, <1>4, <1>5

LEMMA WriteDoneCounts ==
  ASSUME CountInv, exists, replies # <<>>, replies' = Tail(replies), Head(replies).op = "write",
         WriteDone(Head(replies)), UNCHANGED <<exists, came, typed, got, uartOut, printed>>
  PROVE  CountInv'
<1>1. /\ replies' \in Seq(Replies)
      /\ \A i \in DOMAIN replies' :
           replies'[i].buf # NoData => replies'[i].op = "read" /\ replies'[i].st = "ok"
      /\ Count(replies, "write") = Count(replies', "write") + 1 /\ Count(replies', "write") \in Nat
      /\ Count(replies, "read") = Count(replies', "read") /\ Count(replies', "read") \in Nat
  BY TakenReply
<1>2. /\ writeCount = Len(writes) + Count(replies, "write") /\ Len(writes) \in Nat
      /\ readCount = Waits + Count(replies, "read")
      /\ writeCount \in 0 .. WriteLimit /\ (readable => writeCount < WriteLimit)
      /\ WriteLimit \in Nat
  BY StreamAssumption DEF CountInv, Counted, Sequences, Numbers
<1> DEFINE n == writeCount - 1
<1>3. n \in Nat /\ n < WriteLimit
  BY <1>1, <1>2
<1>4. UNCHANGED <<readCount, sockBufs, reading>>
  BY DEF WriteDone
<1>5. /\ client' \in {client, 0}
      /\ sockIn' \in Seq(Buffers) /\ writes' \in Seq(Buffers)
      /\ writeCount' \in 0 .. WriteLimit /\ (readable' => writeCount' < WriteLimit)
      /\ writeCount' = n + Len(writes') - Len(writes)
  <2>1. CASE Head(replies).st = "lost"
    <3>1. SetError /\ writeCount' = n /\ writes' = writes
      BY <2>1 DEF WriteDone
    <3>2. writes \in Seq(Buffers)
      BY DEF CountInv, Sequences
    <3> QED BY <1>2, <1>3, <3>1, <3>2, SetErrorKeeps
  <2>2. CASE Head(replies).st # "lost" /\ (Head(replies).st = "error" \/ client = 0)
    <3>1. writeCount' = n /\ UNCHANGED <<client, readable, sockIn, writes>>
      BY <2>2 DEF WriteDone
    <3>2. writes \in Seq(Buffers) /\ sockIn \in Seq(Buffers)
      BY DEF CountInv, Sequences
    <3> QED BY <1>2, <1>3, <3>1, <3>2
  <2>3. CASE Head(replies).st # "lost" /\ ~(Head(replies).st = "error" \/ client = 0)
    <3>1. Reads(n)
      BY <2>3 DEF WriteDone, ReadOn, Reads
    <3>2. n <= writeCount
      BY <1>1, <1>2
    <3> HIDE DEF n
    <3> QED BY <1>3, <3>1, <3>2, SockReaderKeeps
  <2> QED BY <2>1, <2>2, <2>3
<1> HIDE DEF n
<1>6. Numbers'
  BY <1>4, <1>5, StreamAssumption DEF CountInv, Numbers
<1>7. Sequences'
  BY <1>1, <1>4, <1>5 DEF CountInv, Sequences
<1>8. Counted'
  <2>1. n = writeCount - 1
    BY DEF n
  <2>2. Len(writes) \in Nat /\ Len(writes') \in Nat
    BY <1>2, <1>5
  <2>3. writeCount' = Len(writes') + Count(replies', "write")
    <3>1. /\ Count(replies, "write") = Count(replies', "write") + 1
          /\ Count(replies', "write") \in Nat
      BY <1>1
    <3>2. /\ writeCount = Len(writes) + Count(replies, "write")
          /\ writeCount' = n + Len(writes') - Len(writes)
      BY <1>2, <1>5
    <3> QED BY <2>1, <2>2, <3>1, <3>2, SMTT(30)
  <2>4. Waits' = Waits
    BY <1>4 DEF Waits
  <2>5. readCount' = Waits' + Count(replies', "read")
    <3>1. Count(replies, "read") = Count(replies', "read")
      BY <1>1
    <3>2. readCount = Waits + Count(replies, "read") /\ readCount' = readCount
      BY <1>2, <1>4
    <3> QED BY <2>4, <3>1, <3>2
  <2> QED BY <2>3, <2>5 DEF Counted
<1> QED BY <1>6, <1>7, <1>8 DEF CountInv

LEMMA ReadDoneCounts ==
  ASSUME CountInv, exists, replies # <<>>, replies' = Tail(replies), Head(replies).op = "read",
         ReadDone(Head(replies)), UNCHANGED <<exists, came, typed, got, uartOut, printed>>
  PROVE  CountInv'
<1> DEFINE m == Head(replies)
<1>1. /\ replies' \in Seq(Replies) /\ m \in Replies
      /\ \A i \in DOMAIN replies' :
           replies'[i].buf # NoData => replies'[i].op = "read" /\ replies'[i].st = "ok"
      /\ Count(replies, "write") = Count(replies', "write") /\ Count(replies', "write") \in Nat
      /\ Count(replies, "read") = Count(replies', "read") + 1 /\ Count(replies', "read") \in Nat
  BY TakenReply
<1>2. /\ writeCount = Len(writes) + Count(replies, "write")
      /\ readCount = Waits + Count(replies, "read") /\ readCount \in 0 .. 1
      /\ writes \in Seq(Buffers) /\ sockIn \in Seq(Buffers) /\ sockBufs \in Seq(1 .. Printed)
  BY DEF CountInv, Counted, Numbers, Sequences
<1>3. ~reading /\ readCount = 1 /\ Count(replies', "read") = 0
  BY <1>1, <1>2 DEF Waits
<1>4. UNCHANGED <<writeCount, writes>>
  BY DEF ReadDone
<1>5. /\ client' \in {client, 0} /\ sockIn' \in Seq(Buffers) /\ (readable' => readable)
      /\ sockBufs' \in Seq(1 .. Printed)
      /\ readCount' = Waits' /\ readCount' \in 0 .. 1
  <2>1. CASE SetError /\ readCount' = readCount - 1 /\ UNCHANGED <<sockBufs, eos, reading>>
    BY <1>2, <1>3, <2>1, SetErrorKeeps DEF Waits
  <2>2. CASE /\ readCount' = readCount - 1
             /\ UNCHANGED <<listening, failed, client, eofSeen, readable, writable, sockIn, sockBufs, reading>>
    BY <1>2, <1>3, <2>2 DEF Waits
  <2>3. CASE /\ m.buf # NoData /\ sockBufs' = Append(sockBufs, m.buf)
             /\ ReadAgain
             /\ UNCHANGED <<listening, eos, failed, client, eofSeen, readable, sockIn>>
    <3>1. m.buf \in 1 .. Printed
      BY <1>1, <2>3, StreamAssumption DEF Replies, NoData
    <3>2. Append(sockBufs, m.buf) \in Seq(1 .. Printed)
      BY <1>2, <3>1
    <3> HIDE DEF m
    <3> QED BY <1>2, <1>3, <2>3, <3>2 DEF ReadAgain, Waits
  <2> HIDE DEF m
  <2>4. ReadDone(m)
    BY DEF m
  <2> QED BY <2>1, <2>2, <2>3, <2>4 DEF ReadDone
<1>6. Numbers'
  BY <1>4, <1>5, StreamAssumption DEF CountInv, Numbers
<1>7. Sequences'
  BY <1>1, <1>2, <1>4, <1>5 DEF CountInv, Sequences
<1>8. Counted'
  BY <1>1, <1>2, <1>3, <1>4, <1>5 DEF Counted
<1> QED BY <1>6, <1>7, <1>8 DEF CountInv

LEMMA ReplyCounts ==
  ASSUME CountInv, Reply
  PROVE  CountInv'
<1>1. /\ replies # <<>> /\ replies' = Tail(replies)
      /\ UNCHANGED <<came, typed, got, uartOut, printed>>
  BY DEF Reply
<1>2. CASE ~exists
  <2>1. UNCHANGED <<instance, sockIn, writes, reading>>
    BY <1>2 DEF Reply
  <2>2. Numbers'
    BY <1>1, <2>1 DEF CountInv, Numbers, instance
  <2>3. Sequences'
    BY <1>1, <2>1, TakenReply DEF CountInv, Sequences, instance
  <2>4. Counted'
    BY <1>2, <2>1 DEF Counted, instance
  <2> QED BY <2>2, <2>3, <2>4 DEF CountInv
<1>3. CASE exists /\ Head(replies).op = "write"
  <2>1. WriteDone(Head(replies)) /\ exists' = exists
    BY <1>3 DEF Reply
  <2> QED BY <1>1, <1>3, <2>1, WriteDoneCounts
<1>4. CASE exists /\ Head(replies).op # "write"
  <2>1. ReadDone(Head(replies)) /\ exists' = exists
    BY <1>4 DEF Reply
  <2>2. Head(replies).op = "read"
    BY <1>1, <1>4, TakenReply DEF Replies
  <2> QED BY <1>1, <1>4, <2>1, <2>2, ReadDoneCounts
<1> QED BY <1>2, <1>3, <1>4

\* What waits at the agent is answered at once, without data.
LEMMA AnswerAllReplies ==
  ASSUME CountInv, NEW ops, NEW st \in {"error", "lost"}, AnswerAll(ops, st)
  PROVE  /\ replies' \in Seq(Replies)
         /\ \A i \in DOMAIN replies' :
              replies'[i].buf # NoData => \E j \in DOMAIN replies : replies'[i] = replies[j]
         /\ Count(replies', "write") = Count(replies, "write") + (IF "write" \in ops THEN Len(writes) ELSE 0)
         /\ Count(replies', "read") = Count(replies, "read") + (IF "read" \in ops THEN Waits ELSE 0)
<1> DEFINE W == IF "write" \in ops THEN [i \in DOMAIN writes |-> WriteReply(st)] ELSE <<>>
           R == IF reading /\ "read" \in ops THEN <<ReadReply(st, NoData)>> ELSE <<>>
           written == IF "write" \in ops THEN Len(writes) ELSE 0
           waited == IF "read" \in ops THEN Waits ELSE 0
<1>1. writes \in Seq(Buffers) /\ replies \in Seq(Replies) /\ NoData \in 0 .. Printed
  BY StreamAssumption DEF CountInv, Sequences, NoData
<1>2. /\ WriteReply(st) \in Replies /\ WriteReply(st).op = "write" /\ WriteReply(st).buf = NoData
      /\ ReadReply(st, NoData) \in Replies /\ ReadReply(st, NoData).op = "read"
      /\ ReadReply(st, NoData).buf = NoData
  BY <1>1 DEF WriteReply, ReadReply, Replies
<1>3. /\ W \in Seq(Replies) /\ Len(W) = written
      /\ \A i \in DOMAIN W : W[i] = WriteReply(st)
  BY <1>1, <1>2
<1>4. /\ R \in Seq(Replies) /\ Len(R) = waited
      /\ \A i \in DOMAIN R : R[i] = ReadReply(st, NoData)
  BY <1>2 DEF Waits
<1>5. replies' = (replies \o W) \o R
  BY DEF AnswerAll
<1> HIDE DEF W, R
<1>6. Count(W, "write") = written /\ Count(W, "read") = 0
  BY <1>2, <1>3, CountAll
<1>7. Count(R, "read") = waited /\ Count(R, "write") = 0
  BY <1>2, <1>4, CountAll
<1> DEFINE Q == replies \o W
<1>8. /\ Q \in Seq(Replies)
      /\ \A i \in DOMAIN Q : Q[i] = WriteReply(st) \/ \E j \in DOMAIN replies : Q[i] = replies[j]
  <2>1. Q \in Seq(Replies)
    BY <1>1, <1>3
  <2>2. \A i \in DOMAIN Q : Q[i] = WriteReply(st) \/ \E j \in DOMAIN replies : Q[i] = replies[j]
    <3>1. TAKE i \in DOMAIN Q
    <3>2. CASE i <= Len(replies)
      BY <1>1, <1>3, <3>1, <3>2
    <3>3. CASE i > Len(replies)
      <4>1. i - Len(replies) \in DOMAIN W /\ Q[i] = W[i - Len(replies)]
        BY <1>1, <1>3, <3>1, <3>3
      <4> QED BY <1>3, <4>1
    <3> QED BY <1>1, <3>1, <3>2, <3>3
  <2> QED BY <2>1, <2>2
<1>9. \A op \in {"read", "write"} : Count(Q, op) = Count(replies, op) + Count(W, op)
  BY <1>1, <1>3, CountConcat
<1>10. replies' = Q \o R
  BY <1>5
<1> HIDE DEF Q
<1>11. /\ replies' \in Seq(Replies)
       /\ \A op \in {"read", "write"} : Count(replies', op) = Count(Q, op) + Count(R, op)
  BY <1>4, <1>8, <1>10, CountConcat
<1>12. \A i \in DOMAIN replies' :
         replies'[i].buf # NoData => \E j \in DOMAIN replies : replies'[i] = replies[j]
  <2>1. \A i \in DOMAIN Q : Q[i].buf # NoData => \E j \in DOMAIN replies : Q[i] = replies[j]
    BY <1>2, <1>8
  <2>2. TAKE i \in DOMAIN replies'
  <2>3. CASE i <= Len(Q)
    <3>1. i \in DOMAIN Q /\ replies'[i] = Q[i]
      BY <1>4, <1>8, <1>10, <2>2, <2>3
    <3> QED BY <2>1, <3>1
  <2>4. CASE i > Len(Q)
    <3>1. i - Len(Q) \in DOMAIN R /\ replies'[i] = R[i - Len(Q)]
      BY <1>4, <1>8, <1>10, <2>2, <2>4
    <3> QED BY <1>2, <1>4, <3>1
  <2> QED BY <1>4, <1>8, <1>10, <2>2, <2>3, <2>4
<1>13. /\ Count(replies, "write") \in Nat /\ Count(replies, "read") \in Nat
       /\ written \in Nat /\ waited \in {0, 1}
  BY <1>1, CountType DEF Waits
<1>14. /\ Count(replies', "write") = Count(replies, "write") + written
       /\ Count(replies', "read") = Count(replies, "read") + waited
  <2> HIDE DEF written, waited
  <2> QED BY <1>6, <1>7, <1>9, <1>11, <1>13
<1> QED BY <1>11, <1>12, <1>14

LEMMA AnswerAllCounts ==
  ASSUME CountInv, NEW ops, NEW st \in {"error", "lost"}, AnswerAll(ops, st)
  PROVE  CountInv'
<1>1. /\ replies' \in Seq(Replies)
      /\ \A i \in DOMAIN replies' :
           replies'[i].buf # NoData => \E j \in DOMAIN replies : replies'[i] = replies[j]
      /\ Count(replies', "write") = Count(replies, "write") + (IF "write" \in ops THEN Len(writes) ELSE 0)
      /\ Count(replies', "read") = Count(replies, "read") + (IF "read" \in ops THEN Waits ELSE 0)
  BY AnswerAllReplies
<1>2. /\ writes' = IF "write" \in ops THEN <<>> ELSE writes
      /\ reading' = (reading /\ "read" \notin ops)
      /\ UNCHANGED <<instance, terminal, uartOut, printed>>
  BY DEF AnswerAll
<1>3. Numbers'
  BY <1>2 DEF CountInv, Numbers, instance, terminal
<1>4. Sequences'
  <2>1. \A i \in DOMAIN replies' :
          replies'[i].buf # NoData => replies'[i].op = "read" /\ replies'[i].st = "ok"
    BY <1>1 DEF CountInv, Sequences
  <2>2. writes' \in Seq(Buffers)
    BY <1>2 DEF CountInv, Sequences
  <2> QED BY <1>1, <1>2, <2>1, <2>2 DEF CountInv, Sequences, instance, terminal
<1>5. Counted'
  <2>1. /\ Count(replies, "write") \in Nat /\ Count(replies, "read") \in Nat
        /\ Len(writes) \in Nat /\ Waits \in {0, 1}
    BY CountType DEF CountInv, Sequences, Waits
  <2>2. /\ Waits' = IF "read" \in ops THEN 0 ELSE Waits
        /\ Len(writes') = IF "write" \in ops THEN 0 ELSE Len(writes)
    BY <1>2 DEF Waits
  <2> QED BY <1>1, <1>2, <2>1, <2>2 DEF CountInv, Counted, instance
<1> QED BY <1>3, <1>4, <1>5 DEF CountInv

\* The state of the streams, which says with what errors they answer.
Linked == link \in {"up", "half", "stopped", "lost"}

LEMMA InitLinked == Init => Linked
BY DEF Init, Linked

LEMMA StepLinked == Linked /\ [Next]_vars => Linked'
<1> SUFFICES ASSUME Linked, [Next]_vars PROVE link' = link \/ link' \in {"half", "stopped", "lost"}
  BY DEF Linked
<1>1. CASE Accept
  BY <1>1 DEF Accept, agent
<1>2. CASE Handlers
  BY <1>2 DEF Handlers, SockReadable, SockWritable, Reply, agent
<1>3. CASE Disconnect \/ ChannelLost \/ Delete
  BY <1>3 DEF Disconnect, ChannelLost, Delete, agent
<1>4. CASE TerminalTypes \/ TerminalCloses \/ TerminalResets \/ UartPrints
  BY <1>4 DEF TerminalTypes, TerminalCloses, TerminalResets, UartPrints, agent
<1>5. CASE Agent
  BY <1>5 DEF Agent, AgentWrites, AgentReads
<1>6. CASE UNCHANGED vars
  BY <1>6 DEF vars, agent
<1> QED BY <1>1, <1>2, <1>3, <1>4, <1>5, <1>6 DEF Next

LEMMA FailedWithErrors == \A connected : FailedWith(connected) \subseteq {"error", "lost"}
BY DEF FailedWith

\* The agent answers one command.
LEMMA AnswerAppended ==
  ASSUME CountInv, NEW m \in Replies, replies' = Append(replies, m),
         m.buf # NoData => m.op = "read" /\ m.st = "ok"
  PROVE  /\ replies' \in Seq(Replies)
         /\ \A i \in DOMAIN replies' :
              replies'[i].buf # NoData => replies'[i].op = "read" /\ replies'[i].st = "ok"
         /\ \A op \in {"read", "write"} :
              /\ Count(replies, op) \in Nat
              /\ Count(replies', op) = Count(replies, op) + (IF m.op = op THEN 1 ELSE 0)
<1>1. replies \in Seq(Replies)
  BY DEF CountInv, Sequences
<1>2. \A i \in DOMAIN Append(replies, m) :
        Append(replies, m)[i] = m \/ (i \in DOMAIN replies /\ Append(replies, m)[i] = replies[i])
  BY <1>1
<1>3. \A i \in DOMAIN replies' :
        replies'[i].buf # NoData => replies'[i].op = "read" /\ replies'[i].st = "ok"
  BY <1>2 DEF CountInv, Sequences
<1> QED BY <1>1, <1>3, CountAppend, CountType

LEMMA AgentWritesCounts ==
  ASSUME CountInv, Linked, AgentWrites
  PROVE  CountInv'
<1>1. PICK st \in {"ok", "error", "lost"} : replies' = Append(replies, WriteReply(st))
  BY FailedWithErrors DEF AgentWrites
<1>2. /\ WriteReply(st) \in Replies /\ WriteReply(st).op = "write" /\ WriteReply(st).buf = NoData
  BY StreamAssumption DEF WriteReply, Replies, NoData
<1>3. /\ replies' \in Seq(Replies)
      /\ \A i \in DOMAIN replies' :
           replies'[i].buf # NoData => replies'[i].op = "read" /\ replies'[i].st = "ok"
      /\ Count(replies', "write") = Count(replies, "write") + 1 /\ Count(replies, "write") \in Nat
      /\ Count(replies', "read") = Count(replies, "read")
  BY <1>1, <1>2, AnswerAppended
<1>4. /\ writes # <<>> /\ writes' = Tail(writes)
      /\ UNCHANGED <<instance, terminal, reading, uartOut, printed>>
  BY DEF AgentWrites
<1>5. writes' \in Seq(Buffers) /\ Len(writes') = Len(writes) - 1 /\ Len(writes) \in Nat
  <2>1. writes \in Seq(Buffers)
    BY DEF CountInv, Sequences
  <2> QED BY <1>4, <2>1
<1>6. Numbers'
  BY <1>4 DEF CountInv, Numbers, instance, terminal
<1>7. Sequences'
  BY <1>3, <1>4, <1>5 DEF CountInv, Sequences, instance, terminal
<1>8. Counted'
  <2>1. Waits' = Waits
    BY <1>4 DEF Waits
  <2>2. UNCHANGED <<exists, writeCount, readCount>>
    BY <1>4 DEF instance
  <2> QED BY <1>3, <1>5, <2>1, <2>2 DEF CountInv, Counted
<1> QED BY <1>6, <1>7, <1>8 DEF CountInv

\* The reply to a read: a buffer that was printed, or no data.
LEMMA AgentReadsCases ==
  ASSUME CountInv, Linked, AgentReads
  PROVE  \E st \in {"ok", "error", "lost"}, b \in 0 .. Printed :
           /\ replies' = Append(replies, ReadReply(st, b))
           /\ \/ st = "ok" /\ uartOut # <<>> /\ b = Head(uartOut) /\ uartOut' = Tail(uartOut)
              \/ b = NoData /\ uartOut' = uartOut
<1>1. NoData \in 0 .. Printed
  BY StreamAssumption DEF NoData
<1>2. CASE /\ uartOut # <<>> /\ replies' = Append(replies, ReadReply("ok", Head(uartOut)))
           /\ uartOut' = Tail(uartOut)
  <2> DEFINE P == 1 .. Printed
  <2>1. uartOut \in Seq(P)
    BY DEF CountInv, Sequences
  <2> HIDE DEF P
  <2>2. Head(uartOut) \in P
    BY <1>2, <2>1
  <2>3. Head(uartOut) \in 0 .. Printed
    BY <2>2 DEF P
  <2> QED BY <1>2, <2>3
<1>3. CASE /\ replies' = Append(replies, ReadReply("ok", NoData)) /\ uartOut' = uartOut
  BY <1>1, <1>3
<1>4. CASE /\ \E st \in FailedWith(ReadsConnected) : replies' = Append(replies, ReadReply(st, NoData))
           /\ uartOut' = uartOut
  BY <1>1, <1>4, FailedWithErrors
<1> QED BY <1>2, <1>3, <1>4 DEF AgentReads

LEMMA AgentReadsCounts ==
  ASSUME CountInv, Linked, AgentReads
  PROVE  CountInv'
<1>1. PICK st \in {"ok", "error", "lost"}, b \in 0 .. Printed :
        /\ replies' = Append(replies, ReadReply(st, b))
        /\ \/ st = "ok" /\ uartOut # <<>> /\ b = Head(uartOut) /\ uartOut' = Tail(uartOut)
           \/ b = NoData /\ uartOut' = uartOut
  BY AgentReadsCases
<1>2. /\ ReadReply(st, b) \in Replies /\ ReadReply(st, b).op = "read"
      /\ (ReadReply(st, b).buf # NoData => ReadReply(st, b).st = "ok")
  BY <1>1 DEF ReadReply, Replies
<1>3. /\ replies' \in Seq(Replies)
      /\ \A i \in DOMAIN replies' :
           replies'[i].buf # NoData => replies'[i].op = "read" /\ replies'[i].st = "ok"
      /\ Count(replies', "read") = Count(replies, "read") + 1 /\ Count(replies, "read") \in Nat
      /\ Count(replies', "write") = Count(replies, "write")
  BY <1>1, <1>2, AnswerAppended
<1>4. reading /\ ~reading' /\ UNCHANGED <<instance, terminal, writes, printed>>
  BY DEF AgentReads
<1>5. uartOut' \in Seq(1 .. Printed)
  <2> DEFINE P == 1 .. Printed
  <2>1. uartOut \in Seq(P)
    BY DEF CountInv, Sequences
  <2> HIDE DEF P
  <2>2. uartOut' \in Seq(P)
    BY <1>1, <2>1, SMTT(30)
  <2> QED BY <2>2 DEF P
<1>6. Numbers'
  BY <1>4 DEF CountInv, Numbers, instance, terminal
<1>7. Sequences'
  BY <1>3, <1>4, <1>5 DEF CountInv, Sequences, instance, terminal
<1>8. Counted'
  BY <1>3, <1>4 DEF CountInv, Counted, Waits, instance
<1> QED BY <1>6, <1>7, <1>8 DEF CountInv

\* The steps of the terminal and the UART, and the deletion.
LEMMA TypesCounts ==
  ASSUME CountInv, TerminalTypes
  PROVE  CountInv'
<1>1. /\ client \in 1 .. Clients /\ typed + 1 \in 1 .. Typed
      /\ typed' = typed + 1 /\ sockIn' = Append(sockIn, <<client, typed + 1>>)
      /\ UNCHANGED <<instance, came, got, agent>>
  BY StreamAssumption DEF CountInv, Numbers, TerminalTypes
<1>2. Numbers' /\ Counted'
  BY <1>1 DEF CountInv, Numbers, Counted, Waits, instance, agent
<1>3. Sequences'
  <2>1. sockIn \in Seq(Buffers) /\ <<client, typed + 1>> \in Buffers
    BY <1>1 DEF CountInv, Sequences, Buffers
  <2>2. sockIn' \in Seq(Buffers)
    BY <1>1, <2>1
  <2> QED BY <1>1, <2>2 DEF CountInv, Sequences, instance, agent
<1> QED BY <1>2, <1>3 DEF CountInv

LEMMA PrintsCounts ==
  ASSUME CountInv, UartPrints
  PROVE  CountInv'
<1>1. /\ printed + 1 \in 1 .. Printed
      /\ printed' = printed + 1 /\ uartOut' = Append(uartOut, printed + 1)
      /\ UNCHANGED <<instance, terminal, writes, reading, replies>>
  BY StreamAssumption DEF CountInv, Numbers, UartPrints
<1>2. Numbers' /\ Counted'
  BY <1>1, StreamAssumption DEF CountInv, Numbers, Counted, Waits, instance, terminal
<1>3. Sequences'
  <2>1. uartOut \in Seq(1 .. Printed)
    BY DEF CountInv, Sequences
  <2>2. uartOut' \in Seq(1 .. Printed)
    BY <1>1, <2>1
  <2> QED BY <1>1, <2>2 DEF CountInv, Sequences, instance, terminal
<1> QED BY <1>2, <1>3 DEF CountInv

LEMMA DeleteCounts ==
  ASSUME CountInv, Delete
  PROVE  CountInv'
<1>1. /\ ~exists' /\ client' = 0 /\ ~readable' /\ sockIn' = <<>>
      /\ UNCHANGED <<readCount, writeCount, sockBufs, came, typed, got, agent>>
  BY DEF Delete, ClientClose
<1>2. Numbers' /\ Counted'
  BY <1>1, StreamAssumption DEF CountInv, Numbers, Counted, agent
<1>3. Sequences'
  <2>1. sockIn' \in Seq(Buffers)
    BY <1>1
  <2> QED BY <1>1, <2>1 DEF CountInv, Sequences, agent
<1> QED BY <1>2, <1>3 DEF CountInv

LEMMA StepCounts == CountInv /\ Linked /\ [Next]_vars => CountInv'
<1> SUFFICES ASSUME CountInv, Linked, [Next]_vars PROVE CountInv'
  OBVIOUS
<1>1. CASE TerminalCloses \/ TerminalResets
  <2>1. UNCHANGED <<instance, came, typed, got, agent>> /\ sockIn' \in {sockIn, <<>>}
    BY <1>1 DEF TerminalCloses, TerminalResets
  <2>2. CASE sockIn' = sockIn
    <3>1. sockIn' \in Seq(Buffers)
      BY <2>2 DEF CountInv, Sequences
    <3> QED BY <2>1, <3>1 DEF CountInv, Numbers, Sequences, Counted, Waits, instance, agent
  <2>3. CASE sockIn' = <<>>
    <3>1. sockIn' \in Seq(Buffers)
      BY <2>3
    <3> QED BY <2>1, <3>1 DEF CountInv, Numbers, Sequences, Counted, Waits, instance, agent
  <2> QED BY <2>1, <2>2, <2>3
<1>2. CASE UNCHANGED vars
  BY <1>2 DEF vars, CountInv, Numbers, Sequences, Counted, Waits, instance, terminal, agent
<1>3. CASE Disconnect \/ ChannelLost
  BY <1>3, AnswerAllCounts DEF Disconnect, ChannelLost
<1>4. CASE Handlers \/ Agent
  BY <1>4, SockReadableCounts, SockWritableCounts, ReplyCounts, AgentWritesCounts,
     AgentReadsCounts DEF Handlers, Agent
<1> QED BY <1>1, <1>2, <1>3, <1>4, AcceptCounts, DeleteCounts, TypesCounts, PrintsCounts DEF Next

LEMMA CountInvariance == Spec => [](CountInv /\ Linked)
<1>1. CountInv /\ Linked /\ [Next]_vars => (CountInv /\ Linked)'
  BY StepCounts, StepLinked
<1> QED BY <1>1, InitCount, InitLinked, PTL DEF Spec

\* The counts are those of the unanswered commands and keep their limits: there is always
\* room for what sock_reader sends, and every reply finds what it takes off.
THEOREM KeepsCounts == Spec => []CountsExact
BY CountInvariance, CountedExact, PTL

-----------------------------------------------------------------------------
(* The order of the output *)

Rising(s) == \A i, j \in DOMAIN s : i < j => s[i] < s[j]
Ahead(s, t) == \A i \in DOMAIN s, j \in DOMAIN t : s[i] < t[j]

\* What was printed after the buffers of s, or will be.
Printing(s) == Ahead(s, uartOut) /\ \A i \in DOMAIN s : s[i] <= printed

\* Data that is on the way comes after what the terminals have and what waits for them,
\* and before what nobody has read.
OnTheWay(b) ==
  /\ b <= printed
  /\ \A i \in DOMAIN uartOut : b < uartOut[i]
  /\ \A i \in DOMAIN sockBufs : sockBufs[i] < b
  /\ \A k \in 1 .. Clients : \A i \in DOMAIN got[k] : got[k][i] < b

\* While the instance exists; later nothing reaches a terminal any more.
Flow ==
  /\ Rising(sockBufs) /\ Printing(sockBufs)
  /\ \A k \in 1 .. Clients : Ahead(got[k], sockBufs) /\ Printing(got[k])
  /\ \A i \in DOMAIN replies : replies[i].buf # NoData => OnTheWay(replies[i].buf)

Ordered ==
  /\ OutputInOrder
  /\ Rising(uartOut) /\ \A i \in DOMAIN uartOut : uartOut[i] <= printed
  /\ exists => Flow

LEMMA InitOrdered == Init => Ordered
BY DEF Init, Ordered, OutputInOrder, Rising, Ahead, Printing, Flow, OnTheWay

\* No output is printed, read or written; data may be lost on the way.
LEMMA OrderFrame ==
  ASSUME Ordered, exists' => exists, UNCHANGED <<got, sockBufs, uartOut, printed>>,
         \A i \in DOMAIN replies' :
           replies'[i].buf # NoData => \E j \in DOMAIN replies : replies'[i] = replies[j]
  PROVE  Ordered'
<1>1. OutputInOrder' /\ Rising(uartOut') /\ \A i \in DOMAIN uartOut' : uartOut'[i] <= printed'
  BY DEF Ordered, OutputInOrder
<1>2. ASSUME exists' PROVE Flow'
  <2>1. Flow
    BY <1>2 DEF Ordered
  <2>2. \A i \in DOMAIN replies' : replies'[i].buf # NoData => OnTheWay(replies'[i].buf)
    BY <2>1 DEF Flow
  <2>3. \A i \in DOMAIN replies' : replies'[i].buf # NoData => OnTheWay(replies[i].buf)' 
    BY <2>2 DEF OnTheWay
  <2> QED BY <2>1, <2>3 DEF Flow, Printing, Ahead, Rising
<1> QED BY <1>1, <1>2 DEF Ordered, Rising

\* The head of a queue goes before the rest.
LEMMA HeadFirst ==
  ASSUME NEW s \in Seq(1 .. Printed), s # <<>>
  PROVE  /\ 1 \in DOMAIN s /\ s[1] = Head(s) /\ Head(s) \in 1 .. Printed
         /\ Tail(s) \in Seq(1 .. Printed)
         /\ \A i \in DOMAIN Tail(s) : i + 1 \in DOMAIN s /\ Tail(s)[i] = s[i + 1] /\ 1 < i + 1
         /\ Rising(s) => Rising(Tail(s)) /\ \A i \in DOMAIN Tail(s) : Head(s) < Tail(s)[i]
<1> DEFINE P == 1 .. Printed
<1>1. s \in Seq(P)
  OBVIOUS
<1> HIDE DEF P
<1>2. /\ 1 \in DOMAIN s /\ s[1] = Head(s) /\ Head(s) \in P
      /\ Tail(s) \in Seq(P)
      /\ \A i \in DOMAIN Tail(s) : i \in Nat /\ i + 1 \in DOMAIN s /\ Tail(s)[i] = s[i + 1] /\ 1 < i + 1
  BY <1>1
<1>3. ASSUME Rising(s) PROVE Rising(Tail(s)) /\ \A i \in DOMAIN Tail(s) : Head(s) < Tail(s)[i]
  BY <1>2, <1>3 DEF Rising
<1> QED BY <1>2, <1>3 DEF P

\* A queue with one more at its end.
LEMMA LastAppended ==
  ASSUME NEW s \in Seq(1 .. Printed), NEW b \in 1 .. Printed
  PROVE  /\ DOMAIN Append(s, b) = DOMAIN s \cup {Len(s) + 1} /\ Append(s, b)[Len(s) + 1] = b
         /\ \A i \in DOMAIN s : Append(s, b)[i] = s[i]
         /\ Rising(s) /\ (\A i \in DOMAIN s : s[i] < b) => Rising(Append(s, b))
<1> DEFINE P == 1 .. Printed
<1>1. s \in Seq(P) /\ b \in P
  OBVIOUS
<1> HIDE DEF P
<1>2. /\ DOMAIN Append(s, b) = DOMAIN s \cup {Len(s) + 1} /\ Append(s, b)[Len(s) + 1] = b
      /\ \A i \in DOMAIN s : Append(s, b)[i] = s[i] /\ i < Len(s) + 1 /\ i \in Nat
      /\ Len(s) \in Nat
  BY <1>1
<1>3. ASSUME Rising(s), \A i \in DOMAIN s : s[i] < b PROVE Rising(Append(s, b))
  BY <1>2, <1>3 DEF Rising
<1> QED BY <1>2, <1>3

LEMMA WritableOrder ==
  ASSUME CountInv, Ordered, SockWritable
  PROVE  Ordered'
<1>1. /\ sockBufs \in Seq(1 .. Printed) /\ sockBufs # <<>> /\ client \in 1 .. Clients
      /\ got \in [1 .. Clients -> Seq(1 .. Printed)] /\ exists
  BY DEF CountInv, Numbers, Sequences, SockWritable
<1> DEFINE b == Head(sockBufs)
<1>2. /\ 1 \in DOMAIN sockBufs /\ sockBufs[1] = b /\ b \in 1 .. Printed
      /\ \A i \in DOMAIN Tail(sockBufs) : i + 1 \in DOMAIN sockBufs /\ Tail(sockBufs)[i] = sockBufs[i + 1]
      /\ Rising(sockBufs) => /\ Rising(Tail(sockBufs))
                             /\ \A i \in DOMAIN Tail(sockBufs) : b < Tail(sockBufs)[i]
  BY <1>1, HeadFirst
<1>3. /\ sockBufs' = Tail(sockBufs)
      /\ got' = [got EXCEPT ![client] = Append(got[client], b)] \/ got' = got
  BY DEF SockWritable, NextBuf
<1>4. UNCHANGED <<exists, uartOut, printed, replies>>
  BY DEF SockWritable, agent
<1>5. Flow /\ OutputInOrder
  BY <1>1 DEF Ordered
<1> HIDE DEF b
<1> DEFINE g == got[client]
<1>6. g \in Seq(1 .. Printed) /\ Rising(g) /\ \A i \in DOMAIN g : g[i] < b
  BY <1>1, <1>2, <1>5 DEF Flow, Ahead, OutputInOrder, Rising
<1>7. \A k \in 1 .. Clients : got'[k] = got[k] \/ (k = client /\ got'[k] = Append(g, b))
  BY <1>1, <1>3
<1> HIDE DEF g
<1>8. /\ DOMAIN Append(g, b) = DOMAIN g \cup {Len(g) + 1} /\ Append(g, b)[Len(g) + 1] = b
      /\ \A i \in DOMAIN g : Append(g, b)[i] = g[i]
      /\ Rising(Append(g, b))
  BY <1>2, <1>6, LastAppended
\* What a terminal has now it had, or it is b.
<1>9. \A k \in 1 .. Clients : \A i \in DOMAIN got'[k] :
        got'[k][i] = b \/ \E j \in DOMAIN got[k] : got'[k][i] = got[k][j]
  BY <1>7, <1>8 DEF g
<1>10. \A i \in DOMAIN sockBufs' :
         (\E j \in DOMAIN sockBufs : sockBufs'[i] = sockBufs[j]) /\ b < sockBufs'[i]
  BY <1>2, <1>3, <1>5 DEF Flow
<1>11. OutputInOrder'
  <2>1. \A k \in 1 .. Clients : Rising(got'[k])
    BY <1>5, <1>7, <1>8 DEF OutputInOrder, Rising
  <2> QED BY <2>1 DEF OutputInOrder, Rising
<1>12. b <= printed /\ \A i \in DOMAIN uartOut : b < uartOut[i]
  BY <1>2, <1>5 DEF Flow, Printing, Ahead
<1>13. Rising(sockBufs)' /\ Printing(sockBufs)'
  <2>1. Rising(sockBufs')
    BY <1>2, <1>3, <1>5 DEF Flow
  <2>2. Ahead(sockBufs', uartOut) /\ \A i \in DOMAIN sockBufs' : sockBufs'[i] <= printed
    BY <1>5, <1>10 DEF Flow, Printing, Ahead
  <2> QED BY <1>4, <2>1, <2>2 DEF Printing, Rising, Ahead
<1>14. \A k \in 1 .. Clients : Ahead(got[k], sockBufs)' /\ Printing(got[k])'
  <2> SUFFICES ASSUME NEW k \in 1 .. Clients
               PROVE  Ahead(got'[k], sockBufs') /\ Ahead(got'[k], uartOut')
                      /\ \A i \in DOMAIN got'[k] : got'[k][i] <= printed'
    BY DEF Printing, Ahead
  <2>1. Ahead(got[k], sockBufs) /\ Printing(got[k])
    BY <1>5 DEF Flow
  <2>2. Ahead(got'[k], sockBufs')
    BY <1>9, <1>10, <2>1 DEF Ahead
  <2>3. Ahead(got'[k], uartOut) /\ \A i \in DOMAIN got'[k] : got'[k][i] <= printed
    BY <1>9, <1>12, <2>1 DEF Printing, Ahead
  <2> QED BY <1>4, <2>2, <2>3
<1>15. \A i \in DOMAIN replies : replies[i].buf # NoData => OnTheWay(replies[i].buf)'
  <2>1. TAKE i \in DOMAIN replies
  <2>2. HAVE replies[i].buf # NoData
  <2> DEFINE d == replies[i].buf
  <2>3. OnTheWay(d)
    BY <1>5, <2>1, <2>2 DEF Flow
  <2>4. b < d
    BY <1>2, <2>3 DEF OnTheWay
  <2> HIDE DEF d
  <2>5. \A j \in DOMAIN sockBufs' : sockBufs'[j] < d
    BY <1>10, <2>3 DEF OnTheWay
  <2>6. \A k \in 1 .. Clients : \A j \in DOMAIN got'[k] : got'[k][j] < d
    BY <1>9, <2>3, <2>4 DEF OnTheWay
  <2>7. d <= printed' /\ \A j \in DOMAIN uartOut' : d < uartOut'[j]
    BY <1>4, <2>3 DEF OnTheWay
  <2>8. replies'[i].buf = d
    BY <1>4 DEF d
  <2> QED BY <1>4, <2>5, <2>6, <2>7, <2>8 DEF OnTheWay
<1>16. Flow'
  BY <1>4, <1>13, <1>14, <1>15 DEF Flow
<1>17. Rising(uartOut)' /\ \A i \in DOMAIN uartOut' : uartOut'[i] <= printed'
  BY <1>4 DEF Ordered, Rising
<1> QED BY <1>11, <1>16, <1>17 DEF Ordered

\* At most one reply carries data, for there is at most one read.
LEMMA OneRead ==
  ASSUME CountInv, exists
  PROVE  /\ reading => \A i \in DOMAIN replies : replies[i].buf = NoData
         /\ replies # <<>> /\ Head(replies).op = "read"
              => \A i \in DOMAIN Tail(replies) : Tail(replies)[i].buf = NoData
<1>1. /\ replies \in Seq(Replies) /\ readCount \in 0 .. 1
      /\ readCount = Waits + Count(replies, "read")
      /\ \A i \in DOMAIN replies : replies[i].buf # NoData => replies[i].op = "read"
  BY DEF CountInv, Numbers, Sequences, Counted
<1>2. Count(replies, "read") \in Nat
  BY <1>1, CountType
<1>3. ASSUME reading PROVE \A i \in DOMAIN replies : replies[i].buf = NoData
  <2>1. Count(replies, "read") = 0
    BY <1>1, <1>2, <1>3 DEF Waits
  <2> QED BY <1>1, <2>1, CountType
<1>4. ASSUME replies # <<>>, Head(replies).op = "read"
      PROVE  \A i \in DOMAIN Tail(replies) : Tail(replies)[i].buf = NoData
  <2> DEFINE q == Tail(replies)
  <2>1. q \in Seq(Replies) /\ \A i \in DOMAIN q : i + 1 \in DOMAIN replies /\ q[i] = replies[i + 1]
    BY <1>1, <1>4
  <2>2. Count(replies, "read") = Count(q, "read") + 1
    BY <1>1, <1>4, CountTail
  <2> HIDE DEF q
  <2>3. Count(q, "read") = 0
    <3>1. Count(q, "read") \in Nat
      BY <2>1, CountType
    <3> QED BY <1>1, <2>2, <3>1 DEF Waits
  <2>4. \A i \in DOMAIN q : q[i].op # "read"
    BY <2>1, <2>3, CountType
  <2>5. \A i \in DOMAIN q : q[i].buf = NoData
    BY <1>1, <2>1, <2>4
  <2> QED BY <2>5 DEF q
<1> QED BY <1>3, <1>4

\* What was read waits for the terminal.
LEMMA KeptOrder ==
  ASSUME CountInv, Ordered, exists, replies # <<>>, replies' = Tail(replies),
         Head(replies).op = "read", Head(replies).buf # NoData,
         sockBufs' = Append(sockBufs, Head(replies).buf),
         UNCHANGED <<exists, got, uartOut, printed>>
  PROVE  Ordered'
<1> DEFINE b == Head(replies).buf
<1>1. Head(replies) \in Replies /\ 1 \in DOMAIN replies /\ replies[1] = Head(replies)
  BY DEF CountInv, Sequences
<1>2. b \in 1 .. Printed
  BY <1>1, StreamAssumption DEF Replies, NoData
<1>3. Flow /\ sockBufs \in Seq(1 .. Printed)
  BY DEF Ordered, CountInv, Sequences
<1>4. OnTheWay(b)
  BY <1>1, <1>3 DEF Flow
<1>5. \A i \in DOMAIN replies' : replies'[i].buf = NoData
  BY OneRead
<1>6. sockBufs' = Append(sockBufs, b)
  OBVIOUS
<1> HIDE DEF b
<1>7. /\ Rising(sockBufs')
      /\ \A i \in DOMAIN sockBufs' : sockBufs'[i] = b \/ \E j \in DOMAIN sockBufs : sockBufs'[i] = sockBufs[j]
  <2>1. Rising(sockBufs) /\ \A i \in DOMAIN sockBufs : sockBufs[i] < b
    BY <1>3, <1>4 DEF Flow, OnTheWay
  <2> QED BY <1>2, <1>3, <1>6, <2>1, LastAppended
<1>8. Ahead(sockBufs', uartOut) /\ \A i \in DOMAIN sockBufs' : sockBufs'[i] <= printed
  BY <1>3, <1>4, <1>7 DEF Flow, Printing, Ahead, OnTheWay
<1>9. \A k \in 1 .. Clients : Ahead(got[k], sockBufs')
  BY <1>3, <1>4, <1>7 DEF Flow, Ahead, OnTheWay
<1>10. Flow'
  <2>1. Rising(sockBufs)' /\ Printing(sockBufs)'
    BY <1>7, <1>8 DEF Rising, Printing, Ahead
  <2>2. \A k \in 1 .. Clients : Ahead(got[k], sockBufs)' /\ Printing(got[k])'
    BY <1>3, <1>9 DEF Flow, Printing, Ahead
  <2> QED BY <1>5, <2>1, <2>2 DEF Flow
<1>11. OutputInOrder' /\ Rising(uartOut)' /\ \A i \in DOMAIN uartOut' : uartOut'[i] <= printed'
  BY DEF Ordered, OutputInOrder, Rising
<1> QED BY <1>10, <1>11 DEF Ordered

\* The agent reads a buffer, or answers without data.
LEMMA ReadOrder ==
  ASSUME CountInv, Linked, Ordered, AgentReads
  PROVE  Ordered'
<1>1. PICK st \in {"ok", "error", "lost"}, b \in 0 .. Printed :
        /\ replies' = Append(replies, ReadReply(st, b))
        /\ \/ st = "ok" /\ uartOut # <<>> /\ b = Head(uartOut) /\ uartOut' = Tail(uartOut)
           \/ b = NoData /\ uartOut' = uartOut
  BY AgentReadsCases
<1>2. /\ reading /\ UNCHANGED <<exists, got, sockBufs, printed>>
      /\ replies \in Seq(Replies) /\ uartOut \in Seq(1 .. Printed)
  BY DEF AgentReads, instance, terminal, CountInv, Sequences
<1>3. \A i \in DOMAIN replies' :
        replies'[i].buf = b \/ (i \in DOMAIN replies /\ replies'[i] = replies[i])
  <2>1. \A i \in DOMAIN replies' :
          replies'[i] = ReadReply(st, b) \/ (i \in DOMAIN replies /\ replies'[i] = replies[i])
    BY <1>1, <1>2
  <2> QED BY <2>1 DEF ReadReply
<1>4. CASE b = NoData /\ uartOut' = uartOut
  <2>1. \A i \in DOMAIN replies' :
          replies'[i].buf # NoData => \E j \in DOMAIN replies : replies'[i] = replies[j]
    BY <1>3, <1>4
  <2> QED BY <1>2, <1>4, <2>1, OrderFrame
<1>5. CASE uartOut # <<>> /\ b = Head(uartOut) /\ uartOut' = Tail(uartOut)
  <2>1. /\ 1 \in DOMAIN uartOut /\ uartOut[1] = b /\ b \in 1 .. Printed
        /\ \A i \in DOMAIN uartOut' : i + 1 \in DOMAIN uartOut /\ uartOut'[i] = uartOut[i + 1]
        /\ Rising(uartOut') /\ \A i \in DOMAIN uartOut' : b < uartOut'[i]
    BY <1>2, <1>5, HeadFirst DEF Ordered
  <2>2. b <= printed /\ \A i \in DOMAIN uartOut' : uartOut'[i] <= printed
    BY <2>1 DEF Ordered
  <2>3. ASSUME exists' PROVE Flow'
    <3>1. exists /\ Flow
      BY <1>2, <2>3 DEF Ordered
    <3>2. OnTheWay(b)'
      BY <1>2, <2>1, <2>2, <3>1 DEF OnTheWay, Flow, Printing, Ahead
    <3>3. \A i \in DOMAIN replies' : replies'[i].buf # NoData => replies'[i].buf = b
      BY <1>2, <1>3, <3>1, OneRead
    <3>4. Rising(sockBufs)' /\ Printing(sockBufs)'
      BY <1>2, <2>1, <3>1 DEF Flow, Printing, Ahead, Rising
    <3>5. \A k \in 1 .. Clients : Ahead(got[k], sockBufs)' /\ Printing(got[k])'
      BY <1>2, <2>1, <3>1 DEF Flow, Printing, Ahead
    <3>6. \A i \in DOMAIN replies' : replies'[i].buf # NoData => OnTheWay(replies[i].buf)'
      BY <3>2, <3>3 DEF OnTheWay
    <3> QED BY <3>4, <3>5, <3>6 DEF Flow
  <2>4. OutputInOrder' /\ Rising(uartOut)'
    BY <1>2, <2>1 DEF Ordered, OutputInOrder, Rising
  <2> QED BY <1>2, <2>2, <2>3, <2>4 DEF Ordered
<1> QED BY <1>1, <1>4, <1>5

LEMMA BufferNumbers ==
  ASSUME NEW s \in Seq(1 .. Printed)
  PROVE  \A i \in DOMAIN s : s[i] \in Nat
<1> DEFINE P == 1 .. Printed
<1>1. s \in Seq(P) /\ \A x \in P : x \in Nat
  OBVIOUS
<1> HIDE DEF P
<1>2. \A i \in DOMAIN s : s[i] \in P
  BY <1>1
<1> QED BY <1>1, <1>2

LEMMA PrintsOrder ==
  ASSUME CountInv, Ordered, UartPrints
  PROVE  Ordered'
<1>1. /\ printed + 1 \in 1 .. Printed /\ printed \in Nat /\ uartOut \in Seq(1 .. Printed)
      /\ printed' = printed + 1 /\ uartOut' = Append(uartOut, printed + 1)
      /\ UNCHANGED <<exists, got, sockBufs, replies>>
  BY StreamAssumption DEF CountInv, Numbers, Sequences, UartPrints, instance, terminal
<1> DEFINE b == printed + 1
<1>2. \A i \in DOMAIN uartOut : uartOut[i] \in Nat /\ uartOut[i] < b
  BY <1>1, BufferNumbers DEF Ordered
<1>3. /\ Rising(uartOut')
      /\ \A i \in DOMAIN uartOut' : uartOut'[i] = b \/ \E j \in DOMAIN uartOut : uartOut'[i] = uartOut[j]
  <2>1. Rising(uartOut) /\ b \in 1 .. Printed /\ uartOut' = Append(uartOut, b)
    BY <1>1 DEF Ordered
  <2> HIDE DEF b
  <2> QED BY <1>1, <1>2, <2>1, LastAppended
<1>4. \A i \in DOMAIN uartOut' : uartOut'[i] <= printed'
  BY <1>1, <1>2, <1>3
<1>5. ASSUME exists' PROVE Flow'
  <2>1. Flow /\ sockBufs \in Seq(1 .. Printed) /\ got \in [1 .. Clients -> Seq(1 .. Printed)]
        /\ replies \in Seq(Replies)
    BY <1>1, <1>5 DEF Ordered, CountInv, Sequences
  <2>2. ASSUME NEW x \in Nat, x <= printed, \A i \in DOMAIN uartOut : x < uartOut[i]
        PROVE  x <= printed' /\ \A i \in DOMAIN uartOut' : x < uartOut'[i]
    BY <1>1, <1>3, <2>2
  <2> HIDE DEF b
  <2>3. ASSUME NEW s \in Seq(1 .. Printed), Printing(s), NEW t, t = s
        PROVE  Ahead(t, uartOut') /\ \A i \in DOMAIN t : t[i] <= printed'
    <3>1. \A i \in DOMAIN s : s[i] \in Nat
      BY BufferNumbers
    <3> QED BY <2>2, <2>3, <3>1 DEF Printing, Ahead
  <2>4. Rising(sockBufs)' /\ Printing(sockBufs)'
    BY <1>1, <2>1, <2>3 DEF Flow, Printing, Ahead, Rising
  <2>5. \A k \in 1 .. Clients : Ahead(got[k], sockBufs)' /\ Printing(got[k])'
    <3> SUFFICES ASSUME NEW k \in 1 .. Clients
                 PROVE  Ahead(got'[k], sockBufs') /\ Ahead(got'[k], uartOut')
                        /\ \A i \in DOMAIN got'[k] : got'[k][i] <= printed'
      BY DEF Printing, Ahead
    <3>1. Ahead(got[k], sockBufs) /\ Printing(got[k]) /\ got[k] \in Seq(1 .. Printed) /\ got'[k] = got[k]
      BY <1>1, <2>1 DEF Flow
    <3> QED BY <1>1, <2>3, <3>1 DEF Ahead
  <2>6. \A i \in DOMAIN replies : replies[i].buf # NoData => OnTheWay(replies[i].buf)'
    <3>1. TAKE i \in DOMAIN replies
    <3>2. HAVE replies[i].buf # NoData
    <3>3. OnTheWay(replies[i].buf)
      BY <2>1, <3>1, <3>2 DEF Flow
    <3>4. replies[i].buf \in Nat
      <4>1. replies[i] \in Replies
        BY <2>1, <3>1
      <4> QED BY <4>1, StreamAssumption DEF Replies
    <3> QED BY <1>1, <2>2, <3>3, <3>4 DEF OnTheWay
  <2> QED BY <1>1, <2>4, <2>5, <2>6 DEF Flow
<1>6. OutputInOrder'
  BY <1>1 DEF Ordered, OutputInOrder
<1> QED BY <1>3, <1>4, <1>5, <1>6 DEF Ordered, Rising

\* The end of stream_read_done, and of stream_write_done.
LEMMA ReplyOrder ==
  ASSUME CountInv, Ordered, Reply
  PROVE  Ordered'
<1>1. /\ replies # <<>> /\ replies' = Tail(replies) /\ UNCHANGED <<got, uartOut, printed>>
      /\ exists' = exists
  BY DEF Reply, instance
<1>2. \A i \in DOMAIN replies' : \E j \in DOMAIN replies : replies'[i] = replies[j]
  BY <1>1, TakenReply
<1>3. CASE UNCHANGED sockBufs
  BY <1>1, <1>2, <1>3, OrderFrame
<1>4. CASE sockBufs' # sockBufs
  <2>1. exists
    BY <1>4 DEF Reply, instance
  <2>2. Head(replies).op # "write" /\ ReadDone(Head(replies))
    BY <1>4, <2>1 DEF Reply, WriteDone
  <2>3. Head(replies).op = "read"
    BY <1>1, <2>2, TakenReply DEF Replies
  <2>4. Head(replies).buf # NoData /\ sockBufs' = Append(sockBufs, Head(replies).buf)
    BY <1>4, <2>2 DEF ReadDone
  <2> QED BY <1>1, <2>1, <2>3, <2>4, KeptOrder
<1> QED BY <1>3, <1>4

LEMMA StepOrder == CountInv /\ Linked /\ Ordered /\ [Next]_vars => Ordered'
<1> SUFFICES ASSUME CountInv, Linked, Ordered, [Next]_vars PROVE Ordered'
  OBVIOUS
<1> DEFINE KeptCommands == /\ exists' => exists
                           /\ UNCHANGED <<got, sockBufs, uartOut, printed>>
<1>1. ASSUME KeptCommands, replies' = replies PROVE Ordered'
  BY <1>1, OrderFrame
<1>2. CASE Accept
  <2>1. KeptCommands /\ replies' = replies
    BY <1>2 DEF Accept, instance, agent
  <2> QED BY <1>1, <2>1
<1>3. CASE SockReadable \/ Delete
  <2>1. KeptCommands /\ replies' = replies
    BY <1>3 DEF SockReadable, Delete, agent
  <2> QED BY <1>1, <2>1
<1>4. CASE TerminalTypes \/ TerminalCloses \/ TerminalResets \/ UNCHANGED vars
  <2>1. KeptCommands /\ replies' = replies
    BY <1>4 DEF TerminalTypes, TerminalCloses, TerminalResets, vars, instance, terminal, agent
  <2> QED BY <1>1, <2>1
<1>5. CASE Disconnect \/ ChannelLost
  <2>0. \/ \E ops \in SUBSET {"write", "read"} : AnswerAll(ops, "error")
        \/ \E ops \in SUBSET {"write", "read"} : AnswerAll(ops, "lost")
    <3>1. CASE Disconnect
      <4>1. AnswerAll({"read"}, "error") \/ AnswerAll({"write"}, "error")
        BY <3>1, Zenon DEF Disconnect
      <4> QED BY <4>1, Zenon
    <3>2. CASE ChannelLost
      <4>1. AnswerAll({"write", "read"}, "lost")
        BY <3>2, Zenon DEF ChannelLost
      <4> QED BY <4>1, Zenon
    <3> QED BY <1>5, <3>1, <3>2
  <2>1. PICK ops \in SUBSET {"write", "read"}, st \in {"error", "lost"} : AnswerAll(ops, st)
    BY <2>0, Zenon
  <2>2. KeptCommands
    BY <2>1 DEF AnswerAll, instance, terminal
  <2>3. \A i \in DOMAIN replies' :
          replies'[i].buf # NoData => \E j \in DOMAIN replies : replies'[i] = replies[j]
    BY <2>1, AnswerAllReplies
  <2> QED BY <2>2, <2>3, OrderFrame
<1>6. CASE AgentWrites
  <2>1. KeptCommands
    BY <1>6 DEF AgentWrites, instance, terminal
  <2>2. PICK st : replies' = Append(replies, WriteReply(st))
    BY <1>6 DEF AgentWrites
  <2>3. replies \in Seq(Replies)
    BY DEF CountInv, Sequences
  <2>4. \A i \in DOMAIN replies' :
          replies'[i] = WriteReply(st) \/ \E j \in DOMAIN replies : replies'[i] = replies[j]
    BY <2>2, <2>3
  <2>5. WriteReply(st).buf = NoData
    BY DEF WriteReply
  <2> QED BY <2>1, <2>4, <2>5, OrderFrame
<1>7. CASE Handlers \/ Agent \/ UartPrints
  BY <1>3, <1>6, <1>7, WritableOrder, ReplyOrder, ReadOrder, PrintsOrder DEF Handlers, Agent
<1> QED BY <1>2, <1>3, <1>4, <1>5, <1>6, <1>7 DEF Next

\* What the UART prints comes out of the sockets in order: each terminal gets an ascending
\* sequence of the buffers, whatever is lost between.
THEOREM KeepsOrder == Spec => []OutputInOrder
<1>1. CountInv /\ Linked /\ Ordered /\ [Next]_vars => Ordered'
  BY StepOrder
<1>2. Ordered => OutputInOrder
  BY DEF Ordered
<1> QED BY <1>1, <1>2, CountInvariance, InitOrdered, PTL DEF Spec

-----------------------------------------------------------------------------
(* Sequences taken apart *)

\* r[i] is what comes after the first i sequences.
Rests(r, h, ss, T) ==
  /\ r \in [0 .. Len(ss) -> Seq(T)] /\ r[Len(ss)] = <<>>
  /\ \A i \in 1 .. Len(ss) : r[i - 1] = Cat(ss[i], r[i])
  /\ \A i \in 0 .. Len(ss) : h[Len(ss)] = Cat(h[i], r[i])

LEMMA RestsExist ==
  ASSUME NEW T, NEW ss \in Lists(T), NEW h, Joins(h, ss, T)
  PROVE  \E r : Rests(r, h, ss, T)
<1> DEFINE n == Len(ss)
           Rest(k, r) == /\ r[k] = <<>> /\ \A i \in 1 .. k : r[i - 1] = Cat(ss[i], r[i])
                         /\ \A i \in 0 .. k : h[k] = Cat(h[i], r[i])
           P == {k \in Nat : \E r \in [0 .. k -> Seq(T)] : Rest(k, r)}
<1>1. n \in Nat /\ h \in [0 .. n -> Seq(T)]
  BY DEF Joins, Lists
<1>2. \A i \in 1 .. n : h[i] = Cat(h[i - 1], ss[i]) /\ ss[i] \in Seq(T)
  BY DEF Joins, Lists
<1>3. 0 \in P
  <2> DEFINE r == [i \in 0 .. 0 |-> <<>>]
  <2>1. r \in [0 .. 0 -> Seq(T)] /\ r[0] = <<>>
    OBVIOUS
  <2>2. Cat(h[0], r[0]) = h[0]
    <3>1. h[0] = <<>> /\ <<>> \in Seq(T)
      BY DEF Joins
    <3> QED BY <2>1, <3>1, CatEmpty
  <2> HIDE DEF r
  <2>3. \A i \in 0 .. 0 : h[0] = Cat(h[i], r[i])
    <3> TAKE i \in 0 .. 0
    <3>1. i = 0
      OBVIOUS
    <3> QED BY <2>2, <3>1
  <2>4. \A i \in 1 .. 0 : r[i - 1] = Cat(ss[i], r[i])
    OBVIOUS
  <2>5. Rest(0, r)
    BY <2>1, <2>3, <2>4
  <2> HIDE DEF Rest
  <2> QED BY <2>1, <2>5
<1> HIDE DEF n
<1>4. ASSUME NEW k \in 1 .. n, k - 1 \in P PROVE k \in P
  <2>1. PICK r \in [0 .. (k - 1) -> Seq(T)] : Rest(k - 1, r)
    BY <1>4
  <2>0. PICK s : s = ss[k]
    OBVIOUS
  <2> DEFINE q == [i \in 0 .. k |-> IF i = k THEN <<>> ELSE Cat(r[i], s)]
  <2>2. k \in Nat /\ k - 1 \in 0 .. n /\ k \in 0 .. n /\ k - 1 \in 0 .. (k - 1)
    BY <1>1
  <2>3. r[k - 1] = <<>> /\ \A i \in 1 .. (k - 1) : r[i - 1] = Cat(ss[i], r[i])
    BY <2>1
  <2>4. \A i \in 0 .. (k - 1) : h[k - 1] = Cat(h[i], r[i])
    BY <2>1
  <2> HIDE DEF Rest
  <2>5. s \in Seq(T) /\ h[k] = Cat(h[k - 1], s)
    BY <1>2, <2>0
  <2>6. q \in [0 .. k -> Seq(T)]
    <3> SUFFICES ASSUME NEW i \in 0 .. k PROVE (IF i = k THEN <<>> ELSE Cat(r[i], s)) \in Seq(T)
      OBVIOUS
    <3>1. CASE i = k
      BY <3>1
    <3>2. CASE i # k
      <4>1. i \in 0 .. (k - 1)
        BY <2>2, <3>2
      <4>2. r[i] \in Seq(T)
        BY <4>1
      <4> QED BY <2>5, <3>2, <4>2, CatType
    <3> QED BY <3>1, <3>2
  <2>7. q[k] = <<>> /\ \A i \in 0 .. (k - 1) : q[i] = Cat(r[i], s)
    BY <2>2
  <2> HIDE DEF q
  <2>8. ASSUME NEW i \in 1 .. k PROVE q[i - 1] = Cat(ss[i], q[i])
    <3>1. i - 1 \in 0 .. (k - 1)
      BY <2>2
    <3>2. q[i - 1] = Cat(r[i - 1], s)
      BY <2>7, <3>1
    <3>3. CASE i = k
      <4>1. q[i - 1] = Cat(<<>>, s)
        BY <2>3, <3>2, <3>3
      <4>2. q[i] = <<>> /\ ss[i] = s
        BY <2>0, <2>7, <3>3
      <4> QED BY <2>5, <4>1, <4>2, CatEmpty
    <3>4. CASE i # k
      <4>1. i \in 1 .. (k - 1) /\ i \in 0 .. (k - 1) /\ i \in 1 .. n
        BY <1>1, <2>2, <3>4
      <4>a. PICK u : u = r[i]
        OBVIOUS
      <4>b. PICK v : v = ss[i]
        OBVIOUS
      <4>2. u \in Seq(T) /\ v \in Seq(T)
        BY <1>2, <4>1, <4>a, <4>b
      <4>3. q[i - 1] = Cat(Cat(v, u), s)
        BY <2>3, <3>2, <4>1, <4>a, <4>b
      <4>4. q[i] = Cat(u, s)
        BY <2>7, <4>1, <4>a
      <4>5. Cat(Cat(v, u), s) = Cat(v, Cat(u, s))
        BY <2>5, <4>2, CatAssociative
      <4>6. q[i - 1] = Cat(v, q[i])
        BY <4>3, <4>4, <4>5
      <4> QED BY <4>6, <4>b
    <3> QED BY <3>3, <3>4
  <2>9. ASSUME NEW i \in 0 .. k PROVE h[k] = Cat(h[i], q[i])
    <3>1. h[i] \in Seq(T)
      BY <1>1, <2>2
    <3>2. CASE i = k
      <4>1. Cat(h[i], <<>>) = h[i]
        BY <3>1
      <4> QED BY <2>7, <3>2, <4>1
    <3>3. CASE i # k
      <4>1. i \in 0 .. (k - 1)
        BY <2>2, <3>3
      <4>a. PICK u : u = r[i]
        OBVIOUS
      <4>b. PICK v : v = h[i]
        OBVIOUS
      <4>2. u \in Seq(T) /\ v \in Seq(T)
        BY <3>1, <4>1, <4>a, <4>b
      <4>3. h[k] = Cat(Cat(v, u), s)
        BY <2>4, <2>5, <4>1, <4>a, <4>b
      <4>4. q[i] = Cat(u, s)
        BY <2>7, <4>1, <4>a
      <4>5. Cat(Cat(v, u), s) = Cat(v, Cat(u, s))
        BY <2>5, <4>2, CatAssociative
      <4>6. h[k] = Cat(v, q[i])
        BY <4>3, <4>4, <4>5
      <4> QED BY <4>6, <4>b
    <3> QED BY <3>2, <3>3
  <2>10. Rest(k, q)
    BY <2>7, <2>8, <2>9 DEF Rest
  <2> QED BY <2>2, <2>6, <2>10
<1>5. \A k \in 0 .. n : k \in P
  <2> HIDE DEF P
  <2> QED BY <1>1, <1>3, <1>4, UpTo
<1>6. n \in P
  <2> HIDE DEF P
  <2> QED BY <1>1, <1>5
<1> QED BY <1>6 DEF n, Rests

\* A sequence put together is one of sequences.
LEMMA FlattenAppend ==
  ASSUME NEW T, NEW ss \in Lists(T), NEW s \in Seq(T)
  PROVE  FlattenSeq(ss) \in Seq(T) /\ FlattenSeq(Append(ss, s)) = Cat(FlattenSeq(ss), s)
<1>1. PICK n \in Nat : n = Len(ss)
  BY DEF Lists
<1>2. PICK tt : tt = Append(ss, s)
  OBVIOUS
<1>3. tt \in Lists(T) /\ Len(tt) = n + 1 /\ tt[n + 1] = s /\ \A i \in 1 .. n : tt[i] = ss[i]
  BY <1>1, <1>2 DEF Lists
<1>4. PICK h : Joins(h, tt, T)
  BY <1>3, JoinsExist
<1>5. FlattenSeq(tt) = h[n + 1]
  BY <1>3, <1>4, FlattenJoins
<1>6. PICK g : g = [i \in 0 .. n |-> h[i]]
  OBVIOUS
<1>7. /\ h \in [0 .. (n + 1) -> Seq(T)] /\ h[0] = <<>>
      /\ \A i \in 1 .. (n + 1) : h[i] = Cat(h[i - 1], tt[i])
  BY <1>3, <1>4 DEF Joins
<1>8. Joins(g, ss, T)
  <2>1. g \in [0 .. n -> Seq(T)] /\ g[0] = <<>>
    BY <1>6, <1>7
  <2>2. ASSUME NEW i \in 1 .. n PROVE g[i] = Cat(g[i - 1], ss[i])
    <3>1. g[i] = h[i] /\ g[i - 1] = h[i - 1]
      BY <1>6
    <3>2. h[i] = Cat(h[i - 1], ss[i])
      BY <1>3, <1>7
    <3> QED BY <3>1, <3>2
  <2> QED BY <1>1, <2>1, <2>2 DEF Joins
<1>9. FlattenSeq(ss) = g[n]
  BY <1>1, <1>8, FlattenJoins
<1>10. g[n] = h[n] /\ h[n] \in Seq(T)
  BY <1>6, <1>7
<1>11. h[n + 1] = Cat(h[n], s)
  <2>1. PICK m \in 1 .. (n + 1) : m = n + 1
    OBVIOUS
  <2>2. m - 1 = n
    BY <2>1
  <2>3. h[m] = Cat(h[m - 1], tt[m])
    BY <1>7
  <2> QED BY <1>3, <2>1, <2>2, <2>3
<1> QED BY <1>2, <1>5, <1>9, <1>10, <1>11

LEMMA FlattenNone == ASSUME NEW ss, Len(ss) = 0, ss = <<>> PROVE FlattenSeq(ss) = <<>>
BY DEF FlattenSeq

\* The middle of three sequences.
LEMMA CatMiddle ==
  ASSUME NEW T, NEW a \in Seq(T), NEW b \in Seq(T), NEW c \in Seq(T)
  PROVE  SubSeq(Cat(a, Cat(b, c)), Len(a) + 1, Len(a) + Len(b)) = b
BY DEF Cat

LEMMA CatFirst ==
  ASSUME NEW T, NEW a \in Seq(T), NEW b \in Seq(T)
  PROVE  SubSeq(Cat(a, b), 1, Len(a)) = a
BY DEF Cat

LEMMA CatLast ==
  ASSUME NEW T, NEW a \in Seq(T), NEW b \in Seq(T)
  PROVE  SubSeq(Cat(a, b), Len(a) + 1, Len(Cat(a, b))) = b
BY DEF Cat

\* An element is replaced, or a sequence inserted, behind a.
LEMMA ReplaceBehind ==
  ASSUME NEW T, NEW a \in Seq(T), NEW b \in Seq(T), NEW v \in Seq(T), NEW c \in Seq(T), Len(b) = 1
  PROVE  Replace(Cat(a, Cat(b, c)), Len(a), v) = Cat(a, Cat(v, c))
<1>1. PICK w : w = Cat(a, Cat(b, c))
  OBVIOUS
<1>2. PICK p : p = Cat(a, b)
  OBVIOUS
<1>3. p \in Seq(T) /\ Len(p) = Len(a) + 1 /\ w = Cat(p, c)
  <2>1. p \in Seq(T) /\ Len(p) = Len(a) + Len(b)
    BY <1>2, CatType
  <2>2. Cat(p, c) = Cat(a, Cat(b, c))
    BY <1>2, CatAssociative
  <2> QED BY <1>1, <2>1, <2>2
<1>4. w \in Seq(T) /\ Len(w) = Len(a) + 1 + Len(c)
  BY <1>3, CatType
<1>5. Cat(b, c) \in Seq(T)
  BY CatType
<1>6. SubSeq(w, 1, Len(a)) = a
  BY <1>1, <1>5, CatFirst
<1>7. SubSeq(w, Len(p) + 1, Len(w)) = c
  BY <1>3, CatLast
<1>8. Len(p) + 1 = Len(a) + 2
  BY <1>3
<1>9. Len(a) < Len(w)
  BY <1>4
<1>10. Replace(w, Len(a), v) = SubSeq(w, 1, Len(a)) \o v \o SubSeq(w, Len(a) + 2, Len(w))
  BY <1>9 DEF Replace
<1>11. Replace(w, Len(a), v) = Cat(Cat(a, v), c)
  BY <1>6, <1>7, <1>8, <1>10 DEF Cat
<1>12. QED BY <1>1, <1>11, CatAssociative

LEMMA InsertBehind ==
  ASSUME NEW T, NEW a \in Seq(T), NEW v \in Seq(T), NEW c \in Seq(T)
  PROVE  Insert(Cat(a, c), Len(a), v) = Cat(a, Cat(v, c))
<1>1. PICK w : w = Cat(a, c)
  OBVIOUS
<1>2. w \in Seq(T) /\ Len(w) = Len(a) + Len(c)
  BY <1>1, CatType
<1>3. SubSeq(w, 1, Len(a)) = a
  BY <1>1, CatFirst
<1>4. SubSeq(w, Len(a) + 1, Len(w)) = c
  BY <1>1, CatLast
<1>5. (IF Len(a) < Len(w) THEN Len(a) ELSE Len(w)) = Len(a)
  BY <1>2
<1>6. Insert(w, Len(a), v) = SubSeq(w, 1, Len(a)) \o v \o SubSeq(w, Len(a) + 1, Len(w))
  BY <1>5 DEF Insert
<1>7. Insert(w, Len(a), v) = Cat(Cat(a, v), c)
  BY <1>3, <1>4, <1>6 DEF Cat
<1>8. QED BY <1>1, <1>7, CatAssociative

\* Both make a sequence wherever they are done.
LEMMA ReplaceType ==
  ASSUME NEW T, NEW s \in Seq(T), NEW o \in Nat, NEW v \in Seq(T)
  PROVE  Replace(s, o, v) \in Seq(T)
<1>1. CASE o < Len(s)
  <2>1. PICK a : a = SubSeq(s, 1, o)
    OBVIOUS
  <2>2. PICK b : b = SubSeq(s, o + 2, Len(s))
    OBVIOUS
  <2>3. a \in Seq(T) /\ b \in Seq(T)
    BY <1>1, <2>1, <2>2, SubSeqProperties
  <2>4. Replace(s, o, v) = Cat(Cat(a, v), b)
    BY <1>1, <2>1, <2>2 DEF Replace, Cat
  <2>5. Cat(a, v) \in Seq(T)
    BY <2>3, CatType
  <2>6. Cat(Cat(a, v), b) \in Seq(T)
    BY <2>3, <2>5, CatType
  <2> QED BY <2>4, <2>6
<1>2. CASE ~(o < Len(s))
  BY <1>2 DEF Replace
<1> QED BY <1>1, <1>2

LEMMA InsertType ==
  ASSUME NEW T, NEW s \in Seq(T), NEW o \in Nat, NEW v \in Seq(T)
  PROVE  Insert(s, o, v) \in Seq(T)
<1>1. PICK p \in 0 .. Len(s) : p = IF o < Len(s) THEN o ELSE Len(s)
  OBVIOUS
<1>2. PICK a : a = SubSeq(s, 1, p)
  OBVIOUS
<1>3. PICK b : b = SubSeq(s, p + 1, Len(s))
  OBVIOUS
<1>4. a \in Seq(T) /\ b \in Seq(T)
  BY <1>2, <1>3, SubSeqProperties
<1>5. Insert(s, o, v) = Cat(Cat(a, v), b)
  BY <1>1, <1>2, <1>3 DEF Insert, Cat
<1>6. Cat(a, v) \in Seq(T)
  BY <1>4, CatType
<1>7. Cat(Cat(a, v), b) \in Seq(T)
  BY <1>4, <1>6, CatType
<1> QED BY <1>5, <1>7

-----------------------------------------------------------------------------
(* Commands and bytes *)

Of == {"tdi", "hole", "ir", "cmp", "mask", "tdo", "pin"}
Byte == Nat \X Of \X Nat
Froms == {"none", "data", "value", "register", "rejected"}

\* Only a shift has data, a comparison or a captured value, and its length is not zero.
Command ==
  {cmd \in [op : {"other", "getPin", "shift"}, bytes : Nat, from : Froms, capture : BOOLEAN, compare : BOOLEAN] :
     IF cmd.op = "shift" THEN cmd.bytes > 0 /\ cmd.from # "none"
     ELSE cmd.from = "none" /\ ~cmd.capture /\ ~cmd.compare}

LEMMA BytesType ==
  ASSUME NEW i \in Nat, NEW of \in Of, NEW n \in Nat
  PROVE  Bytes(i, of, n) \in Seq(Byte) /\ Len(Bytes(i, of, n)) = n
BY DEF Bytes, Byte

LEMMA CommandType ==
  ASSUME NEW cmd \in Command
  PROVE  /\ cmd.op \in {"other", "getPin", "shift"} /\ cmd.bytes \in Nat /\ cmd.from \in Froms
         /\ cmd.capture \in BOOLEAN /\ cmd.compare \in BOOLEAN
         /\ cmd.op = "shift" => cmd.bytes > 0 /\ cmd.from # "none"
         /\ cmd.op # "shift" => cmd.from = "none" /\ cmd.capture = FALSE /\ cmd.compare = FALSE
BY DEF Command

LEMMA ResolvedType ==
  ASSUME NEW cmd \in Command
  PROVE  /\ Resolved(cmd) \in Command
         /\ Resolved(cmd).op = cmd.op /\ Resolved(cmd).from = cmd.from
         /\ Resolved(cmd).capture = cmd.capture /\ Resolved(cmd).compare = cmd.compare
         /\ cmd.from # "register" => Resolved(cmd) = cmd
<1>1. IrBytes \in Nat /\ IrBytes > 0
  BY SequenceAssumption
<1>2. CASE cmd.from = "register"
  <2>1. Resolved(cmd) = [cmd EXCEPT !.bytes = IrBytes]
    BY <1>2 DEF Resolved
  <2> QED BY <1>1, <1>2, <2>1 DEF Command
<1>3. CASE cmd.from # "register"
  BY <1>3 DEF Resolved
<1> QED BY <1>2, <1>3

\* What the buffer of the sequence holds for a command.
Held(i, cmd) ==
  CASE cmd.from = "data"     -> Bytes(i, "tdi", cmd.bytes)
    [] cmd.from = "register" -> Bytes(i, "hole", 1)
    [] OTHER                 -> <<>>

\* The two parts of the data of a command.
Shifted(i, cmd) ==
  CASE cmd.from \in {"data", "rejected"} -> Bytes(i, "tdi", cmd.bytes)
    [] cmd.from = "register"           -> Bytes(i, "ir", cmd.bytes)
    [] OTHER                           -> <<>>

Compared(i, cmd) ==
  IF cmd.compare THEN Bytes(i, "cmp", cmd.bytes) \o Bytes(i, "mask", cmd.bytes) ELSE <<>>

LEMMA HeldType ==
  ASSUME NEW i \in Nat, NEW cmd \in Command
  PROVE  Held(i, cmd) \in Seq(Byte)
<1>1. cmd.bytes \in Nat
  BY CommandType
<1>2. Bytes(i, "tdi", cmd.bytes) \in Seq(Byte) /\ <<>> \in Seq(Byte)
  BY <1>1, BytesType DEF Of
<1>3. Bytes(i, "hole", 1) \in Seq(Byte)
  <2>1. 1 \in Nat /\ "hole" \in Of
    BY DEF Of
  <2> QED BY <2>1, BytesType
<1> QED BY <1>2, <1>3 DEF Held

LEMMA DataParts ==
  ASSUME NEW i \in Nat, NEW cmd \in Command
  PROVE  /\ Shifted(i, cmd) \in Seq(Byte) /\ Compared(i, cmd) \in Seq(Byte)
         /\ cmd.from \in {"data", "rejected", "register"} => Len(Shifted(i, cmd)) = cmd.bytes
         /\ cmd.from \notin {"data", "rejected", "register"} => Shifted(i, cmd) = <<>>
         /\ cmd.compare => /\ Compared(i, cmd) = Cat(Bytes(i, "cmp", cmd.bytes), Bytes(i, "mask", cmd.bytes))
                           /\ Len(Compared(i, cmd)) = 2 * cmd.bytes
         /\ ~cmd.compare => Compared(i, cmd) = <<>>
         /\ DataOf(i, cmd) = Cat(Shifted(i, cmd), Compared(i, cmd))
<1>1. PICK n \in Nat : n = cmd.bytes
  BY CommandType
<1>2. PICK c : c = Bytes(i, "cmp", n)
  OBVIOUS
<1>3. PICK m : m = Bytes(i, "mask", n)
  OBVIOUS
<1>4. c \in Seq(Byte) /\ m \in Seq(Byte) /\ Len(c) = n /\ Len(m) = n
  BY <1>2, <1>3, BytesType DEF Of
<1>5. Cat(c, m) \in Seq(Byte) /\ Len(Cat(c, m)) = n + n
  BY <1>4, CatType
<1>6. cmd.compare => Compared(i, cmd) = Cat(c, m)
  BY <1>1, <1>2, <1>3 DEF Compared, Cat
<1>7. ~cmd.compare => Compared(i, cmd) = <<>>
  BY DEF Compared
<1>8. Compared(i, cmd) \in Seq(Byte)
  <2>1. <<>> \in Seq(Byte)
    OBVIOUS
  <2> QED BY <1>5, <1>6, <1>7, <2>1
<1>9. /\ Bytes(i, "tdi", n) \in Seq(Byte) /\ Len(Bytes(i, "tdi", n)) = n
      /\ Bytes(i, "ir", n) \in Seq(Byte) /\ Len(Bytes(i, "ir", n)) = n
  BY BytesType DEF Of
<1>10. /\ Shifted(i, cmd) \in Seq(Byte)
       /\ cmd.from \in {"data", "rejected", "register"} => Len(Shifted(i, cmd)) = n
       /\ cmd.from \notin {"data", "rejected", "register"} => Shifted(i, cmd) = <<>>
  <2>1. CASE cmd.from \in {"data", "rejected"}
    <3>1. Shifted(i, cmd) = Bytes(i, "tdi", n)
      BY <1>1, <2>1 DEF Shifted
    <3> QED BY <1>9, <2>1, <3>1
  <2>2. CASE cmd.from = "register"
    <3>1. Shifted(i, cmd) = Bytes(i, "ir", n)
      BY <1>1, <2>2 DEF Shifted
    <3> QED BY <1>9, <2>2, <3>1
  <2>3. CASE cmd.from \notin {"data", "rejected", "register"}
    <3>1. Shifted(i, cmd) = <<>> /\ <<>> \in Seq(Byte)
      BY <2>3 DEF Shifted
    <3> QED BY <2>3, <3>1
  <2> QED BY <2>1, <2>2, <2>3
<1>11. DataOf(i, cmd) = Cat(Shifted(i, cmd), Compared(i, cmd))
  BY DEF DataOf, Shifted, Compared, Cat
<1>12. cmd.compare => Len(Compared(i, cmd)) = 2 * n
  BY <1>5, <1>6
<1> QED BY <1>1, <1>2, <1>3, <1>6, <1>7, <1>8, <1>10, <1>11, <1>12

-----------------------------------------------------------------------------
(* One turn of fmt_cmds_data *)

\* The buffer after the register's code has been put in.
Coded(i, cmd, e) ==
  IF cmd.from = "register" THEN Replace(e.buf, e.o, Bytes(i, "ir", Length(cmd))) ELSE e.buf

Checks(i, cmd) == Bytes(i, "cmp", Length(cmd)) \o Bytes(i, "mask", Length(cmd))

LEMMA StepCompared ==
  ASSUME NEW i, NEW cmd, NEW e, cmd.op = "shift", cmd.compare
  PROVE  Step(i, cmd, e) = [o |-> e.o + Length(cmd) + 2 * Length(cmd),
                            buf |-> Insert(Coded(i, cmd, e), e.o + Length(cmd), Checks(i, cmd))]
<1>1. Resolved(cmd).bytes = Length(cmd)
  BY DEF Length
<1> QED BY <1>1 DEF Step, Coded, Checks

LEMMA StepShifted ==
  ASSUME NEW i, NEW cmd, NEW e, cmd.op = "shift", ~cmd.compare
  PROVE  Step(i, cmd, e) = [o |-> e.o + Length(cmd), buf |-> Coded(i, cmd, e)]
<1>1. Resolved(cmd).bytes = Length(cmd)
  BY DEF Length
<1> QED BY <1>1 DEF Step, Coded

LEMMA StepPin ==
  ASSUME NEW i, NEW cmd, NEW e, cmd.op = "getPin"
  PROVE  Step(i, cmd, e) = [e EXCEPT !.o = e.o + 1]
BY DEF Step

LEMMA StepOther ==
  ASSUME NEW i, NEW cmd, NEW e, cmd.op = "other"
  PROVE  Step(i, cmd, e) = e
BY DEF Step

LEMMA LengthType ==
  ASSUME NEW cmd \in Command
  PROVE  Length(cmd) = Resolved(cmd).bytes /\ Length(cmd) \in Nat
BY ResolvedType, CommandType DEF Length

State == [o : Nat, buf : Seq(Byte)]

LEMMA StepType ==
  ASSUME NEW i \in Nat, NEW cmd \in Command, NEW e \in State
  PROVE  Step(i, cmd, e) \in State
<1>1. PICK n \in Nat : n = Length(cmd)
  BY LengthType
<1>2. PICK o \in Nat : o = e.o
  BY DEF State
<1>3. e.buf \in Seq(Byte)
  BY DEF State
<1>4. PICK w : w = Coded(i, cmd, e)
  OBVIOUS
<1>5. w \in Seq(Byte)
  <2>1. Bytes(i, "ir", n) \in Seq(Byte)
    BY BytesType DEF Of
  <2>2. Replace(e.buf, o, Bytes(i, "ir", n)) \in Seq(Byte)
    BY <1>3, <2>1, ReplaceType
  <2> QED BY <1>1, <1>2, <1>3, <1>4, <2>2 DEF Coded
<1>6. PICK c : c = Checks(i, cmd)
  OBVIOUS
<1>7. c \in Seq(Byte)
  <2>1. Bytes(i, "cmp", n) \in Seq(Byte) /\ Bytes(i, "mask", n) \in Seq(Byte)
    BY BytesType DEF Of
  <2>2. c = Cat(Bytes(i, "cmp", n), Bytes(i, "mask", n))
    BY <1>1, <1>6 DEF Checks, Cat
  <2> QED BY <2>1, <2>2, CatType
<1>8. Insert(w, o + n, c) \in Seq(Byte)
  <2>1. o + n \in Nat
    OBVIOUS
  <2> QED BY <1>5, <1>7, <2>1, InsertType
<1>9. CASE cmd.op = "shift" /\ cmd.compare
  <2>1. Step(i, cmd, e) = [o |-> o + n + 2 * n, buf |-> Insert(w, o + n, c)]
    BY <1>1, <1>2, <1>4, <1>6, <1>9, StepCompared
  <2>2. o + n + 2 * n \in Nat
    OBVIOUS
  <2> QED BY <1>8, <2>1, <2>2 DEF State
<1>10. CASE cmd.op = "shift" /\ ~cmd.compare
  <2>1. Step(i, cmd, e) = [o |-> o + n, buf |-> w]
    BY <1>1, <1>2, <1>4, <1>10, StepShifted
  <2>2. o + n \in Nat
    OBVIOUS
  <2> QED BY <1>5, <2>1, <2>2 DEF State
<1>11. CASE cmd.op = "getPin"
  <2>1. Step(i, cmd, e) = [e EXCEPT !.o = e.o + 1]
    BY <1>11, StepPin
  <2> QED BY <2>1 DEF State
<1>12. CASE cmd.op = "other"
  BY <1>12, StepOther
<1>13. cmd.op \in {"other", "getPin", "shift"}
  BY CommandType
<1> QED BY <1>9, <1>10, <1>11, <1>12, <1>13

\* The data a command needs comes in the place of what the buffer held for it, if the offset
\* is where that begins or nothing has to be put in; and the offset goes on to the end of
\* it.
LEMMA StepPlaces ==
  ASSUME NEW i \in Nat, NEW cmd \in Command, NEW e \in State, NEW a \in Seq(Byte), NEW r \in Seq(Byte),
         e.buf = Cat(a, Cat(Held(i, cmd), r)),
         cmd.from = "register" \/ cmd.compare => e.o = Len(a) /\ cmd.from # "value",
         cmd.from # "rejected"
  PROVE  /\ Step(i, cmd, e).buf = Cat(Cat(a, DataOf(i, Resolved(cmd))), r)
         /\ e.o = Len(a) /\ cmd.op # "getPin" /\ cmd.from # "value"
              => Step(i, cmd, e).o = Len(Cat(a, DataOf(i, Resolved(cmd))))
<1>1. PICK n \in Nat : n = Length(cmd)
  BY LengthType
<1>2. PICK c : c = Resolved(cmd)
  OBVIOUS
<1>3. /\ c \in Command /\ c.bytes = n /\ c.op = cmd.op /\ c.from = cmd.from /\ c.compare = cmd.compare
      /\ cmd.from # "register" => c = cmd
  BY <1>1, <1>2, ResolvedType, LengthType
<1>4. PICK f : f = Shifted(i, c)
  OBVIOUS
<1>5. PICK x : x = Compared(i, c)
  OBVIOUS
<1>6. /\ f \in Seq(Byte) /\ x \in Seq(Byte) /\ DataOf(i, c) = Cat(f, x)
      /\ cmd.from \in {"data", "register"} => Len(f) = n
      /\ cmd.from \notin {"data", "rejected", "register"} => f = <<>>
      /\ cmd.compare => x = Checks(i, cmd) /\ Len(x) = 2 * n
      /\ ~cmd.compare => x = <<>>
  <2>1. cmd.compare => Checks(i, cmd) = Cat(Bytes(i, "cmp", n), Bytes(i, "mask", n))
    BY <1>1 DEF Checks, Cat
  <2> QED BY <1>3, <1>4, <1>5, <2>1, DataParts
<1>13. f \in Seq(Byte) /\ x \in Seq(Byte)
  BY <1>6
<1>14. cmd.from \in {"data", "register"} => Len(f) = n
  BY <1>6
<1>15. cmd.compare => Len(x) = 2 * n
  BY <1>6
<1>7. PICK w : w = Coded(i, cmd, e)
  OBVIOUS
<1>8. w = Cat(a, Cat(f, r))
  <2>1. CASE cmd.from = "register"
    <3>1. PICK b : b = Bytes(i, "hole", 1)
      OBVIOUS
    <3>2. b \in Seq(Byte) /\ Len(b) = 1
      <4>1. 1 \in Nat /\ "hole" \in Of
        BY DEF Of
      <4> QED BY <3>1, <4>1, BytesType
    <3>3. Held(i, cmd) = b
      BY <2>1, <3>1 DEF Held
    <3>4. f = Bytes(i, "ir", n)
      BY <1>3, <1>4, <2>1 DEF Shifted
    <3>5. Replace(Cat(a, Cat(b, r)), Len(a), f) = Cat(a, Cat(f, r))
      BY <1>6, <3>2, ReplaceBehind
    <3> QED BY <1>1, <1>7, <2>1, <3>3, <3>4, <3>5 DEF Coded
  <2>2. CASE cmd.from # "register"
    <3>1. Held(i, cmd) = f
      BY <1>3, <1>4, <2>2 DEF Held, Shifted
    <3> QED BY <1>7, <2>2, <3>1 DEF Coded
  <2> QED BY <2>1, <2>2
<1>9. PICK p : p = Cat(a, f)
  OBVIOUS
<1>10. /\ p \in Seq(Byte) /\ Len(p) = Len(a) + Len(f) /\ w = Cat(p, r)
       /\ Cat(a, DataOf(i, c)) = Cat(p, x)
  <2>1. p \in Seq(Byte) /\ Len(p) = Len(a) + Len(f)
    BY <1>6, <1>9, CatType
  <2>2. w = Cat(p, r)
    BY <1>6, <1>8, <1>9, CatAssociative
  <2>3. Cat(a, DataOf(i, c)) = Cat(p, x)
    BY <1>6, <1>9, CatAssociative
  <2> QED BY <2>1, <2>2, <2>3
<1>11. CASE cmd.op = "shift" /\ cmd.compare
  <2>1. cmd.from \in {"data", "register"} /\ e.o = Len(a)
    BY <1>11, CommandType DEF Froms
  <2>2. Len(p) = e.o + n /\ Len(a) \in Nat
    <3>1. Len(f) = n
      BY <1>14, <2>1
    <3>2. Len(p) = Len(a) + Len(f)
      BY <1>10
    <3>3. Len(a) \in Nat
      OBVIOUS
    <3> QED BY <2>1, <3>1, <3>2, <3>3
  <2>3. Step(i, cmd, e) = [o |-> e.o + n + 2 * n, buf |-> Insert(w, Len(p), x)]
    BY <1>1, <1>6, <1>7, <1>11, <2>2, StepCompared
  <2>4. Insert(Cat(p, r), Len(p), x) = Cat(p, Cat(x, r))
    <3>1. p \in Seq(Byte)
      BY <1>10
    <3> QED BY <1>13, <3>1, InsertBehind
  <2>5. Cat(p, Cat(x, r)) = Cat(Cat(p, x), r)
    BY <1>6, <1>10, CatAssociative
  <2>6. Len(Cat(p, x)) = Len(p) + 2 * n
    <3>1. Len(Cat(p, x)) = Len(p) + Len(x)
      BY <1>10, <1>13, CatType
    <3> QED BY <1>11, <1>15, <3>1
  <2>7. Step(i, cmd, e).o = e.o + n + 2 * n /\ Step(i, cmd, e).buf = Insert(w, Len(p), x)
    BY <2>3
  <2>8. Step(i, cmd, e).o = Len(Cat(p, x))
    BY <2>2, <2>6, <2>7
  <2> QED BY <1>2, <1>10, <2>4, <2>5, <2>7, <2>8
<1>12. CASE ~(cmd.op = "shift" /\ cmd.compare)
  <2>1. x = <<>> /\ Cat(p, x) = p
    <3>1. cmd.compare = FALSE
      BY <1>12, CommandType
    <3> QED BY <1>6, <1>10, <3>1, CatEmpty
  <2>2. CASE cmd.op = "shift"
    <3>1. Step(i, cmd, e) = [o |-> e.o + n, buf |-> w]
      BY <1>1, <1>7, <1>12, <2>2, StepShifted
    <3>2. cmd.from # "value" => Len(f) = n
      BY <1>6, <2>2, CommandType DEF Froms
    <3>3. Step(i, cmd, e).o = e.o + n /\ Step(i, cmd, e).buf = w
      BY <3>1
    <3>4. e.o = Len(a) /\ cmd.from # "value" => Step(i, cmd, e).o = Len(p)
      BY <1>10, <3>2, <3>3
    <3> QED BY <1>2, <1>10, <2>1, <3>3, <3>4
  <2>3. CASE cmd.op # "shift"
    <3>1. cmd.from = "none" /\ Step(i, cmd, e).buf = e.buf /\ (cmd.op # "getPin" => Step(i, cmd, e) = e)
      <4>1. cmd.op \in {"other", "getPin"} /\ cmd.from = "none"
        BY <2>3, CommandType
      <4>2. CASE cmd.op = "getPin"
        <5>1. Step(i, cmd, e) = [e EXCEPT !.o = e.o + 1]
          BY <4>2, StepPin
        <5> QED BY <4>1, <4>2, <5>1 DEF State
      <4>3. CASE cmd.op = "other"
        BY <4>1, <4>3, StepOther
      <4> QED BY <4>1, <4>2, <4>3
    <3>2. w = e.buf /\ f = <<>>
      BY <1>6, <1>7, <3>1 DEF Coded
    <3>3. p = a
      BY <1>9, <3>2, CatEmpty
    <3> QED BY <1>2, <1>10, <2>1, <3>1, <3>2, <3>3
  <2> QED BY <2>2, <2>3
<1> QED BY <1>11, <1>12

-----------------------------------------------------------------------------
(* The loop of fmt_cmds_data *)

\* The states of the loop, of which Encoded is the last one's buffer.
Turns(e) ==
  /\ e \in [0 .. Len(cmds) -> State] /\ e[0] = [o |-> 0, buf |-> inbuf]
  /\ \A i \in 1 .. Len(cmds) : e[i] = Step(i, cmds[i], e[i - 1])
  /\ Encoded = e[Len(cmds)].buf

LEMMA EncodedLoop ==
  ASSUME cmds \in Seq(Command), inbuf \in Seq(Byte)
  PROVE  \E e : Turns(e)
<1>1. PICK n \in Nat : n = Len(cmds)
  OBVIOUS
<1>2. \A i \in 1 .. n : cmds[i] \in Command
  BY <1>1
<1>3. PICK init : init = [o |-> 0, buf |-> inbuf]
  OBVIOUS
<1>4. init \in State
  BY <1>3 DEF State
<1> DEFINE g == [x \in Nat \X State |-> IF x[1] \in 1 .. n THEN Step(x[1], cmds[x[1]], x[2]) ELSE x[2]]
<1>5. g \in [Nat \X State -> State]
  <2> SUFFICES ASSUME NEW x \in Nat \X State
               PROVE  (IF x[1] \in 1 .. n THEN Step(x[1], cmds[x[1]], x[2]) ELSE x[2]) \in State
    OBVIOUS
  <2>1. PICK i \in Nat, y \in State : x[1] = i /\ x[2] = y
    OBVIOUS
  <2>2. CASE i \in 1 .. n
    <3>1. cmds[i] \in Command
      BY <1>2, <2>2
    <3>2. Step(i, cmds[i], y) \in State
      BY <3>1, StepType
    <3> QED BY <2>1, <2>2, <3>2
  <2> QED BY <2>1, <2>2
<1>6. PICK f : Solves(f, n, State, init, g)
  <2> HIDE DEF g
  <2> QED BY <1>4, <1>5, SolutionExists
<1>7. f \in [0 .. n -> State] /\ f[0] = init /\ \A i \in 1 .. n : f[i] = g[<<i, f[i - 1]>>]
  <2> HIDE DEF g
  <2> QED BY <1>6 DEF Solves
<1>8. ASSUME NEW i \in 1 .. n PROVE f[i] = Step(i, cmds[i], f[i - 1])
  <2>1. i \in Nat /\ f[i - 1] \in State
    <3> HIDE DEF g
    <3> QED BY <1>7
  <2>2. g[<<i, f[i - 1]>>] = Step(i, cmds[i], f[i - 1])
    BY <2>1
  <2> HIDE DEF g
  <2> QED BY <1>7, <2>2
<1> HIDE DEF g
<1> DEFINE e[i \in 0 .. Len(cmds)] == IF i = 0 THEN [o |-> 0, buf |-> inbuf] ELSE Step(i, cmds[i], e[i - 1])
<1>9. Encoded = e[Len(cmds)].buf
  BY DEF Encoded
<1>10. e = CHOOSE x : x = [i \in 0 .. Len(cmds) |->
                            IF i = 0 THEN [o |-> 0, buf |-> inbuf] ELSE Step(i, cmds[i], x[i - 1])]
  OBVIOUS
<1> HIDE DEF e
<1>11. f = [i \in 0 .. Len(cmds) |->
              IF i = 0 THEN [o |-> 0, buf |-> inbuf] ELSE Step(i, cmds[i], f[i - 1])]
  <2> SUFFICES ASSUME NEW i \in 0 .. n
               PROVE  f[i] = IF i = 0 THEN init ELSE Step(i, cmds[i], f[i - 1])
    BY <1>1, <1>3, <1>7
  <2>1. i = 0 \/ i \in 1 .. n
    OBVIOUS
  <2> QED BY <1>7, <1>8, <2>1
<1>12. e = [i \in 0 .. Len(cmds) |->
              IF i = 0 THEN [o |-> 0, buf |-> inbuf] ELSE Step(i, cmds[i], e[i - 1])]
  BY <1>10, <1>11
<1>13. DOMAIN e = 0 .. n /\ e[0] = init
  BY <1>1, <1>3, <1>12
<1>14. ASSUME NEW i \in 1 .. n PROVE e[i] = Step(i, cmds[i], e[i - 1])
  <2>1. i \in 0 .. n /\ i # 0
    OBVIOUS
  <2> QED BY <1>1, <1>12, <2>1
<1> DEFINE P == {i \in Nat : e[i] \in State}
<1>15. 0 \in P
  BY <1>4, <1>13
<1>16. ASSUME NEW i \in 1 .. n, i - 1 \in P PROVE i \in P
  <2>1. i \in Nat /\ e[i - 1] \in State /\ cmds[i] \in Command
    BY <1>2, <1>16
  <2>2. Step(i, cmds[i], e[i - 1]) \in State
    BY <2>1, StepType
  <2> QED BY <1>14, <2>1, <2>2
<1>17. \A i \in 0 .. n : i \in P
  <2> HIDE DEF P
  <2> QED BY <1>15, <1>16, UpTo
<1>18. e \in [0 .. n -> State]
  <2>1. \A i \in 0 .. n : e[i] \in State
    BY <1>17
  <2>2. e = [i \in DOMAIN e |-> e[i]]
    BY <1>12
  <2> QED BY <1>13, <2>1, <2>2
<1>19. Turns(e)
  BY <1>1, <1>3, <1>9, <1>13, <1>14, <1>18 DEF Turns
<1> QED BY <1>19

HeldAll == [i \in DOMAIN cmds |-> Held(i, cmds[i])]
DataAll == [i \in DOMAIN cmds |-> DataOf(i, Resolved(cmds[i]))]

LEMMA ListsOfCommands ==
  ASSUME cmds \in Seq(Command)
  PROVE  /\ HeldAll \in Lists(Byte) /\ Len(HeldAll) = Len(cmds)
         /\ DataAll \in Lists(Byte) /\ Len(DataAll) = Len(cmds)
<1>1. PICK n \in Nat : n = Len(cmds) /\ DOMAIN cmds = 1 .. n
  OBVIOUS
<1>2. ASSUME NEW i \in 1 .. n PROVE Held(i, cmds[i]) \in Seq(Byte) /\ DataOf(i, Resolved(cmds[i])) \in Seq(Byte)
  <2>1. i \in Nat /\ cmds[i] \in Command
    BY <1>1
  <2>2. PICK c \in Command : c = Resolved(cmds[i])
    BY <2>1, ResolvedType
  <2>3. DataOf(i, c) \in Seq(Byte)
    <3>1. /\ Shifted(i, c) \in Seq(Byte) /\ Compared(i, c) \in Seq(Byte)
          /\ DataOf(i, c) = Cat(Shifted(i, c), Compared(i, c))
      BY <2>1, DataParts
    <3> QED BY <3>1, CatType
  <2> QED BY <2>1, <2>2, <2>3, HeldType
<1>3. HeldAll \in [1 .. n -> Seq(Byte)] /\ DataAll \in [1 .. n -> Seq(Byte)]
  BY <1>1, <1>2 DEF HeldAll, DataAll
<1>4. \A s \in [1 .. n -> Seq(Byte)] : s \in Lists(Byte) /\ Len(s) = n
  BY DEF Lists
<1> QED BY <1>1, <1>3, <1>4

\* Pins and shifts without data come after everything that is put in.
Countable ==
  \A i, k \in DOMAIN cmds :
    k <= i /\ (cmds[i].from = "register" \/ cmds[i].compare)
      => cmds[k].op # "getPin" /\ cmds[k].from # "value"

\* No shift was rejected.
Accepted == \A i \in DOMAIN cmds : cmds[i].from # "rejected"

\* After i commands the buffer is the data of these, then what it held for the others.
LEMMA EncodedInPlace ==
  ASSUME cmds \in Seq(Command), inbuf = FlattenSeq(HeldAll), Countable, Accepted
  PROVE  Encoded = FlattenSeq(DataAll)
<1>1. PICK n \in Nat : n = Len(cmds) /\ DOMAIN cmds = 1 .. n
  OBVIOUS
<1>2. PICK hs \in Lists(Byte) : hs = HeldAll /\ Len(hs) = n
  BY <1>1, ListsOfCommands
<1>3. PICK ds \in Lists(Byte) : ds = DataAll /\ Len(ds) = n
  BY <1>1, ListsOfCommands
<1>4. \A i \in 1 .. n : /\ cmds[i] \in Command /\ hs[i] = Held(i, cmds[i])
                        /\ ds[i] = DataOf(i, Resolved(cmds[i])) /\ ds[i] \in Seq(Byte)
  BY <1>1, <1>2, <1>3 DEF HeldAll, DataAll, Lists
<1>5. PICK h : Joins(h, hs, Byte)
  BY JoinsExist
<1>6. PICK d : Joins(d, ds, Byte)
  BY JoinsExist
<1>7. FlattenSeq(hs) = h[n] /\ FlattenSeq(ds) = d[n]
  BY <1>2, <1>3, <1>5, <1>6, FlattenJoins
<1>19. PICK r : Rests(r, h, hs, Byte)
  BY <1>5, RestsExist
<1>8. /\ r \in [0 .. n -> Seq(Byte)] /\ r[n] = <<>>
      /\ \A i \in 1 .. n : r[i - 1] = Cat(hs[i], r[i])
      /\ \A i \in 0 .. n : h[n] = Cat(h[i], r[i])
  BY <1>2, <1>19 DEF Rests
<1>9. d \in [0 .. n -> Seq(Byte)] /\ d[0] = <<>> /\ \A i \in 1 .. n : d[i] = Cat(d[i - 1], ds[i])
  BY <1>3, <1>6 DEF Joins
<1>10. inbuf = r[0] /\ inbuf \in Seq(Byte)
  <2>1. 0 \in 0 .. n /\ h[0] = <<>>
    BY <1>5 DEF Joins
  <2>2. h[n] = Cat(<<>>, r[0])
    BY <1>8, <2>1
  <2>3. r[0] \in Seq(Byte)
    BY <1>8, <2>1
  <2> QED BY <1>2, <1>7, <2>2, <2>3, CatEmpty
<1>11. PICK e : Turns(e)
  BY <1>10, EncodedLoop
<1>12. /\ e \in [0 .. n -> State] /\ e[0] = [o |-> 0, buf |-> inbuf]
       /\ \A i \in 1 .. n : e[i] = Step(i, cmds[i], e[i - 1])
       /\ Encoded = e[n].buf
  BY <1>1, <1>11 DEF Turns
<1> DEFINE Plain(k) == cmds[k].op # "getPin" /\ cmds[k].from # "value"
           TurnCounted(i) == \A k \in 1 .. i : Plain(k)
           Placed(i) == e[i].buf = Cat(d[i], r[i]) /\ (TurnCounted(i) => e[i].o = Len(d[i]))
           P == {i \in Nat : Placed(i)}
<1>13. 0 \in P
  <2>1. e[0].buf = inbuf /\ e[0].o = 0
    BY <1>12
  <2>2. Cat(d[0], r[0]) = r[0]
    BY <1>9, <1>10, CatEmpty
  <2>3. Len(d[0]) = 0
    BY <1>9
  <2> QED BY <1>10, <2>1, <2>2, <2>3
<1>14. ASSUME NEW i \in 1 .. n, i - 1 \in P PROVE i \in P
  <2>1. i \in Nat /\ i - 1 \in 0 .. n /\ i \in 0 .. n
    OBVIOUS
  <2>2. PICK cmd \in Command : cmd = cmds[i]
    BY <1>4
  <2>3. PICK a \in Seq(Byte) : a = d[i - 1]
    BY <1>9, <2>1
  <2>4. PICK s \in Seq(Byte) : s = r[i]
    BY <1>8, <2>1
  <2>5. PICK x \in State : x = e[i - 1]
    BY <1>12, <2>1
  <2>6. x.buf = Cat(a, Cat(Held(i, cmd), s)) /\ (TurnCounted(i - 1) => x.o = Len(a))
    <3>1. x.buf = Cat(a, r[i - 1]) /\ (TurnCounted(i - 1) => x.o = Len(a))
      BY <1>14, <2>3, <2>5
    <3>2. r[i - 1] = Cat(Held(i, cmd), s)
      BY <1>4, <1>8, <2>2, <2>4
    <3> QED BY <3>1, <3>2
  <2>7. cmd.from = "register" \/ cmd.compare => TurnCounted(i - 1) /\ cmd.from # "value"
    <3>1. ASSUME cmd.from = "register" \/ cmd.compare PROVE \A k \in 1 .. i : Plain(k)
      <4> TAKE k \in 1 .. i
      <4>1. k \in DOMAIN cmds /\ i \in DOMAIN cmds /\ k <= i
        BY <1>1
      <4> QED BY <2>2, <3>1, <4>1 DEF Countable
    <3>2. i \in 1 .. i /\ \A k \in 1 .. (i - 1) : k \in 1 .. i
      BY <2>1
    <3> QED BY <2>2, <3>1, <3>2
  <2>8. /\ Step(i, cmd, x).buf = Cat(Cat(a, DataOf(i, Resolved(cmd))), s)
        /\ x.o = Len(a) /\ cmd.op # "getPin" /\ cmd.from # "value"
              => Step(i, cmd, x).o = Len(Cat(a, DataOf(i, Resolved(cmd))))
    <3>1. cmd.from # "rejected"
      BY <1>1, <2>2 DEF Accepted
    <3> HIDE DEF TurnCounted
    <3> QED BY <2>1, <2>6, <2>7, <3>1, StepPlaces
  <2>9. d[i] = Cat(a, DataOf(i, Resolved(cmd)))
    BY <1>4, <1>9, <2>2, <2>3
  <2>10. e[i] = Step(i, cmd, x)
    BY <1>12, <2>2, <2>5
  <2>11. TurnCounted(i) => TurnCounted(i - 1) /\ cmd.op # "getPin" /\ cmd.from # "value"
    <3>1. i \in 1 .. i /\ \A k \in 1 .. (i - 1) : k \in 1 .. i
      BY <2>1
    <3> QED BY <2>2, <3>1
  <2> HIDE DEF TurnCounted
  <2>12. Placed(i)
    BY <2>4, <2>6, <2>8, <2>9, <2>10, <2>11
  <2> QED BY <2>1, <2>12
<1>15. \A i \in 0 .. n : i \in P
  <2> HIDE DEF P
  <2> QED BY <1>13, <1>14, UpTo
<1>16. e[n].buf = Cat(d[n], r[n])
  <2>1. n \in 0 .. n
    OBVIOUS
  <2>2. n \in P
    <3> HIDE DEF P
    <3> QED BY <1>15, <2>1
  <2> QED BY <2>2
<1>17. d[n] \in Seq(Byte)
  BY <1>9
<1>18. Cat(d[n], r[n]) = d[n]
  BY <1>8, <1>17, CatEmpty
<1> QED BY <1>3, <1>7, <1>12, <1>16, <1>18

-----------------------------------------------------------------------------
(* The loop over the result *)

LEMMA ResultParts ==
  ASSUME NEW i \in Nat, NEW cmd \in Command
  PROVE  /\ ResultOf(i, cmd) \in Seq(Byte) /\ Len(ResultOf(i, cmd)) = CutBytes(cmd)
         /\ CutBytes(cmd) \in Nat
         /\ CutBytes(cmd) = 0 => ValueOf(i, cmd) = <<>>
         /\ CutBytes(cmd) # 0 => ValueOf(i, cmd) = <<ResultOf(i, cmd)>>
<1>1. PICK n \in Nat : n = cmd.bytes
  BY CommandType
<1>2. /\ Bytes(i, "tdo", n) \in Seq(Byte) /\ Len(Bytes(i, "tdo", n)) = n
  BY BytesType DEF Of
<1>3. Bytes(i, "pin", 1) \in Seq(Byte) /\ Len(Bytes(i, "pin", 1)) = 1
  <2>1. 1 \in Nat /\ "pin" \in Of
    BY DEF Of
  <2> QED BY <2>1, BytesType
<1>4. PICK s : s = ResultOf(i, cmd)
  OBVIOUS
<1>5. s \in Seq(Byte) /\ Len(s) = CutBytes(cmd) /\ CutBytes(cmd) \in Nat
  <2>1. CASE cmd.op = "shift" /\ cmd.capture
    <3>1. s = Bytes(i, "tdo", n) /\ CutBytes(cmd) = n
      BY <1>1, <1>4, <2>1 DEF ResultOf, CutBytes
    <3> QED BY <1>2, <3>1
  <2>2. CASE cmd.op = "getPin"
    <3>1. s = Bytes(i, "pin", 1) /\ CutBytes(cmd) = 1
      BY <1>4, <2>2 DEF ResultOf, CutBytes
    <3> QED BY <1>3, <3>1
  <2>3. CASE ~(cmd.op = "shift" /\ cmd.capture) /\ cmd.op # "getPin"
    <3>1. cmd.capture = FALSE
      BY <2>3, CommandType
    <3>2. s = <<>> /\ CutBytes(cmd) = 0
      BY <1>4, <2>3, <3>1 DEF ResultOf, CutBytes
    <3> QED BY <3>2
  <2> QED BY <2>1, <2>2, <2>3
<1>6. CutBytes(cmd) = 0 <=> s = <<>>
  BY <1>5
<1> QED BY <1>4, <1>5, <1>6 DEF ValueOf

\* Every command gets the part of the result that is its own.
LEMMA CutExact ==
  ASSUME NEW cs \in Seq(Command)
  PROVE  Cut(Result(cs), cs) = [st |-> "ok", list |-> FlattenSeq([i \in DOMAIN cs |-> ValueOf(i, cs[i])])]
<1>1. PICK n \in Nat : n = Len(cs) /\ DOMAIN cs = 1 .. n
  OBVIOUS
<1>2. PICK ts : ts = [i \in DOMAIN cs |-> ResultOf(i, cs[i])]
  OBVIOUS
<1>3. PICK vs : vs = [i \in DOMAIN cs |-> ValueOf(i, cs[i])]
  OBVIOUS
<1>4. ASSUME NEW i \in 1 .. n
      PROVE  /\ cs[i] \in Command /\ ts[i] = ResultOf(i, cs[i]) /\ vs[i] = ValueOf(i, cs[i])
             /\ ts[i] \in Seq(Byte) /\ vs[i] \in Seq(Seq(Byte))
             /\ CutBytes(cs[i]) \in Nat /\ Len(ts[i]) = CutBytes(cs[i])
             /\ CutBytes(cs[i]) = 0 => vs[i] = <<>>
             /\ CutBytes(cs[i]) # 0 => vs[i] = <<ts[i]>>
  <2>1. PICK cmd \in Command : cmd = cs[i]
    BY <1>1
  <2>2. ts[i] = ResultOf(i, cmd) /\ vs[i] = ValueOf(i, cmd) /\ i \in Nat
    BY <1>1, <1>2, <1>3, <2>1
  <2>3. PICK s : s = ResultOf(i, cmd)
    OBVIOUS
  <2>4. s \in Seq(Byte) /\ Len(s) = CutBytes(cmd) /\ CutBytes(cmd) \in Nat
    BY <2>2, <2>3, ResultParts
  <2>5. /\ CutBytes(cmd) = 0 => ValueOf(i, cmd) = <<>>
        /\ CutBytes(cmd) # 0 => ValueOf(i, cmd) = <<s>>
    BY <2>2, <2>3, ResultParts
  <2>6. <<>> \in Seq(Seq(Byte)) /\ <<s>> \in Seq(Seq(Byte))
    BY <2>4
  <2> QED BY <2>1, <2>2, <2>3, <2>4, <2>5, <2>6
<1>5. \A S : \A s \in [1 .. n -> Seq(S)] : s \in Lists(S) /\ Len(s) = n
  BY DEF Lists
<1>6. ts \in Lists(Byte) /\ Len(ts) = n
  <2>1. ts \in [1 .. n -> Seq(Byte)]
    BY <1>1, <1>2, <1>4
  <2> QED BY <1>5, <2>1
<1>7. vs \in Lists(Seq(Byte)) /\ Len(vs) = n
  <2>1. vs \in [1 .. n -> Seq(Seq(Byte))]
    BY <1>1, <1>3, <1>4
  <2> QED BY <1>5, <2>1
<1>8. PICK t : Joins(t, ts, Byte)
  BY <1>6, JoinsExist
<1>9. PICK r : Rests(r, t, ts, Byte)
  BY <1>6, <1>8, RestsExist
<1>10. PICK v : Joins(v, vs, Seq(Byte))
  BY <1>7, JoinsExist
<1>11. FlattenSeq(ts) = t[n] /\ FlattenSeq(vs) = v[n]
  BY <1>6, <1>7, <1>8, <1>10, FlattenJoins
<1>12. PICK result : result = Result(cs)
  OBVIOUS
<1>13. result = t[n]
  BY <1>2, <1>11, <1>12 DEF Result
<1>14. t \in [0 .. n -> Seq(Byte)] /\ t[0] = <<>> /\ \A i \in 1 .. n : t[i] = Cat(t[i - 1], ts[i])
  BY <1>6, <1>8 DEF Joins
<1>15. v \in [0 .. n -> Seq(Seq(Byte))] /\ v[0] = <<>> /\ \A i \in 1 .. n : v[i] = Cat(v[i - 1], vs[i])
  BY <1>7, <1>10 DEF Joins
<1>16. /\ r \in [0 .. n -> Seq(Byte)]
       /\ \A i \in 1 .. n : r[i - 1] = Cat(ts[i], r[i])
       /\ \A i \in 0 .. n : t[n] = Cat(t[i], r[i])
  BY <1>6, <1>9 DEF Rests
\* c[i] is the loop after i commands.
<1>17. PICK f : f = [i \in 0 .. n |-> [o |-> Len(t[i]), list |-> v[i]]]
  OBVIOUS
<1>18. f[0] = [o |-> 0, list |-> <<>>] /\ \A i \in 0 .. n : f[i].o = Len(t[i]) /\ f[i].list = v[i]
  BY <1>14, <1>15, <1>17
<1> DEFINE Turn(i, x) ==
             IF CutBytes(cs[i]) = 0 THEN x
             ELSE [o |-> x.o + CutBytes(cs[i]),
                   list |-> Append(x.list, SubSeq(result, x.o + 1, x.o + CutBytes(cs[i])))]
<1>19. ASSUME NEW i \in 1 .. n PROVE f[i] = Turn(i, f[i - 1])
  <2>1. i \in 0 .. n /\ i - 1 \in 0 .. n
    OBVIOUS
  <2>2. PICK a \in Seq(Byte) : a = t[i - 1]
    BY <1>14, <2>1
  <2>3. PICK b \in Seq(Byte) : b = ts[i]
    BY <1>4
  <2>4. PICK z \in Seq(Byte) : z = r[i]
    BY <1>16, <2>1
  <2>5. PICK l \in Seq(Seq(Byte)) : l = v[i - 1]
    BY <1>15, <2>1
  <2>6. PICK m \in Nat : m = CutBytes(cs[i])
    BY <1>4
  <2>7. t[i] = Cat(a, b) /\ v[i] = Cat(l, vs[i])
    BY <1>14, <1>15, <2>2, <2>3, <2>5
  <2>8. f[i - 1].o = Len(a) /\ f[i - 1].list = l /\ f[i - 1] = [o |-> Len(a), list |-> l]
    BY <1>17, <1>18, <2>1, <2>2, <2>5
  <2>9. f[i] = [o |-> Len(t[i]), list |-> v[i]]
    BY <1>17, <2>1
  <2>10. Len(b) = m
    BY <1>4, <2>3, <2>6
  <2>11. Len(t[i]) = Len(a) + m
    <3>1. Len(Cat(a, b)) = Len(a) + Len(b)
      BY CatType
    <3> QED BY <2>7, <2>10, <3>1
  <2>12. CASE m = 0
    <3>1. vs[i] = <<>>
      BY <1>4, <2>6, <2>12
    <3>2. v[i] = l
      BY <2>7, <3>1, CatEmpty
    <3>3. Len(t[i]) = Len(a)
      BY <2>11, <2>12
    <3> QED BY <2>6, <2>8, <2>9, <2>12, <3>2, <3>3
  <2>13. CASE m # 0
    <3>1. vs[i] = <<b>>
      BY <1>4, <2>3, <2>6, <2>13
    <3>2. v[i] = Append(l, b)
      <4>1. Cat(l, <<b>>) = Append(l, b)
        BY DEF Cat
      <4> QED BY <2>7, <3>1, <4>1
    <3>3. result = Cat(a, Cat(b, z))
      <4>1. t[n] = Cat(t[i - 1], r[i - 1]) /\ r[i - 1] = Cat(ts[i], r[i])
        BY <1>16, <2>1
      <4> QED BY <1>13, <2>2, <2>3, <2>4, <4>1
    <3>4. SubSeq(result, Len(a) + 1, Len(a) + Len(b)) = b
      BY <3>3, CatMiddle
    <3>5. SubSeq(result, Len(a) + 1, Len(a) + m) = b
      BY <2>10, <3>4
    <3>6. Turn(i, f[i - 1]) = [o |-> Len(a) + m, list |-> Append(l, b)]
      BY <2>6, <2>8, <2>13, <3>5
    <3> HIDE DEF Turn
    <3> QED BY <2>9, <2>11, <3>2, <3>6
  <2> QED BY <2>12, <2>13
<1> DEFINE c[i \in 0 .. Len(cs)] == IF i = 0 THEN [o |-> 0, list |-> <<>>] ELSE Turn(i, c[i - 1])
<1>20. Cut(result, cs) = IF c[Len(cs)].o = Len(result) THEN [st |-> "ok", list |-> c[Len(cs)].list]
                         ELSE [st |-> "error", list |-> <<>>]
  BY DEF Cut
<1>21. c = CHOOSE x : x = [i \in 0 .. Len(cs) |->
                            IF i = 0 THEN [o |-> 0, list |-> <<>>] ELSE Turn(i, x[i - 1])]
  OBVIOUS
<1> HIDE DEF c, Turn
<1>22. f = [i \in 0 .. Len(cs) |-> IF i = 0 THEN [o |-> 0, list |-> <<>>] ELSE Turn(i, f[i - 1])]
  <2>1. PICK init : init = [o |-> 0, list |-> <<>>]
    OBVIOUS
  <2>2. SUFFICES ASSUME NEW i \in 0 .. n
                 PROVE  f[i] = IF i = 0 THEN init ELSE Turn(i, f[i - 1])
    BY <1>1, <1>17, <2>1
  <2>3. i = 0 \/ i \in 1 .. n
    OBVIOUS
  <2>4. f[0] = init
    BY <1>18, <2>1
  <2> QED BY <1>19, <2>3, <2>4
<1>23. c = [i \in 0 .. Len(cs) |-> IF i = 0 THEN [o |-> 0, list |-> <<>>] ELSE Turn(i, c[i - 1])]
  BY <1>21, <1>22
<1> DEFINE P == {i \in Nat : c[i] = f[i]}
<1>24. 0 \in P
  BY <1>1, <1>18, <1>23
<1>25. ASSUME NEW i \in 1 .. n, i - 1 \in P PROVE i \in P
  <2>1. i \in 0 .. n /\ i # 0 /\ i \in Nat
    OBVIOUS
  <2>2. c[i] = Turn(i, c[i - 1])
    BY <1>1, <1>23, <2>1
  <2>3. c[i - 1] = f[i - 1]
    BY <1>25
  <2> QED BY <1>19, <2>1, <2>2, <2>3
<1>26. c[n] = f[n]
  <2>1. \A i \in 0 .. n : i \in P
    <3> HIDE DEF P
    <3> QED BY <1>24, <1>25, UpTo
  <2>2. n \in 0 .. n
    OBVIOUS
  <2> QED BY <2>1, <2>2
<1>27. c[Len(cs)].o = Len(result) /\ c[Len(cs)].list = v[n]
  BY <1>1, <1>13, <1>18, <1>26
<1>28. Cut(result, cs) = [st |-> "ok", list |-> v[n]]
  BY <1>20, <1>27
<1> QED BY <1>3, <1>11, <1>12, <1>28

-----------------------------------------------------------------------------
(* The sequence object *)

\* The buffer holds what it should for each command, one after the other.
Buffered == cmds \in Seq(Command) /\ inbuf = FlattenSeq(HeldAll)

SequenceInv == Buffered /\ DataInPlace /\ OneValuePerCapture

LEMMA NoneBuffered ==
  ASSUME cmds = <<>>, inbuf = <<>>
  PROVE  Buffered
<1>1. PICK hs : hs = HeldAll
  OBVIOUS
<1>2. hs = <<>> /\ Len(hs) = 0
  BY <1>1 DEF HeldAll
<1>3. FlattenSeq(hs) = <<>>
  BY <1>2, FlattenNone
<1> QED BY <1>1, <1>3 DEF Buffered

LEMMA NothingInPlace ==
  sent = NothingSent /\ values = NoValues => DataInPlace /\ OneValuePerCapture
<1> HAVE sent = NothingSent /\ values = NoValues
<1>1. sent.cmds = <<>> /\ sent.data = <<>> /\ values.st = "none"
  BY DEF NothingSent, NoValues
<1>2. PICK ds : ds = [i \in DOMAIN sent.cmds |-> DataOf(i, sent.cmds[i])]
  OBVIOUS
<1>3. ds = <<>> /\ Len(ds) = 0
  BY <1>1, <1>2
<1>4. FlattenSeq(ds) = <<>>
  BY <1>3, FlattenNone
<1> QED BY <1>1, <1>2, <1>4 DEF DataInPlace, DataMatchesCommands, OneValuePerCapture

LEMMA InitSequence == SequenceInit => SequenceInv
BY NoneBuffered, NothingInPlace DEF SequenceInit, SequenceInv

LEMMA AddKeeps ==
  ASSUME SequenceInv, NEW cmd \in Command, NEW data, AddCommand(cmd, data),
         data = Held(Len(cmds) + 1, cmd)
  PROVE  SequenceInv'
<1>1. PICK n \in Nat : n = Len(cmds) /\ DOMAIN cmds = 1 .. n
  BY DEF SequenceInv, Buffered
<1>2. cmds \in Seq(Command) /\ inbuf = FlattenSeq(HeldAll)
  BY DEF SequenceInv, Buffered
<1>14. cmds' = Append(cmds, cmd)
  BY DEF AddCommand
<1>15. Append(cmds, cmd) \in Seq(Command)
  BY <1>2
<1>3. PICK cs \in Seq(Command) : cs = cmds'
  BY <1>14, <1>15
<1>4. Len(cs) = n + 1 /\ DOMAIN cs = 1 .. (n + 1) /\ cs[n + 1] = cmd /\ \A i \in 1 .. n : cs[i] = cmds[i]
  BY <1>1, <1>2, <1>3, <1>14
<1>5. PICK hs \in Lists(Byte) : hs = HeldAll /\ Len(hs) = n
  BY <1>1, <1>2, ListsOfCommands
<1>6. PICK s \in Seq(Byte) : s = data
  <2>1. n + 1 \in Nat
    OBVIOUS
  <2> QED BY <1>1, <2>1, HeldType
<1>7. PICK gs : gs = HeldAll'
  OBVIOUS
<1>8. gs = [i \in 1 .. (n + 1) |-> Held(i, cs[i])]
  BY <1>3, <1>4, <1>7 DEF HeldAll
<1>9. gs = Append(hs, s)
  <2>1. hs = [i \in 1 .. n |-> Held(i, cmds[i])]
    BY <1>1, <1>5 DEF HeldAll
  <2>2. PICK w : w = Append(hs, s)
    OBVIOUS
  <2>4. w \in Seq(Seq(Byte)) /\ DOMAIN w = 1 .. (n + 1)
    BY <1>5, <2>2 DEF Lists
  <2>5. ASSUME NEW i \in 1 .. (n + 1) PROVE w[i] = IF i = n + 1 THEN s ELSE hs[i]
    BY <1>5, <2>2 DEF Lists
  <2>6. w = [i \in 1 .. (n + 1) |-> w[i]]
    BY <2>4
  <2>3. ASSUME NEW i \in 1 .. (n + 1) PROVE Held(i, cs[i]) = IF i = n + 1 THEN s ELSE hs[i]
    <3>1. CASE i = n + 1
      BY <1>1, <1>4, <1>6, <3>1
    <3>2. CASE i # n + 1
      <4>1. i \in 1 .. n
        BY <3>2
      <4> QED BY <1>4, <2>1, <3>2, <4>1
    <3> QED BY <3>1, <3>2
  <2>7. gs = [i \in 1 .. (n + 1) |-> w[i]]
    BY <1>8, <2>3, <2>5
  <2> QED BY <2>2, <2>6, <2>7
<1>10. FlattenSeq(gs) = Cat(FlattenSeq(hs), s)
  BY <1>9, FlattenAppend
<1>11. inbuf' = Cat(inbuf, s)
  BY <1>6 DEF AddCommand, Cat
<1>12. Buffered'
  BY <1>2, <1>3, <1>5, <1>7, <1>10, <1>11 DEF Buffered
<1>13. (DataInPlace /\ OneValuePerCapture)'
  <2>1. (sent = NothingSent /\ values = NoValues)'
    BY DEF AddCommand
  <2> QED BY <2>1, NothingInPlace, PTL
<1> QED BY <1>12, <1>13 DEF SequenceInv

LEMMA RunKeeps ==
  ASSUME SequenceInv, Run
  PROVE  SequenceInv'
<1>1. PICK n \in Nat : n = Len(cmds) /\ DOMAIN cmds = 1 .. n
  BY DEF SequenceInv, Buffered
<1>2. cmds \in Seq(Command) /\ inbuf = FlattenSeq(HeldAll)
  BY DEF SequenceInv, Buffered
<1>3. PICK cs : cs = [i \in DOMAIN cmds |-> Resolved(cmds[i])]
  OBVIOUS
<1>4. sent' = [cmds |-> cs, data |-> Encoded] /\ values' \in {NoValues, Cut(Result(cs), cs)}
  BY <1>3 DEF Run
<1>5. cs \in Seq(Command) /\ DOMAIN cs = 1 .. n
  <2>1. ASSUME NEW i \in 1 .. n PROVE Resolved(cmds[i]) \in Command
    BY <1>1, <1>2, ResolvedType
  <2>2. cs \in [1 .. n -> Command]
    BY <1>1, <1>3, <2>1
  <2> QED BY <2>2
<1>6. Buffered'
  BY <1>2 DEF Run, Buffered, HeldAll
<1>7. DataInPlace'
  <2> SUFFICES ASSUME NoneRejected', OffsetsCount' PROVE DataMatchesCommands'
    BY DEF DataInPlace
  <2>1. sent'.cmds = cs /\ sent'.data = Encoded
    BY <1>4
  <2>2. ASSUME NEW i \in DOMAIN cmds
        PROVE  cs[i].op = cmds[i].op /\ cs[i].from = cmds[i].from /\ cs[i].compare = cmds[i].compare
    <3>1. cmds[i] \in Command /\ cs[i] = Resolved(cmds[i])
      BY <1>1, <1>2, <1>3
    <3> QED BY <3>1, ResolvedType
  <2>3. Countable
    <3> SUFFICES ASSUME NEW i \in DOMAIN cmds, NEW k \in DOMAIN cmds, k <= i,
                        cmds[i].from = "register" \/ cmds[i].compare
                 PROVE  cmds[k].op # "getPin" /\ cmds[k].from # "value"
      BY DEF Countable
    <3>1. i \in DOMAIN sent'.cmds /\ k \in DOMAIN sent'.cmds
      BY <1>1, <1>5, <2>1
    <3>2. cs[i].from = "register" \/ cs[i].compare
      BY <2>2
    <3>3. cs[k].op # "getPin" /\ cs[k].from # "value"
      BY <2>1, <3>1, <3>2 DEF OffsetsCount
    <3> QED BY <2>2, <3>3
  <2>6. Accepted
    <3> SUFFICES ASSUME NEW i \in DOMAIN cmds PROVE cmds[i].from # "rejected"
      BY DEF Accepted
    <3>1. i \in DOMAIN sent'.cmds
      BY <1>1, <1>5, <2>1
    <3>2. cs[i].from # "rejected"
      BY <2>1, <3>1 DEF NoneRejected
    <3> QED BY <2>2, <3>2
  <2>4. Encoded = FlattenSeq(DataAll)
    BY <1>2, <2>3, <2>6, EncodedInPlace
  <2>5. DataAll = [i \in DOMAIN cs |-> DataOf(i, cs[i])]
    BY <1>1, <1>3, <1>5 DEF DataAll
  <2> QED BY <2>1, <2>4, <2>5 DEF DataMatchesCommands
<1>8. OneValuePerCapture'
  <2>1. sent'.cmds = cs
    BY <1>4
  <2>2. \/ values'.st = "none"
        \/ values' = [st |-> "ok", list |-> FlattenSeq([i \in DOMAIN cs |-> ValueOf(i, cs[i])])]
    BY <1>4, <1>5, CutExact DEF NoValues
  <2> QED BY <2>1, <2>2 DEF OneValuePerCapture
<1> QED BY <1>6, <1>7, <1>8 DEF SequenceInv

LEMMA StepSequence == SequenceInv /\ [SequenceNext]_sequenceVars => SequenceInv'
<1> SUFFICES ASSUME SequenceInv, [SequenceNext]_sequenceVars PROVE SequenceInv'
  OBVIOUS
<1>1. PICK n \in Nat : n = Len(cmds)
  BY DEF SequenceInv, Buffered
<1>2. CASE AddOther
  <2>1. Other \in Command
    BY DEF Other, Command, Froms
  <2>2. Held(n + 1, Other) = <<>>
    BY DEF Held, Other
  <2> QED BY <1>1, <1>2, <2>1, <2>2, AddKeeps DEF AddOther
<1>3. CASE AddGetPin
  <2>1. GetPin \in Command /\ GetPin.from = "none"
    BY DEF GetPin, Other, Command, Froms
  <2>2. Held(n + 1, GetPin) = <<>>
    BY <2>1 DEF Held
  <2> QED BY <1>1, <1>3, <2>1, <2>2, AddKeeps DEF AddGetPin
<1>4. CASE AddShift
  <2>1. PICK from \in Shifts, b \in ShiftBytes, capture \in BOOLEAN, compare \in BOOLEAN :
          LET i == Len(cmds) + 1
              length == IF from = "register" THEN 1 ELSE b
          IN AddCommand(Shift(from, length, capture, compare),
                        CASE from \in {"value", "rejected"} -> <<>>
                          [] from = "data"                 -> Bytes(i, "tdi", b)
                          [] from = "register"             -> Bytes(i, "hole", 1))
    BY <1>4 DEF AddShift
  <2>2. from \in {"data", "value", "register", "rejected"} /\ b \in Nat /\ b > 0
    BY SequenceAssumption
  <2>3. PICK length : length = IF from = "register" THEN 1 ELSE b
    OBVIOUS
  <2>4. length \in Nat /\ length > 0
    BY <2>2, <2>3
  <2>5. PICK cmd : cmd = Shift(from, length, capture, compare)
    OBVIOUS
  <2>6. cmd \in Command /\ cmd.from = from /\ cmd.bytes = length
    BY <2>2, <2>4, <2>5 DEF Shift, Command, Froms
  <2>7. PICK data : data = CASE from \in {"value", "rejected"} -> <<>>
                             [] from = "data"                 -> Bytes(n + 1, "tdi", b)
                             [] from = "register"             -> Bytes(n + 1, "hole", 1)
    OBVIOUS
  <2>8. AddCommand(cmd, data)
    BY <1>1, <2>1, <2>3, <2>5, <2>7
  <2>9. data = Held(n + 1, cmd)
    BY <2>2, <2>3, <2>6, <2>7 DEF Held
  <2> QED BY <1>1, <2>6, <2>8, <2>9, AddKeeps
<1>5. CASE Clear
  <2>1. (cmds = <<>> /\ inbuf = <<>> /\ sent = NothingSent /\ values = NoValues)'
    BY <1>5 DEF Clear
  <2>2. SequenceInit'
    BY <2>1 DEF SequenceInit
  <2> QED BY <2>2, InitSequence, PTL
<1>6. CASE Run
  BY <1>6, RunKeeps
<1>7. CASE UNCHANGED sequenceVars
  BY <1>7 DEF sequenceVars, SequenceInv, Buffered, HeldAll, DataInPlace, NoneRejected, OffsetsCount, DataMatchesCommands, OneValuePerCapture
<1> QED BY <1>2, <1>3, <1>4, <1>5, <1>6, <1>7 DEF SequenceNext

\* Wherever no shift was rejected and the offsets count the data, fmt_cmds_data puts codes,
\* values and masks in their places, however often the sequence is extended, run and
\* cleared; the other commands may come in any order.
THEOREM KeepsDataInPlace == SequenceSpec => []DataInPlace
<1>1. SequenceInv => DataInPlace
  BY DEF SequenceInv
<1> QED BY <1>1, InitSequence, StepSequence, PTL DEF SequenceSpec

\* run never fails to cut the result, and returns one entry for every shift with -capture and
\* every get_pin.
THEOREM GivesOneValueEach == SequenceSpec => []OneValuePerCapture
<1>1. SequenceInv => OneValuePerCapture
  BY DEF SequenceInv
<1> QED BY <1>1, InitSequence, StepSequence, PTL DEF SequenceSpec
=============================================================================
