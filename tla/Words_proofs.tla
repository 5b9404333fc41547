------------------------------ MODULE Words_proofs ----------------------------
(*****************************************************************************)
(* Proofs about the numbers in words of Algorithms, for numbers of any       *)
(* lengths and words of any width: sums, differences, products, ranges of    *)
(* bits and quotients.  Their loops are treated as in Loops_proofs.          *)
(*****************************************************************************)
EXTENDS Loops_proofs

-----------------------------------------------------------------------------
(* Words, and loops over them *)

LEMMA WordPositive == Word \in Nat /\ Word > 0
<1>1. DigitBits \in Nat
  BY DigitBitsAssumption
<1>2. Base \in Nat /\ Base > 0
  BY <1>1, PowerPositive DEF Base
<1>3. \A b \in Nat : b > 0 => b * b \in Nat /\ b * b > 0
  OBVIOUS
<1> QED BY <1>2, <1>3 DEF Word

\* What a carry adds.
LEMMA TimesBit == ASSUME NEW w \in Int PROVE w * 0 = 0 /\ w * 1 = w
OBVIOUS

\* A sum below twice the radix wraps at most once.
LEMMA Wraps ==
  ASSUME NEW w \in Nat, w > 0, NEW v \in 0 .. (2 * w - 1)
  PROVE  v % w = IF v < w THEN v ELSE v - w
<1>1. CASE v < w
  BY <1>1
<1>2. CASE ~(v < w)
  <2>1. v = w * 1 + (v - w) /\ v - w \in 0 .. (w - 1)
    BY <1>2
  <2> QED BY <1>2, <2>1
<1> QED BY <1>1, <1>2

\* The indices of a loop from 1 to n.
LEMMA LoopUpTo ==
  ASSUME NEW n \in Nat
  PROVE  DOMAIN Loop(1, n) = 1 .. n /\ \A i \in 1 .. n : Loop(1, n)[i] = i
<1>1. (IF n < 1 THEN 0 ELSE n - 1 + 1) = n
  OBVIOUS
<1>2. Loop(1, n) = [k \in 1 .. n |-> 1 + k - 1]
  BY <1>1 DEF Loop
<1> QED BY <1>2

\* The value of places of which the rest of the value is known at each place.
LEMMA PlacesValue ==
  ASSUME NEW radix \in Int, NEW n \in Nat, NEW p \in Seq(Int), Len(p) = n + 1,
         NEW R \in [1 .. (n + 1) -> Int], R[n + 1] = p[n + 1],
         \A i \in 1 .. n : R[i] = p[i] + radix * R[i + 1]
  PROVE  Positional(radix, p) = R[1]
<1>1. PICK Q : Q = [i \in 1 .. (n + 2) |-> IF i = n + 2 THEN 0 ELSE R[i]]
  OBVIOUS
<1>2. Q \in [1 .. (n + 2) -> Int] /\ Q[n + 2] = 0
  BY <1>1
<1>3. ASSUME NEW i \in 1 .. (n + 1) PROVE Q[i] = p[i] + radix * Q[i + 1]
  <2>1. CASE i = n + 1
    <3>1. Q[i] = p[n + 1] /\ Q[i + 1] = 0 /\ p[n + 1] \in Int
      BY <1>1, <2>1
    <3>2. radix * 0 = 0
      OBVIOUS
    <3> QED BY <2>1, <3>1, <3>2
  <2>2. CASE i # n + 1
    <3>1. i \in 1 .. n /\ i \in 1 .. (n + 2) /\ i + 1 \in 1 .. (n + 2) /\ i # n + 2 /\ i + 1 # n + 2
      BY <2>2
    <3>2. Q[i] = R[i] /\ Q[i + 1] = R[i + 1]
      BY <1>1, <3>1
    <3> QED BY <3>1, <3>2
  <2> QED BY <2>1, <2>2
<1>4. Tails(Q, radix, p)
  <2>1. Len(p) + 1 = n + 2
    OBVIOUS
  <2> QED BY <1>2, <1>3, <2>1 DEF Tails
<1>5. Positional(radix, p) = Q[1]
  BY <1>4, PositionalTails
<1>6. Q[1] = R[1]
  BY <1>1
<1> QED BY <1>5, <1>6

\* Words overwritten one after another.
Overwrites(d, w, n, S) ==
  /\ w \in [1 .. n -> S] /\ d \in [0 .. n -> [1 .. n -> S]]
  /\ \A i \in 1 .. n : d[i] = [d[i - 1] EXCEPT ![i] = w[i]]

\* Each word is overwritten once: before its pass it is what it was, and at the end
\* what that pass made of it.
LEMMA Overwritten ==
  ASSUME NEW n \in Nat, NEW S, NEW w, NEW d, Overwrites(d, w, n, S)
  PROVE  d[n] = w /\ \A i \in 1 .. n : d[i - 1][i] = d[0][i]
<1>0. /\ w \in [1 .. n -> S] /\ d \in [0 .. n -> [1 .. n -> S]]
      /\ \A i \in 1 .. n : d[i] = [d[i - 1] EXCEPT ![i] = w[i]]
  BY DEF Overwrites
<1> DEFINE P == {i \in Nat : \A k \in 1 .. n : d[i][k] = IF k <= i THEN w[k] ELSE d[0][k]}
<1>1. 0 \in P
  OBVIOUS
<1>2. ASSUME NEW i \in 1 .. n, i - 1 \in P PROVE i \in P
  <2>1. i \in Nat /\ i - 1 \in 0 .. n /\ d[i] = [d[i - 1] EXCEPT ![i] = w[i]]
    BY <1>0
  <2>2. d[i - 1] \in [1 .. n -> S]
    BY <1>0, <2>1
  <2>3. ASSUME NEW k \in 1 .. n PROVE d[i][k] = IF k <= i THEN w[k] ELSE d[0][k]
    <3>1. d[i][k] = IF k = i THEN w[i] ELSE d[i - 1][k]
      BY <2>1, <2>2
    <3>2. d[i - 1][k] = IF k <= i - 1 THEN w[k] ELSE d[0][k]
      BY <1>2
    <3> QED BY <3>1, <3>2
  <2> QED BY <2>1, <2>3
<1>3. \A i \in 0 .. n : i \in P
  <2> HIDE DEF P
  <2> QED BY <1>1, <1>2, UpTo
<1>4. d[n] = w
  <2>1. n \in P
    <3> HIDE DEF P
    <3> QED BY <1>3
  <2>2. \A k \in 1 .. n : d[n][k] = w[k]
    BY <2>1
  <2>3. d[n] \in [1 .. n -> S]
    BY <1>0
  <2> QED BY <1>0, <2>2, <2>3
<1>5. ASSUME NEW i \in 1 .. n PROVE d[i - 1][i] = d[0][i]
  <2>1. i - 1 \in P
    <3>1. i - 1 \in 0 .. n
      OBVIOUS
    <3> HIDE DEF P
    <3> QED BY <1>3, <3>1
  <2>2. ~(i <= i - 1)
    OBVIOUS
  <2> QED BY <2>1, <2>2
<1> QED BY <1>4, <1>5

-----------------------------------------------------------------------------
(* The loops of add_1, sub_1, add and sub *)

OneWord(n) == [x : [1 .. n -> 0 .. (Word - 1)], y : 0 .. (Word - 1), done : BOOLEAN]

LEMMA Add1StepType ==
  ASSUME NEW n \in Nat, NEW i \in 1 .. n, NEW s \in OneWord(n)
  PROVE  Add1Step(s, i) \in OneWord(n)
<1>0. PICK w \in Nat : w = Word /\ w > 0
  BY WordPositive
<1>1. s.x \in [1 .. n -> 0 .. (w - 1)] /\ s.y \in 0 .. (w - 1) /\ s.done \in BOOLEAN
  BY <1>0 DEF OneWord
<1>2. PICK sum : sum = (s.y + s.x[i]) % w
  OBVIOUS
<1>3. sum \in 0 .. (w - 1)
  <2>1. s.y + s.x[i] \in Int
    BY <1>1
  <2> QED BY <1>0, <1>2, <2>1
<1>4. CASE s.done
  BY <1>0, <1>4 DEF Add1Step
<1>5. CASE ~s.done
  <2>1. Add1Step(s, i) = [x |-> [s.x EXCEPT ![i] = sum], y |-> Bit(sum < s.y), done |-> sum >= s.y]
    BY <1>0, <1>2, <1>5 DEF Add1Step
  <2>2. [s.x EXCEPT ![i] = sum] \in [1 .. n -> 0 .. (w - 1)]
    BY <1>1, <1>3
  <2>3. Bit(sum < s.y) \in 0 .. (w - 1)
    <3>1. CASE sum < s.y
      <4>1. 1 \in 0 .. (w - 1)
        BY <1>1, <1>3, <3>1
      <4> QED BY <3>1, <4>1 DEF Bit
    <3>2. CASE ~(sum < s.y)
      BY <1>0, <3>2 DEF Bit
    <3> QED BY <3>1, <3>2
  <2>4. (sum >= s.y) \in BOOLEAN
    OBVIOUS
  <2> QED BY <1>0, <2>1, <2>2, <2>3, <2>4 DEF OneWord
<1> QED BY <1>1, <1>4, <1>5

\* The loop of add_1, pass by pass.
LEMMA Add1Loop ==
  ASSUME NEW n \in Nat, NEW x \in [1 .. n -> 0 .. (Word - 1)], Len(x) = n, NEW y \in 0 .. (Word - 1)
  PROVE  \E h \in [0 .. n -> OneWord(n)] :
           /\ h[0] = [x |-> x, y |-> y, done |-> FALSE]
           /\ \A i \in 1 .. n : h[i] = Add1Step(h[i - 1], i)
           /\ add_1(x, y) = [dest |-> h[n].x, carry |-> Bit(h[n].y # 0)]
<1> DEFINE D == 1 .. n
           S == OneWord(n)
           a == [x |-> x, y |-> y, done |-> FALSE]
           l == Loop(1, Len(x))
           g == [p \in Nat \X S |-> IF p[1] \in 1 .. n THEN Add1Step(p[2], p[1]) ELSE p[2]]
           Body(F, t) == Add1Step(F[t \ {Max(t)}], l[Max(t)])
           value[t \in SUBSET DOMAIN l] == IF t = {} THEN a ELSE Body(value, t)
<1>1. D = DOMAIN l /\ \A i \in D : l[i] = i
  <2>1. l = Loop(1, n)
    OBVIOUS
  <2>2. DOMAIN Loop(1, n) = 1 .. n /\ \A i \in 1 .. n : Loop(1, n)[i] = i
    BY LoopUpTo
  <2> QED BY <2>1, <2>2
<1>2. add_1(x, y) = [dest |-> value[D].x, carry |-> Bit(value[D].y # 0)]
  <2>1. PICK end : end = value[DOMAIN l]
    OBVIOUS
  <2>2. add_1(x, y) = [dest |-> end.x, carry |-> Bit(end.y # 0)]
    BY <2>1 DEF add_1, OneWordLoop, FoldLeft, MapThenFoldSet
  <2> HIDE DEF value, D, l
  <2> QED BY <1>1, <2>1, <2>2
<1>3. ASSUME NEW i \in 1 .. n, NEW s \in S PROVE Add1Step(s, i) \in S
  BY Add1StepType
<1>4. g \in [Nat \X S -> S]
  <2> HIDE DEF S
  <2> QED BY <1>3
<1>5. \A i \in 1 .. n, s \in S : g[<<i, s>>] = Add1Step(s, i)
  <2> TAKE i \in 1 .. n, s \in S
  <2>1. <<i, s>> \in Nat \X S
    OBVIOUS
  <2> QED BY <2>1
<1>6. a \in S
  BY DEF OneWord
<1> HIDE DEF g, S, a, l
<1>7. PICK F \in [SUBSET D -> S] : FoldsLeft(F, n, a, g)
  BY <1>4, <1>6, FoldsLeftExist
<1>8. ASSUME NEW t \in SUBSET D, t # {}
      PROVE  Max(t) \in D /\ t \ {Max(t)} \in SUBSET D /\ l[Max(t)] = Max(t)
  BY <1>1, <1>8, MaxIn
<1>9. ASSUME NEW t \in SUBSET D PROVE F[t] = IF t = {} THEN a ELSE Body(F, t)
  <2>1. F[t] = IF t = {} THEN a ELSE g[<<Max(t), F[t \ {Max(t)}]>>]
    BY <1>7 DEF FoldsLeft
  <2>2. CASE t # {}
    <3>1. Max(t) \in 1 .. n /\ F[t \ {Max(t)}] \in S /\ l[Max(t)] = Max(t)
      BY <1>8, <2>2
    <3>2. g[<<Max(t), F[t \ {Max(t)}]>>] = Body(F, t)
      BY <1>5, <3>1
    <3> QED BY <2>1, <2>2, <3>2
  <2> QED BY <2>1, <2>2
<1>10. F = [t \in SUBSET DOMAIN l |-> IF t = {} THEN a ELSE Body(F, t)]
  <2> HIDE DEF D, Body
  <2>1. F = [t \in SUBSET D |-> F[t]]
    BY <1>7
  <2> QED BY <1>1, <1>9, <2>1
<1>11. value = CHOOSE v : v = [t \in SUBSET DOMAIN l |-> IF t = {} THEN a ELSE Body(v, t)]
  OBVIOUS
<1> HIDE DEF value
<1>12. value = [t \in SUBSET DOMAIN l |-> IF t = {} THEN a ELSE Body(value, t)]
  <2> HIDE DEF Body
  <2> QED BY <1>10, <1>11
<1>13. \A t \in SUBSET D : value[t] = IF t = {} THEN a ELSE Body(value, t)
  <2> HIDE DEF Body, D
  <2> QED BY <1>1, <1>12
<1>14. PICK h : Solves(h, n, S, a, g)
  BY <1>4, <1>6, SolutionExists
<1>15. h \in [0 .. n -> S] /\ h[0] = a
  BY <1>14 DEF Solves
<1>16. ASSUME NEW i \in 1 .. n PROVE h[i] = Add1Step(h[i - 1], i)
  <2>1. h[i] = g[<<i, h[i - 1]>>] /\ h[i - 1] \in S
    BY <1>14, <1>15 DEF Solves
  <2> QED BY <1>5, <2>1
<1>17. value[D] = h[n]
  <2>1. value[{}] = h[0]
    BY <1>13, <1>15
  <2>2. ASSUME NEW i \in 1 .. n, value[1 .. (i - 1)] = h[i - 1] PROVE value[1 .. i] = h[i]
    <3>1. /\ i \in Nat /\ 1 .. i \in SUBSET D /\ 1 .. i # {}
          /\ (1 .. i) \ {i} = 1 .. (i - 1) /\ Max(1 .. i) = i
      BY FirstIndices
    <3>2. value[1 .. i] = Body(value, 1 .. i)
      <4> HIDE DEF Body, D
      <4> QED BY <1>13, <3>1
    <3>3. value[1 .. i] = Add1Step(h[i - 1], i)
      BY <1>1, <2>2, <3>1, <3>2
    <3> QED BY <1>16, <3>3
  <2>3. Along(value, h, n)
    <3> HIDE DEF Body, D
    <3> QED BY <2>1, <2>2 DEF Along
  <2>4. value[1 .. n] = h[n]
    <3> HIDE DEF Body, D
    <3> QED BY <2>3, AlongPasses
  <2> QED BY <2>4
<1> QED BY <1>2, <1>15, <1>16, <1>17 DEF S, a

LEMMA Sub1StepType ==
  ASSUME NEW n \in Nat, NEW i \in 1 .. n, NEW s \in OneWord(n)
  PROVE  Sub1Step(s, i) \in OneWord(n)
<1>0. PICK w \in Nat : w = Word /\ w > 0
  BY WordPositive
<1>1. s.x \in [1 .. n -> 0 .. (w - 1)] /\ s.y \in 0 .. (w - 1) /\ s.done \in BOOLEAN
  BY <1>0 DEF OneWord
<1>2. PICK rest : rest = (s.x[i] - s.y + w) % w
  OBVIOUS
<1>3. rest \in 0 .. (w - 1)
  <2>1. s.x[i] - s.y + w \in Int
    BY <1>1
  <2> QED BY <1>0, <1>2, <2>1
<1>4. CASE s.done
  BY <1>0, <1>4 DEF Sub1Step
<1>5. CASE ~s.done
  <2>1. Sub1Step(s, i) = [x |-> [s.x EXCEPT ![i] = rest], y |-> Bit(s.y > s.x[i]), done |-> s.y <= s.x[i]]
    BY <1>0, <1>1, <1>2, <1>5 DEF Sub1Step
  <2>2. [s.x EXCEPT ![i] = rest] \in [1 .. n -> 0 .. (w - 1)]
    BY <1>1, <1>3
  <2>3. Bit(s.y > s.x[i]) \in 0 .. (w - 1)
    <3>1. CASE s.y > s.x[i]
      <4>1. 1 \in 0 .. (w - 1)
        BY <1>1, <3>1
      <4> QED BY <3>1, <4>1 DEF Bit
    <3>2. CASE ~(s.y > s.x[i])
      BY <1>0, <3>2 DEF Bit
    <3> QED BY <3>1, <3>2
  <2>4. (s.y <= s.x[i]) \in BOOLEAN
    OBVIOUS
  <2> QED BY <1>0, <2>1, <2>2, <2>3, <2>4 DEF OneWord
<1> QED BY <1>1, <1>4, <1>5

\* The loop of sub_1, pass by pass.
LEMMA Sub1Loop ==
  ASSUME NEW n \in Nat, NEW x \in [1 .. n -> 0 .. (Word - 1)], Len(x) = n, NEW y \in 0 .. (Word - 1)
  PROVE  \E h \in [0 .. n -> OneWord(n)] :
           /\ h[0] = [x |-> x, y |-> y, done |-> FALSE]
           /\ \A i \in 1 .. n : h[i] = Sub1Step(h[i - 1], i)
           /\ sub_1(x, y) = [dest |-> h[n].x, carry |-> Bit(h[n].y # 0)]
<1> DEFINE D == 1 .. n
           S == OneWord(n)
           a == [x |-> x, y |-> y, done |-> FALSE]
           l == Loop(1, Len(x))
           g == [p \in Nat \X S |-> IF p[1] \in 1 .. n THEN Sub1Step(p[2], p[1]) ELSE p[2]]
           Body(F, t) == Sub1Step(F[t \ {Max(t)}], l[Max(t)])
           value[t \in SUBSET DOMAIN l] == IF t = {} THEN a ELSE Body(value, t)
<1>1. D = DOMAIN l /\ \A i \in D : l[i] = i
  <2>1. l = Loop(1, n)
    OBVIOUS
  <2>2. DOMAIN Loop(1, n) = 1 .. n /\ \A i \in 1 .. n : Loop(1, n)[i] = i
    BY LoopUpTo
  <2> QED BY <2>1, <2>2
<1>2. sub_1(x, y) = [dest |-> value[D].x, carry |-> Bit(value[D].y # 0)]
  <2>1. PICK end : end = value[DOMAIN l]
    OBVIOUS
  <2>2. sub_1(x, y) = [dest |-> end.x, carry |-> Bit(end.y # 0)]
    BY <2>1 DEF sub_1, OneWordLoop, FoldLeft, MapThenFoldSet
  <2> HIDE DEF value, D, l
  <2> QED BY <1>1, <2>1, <2>2
<1>3. ASSUME NEW i \in 1 .. n, NEW s \in S PROVE Sub1Step(s, i) \in S
  BY Sub1StepType
<1>4. g \in [Nat \X S -> S]
  <2> HIDE DEF S
  <2> QED BY <1>3
<1>5. \A i \in 1 .. n, s \in S : g[<<i, s>>] = Sub1Step(s, i)
  <2> TAKE i \in 1 .. n, s \in S
  <2>1. <<i, s>> \in Nat \X S
    OBVIOUS
  <2> QED BY <2>1
<1>6. a \in S
  BY DEF OneWord
<1> HIDE DEF g, S, a, l
<1>7. PICK F \in [SUBSET D -> S] : FoldsLeft(F, n, a, g)
  BY <1>4, <1>6, FoldsLeftExist
<1>8. ASSUME NEW t \in SUBSET D, t # {}
      PROVE  Max(t) \in D /\ t \ {Max(t)} \in SUBSET D /\ l[Max(t)] = Max(t)
  BY <1>1, <1>8, MaxIn
<1>9. ASSUME NEW t \in SUBSET D PROVE F[t] = IF t = {} THEN a ELSE Body(F, t)
  <2>1. F[t] = IF t = {} THEN a ELSE g[<<Max(t), F[t \ {Max(t)}]>>]
    BY <1>7 DEF FoldsLeft
  <2>2. CASE t # {}
    <3>1. Max(t) \in 1 .. n /\ F[t \ {Max(t)}] \in S /\ l[Max(t)] = Max(t)
      BY <1>8, <2>2
    <3>2. g[<<Max(t), F[t \ {Max(t)}]>>] = Body(F, t)
      BY <1>5, <3>1
    <3> QED BY <2>1, <2>2, <3>2
  <2> QED BY <2>1, <2>2
<1>10. F = [t \in SUBSET DOMAIN l |-> IF t = {} THEN a ELSE Body(F, t)]
  <2> HIDE DEF D, Body
  <2>1. F = [t \in SUBSET D |-> F[t]]
    BY <1>7
  <2> QED BY <1>1, <1>9, <2>1
<1>11. value = CHOOSE v : v = [t \in SUBSET DOMAIN l |-> IF t = {} THEN a ELSE Body(v, t)]
  OBVIOUS
<1> HIDE DEF value
<1>12. value = [t \in SUBSET DOMAIN l |-> IF t = {} THEN a ELSE Body(value, t)]
  <2> HIDE DEF Body
  <2> QED BY <1>10, <1>11
<1>13. \A t \in SUBSET D : value[t] = IF t = {} THEN a ELSE Body(value, t)
  <2> HIDE DEF Body, D
  <2> QED BY <1>1, <1>12
<1>14. PICK h : Solves(h, n, S, a, g)
  BY <1>4, <1>6, SolutionExists
<1>15. h \in [0 .. n -> S] /\ h[0] = a
  BY <1>14 DEF Solves
<1>16. ASSUME NEW i \in 1 .. n PROVE h[i] = Sub1Step(h[i - 1], i)
  <2>1. h[i] = g[<<i, h[i - 1]>>] /\ h[i - 1] \in S
    BY <1>14, <1>15 DEF Solves
  <2> QED BY <1>5, <2>1
<1>17. value[D] = h[n]
  <2>1. value[{}] = h[0]
    BY <1>13, <1>15
  <2>2. ASSUME NEW i \in 1 .. n, value[1 .. (i - 1)] = h[i - 1] PROVE value[1 .. i] = h[i]
    <3>1. /\ i \in Nat /\ 1 .. i \in SUBSET D /\ 1 .. i # {}
          /\ (1 .. i) \ {i} = 1 .. (i - 1) /\ Max(1 .. i) = i
      BY FirstIndices
    <3>2. value[1 .. i] = Body(value, 1 .. i)
      <4> HIDE DEF Body, D
      <4> QED BY <1>13, <3>1
    <3>3. value[1 .. i] = Sub1Step(h[i - 1], i)
      BY <1>1, <2>2, <3>1, <3>2
    <3> QED BY <1>16, <3>3
  <2>3. Along(value, h, n)
    <3> HIDE DEF Body, D
    <3> QED BY <2>1, <2>2 DEF Along
  <2>4. value[1 .. n] = h[n]
    <3> HIDE DEF Body, D
    <3> QED BY <2>3, AlongPasses
  <2> QED BY <2>4
<1> QED BY <1>2, <1>15, <1>16, <1>17 DEF S, a

Sums == [dest : Seq(0 .. (Word - 1)), carry : 0 .. 1]

LEMMA AddStepType ==
  ASSUME NEW s \in Sums, NEW a \in 0 .. (Word - 1), NEW b \in 0 .. (Word - 1), NEW same
  PROVE  AddStep(s, a, b, same) \in Sums
<1>0. PICK w \in Nat : w = Word /\ w > 0
  BY WordPositive
<1>1. s.dest \in Seq(0 .. (w - 1)) /\ s.carry \in 0 .. 1
  BY <1>0 DEF Sums
<1>2. PICK sum : sum = (a + b + s.carry) % w
  OBVIOUS
<1>3. sum \in 0 .. (w - 1)
  <2>1. a + b + s.carry \in Int
    BY <1>0, <1>1
  <2> QED BY <1>0, <1>2, <2>1
<1>4. Append(s.dest, sum) \in Seq(0 .. (w - 1))
  BY <1>1, <1>3, AppendProperties
<1>5. AddStep(s, a, b, same)
        = [dest |-> Append(s.dest, sum),
           carry |-> Bit(sum < Lesser(a, b) \/ (s.carry = 1 /\ sum = same))]
  BY <1>0, <1>2 DEF AddStep
<1>6. Bit(sum < Lesser(a, b) \/ (s.carry = 1 /\ sum = same)) \in 0 .. 1
  BY DEF Bit
<1> QED BY <1>0, <1>4, <1>5, <1>6 DEF Sums

LEMMA SubStepType ==
  ASSUME NEW s \in Sums, NEW a \in 0 .. (Word - 1), NEW b \in 0 .. (Word - 1)
  PROVE  SubStep(s, a, b) \in Sums
<1>0. PICK w \in Nat : w = Word /\ w > 0
  BY WordPositive
<1>1. s.dest \in Seq(0 .. (w - 1)) /\ s.carry \in 0 .. 1
  BY <1>0 DEF Sums
<1>2. PICK tmp : tmp = IF s.carry = 1 THEN (a - 1 + w) % w ELSE a
  OBVIOUS
<1>3. tmp \in Int
  <2>1. a - 1 + w \in Int /\ a \in Int
    BY <1>0
  <2>2. (a - 1 + w) % w \in Int
    BY <1>0, <2>1
  <2> QED BY <1>2, <2>1, <2>2
<1>4. PICK rest : rest = (tmp - b + w) % w
  OBVIOUS
<1>5. rest \in 0 .. (w - 1)
  <2>1. tmp - b + w \in Int
    BY <1>0, <1>3
  <2> QED BY <1>0, <1>4, <2>1
<1>6. Append(s.dest, rest) \in Seq(0 .. (w - 1))
  BY <1>1, <1>5, AppendProperties
<1>7. SubStep(s, a, b) = [dest |-> Append(s.dest, rest), carry |-> Bit(b > tmp \/ (s.carry = 1 /\ a = 0))]
  BY <1>0, <1>2, <1>4 DEF SubStep
<1>8. Bit(b > tmp \/ (s.carry = 1 /\ a = 0)) \in 0 .. 1
  BY DEF Bit
<1> QED BY <1>0, <1>6, <1>7, <1>8 DEF Sums

\* The loop of add for numbers of the same length, pass by pass.
LEMMA AddLoop ==
  ASSUME NEW n \in Nat, NEW x \in [1 .. n -> 0 .. (Word - 1)], NEW y \in [1 .. n -> 0 .. (Word - 1)],
         Len(x) = n, Len(y) = n
  PROVE  \E h \in [0 .. n -> Sums] :
           /\ h[0] = [dest |-> <<>>, carry |-> 0]
           /\ \A i \in 1 .. n : h[i] = AddStep(h[i - 1], x[i], y[i], Lesser(x[i], y[i]))
           /\ add(x, y, n, FALSE, FALSE) = h[n]
<1> DEFINE D == 1 .. n
           S == Sums
           a == [dest |-> <<>>, carry |-> 0]
           l == Loop(1, n)
           g == [p \in Nat \X S |-> IF p[1] \in 1 .. n
                                    THEN AddStep(p[2], x[p[1]], y[p[1]], Lesser(x[p[1]], y[p[1]])) ELSE p[2]]
           Body(F, t) == AddStep(F[t \ {Max(t)}], x[l[Max(t)]], y[l[Max(t)]],
                                 Lesser(x[l[Max(t)]], y[l[Max(t)]]))
           value[t \in SUBSET DOMAIN l] == IF t = {} THEN a ELSE Body(value, t)
<1>1. D = DOMAIN l /\ \A i \in D : l[i] = i
  BY LoopUpTo
<1>2. add(x, y, n, FALSE, FALSE) = value[D]
  <2>1. PICK end : end = value[DOMAIN l]
    OBVIOUS
  <2>2. Lesser(Lesser(n, n), n) = n /\ Lesser(n, n) = n /\ ~(n > n)
    BY DEF Lesser
  <2> DEFINE m == Loop(n + 1, n)
             yonly(s, i) == AddStep(s, Extension(x, FALSE), y[i], y[i])
             Rest(F, t) == yonly(F[t \ {Max(t)}], m[Max(t)])
             rest[t \in SUBSET DOMAIN m] == IF t = {} THEN end ELSE Rest(rest, t)
  <2>3. DOMAIN m = {}
    <3>1. n < n + 1
      OBVIOUS
    <3> QED BY <3>1 DEF Loop
  <2>4. rest = CHOOSE v : v = [t \in SUBSET DOMAIN m |-> IF t = {} THEN end ELSE Rest(v, t)]
    OBVIOUS
  <2>5. add(x, y, n, FALSE, FALSE) = rest[DOMAIN m]
    BY <2>1, <2>2 DEF add, FoldLeft, MapThenFoldSet
  <2> HIDE DEF rest, m, Rest, value, l
  <2>6. PICK v : v = [t \in SUBSET DOMAIN m |-> end]
    OBVIOUS
  <2>7. v = [t \in SUBSET DOMAIN m |-> IF t = {} THEN end ELSE Rest(v, t)]
    BY <2>3, <2>6
  <2>8. rest = [t \in SUBSET DOMAIN m |-> IF t = {} THEN end ELSE Rest(rest, t)]
    BY <2>4, <2>7
  <2>9. rest[DOMAIN m] = end
    BY <2>3, <2>8
  <2> QED BY <1>1, <2>1, <2>5, <2>9
<1>3. ASSUME NEW i \in 1 .. n, NEW s \in S PROVE AddStep(s, x[i], y[i], Lesser(x[i], y[i])) \in S
  BY AddStepType
<1>4. g \in [Nat \X S -> S]
  <2> HIDE DEF S
  <2> QED BY <1>3
<1>5. \A i \in 1 .. n, s \in S : g[<<i, s>>] = AddStep(s, x[i], y[i], Lesser(x[i], y[i]))
  <2> TAKE i \in 1 .. n, s \in S
  <2>1. <<i, s>> \in Nat \X S
    OBVIOUS
  <2> QED BY <2>1
<1>6. a \in S
  BY DEF Sums
<1> HIDE DEF g, S, a, l
<1>7. PICK F \in [SUBSET D -> S] : FoldsLeft(F, n, a, g)
  BY <1>4, <1>6, FoldsLeftExist
<1>8. ASSUME NEW t \in SUBSET D, t # {}
      PROVE  Max(t) \in D /\ t \ {Max(t)} \in SUBSET D /\ l[Max(t)] = Max(t)
  BY <1>1, <1>8, MaxIn
<1>9. ASSUME NEW t \in SUBSET D PROVE F[t] = IF t = {} THEN a ELSE Body(F, t)
  <2>1. F[t] = IF t = {} THEN a ELSE g[<<Max(t), F[t \ {Max(t)}]>>]
    BY <1>7 DEF FoldsLeft
  <2>2. CASE t # {}
    <3>1. Max(t) \in 1 .. n /\ F[t \ {Max(t)}] \in S /\ l[Max(t)] = Max(t)
      BY <1>8, <2>2
    <3>2. g[<<Max(t), F[t \ {Max(t)}]>>] = Body(F, t)
      BY <1>5, <3>1
    <3> QED BY <2>1, <2>2, <3>2
  <2> QED BY <2>1, <2>2
<1>10. F = [t \in SUBSET DOMAIN l |-> IF t = {} THEN a ELSE Body(F, t)]
  <2> HIDE DEF D, Body
  <2>1. F = [t \in SUBSET D |-> F[t]]
    BY <1>7
  <2> QED BY <1>1, <1>9, <2>1
<1>11. value = CHOOSE v : v = [t \in SUBSET DOMAIN l |-> IF t = {} THEN a ELSE Body(v, t)]
  OBVIOUS
<1> HIDE DEF value
<1>12. value = [t \in SUBSET DOMAIN l |-> IF t = {} THEN a ELSE Body(value, t)]
  <2> HIDE DEF Body
  <2> QED BY <1>10, <1>11
<1>13. \A t \in SUBSET D : value[t] = IF t = {} THEN a ELSE Body(value, t)
  <2> HIDE DEF Body, D
  <2> QED BY <1>1, <1>12
<1>14. PICK h : Solves(h, n, S, a, g)
  BY <1>4, <1>6, SolutionExists
<1>15. h \in [0 .. n -> S] /\ h[0] = a
  BY <1>14 DEF Solves
<1>16. ASSUME NEW i \in 1 .. n PROVE h[i] = AddStep(h[i - 1], x[i], y[i], Lesser(x[i], y[i]))
  <2>1. h[i] = g[<<i, h[i - 1]>>] /\ h[i - 1] \in S
    BY <1>14, <1>15 DEF Solves
  <2> QED BY <1>5, <2>1
<1>17. value[D] = h[n]
  <2>1. value[{}] = h[0]
    BY <1>13, <1>15
  <2>2. ASSUME NEW i \in 1 .. n, value[1 .. (i - 1)] = h[i - 1] PROVE value[1 .. i] = h[i]
    <3>1. /\ i \in Nat /\ 1 .. i \in SUBSET D /\ 1 .. i # {}
          /\ (1 .. i) \ {i} = 1 .. (i - 1) /\ Max(1 .. i) = i
      BY FirstIndices
    <3>2. value[1 .. i] = Body(value, 1 .. i)
      <4> HIDE DEF Body, D
      <4> QED BY <1>13, <3>1
    <3>3. value[1 .. i] = AddStep(h[i - 1], x[i], y[i], Lesser(x[i], y[i]))
      BY <1>1, <2>2, <3>1, <3>2
    <3> QED BY <1>16, <3>3
  <2>3. Along(value, h, n)
    <3> HIDE DEF Body, D
    <3> QED BY <2>1, <2>2 DEF Along
  <2>4. value[1 .. n] = h[n]
    <3> HIDE DEF Body, D
    <3> QED BY <2>3, AlongPasses
  <2> QED BY <2>4
<1> QED BY <1>2, <1>15, <1>16, <1>17 DEF S, a

Within(x, y, n) == Lesser(IF Len(x) > Len(y) THEN Len(x) ELSE Len(y), n) = n

\* h is the state of the loop of sub after each pass.
Subtracts(h, x, y, n, signed) ==
  /\ h \in [0 .. n -> Sums] /\ h[0] = [dest |-> <<>>, carry |-> 0]
  /\ \A i \in 1 .. n : h[i] = SubStep(h[i - 1], WordAt(x, i, signed), WordAt(y, i, signed))
  /\ sub(x, y, n, signed, signed) = h[n]

\* The loop of sub over the extended numbers, pass by pass.
LEMMA SubLoop ==
  ASSUME NEW x, NEW y, NEW n \in Nat, NEW signed,
         Within(x, y, n),
         \A i \in 1 .. n : WordAt(x, i, signed) \in 0 .. (Word - 1) /\ WordAt(y, i, signed) \in 0 .. (Word - 1)
  PROVE  \E h : Subtracts(h, x, y, n, signed)
<1> DEFINE D == 1 .. n
           S == Sums
           a == [dest |-> <<>>, carry |-> 0]
           l == Loop(1, n)
           g == [p \in Nat \X S |-> IF p[1] \in 1 .. n
                                    THEN SubStep(p[2], WordAt(x, p[1], signed), WordAt(y, p[1], signed)) ELSE p[2]]
           Body(F, t) == SubStep(F[t \ {Max(t)}], WordAt(x, l[Max(t)], signed), WordAt(y, l[Max(t)], signed))
           value[t \in SUBSET DOMAIN l] == IF t = {} THEN a ELSE Body(value, t)
<1>1. D = DOMAIN l /\ \A i \in D : l[i] = i
  BY LoopUpTo
<1>2. sub(x, y, n, signed, signed) = value[D]
  <2>1. sub(x, y, n, signed, signed) = value[DOMAIN l]
    BY ZenonT(30) DEF sub, FoldLeft, MapThenFoldSet, Within
  <2> HIDE DEF value, D, l
  <2> QED BY <1>1, <2>1
<1>3. ASSUME NEW i \in 1 .. n, NEW s \in S PROVE SubStep(s, WordAt(x, i, signed), WordAt(y, i, signed)) \in S
  BY SubStepType
<1>4. g \in [Nat \X S -> S]
  <2> HIDE DEF S
  <2> QED BY <1>3
<1>5. \A i \in 1 .. n, s \in S : g[<<i, s>>] = SubStep(s, WordAt(x, i, signed), WordAt(y, i, signed))
  <2> TAKE i \in 1 .. n, s \in S
  <2>1. <<i, s>> \in Nat \X S
    OBVIOUS
  <2> QED BY <2>1
<1>6. a \in S
  BY DEF Sums
<1> HIDE DEF g, S, a, l
<1>7. PICK F \in [SUBSET D -> S] : FoldsLeft(F, n, a, g)
  BY <1>4, <1>6, FoldsLeftExist
<1>8. ASSUME NEW t \in SUBSET D, t # {}
      PROVE  Max(t) \in D /\ t \ {Max(t)} \in SUBSET D /\ l[Max(t)] = Max(t)
  BY <1>1, <1>8, MaxIn
<1>9. ASSUME NEW t \in SUBSET D PROVE F[t] = IF t = {} THEN a ELSE Body(F, t)
  <2>1. F[t] = IF t = {} THEN a ELSE g[<<Max(t), F[t \ {Max(t)}]>>]
    BY <1>7 DEF FoldsLeft
  <2>2. CASE t # {}
    <3>1. Max(t) \in 1 .. n /\ F[t \ {Max(t)}] \in S /\ l[Max(t)] = Max(t)
      BY <1>8, <2>2
    <3>2. g[<<Max(t), F[t \ {Max(t)}]>>] = Body(F, t)
      BY <1>5, <3>1
    <3> QED BY <2>1, <2>2, <3>2
  <2> QED BY <2>1, <2>2
<1>10. F = [t \in SUBSET DOMAIN l |-> IF t = {} THEN a ELSE Body(F, t)]
  <2> HIDE DEF D, Body
  <2>1. F = [t \in SUBSET D |-> F[t]]
    BY <1>7
  <2> QED BY <1>1, <1>9, <2>1
<1>11. value = CHOOSE v : v = [t \in SUBSET DOMAIN l |-> IF t = {} THEN a ELSE Body(v, t)]
  OBVIOUS
<1> HIDE DEF value
<1>12. value = [t \in SUBSET DOMAIN l |-> IF t = {} THEN a ELSE Body(value, t)]
  <2> HIDE DEF Body
  <2> QED BY <1>10, <1>11
<1>13. \A t \in SUBSET D : value[t] = IF t = {} THEN a ELSE Body(value, t)
  <2> HIDE DEF Body, D
  <2> QED BY <1>1, <1>12
<1>14. PICK h : Solves(h, n, S, a, g)
  BY <1>4, <1>6, SolutionExists
<1>15. h \in [0 .. n -> S] /\ h[0] = a
  BY <1>14 DEF Solves
<1>16. ASSUME NEW i \in 1 .. n PROVE h[i] = SubStep(h[i - 1], WordAt(x, i, signed), WordAt(y, i, signed))
  <2>1. h[i] = g[<<i, h[i - 1]>>] /\ h[i - 1] \in S
    BY <1>14, <1>15 DEF Solves
  <2> QED BY <1>5, <2>1
<1>17. value[D] = h[n]
  <2>1. value[{}] = h[0]
    BY <1>13, <1>15
  <2>2. ASSUME NEW i \in 1 .. n, value[1 .. (i - 1)] = h[i - 1] PROVE value[1 .. i] = h[i]
    <3>1. /\ i \in Nat /\ 1 .. i \in SUBSET D /\ 1 .. i # {}
          /\ (1 .. i) \ {i} = 1 .. (i - 1) /\ Max(1 .. i) = i
      BY FirstIndices
    <3>2. value[1 .. i] = Body(value, 1 .. i)
      <4> HIDE DEF Body, D
      <4> QED BY <1>13, <3>1
    <3>3. value[1 .. i] = SubStep(h[i - 1], WordAt(x, i, signed), WordAt(y, i, signed))
      BY <1>1, <2>2, <3>1, <3>2
    <3> QED BY <1>16, <3>3
  <2>3. Along(value, h, n)
    <3> HIDE DEF Body, D
    <3> QED BY <2>1, <2>2 DEF Along
  <2>4. value[1 .. n] = h[n]
    <3> HIDE DEF Body, D
    <3> QED BY <2>3, AlongPasses
  <2> QED BY <2>4
<1> QED BY <1>2, <1>15, <1>16, <1>17 DEF S, a, Subtracts

-----------------------------------------------------------------------------
(* Carries that run through a number *)

\* Words that are the sums of columns, with a carry from each column to the next, have
\* the sum of the values for their value: p are the words, k the carries, Z the
\* values of the places z that are added to x.
Columns(w, n, p, k, x, z, Z) ==
  /\ x \in Seq(Int) /\ Len(x) = n /\ p \in Seq(Int) /\ Len(p) = n
  /\ z \in [1 .. n -> Int] /\ k \in [0 .. n -> Int]
  /\ Z \in [1 .. (n + 1) -> Int] /\ Z[n + 1] = 0 /\ \A i \in 1 .. n : Z[i] = z[i] + w * Z[i + 1]
  /\ \A i \in 1 .. n : p[i] + w * k[i] = x[i] + z[i] + k[i - 1]

\* Words and last carry together have the value of the sum.
LEMMA ColumnsValue ==
  ASSUME NEW w \in Int, NEW n \in Nat, NEW p, NEW k, NEW x, NEW z, NEW Z, Columns(w, n, p, k, x, z, Z)
  PROVE  Positional(w, Append(p, k[n])) = Positional(w, x) + Z[1] + k[0]
<1>0. /\ x \in Seq(Int) /\ Len(x) = n /\ p \in Seq(Int) /\ Len(p) = n
      /\ z \in [1 .. n -> Int] /\ k \in [0 .. n -> Int]
      /\ Z \in [1 .. (n + 1) -> Int] /\ Z[n + 1] = 0 /\ \A i \in 1 .. n : Z[i] = z[i] + w * Z[i + 1]
      /\ \A i \in 1 .. n : p[i] + w * k[i] = x[i] + z[i] + k[i - 1]
  BY DEF Columns
<1>1. PICK X : Tails(X, w, x)
  BY <1>0, TailsExist
<1>2. /\ X \in [1 .. (n + 1) -> Int] /\ X[n + 1] = 0
      /\ \A i \in 1 .. n : X[i] = x[i] + w * X[i + 1]
  BY <1>0, <1>1 DEF Tails
<1>3. PICK R : R = [i \in 1 .. (n + 1) |-> X[i] + Z[i] + k[i - 1]]
  OBVIOUS
<1>4. R \in [1 .. (n + 1) -> Int]
  <2> SUFFICES ASSUME NEW i \in 1 .. (n + 1) PROVE X[i] + Z[i] + k[i - 1] \in Int
    BY <1>3
  <2>1. i - 1 \in 0 .. n
    OBVIOUS
  <2> QED BY <1>0, <1>2, <2>1
<1>5. PICK q : q = Append(p, k[n])
  OBVIOUS
<1>6. q \in Seq(Int) /\ Len(q) = n + 1 /\ q[n + 1] = k[n] /\ \A i \in 1 .. n : q[i] = p[i]
  <2>1. k[n] \in Int
    BY <1>0
  <2> QED BY <1>0, <1>5, <2>1, AppendProperties
<1>7. R[n + 1] = q[n + 1]
  <2>1. n + 1 \in 1 .. (n + 1) /\ n + 1 - 1 = n
    OBVIOUS
  <2>2. R[n + 1] = X[n + 1] + Z[n + 1] + k[n]
    BY <1>3, <2>1
  <2>3. k[n] \in Int
    BY <1>0
  <2> QED BY <1>0, <1>2, <1>6, <2>2, <2>3
<1>8. ASSUME NEW i \in 1 .. n PROVE R[i] = q[i] + w * R[i + 1]
  <2>1. i \in 1 .. (n + 1) /\ i + 1 \in 1 .. (n + 1) /\ i + 1 - 1 = i /\ i - 1 \in 0 .. n /\ i \in 0 .. n
    OBVIOUS
  <2>2. R[i] = X[i] + Z[i] + k[i - 1] /\ R[i + 1] = X[i + 1] + Z[i + 1] + k[i]
    BY <1>3, <2>1
  <2>3. PICK a \in Int, b \in Int, c \in Int : a = X[i + 1] /\ b = Z[i + 1] /\ c = k[i]
    BY <1>0, <1>2, <2>1
  <2>4. PICK wa \in Int, wb \in Int, wc \in Int : wa = w * a /\ wb = w * b /\ wc = w * c
    OBVIOUS
  <2>5. w * (a + b + c) = wa + wb + wc
    BY <2>4
  <2>6. PICK xi \in Int, zi \in Int, pi \in Int, c0 \in Int :
          xi = x[i] /\ zi = z[i] /\ pi = p[i] /\ c0 = k[i - 1]
    <3>1. x[i] \in Int
      BY <1>0
    <3>2. p[i] \in Int
      BY <1>0
    <3>3. z[i] \in Int /\ k[i - 1] \in Int
      BY <1>0, <2>1
    <3> QED BY <3>1, <3>2, <3>3
  <2>7. X[i] = xi + wa /\ Z[i] = zi + wb /\ pi + wc = xi + zi + c0
    <3>1. X[i] = x[i] + w * X[i + 1] /\ Z[i] = z[i] + w * Z[i + 1]
      BY <1>0, <1>2
    <3>2. p[i] + w * k[i] = x[i] + z[i] + k[i - 1]
      BY <1>0
    <3> QED BY <2>3, <2>4, <2>6, <3>1, <3>2
  <2>8. R[i] = pi + (wa + wb + wc)
    <3>1. R[i] = X[i] + Z[i] + c0
      BY <2>2, <2>6
    <3>2. xi + wa + (zi + wb) + c0 = pi + (wa + wb + wc)
      BY <2>7
    <3> QED BY <2>7, <3>1, <3>2
  <2> QED BY <1>6, <2>2, <2>3, <2>5, <2>6, <2>8
<1>9. Positional(w, q) = R[1]
  BY <1>4, <1>6, <1>7, <1>8, PlacesValue
<1>10. R[1] = X[1] + Z[1] + k[0]
  <2>1. 1 \in 1 .. (n + 1) /\ 1 - 1 = 0
    OBVIOUS
  <2> QED BY <1>3, <2>1
<1>11. Positional(w, x) = X[1]
  BY <1>0, <1>1, PositionalTails
<1> QED BY <1>5, <1>9, <1>10, <1>11

\* Words that are overwritten one after another, with a carry that runs through them.
Chain(w, n, d, k) ==
  /\ d \in [0 .. n -> [1 .. n -> Int]] /\ k \in [0 .. n -> Int]
  /\ \A i \in 1 .. n : /\ d[i] = [d[i - 1] EXCEPT ![i] = d[i][i]]
                       /\ d[i][i] + w * k[i] = d[i - 1][i] + k[i - 1]

\* Words and last carry together have the value of the words and what was added to them.
LEMMA ChainValue ==
  ASSUME NEW w \in Int, NEW n \in Nat, NEW d, NEW k, Chain(w, n, d, k)
  PROVE  Positional(w, Append(d[n], k[n])) = Positional(w, d[0]) + k[0]
<1>0. d \in [0 .. n -> [1 .. n -> Int]] /\ k \in [0 .. n -> Int]
  BY DEF Chain
<1>1. PICK p : p = [i \in 1 .. n |-> d[i][i]]
  OBVIOUS
<1>2. p \in [1 .. n -> Int]
  BY <1>0, <1>1
<1>3. d[n] = p /\ \A i \in 1 .. n : d[i - 1][i] = d[0][i]
  <2>1. \A i \in 1 .. n : d[i] = [d[i - 1] EXCEPT ![i] = p[i]]
    BY <1>1 DEF Chain
  <2>2. Overwrites(d, p, n, Int)
    BY <1>0, <1>2, <2>1 DEF Overwrites
  <2> QED BY <2>2, Overwritten
<1>4. PICK x : x = d[0]
  OBVIOUS
<1>5. x \in Seq(Int) /\ Len(x) = n /\ p \in Seq(Int) /\ Len(p) = n
  BY <1>0, <1>2, <1>4
<1>6. PICK z \in [1 .. n -> Int] : \A i \in 1 .. n : z[i] = 0
  <2>1. [i \in 1 .. n |-> 0] \in [1 .. n -> Int]
    OBVIOUS
  <2> QED BY <2>1
<1>7. PICK Z \in [1 .. (n + 1) -> Int] : \A i \in 1 .. (n + 1) : Z[i] = 0
  <2>1. [i \in 1 .. (n + 1) |-> 0] \in [1 .. (n + 1) -> Int]
    OBVIOUS
  <2> QED BY <2>1
<1>8. Z[n + 1] = 0 /\ Z[1] = 0
  BY <1>7
<1>9. \A i \in 1 .. n : Z[i] = z[i] + w * Z[i + 1]
  <2> TAKE i \in 1 .. n
  <2>1. Z[i] = 0 /\ z[i] = 0 /\ Z[i + 1] = 0
    BY <1>6, <1>7
  <2>2. w * 0 = 0
    OBVIOUS
  <2> QED BY <2>1, <2>2
<1>10. \A i \in 1 .. n : p[i] + w * k[i] = x[i] + z[i] + k[i - 1]
  <2> TAKE i \in 1 .. n
  <2>0. p[i] = d[i][i] /\ x[i] = d[i - 1][i]
    BY <1>1, <1>3, <1>4
  <2>1. p[i] + w * k[i] = x[i] + k[i - 1]
    BY <2>0 DEF Chain
  <2>2. x[i] \in Int /\ z[i] = 0
    BY <1>5, <1>6
  <2>3. k[i - 1] \in Int
    BY <1>0
  <2> QED BY <2>1, <2>2, <2>3
<1>11. Positional(w, Append(p, k[n])) = Positional(w, x) + Z[1] + k[0]
  <2>1. Columns(w, n, p, k, x, z, Z)
    BY <1>0, <1>5, <1>6, <1>7, <1>8, <1>9, <1>10 DEF Columns
  <2> QED BY <2>1, ColumnsValue
<1>12. Positional(w, x) \in Int
  <2>1. PICK X : Tails(X, w, x)
    BY <1>5, TailsExist
  <2>2. X[1] \in Int
    BY <1>5, <2>1 DEF Tails
  <2> QED BY <1>5, <2>1, <2>2, PositionalTails
<1> QED BY <1>3, <1>4, <1>8, <1>11, <1>12

-----------------------------------------------------------------------------
(* One pass of each loop *)

\* Where the loop is done nothing is left to be added or taken.
Settled(s) == s.done = FALSE \/ s.y = 0

AddsAt(s, t, i) ==
  /\ t.x = [s.x EXCEPT ![i] = t.x[i]]
  /\ t.x[i] + Word * t.y = s.x[i] + s.y
  /\ t.y \in 0 .. 1

TakesAt(s, t, i) ==
  /\ t.x = [s.x EXCEPT ![i] = t.x[i]]
  /\ t.x[i] - Word * t.y = s.x[i] - s.y
  /\ t.y \in 0 .. 1

\* One pass: the word and the carry it gives make up the word and the carry it takes.
LEMMA Add1StepExact ==
  ASSUME NEW n \in Nat, NEW i \in 1 .. n, NEW s \in OneWord(n), Settled(s),
         NEW t, t = Add1Step(s, i)
  PROVE  AddsAt(s, t, i) /\ Settled(t)
<1>0. PICK w \in Nat : w = Word /\ w > 0
  BY WordPositive
<1>1. s.x \in [1 .. n -> 0 .. (w - 1)] /\ s.y \in 0 .. (w - 1) /\ s.done \in BOOLEAN
  BY <1>0 DEF OneWord
<1>2. CASE s.done
  <2>1. t = s
    BY <1>2 DEF Add1Step
  <2>2. s.x = [s.x EXCEPT ![i] = s.x[i]]
    BY <1>1
  <2>3. w * 0 = 0
    OBVIOUS
  <2> QED BY <1>0, <1>1, <1>2, <2>1, <2>2, <2>3 DEF Settled, AddsAt
<1>3. CASE ~s.done
  <2>1. PICK a \in 0 .. (w - 1), y \in 0 .. (w - 1) : a = s.x[i] /\ y = s.y
    BY <1>1
  <2>2. PICK sum : sum = (y + a) % w
    OBVIOUS
  <2>3. t = [x |-> [s.x EXCEPT ![i] = sum], y |-> Bit(sum < y), done |-> sum >= y]
    BY <1>0, <1>3, <2>1, <2>2 DEF Add1Step
  <2>4. sum = IF y + a < w THEN y + a ELSE y + a - w
    <3>1. y + a \in 0 .. (2 * w - 1)
      OBVIOUS
    <3> QED BY <1>0, <2>2, <3>1, Wraps
  <2>5. t.x = [s.x EXCEPT ![i] = sum] /\ t.x[i] = sum
    BY <1>1, <2>3
  <2>6. CASE y + a < w
    <3>1. sum = y + a /\ ~(sum < y) /\ sum >= y
      BY <2>4, <2>6
    <3>2. t.y = 0
      BY <2>3, <3>1 DEF Bit
    <3>3. w * 0 = 0
      OBVIOUS
    <3> QED BY <1>0, <2>1, <2>5, <3>1, <3>2, <3>3 DEF Settled, AddsAt
  <2>7. CASE ~(y + a < w)
    <3>1. sum = y + a - w /\ sum < y /\ ~(sum >= y)
      BY <2>4, <2>7
    <3>2. t.y = 1
      BY <2>3, <3>1 DEF Bit
    <3>4. t.done = FALSE
      <4>1. t.done = (sum >= y)
        BY <2>3
      <4>2. (sum >= y) = FALSE
        BY <3>1
      <4> QED BY <4>1, <4>2
    <3>3. w * 1 = w
      OBVIOUS
    <3> QED BY <1>0, <2>1, <2>5, <3>1, <3>2, <3>3, <3>4 DEF Settled, AddsAt
  <2> QED BY <2>6, <2>7
<1> QED BY <1>1, <1>2, <1>3

LEMMA Sub1StepExact ==
  ASSUME NEW n \in Nat, NEW i \in 1 .. n, NEW s \in OneWord(n), Settled(s),
         NEW t, t = Sub1Step(s, i)
  PROVE  TakesAt(s, t, i) /\ Settled(t)
<1>0. PICK w \in Nat : w = Word /\ w > 0
  BY WordPositive
<1>1. s.x \in [1 .. n -> 0 .. (w - 1)] /\ s.y \in 0 .. (w - 1) /\ s.done \in BOOLEAN
  BY <1>0 DEF OneWord
<1>2. CASE s.done
  <2>1. t = s
    BY <1>2 DEF Sub1Step
  <2>2. s.x = [s.x EXCEPT ![i] = s.x[i]]
    BY <1>1
  <2>3. w * 0 = 0
    OBVIOUS
  <2> QED BY <1>0, <1>1, <1>2, <2>1, <2>2, <2>3 DEF Settled, TakesAt
<1>3. CASE ~s.done
  <2>1. PICK a \in 0 .. (w - 1), y \in 0 .. (w - 1) : a = s.x[i] /\ y = s.y
    BY <1>1
  <2>2. PICK rest : rest = (a - y + w) % w
    OBVIOUS
  <2>3. t = [x |-> [s.x EXCEPT ![i] = rest], y |-> Bit(y > a), done |-> y <= a]
    BY <1>0, <1>1, <1>3, <2>1, <2>2 DEF Sub1Step
  <2>4. rest = IF a - y + w < w THEN a - y + w ELSE a - y + w - w
    <3>1. a - y + w \in 0 .. (2 * w - 1)
      OBVIOUS
    <3> QED BY <1>0, <2>2, <3>1, Wraps
  <2>5. t.x = [s.x EXCEPT ![i] = rest] /\ t.x[i] = rest
    BY <1>1, <2>3
  <2>6. CASE y <= a
    <3>1. rest = a - y /\ ~(y > a)
      BY <2>4, <2>6
    <3>2. t.y = 0
      BY <2>3, <3>1 DEF Bit
    <3>3. w * 0 = 0
      OBVIOUS
    <3> QED BY <1>0, <2>1, <2>5, <3>1, <3>2, <3>3 DEF Settled, TakesAt
  <2>7. CASE ~(y <= a)
    <3>1. rest = a - y + w /\ y > a
      BY <2>4, <2>7
    <3>2. t.y = 1
      BY <2>3, <3>1 DEF Bit
    <3>4. t.done = FALSE
      <4>1. t.done = (y <= a)
        BY <2>3
      <4>2. (y <= a) = FALSE
        BY <2>7
      <4> QED BY <4>1, <4>2
    <3>3. w * 1 = w
      OBVIOUS
    <3> QED BY <1>0, <2>1, <2>5, <2>7, <3>1, <3>2, <3>3, <3>4 DEF Settled, TakesAt
  <2> QED BY <2>6, <2>7
<1> QED BY <1>1, <1>2, <1>3

\* t has one word more than s: the sum, or the difference, of a and b.
AddsWord(s, t, a, b) ==
  \E v \in 0 .. (Word - 1) : t.dest = Append(s.dest, v) /\ v + Word * t.carry = a + b + s.carry

TakesWord(s, t, a, b) ==
  \E v \in 0 .. (Word - 1) : t.dest = Append(s.dest, v) /\ v - Word * t.carry = a - b - s.carry

LEMMA AddStepExact ==
  ASSUME NEW s \in Sums, NEW a \in 0 .. (Word - 1), NEW b \in 0 .. (Word - 1),
         NEW t, t = AddStep(s, a, b, Lesser(a, b))
  PROVE  AddsWord(s, t, a, b)
<1>0. PICK w \in Nat : w = Word /\ w > 0
  BY WordPositive
<1>1. PICK c \in 0 .. 1 : c = s.carry
  BY DEF Sums
<1>2. PICK sum : sum = (a + b + c) % w
  OBVIOUS
<1>3. sum = IF a + b + c < w THEN a + b + c ELSE a + b + c - w
  <2>1. a + b + c \in 0 .. (2 * w - 1)
    BY <1>0
  <2> QED BY <1>0, <1>2, <2>1, Wraps
<1>4. PICK m \in Nat : m = Lesser(a, b) /\ m <= a /\ m <= b /\ (m = a \/ m = b)
  BY <1>0 DEF Lesser
<1>5. t = [dest |-> Append(s.dest, sum), carry |-> Bit(sum < m \/ (c = 1 /\ sum = m))]
  BY <1>0, <1>1, <1>2, <1>4 DEF AddStep
<1>6. a \in 0 .. (w - 1) /\ b \in 0 .. (w - 1)
  BY <1>0
<1>7. CASE a + b + c < w
  <2>1. sum = a + b + c /\ ~(sum < m \/ (c = 1 /\ sum = m)) /\ sum \in 0 .. (w - 1)
    BY <1>3, <1>4, <1>6, <1>7
  <2>2. t.carry = 0 /\ t.dest = Append(s.dest, sum)
    BY <1>5, <2>1 DEF Bit
  <2>3. w * 0 = 0
    BY <1>0, TimesBit
  <2>4. sum + w * t.carry = a + b + c
    BY <2>1, <2>2, <2>3
  <2> QED BY <1>0, <1>1, <2>1, <2>2, <2>4 DEF AddsWord
<1>8. CASE ~(a + b + c < w)
  <2>1. sum = a + b + c - w /\ (sum < m \/ (c = 1 /\ sum = m)) /\ sum \in 0 .. (w - 1)
    BY <1>3, <1>4, <1>6, <1>8
  <2>2. t.carry = 1 /\ t.dest = Append(s.dest, sum)
    BY <1>5, <2>1 DEF Bit
  <2>3. w * 1 = w
    BY <1>0, TimesBit
  <2>4. sum + w * t.carry = a + b + c
    BY <1>0, <1>1, <1>6, <2>1, <2>2, <2>3
  <2> QED BY <1>0, <1>1, <2>1, <2>2, <2>4 DEF AddsWord
<1> QED BY <1>7, <1>8

LEMMA SubStepExact ==
  ASSUME NEW s \in Sums, NEW a \in 0 .. (Word - 1), NEW b \in 0 .. (Word - 1),
         NEW t, t = SubStep(s, a, b)
  PROVE  TakesWord(s, t, a, b)
<1>0. PICK w \in Nat : w = Word /\ w > 0
  BY WordPositive
<1>1. PICK c \in 0 .. 1 : c = s.carry
  BY DEF Sums
<1>2. PICK tmp : tmp = IF c = 1 THEN (a - 1 + w) % w ELSE a
  OBVIOUS
<1>3. tmp = IF c = 1 THEN IF a = 0 THEN w - 1 ELSE a - 1 ELSE a
  <2>1. a - 1 + w \in 0 .. (2 * w - 1)
    BY <1>0
  <2>2. (a - 1 + w) % w = IF a - 1 + w < w THEN a - 1 + w ELSE a - 1 + w - w
    BY <1>0, <2>1, Wraps
  <2> QED BY <1>0, <1>2, <2>2
<1>4. a \in 0 .. (w - 1) /\ b \in 0 .. (w - 1)
  BY <1>0
<1>5. tmp \in 0 .. (w - 1)
  BY <1>0, <1>3, <1>4
<1>6. PICK rest : rest = (tmp - b + w) % w
  OBVIOUS
<1>7. rest = IF tmp - b + w < w THEN tmp - b + w ELSE tmp - b + w - w
  <2>1. PICK v \in 0 .. (2 * w - 1) : v = tmp - b + w
    BY <1>4, <1>5
  <2>2. v % w = IF v < w THEN v ELSE v - w
    BY <1>0, Wraps
  <2>3. rest = v % w
    BY <1>6, <2>1
  <2> QED BY <1>0, <1>4, <1>5, <2>1, <2>2, <2>3
<1>8. t = [dest |-> Append(s.dest, rest), carry |-> Bit(b > tmp \/ (c = 1 /\ a = 0))]
  BY <1>0, <1>1, <1>2, <1>6 DEF SubStep
<1>9. CASE b > tmp \/ (c = 1 /\ a = 0)
  <2>1. rest = a - b - c + w /\ rest \in 0 .. (w - 1)
    BY <1>3, <1>4, <1>5, <1>7, <1>9
  <2>2. t.carry = 1 /\ t.dest = Append(s.dest, rest)
    BY <1>8, <1>9 DEF Bit
  <2>3. w * 1 = w
    BY <1>0, TimesBit
  <2>4. rest - w * t.carry = a - b - c
    BY <1>4, <2>1, <2>2, <2>3
  <2> QED BY <1>0, <1>1, <2>1, <2>2, <2>4 DEF TakesWord
<1>10. CASE ~(b > tmp \/ (c = 1 /\ a = 0))
  <2>1. rest = a - b - c /\ rest \in 0 .. (w - 1)
    BY <1>3, <1>4, <1>5, <1>7, <1>10
  <2>2. t.carry = 0 /\ t.dest = Append(s.dest, rest)
    BY <1>8, <1>10 DEF Bit
  <2>3. w * 0 = 0
    BY <1>0, TimesBit
  <2>4. rest - w * t.carry = a - b - c
    BY <1>4, <2>1, <2>2, <2>3
  <2> QED BY <1>0, <1>1, <2>1, <2>2, <2>4 DEF TakesWord
<1> QED BY <1>9, <1>10

-----------------------------------------------------------------------------
(* Sums and differences *)

\* The words of a number.
LEMMA WordsInNat ==
  ASSUME NEW x \in Number
  PROVE  /\ x \in Seq(0 .. (Word - 1)) /\ x \in Seq(Int) /\ Len(x) \in Nat /\ Len(x) > 0
         /\ x \in [1 .. Len(x) -> 0 .. (Word - 1)]
<1>0. PICK w \in Nat : w = Word
  BY WordPositive
<1>1. x \in Seq(0 .. (w - 1)) /\ x # <<>>
  BY <1>0 DEF Number
<1>2. Len(x) \in Nat /\ x \in [1 .. Len(x) -> 0 .. (w - 1)]
  BY <1>1
<1>3. Len(x) # 0
  BY <1>1, EmptySeq
<1>4. \A i \in 1 .. Len(x) : x[i] \in Int
  BY <1>2
<1>5. x \in Seq(Int)
  BY <1>1, <1>4
<1> QED BY <1>0, <1>1, <1>2, <1>3, <1>5

\* Adding one word: after each pass word and carry make up what was to be added.
LEMMA Add1Value ==
  ASSUME NEW x \in Number, NEW y \in 0 .. (Word - 1), NEW plus, plus = add_1(x, y)
  PROVE  WordsValue(Append(plus.dest, plus.carry)) = WordsValue(x) + y
<1>0. PICK n \in Nat : n = Len(x) /\ n > 0
  BY WordsInNat
<1>1. x \in [1 .. n -> 0 .. (Word - 1)]
  BY <1>0, WordsInNat
<1>2. PICK h \in [0 .. n -> OneWord(n)] :
        /\ h[0] = [x |-> x, y |-> y, done |-> FALSE]
        /\ \A i \in 1 .. n : h[i] = Add1Step(h[i - 1], i)
        /\ add_1(x, y) = [dest |-> h[n].x, carry |-> Bit(h[n].y # 0)]
  BY <1>0, <1>1, Add1Loop
<1> DEFINE P == {i \in 0 .. n : Settled(h[i])}
<1>3. \A i \in 0 .. n : i \in P
  <2>1. 0 \in P
    BY <1>2 DEF Settled
  <2>2. ASSUME NEW i \in 1 .. n, i - 1 \in P PROVE i \in P
    <3>1. PICK s \in OneWord(n) : s = h[i - 1] /\ Settled(s)
      BY <2>2
    <3>2. PICK t : t = h[i] /\ t = Add1Step(s, i)
      BY <1>2, <3>1
    <3>3. Settled(t)
      <4> HIDE DEF P
      <4> QED BY <3>1, <3>2, Add1StepExact
    <3>4. i \in 0 .. n
      OBVIOUS
    <3> QED BY <3>2, <3>3, <3>4
  <2> HIDE DEF P
  <2> QED BY <2>1, <2>2, UpTo
<1>4. ASSUME NEW i \in 1 .. n
      PROVE  /\ h[i].x = [h[i - 1].x EXCEPT ![i] = h[i].x[i]]
             /\ h[i].x[i] + Word * h[i].y = h[i - 1].x[i] + h[i - 1].y
             /\ h[i].y \in 0 .. 1
  <2>1. i - 1 \in 0 .. n
    OBVIOUS
  <2>2. PICK s \in OneWord(n) : s = h[i - 1] /\ Settled(s)
    BY <1>3, <2>1
  <2>3. PICK t : t = h[i] /\ t = Add1Step(s, i)
    BY <1>2, <2>2
  <2>4. AddsAt(s, t, i)
    <3> HIDE DEF P
    <3> QED BY <2>2, <2>3, Add1StepExact
  <2> QED BY <2>2, <2>3, <2>4 DEF AddsAt
<1> HIDE DEF P
<1>5. PICK w \in Nat : w = Word /\ w > 0
  BY WordPositive
<1>6. \A i \in 0 .. n : h[i].x \in [1 .. n -> 0 .. (w - 1)] /\ h[i].y \in 0 .. (w - 1)
  BY <1>2, <1>5 DEF OneWord
<1>7. PICK d : d = [i \in 0 .. n |-> h[i].x]
  OBVIOUS
<1>8. PICK k : k = [i \in 0 .. n |-> h[i].y]
  OBVIOUS
<1>9. Chain(w, n, d, k)
  <2>1. d \in [0 .. n -> [1 .. n -> Int]]
    <3>1. \A i \in 0 .. n : h[i].x \in [1 .. n -> Int]
      BY <1>5, <1>6
    <3> QED BY <1>7, <3>1
  <2>2. k \in [0 .. n -> Int]
    BY <1>6, <1>8
  <2>3. ASSUME NEW i \in 1 .. n
        PROVE  d[i] = [d[i - 1] EXCEPT ![i] = d[i][i]] /\ d[i][i] + w * k[i] = d[i - 1][i] + k[i - 1]
    <3>1. i \in 0 .. n /\ i - 1 \in 0 .. n
      OBVIOUS
    <3>2. d[i] = h[i].x /\ d[i - 1] = h[i - 1].x /\ k[i] = h[i].y /\ k[i - 1] = h[i - 1].y
      BY <1>7, <1>8, <3>1
    <3> QED BY <1>4, <1>5, <3>2
  <2> QED BY <2>1, <2>2, <2>3 DEF Chain
<1>10. Positional(w, Append(d[n], k[n])) = Positional(w, d[0]) + k[0]
  BY <1>5, <1>9, ChainValue
<1>11. d[0] = x /\ k[0] = y /\ d[n] = plus.dest
  BY <1>2, <1>7, <1>8
<1>12. k[n] = plus.carry
  <2>1. h[n].y \in 0 .. 1 /\ n \in 0 .. n
    <3>1. n \in 1 .. n /\ n \in 0 .. n
      BY <1>0
    <3> QED BY <1>4, <3>1
  <2>2. plus.carry = Bit(h[n].y # 0)
    BY <1>2
  <2>3. Bit(h[n].y # 0) = h[n].y
    BY <2>1 DEF Bit
  <2> QED BY <1>8, <2>1, <2>2, <2>3
<1> QED BY <1>5, <1>10, <1>11, <1>12 DEF WordsValue

\* A value is a number.
LEMMA PositionalType ==
  ASSUME NEW radix \in Int, NEW s \in Seq(Int)
  PROVE  Positional(radix, s) \in Int
<1>1. PICK V : Tails(V, radix, s)
  BY TailsExist
<1>2. 1 \in 1 .. (Len(s) + 1)
  OBVIOUS
<1>3. V[1] \in Int
  BY <1>1, <1>2 DEF Tails
<1> QED BY <1>1, <1>3, PositionalTails

\* Taking one word away, with the borrows for negative carries.
LEMMA Sub1Value ==
  ASSUME NEW x \in Number, NEW y \in 0 .. (Word - 1), NEW minus, minus = sub_1(x, y)
  PROVE  WordsValue(Append(minus.dest, -minus.carry)) = WordsValue(x) - y
<1>0. PICK n \in Nat : n = Len(x) /\ n > 0
  BY WordsInNat
<1>1. x \in [1 .. n -> 0 .. (Word - 1)]
  BY <1>0, WordsInNat
<1>2. PICK h \in [0 .. n -> OneWord(n)] :
        /\ h[0] = [x |-> x, y |-> y, done |-> FALSE]
        /\ \A i \in 1 .. n : h[i] = Sub1Step(h[i - 1], i)
        /\ sub_1(x, y) = [dest |-> h[n].x, carry |-> Bit(h[n].y # 0)]
  BY <1>0, <1>1, Sub1Loop
<1> DEFINE P == {i \in 0 .. n : Settled(h[i])}
<1>3. \A i \in 0 .. n : i \in P
  <2>1. 0 \in P
    BY <1>2 DEF Settled
  <2>2. ASSUME NEW i \in 1 .. n, i - 1 \in P PROVE i \in P
    <3>1. PICK s \in OneWord(n) : s = h[i - 1] /\ Settled(s)
      BY <2>2
    <3>2. PICK t : t = h[i] /\ t = Sub1Step(s, i)
      BY <1>2, <3>1
    <3>3. Settled(t)
      <4> HIDE DEF P
      <4> QED BY <3>1, <3>2, Sub1StepExact
    <3>4. i \in 0 .. n
      OBVIOUS
    <3> QED BY <3>2, <3>3, <3>4
  <2> HIDE DEF P
  <2> QED BY <2>1, <2>2, UpTo
<1>4. ASSUME NEW i \in 1 .. n
      PROVE  /\ h[i].x = [h[i - 1].x EXCEPT ![i] = h[i].x[i]]
             /\ h[i].x[i] - Word * h[i].y = h[i - 1].x[i] - h[i - 1].y
             /\ h[i].y \in 0 .. 1
  <2>1. i - 1 \in 0 .. n
    OBVIOUS
  <2>2. PICK s \in OneWord(n) : s = h[i - 1] /\ Settled(s)
    BY <1>3, <2>1
  <2>3. PICK t : t = h[i] /\ t = Sub1Step(s, i)
    BY <1>2, <2>2
  <2>4. TakesAt(s, t, i)
    <3> HIDE DEF P
    <3> QED BY <2>2, <2>3, Sub1StepExact
  <2> QED BY <2>2, <2>3, <2>4 DEF TakesAt
<1> HIDE DEF P
<1>5. PICK w \in Nat : w = Word /\ w > 0
  BY WordPositive
<1>6. \A i \in 0 .. n : h[i].x \in [1 .. n -> 0 .. (w - 1)] /\ h[i].y \in 0 .. (w - 1)
  BY <1>2, <1>5 DEF OneWord
<1>7. PICK d : d = [i \in 0 .. n |-> h[i].x]
  OBVIOUS
<1>8. PICK k : k = [i \in 0 .. n |-> -h[i].y]
  OBVIOUS
<1>9. Chain(w, n, d, k)
  <2>1. d \in [0 .. n -> [1 .. n -> Int]]
    <3>1. \A i \in 0 .. n : h[i].x \in [1 .. n -> Int]
      BY <1>5, <1>6
    <3> QED BY <1>7, <3>1
  <2>2. k \in [0 .. n -> Int]
    BY <1>6, <1>8
  <2>3. ASSUME NEW i \in 1 .. n
        PROVE  d[i] = [d[i - 1] EXCEPT ![i] = d[i][i]] /\ d[i][i] + w * k[i] = d[i - 1][i] + k[i - 1]
    <3>1. i \in 0 .. n /\ i - 1 \in 0 .. n
      OBVIOUS
    <3>2. d[i] = h[i].x /\ d[i - 1] = h[i - 1].x /\ k[i] = -h[i].y /\ k[i - 1] = -h[i - 1].y
      BY <1>7, <1>8, <3>1
    <3>3. PICK a \in Int, b \in Int, c \in 0 .. 1, e \in Int :
            a = h[i].x[i] /\ b = h[i - 1].x[i] /\ c = h[i].y /\ e = h[i - 1].y
      <4>1. h[i].x[i] \in Int /\ h[i - 1].x[i] \in Int
        BY <1>6, <3>1
      <4>2. h[i].y \in 0 .. 1
        BY <1>4
      <4>3. h[i - 1].y \in Int
        BY <1>5, <1>6, <3>1
      <4> QED BY <4>1, <4>2, <4>3
    <3>4. a - w * c = b - e
      BY <1>4, <1>5, <3>3
    <3>5. a + w * (-c) = b + (-e)
      <4>1. CASE c = 0
        BY <3>4, <4>1
      <4>2. CASE c = 1
        BY <3>4, <4>2
      <4> QED BY <4>1, <4>2
    <3> QED BY <1>4, <3>2, <3>3, <3>5
  <2> QED BY <2>1, <2>2, <2>3 DEF Chain
<1>10. Positional(w, Append(d[n], k[n])) = Positional(w, d[0]) + k[0]
  BY <1>5, <1>9, ChainValue
<1>11. d[0] = x /\ k[0] = -y /\ d[n] = minus.dest
  BY <1>2, <1>7, <1>8
<1>12. k[n] = -minus.carry
  <2>1. h[n].y \in 0 .. 1 /\ n \in 0 .. n
    <3>1. n \in 1 .. n /\ n \in 0 .. n
      BY <1>0
    <3> QED BY <1>4, <3>1
  <2>2. minus.carry = Bit(h[n].y # 0)
    BY <1>2
  <2>3. Bit(h[n].y # 0) = h[n].y
    BY <2>1 DEF Bit
  <2> QED BY <1>8, <2>1, <2>2, <2>3
<1>13. Positional(w, x) \in Int
  BY <1>5, WordsInNat, PositionalType
<1> QED BY <1>5, <1>10, <1>11, <1>12, <1>13 DEF WordsValue

\* Adding numbers of the same length: what the passes append are the words of the sum.
LEMMA AddValue ==
  ASSUME NEW x \in Number, NEW y \in Number, Len(x) = Len(y),
         NEW sum, sum = add(x, y, Len(x), FALSE, FALSE)
  PROVE  WordsValue(Append(sum.dest, sum.carry)) = WordsValue(x) + WordsValue(y)
<1>0. PICK n \in Nat : n = Len(x) /\ n = Len(y)
  BY WordsInNat
<1>1. x \in [1 .. n -> 0 .. (Word - 1)] /\ y \in [1 .. n -> 0 .. (Word - 1)] /\ x \in Seq(Int) /\ y \in Seq(Int)
  BY <1>0, WordsInNat
<1>2. PICK h \in [0 .. n -> Sums] :
        /\ h[0] = [dest |-> <<>>, carry |-> 0]
        /\ \A i \in 1 .. n : h[i] = AddStep(h[i - 1], x[i], y[i], Lesser(x[i], y[i]))
        /\ add(x, y, n, FALSE, FALSE) = h[n]
  BY <1>0, <1>1, AddLoop
<1>3. PICK w \in Nat : w = Word /\ w > 0
  BY WordPositive
<1> DEFINE Sum(i, v) == h[i].dest = Append(h[i - 1].dest, v) /\ v + w * h[i].carry = x[i] + y[i] + h[i - 1].carry
<1>4. ASSUME NEW i \in 1 .. n PROVE \E v \in 0 .. (w - 1) : Sum(i, v)
  <2>1. PICK s \in Sums : s = h[i - 1]
    <3>1. i - 1 \in 0 .. n
      OBVIOUS
    <3> QED BY <3>1
  <2>2. PICK a \in 0 .. (Word - 1), b \in 0 .. (Word - 1) : a = x[i] /\ b = y[i]
    BY <1>1
  <2>3. PICK t : t = h[i] /\ t = AddStep(s, a, b, Lesser(a, b))
    BY <1>2, <2>1, <2>2
  <2>4. AddsWord(s, t, a, b)
    BY <2>3, AddStepExact
  <2> QED BY <1>3, <2>1, <2>2, <2>3, <2>4 DEF AddsWord
<1>5. PICK v \in [1 .. n -> 0 .. (w - 1)] : \A i \in 1 .. n : Sum(i, v[i])
  <2>1. PICK v : v = [i \in 1 .. n |-> CHOOSE u \in 0 .. (w - 1) : Sum(i, u)]
    OBVIOUS
  <2>2. ASSUME NEW i \in 1 .. n PROVE v[i] \in 0 .. (w - 1) /\ Sum(i, v[i])
    <3> HIDE DEF Sum
    <3> QED BY <1>4, <2>1
  <2>3. v \in [1 .. n -> 0 .. (w - 1)]
    <3> HIDE DEF Sum
    <3> QED BY <2>1, <2>2
  <2> HIDE DEF Sum
  <2> QED BY <2>2, <2>3
<1>6. h[n].dest = v
  <2>1. PICK d : d = [i \in 0 .. n |-> h[i].dest]
    OBVIOUS
  <2>2. d[0] = <<>>
    BY <1>2, <2>1
  <2>3. \A i \in 1 .. n : d[i] = Append(d[i - 1], v[i])
    <3> TAKE i \in 1 .. n
    <3>1. d[i] = h[i].dest /\ d[i - 1] = h[i - 1].dest
      BY <2>1
    <3> QED BY <1>5, <3>1
  <2>4. d[n] = v
    <3>1. Appends(d, v, n)
      BY <2>2, <2>3, Zenon DEF Appends
    <3> QED BY <3>1, Appended
  <2> QED BY <2>1, <2>4
<1>7. PICK k : k = [i \in 0 .. n |-> h[i].carry]
  OBVIOUS
<1>8. k \in [0 .. n -> Int]
  BY <1>2, <1>7 DEF Sums
<1>9. PICK Y : Tails(Y, w, y)
  BY <1>1, <1>3, TailsExist
<1>10. Columns(w, n, v, k, x, y, Y)
  <2>1. v \in Seq(Int) /\ Len(v) = n
    <3>1. \A i \in 1 .. n : v[i] \in Int
      BY <1>3, <1>5
    <3> QED BY <1>5, <3>1
  <2>2. y \in [1 .. n -> Int]
    BY <1>0, <1>1
  <2>3. \A i \in 1 .. n : v[i] + w * k[i] = x[i] + y[i] + k[i - 1]
    <3> TAKE i \in 1 .. n
    <3>1. k[i] = h[i].carry /\ k[i - 1] = h[i - 1].carry
      BY <1>7
    <3> QED BY <1>5, <3>1
  <2>4. Y \in [1 .. (n + 1) -> Int] /\ Y[n + 1] = 0 /\ \A i \in 1 .. n : Y[i] = y[i] + w * Y[i + 1]
    BY <1>0, <1>9 DEF Tails
  <2> QED BY <1>0, <1>1, <1>8, <2>1, <2>2, <2>3, <2>4 DEF Columns
<1>11. Positional(w, Append(v, k[n])) = Positional(w, x) + Y[1] + k[0]
  BY <1>3, <1>10, ColumnsValue
<1>12. k[0] = 0 /\ k[n] = sum.carry /\ sum.dest = v
  <2>1. k[0] = h[0].carry /\ k[n] = h[n].carry
    BY <1>7
  <2>2. sum = h[n]
    BY <1>0, <1>2
  <2>3. h[0].carry = 0
    BY <1>2
  <2> HIDE DEF Sum
  <2> QED BY <1>6, <2>1, <2>2, <2>3
<1>13. Positional(w, y) = Y[1]
  BY <1>1, <1>3, <1>9, PositionalTails
<1>14. Positional(w, x) \in Int /\ Positional(w, y) \in Int
  BY <1>1, <1>3, PositionalType
<1> HIDE DEF Sum
<1>15. Positional(w, Append(sum.dest, sum.carry)) = Positional(w, x) + Positional(w, y)
  <2>1. Append(sum.dest, sum.carry) = Append(v, k[n])
    BY <1>12
  <2>2. Positional(w, Append(v, k[n])) = Positional(w, x) + Positional(w, y)
    BY <1>11, <1>12, <1>13, <1>14
  <2> QED BY <2>1, <2>2
<1> QED BY <1>3, <1>15 DEF WordsValue

\* The words of a number that is extended.
LEMMA ExtendedType ==
  ASSUME NEW x \in Number, NEW n \in Nat, NEW signed, NEW e, e = Extended(x, n, signed)
  PROVE  /\ e \in [1 .. n -> 0 .. (Word - 1)]
         /\ \A i \in 1 .. n : e[i] = WordAt(x, i, signed)
<1>0. PICK w \in Nat : w = Word /\ w > 0
  BY WordPositive
<1>1. PICK m \in Nat : m = Len(x) /\ x \in [1 .. m -> 0 .. (w - 1)]
  BY <1>0, WordsInNat
<1>2. Extension(x, signed) \in 0 .. (w - 1)
  <2>1. Extension(x, signed) = w - 1 \/ Extension(x, signed) = 0
    BY <1>0 DEF Extension
  <2> QED BY <1>0, <2>1
<1>3. PICK extension \in 0 .. (w - 1) : extension = Extension(x, signed)
  BY <1>2
<1>4. e = [i \in 1 .. n |-> IF i <= m THEN x[i] ELSE extension]
  BY <1>1, <1>3 DEF Extended, WordAt
<1>5. e \in [1 .. n -> 0 .. (w - 1)]
  BY <1>1, <1>4
<1>6. \A i \in 1 .. n : e[i] = WordAt(x, i, signed)
  BY <1>1, <1>3, <1>4 DEF WordAt
<1> QED BY <1>0, <1>5, <1>6

\* Subtracting numbers by their extensions.
LEMMA SubValue ==
  ASSUME NEW x \in Number, NEW y \in Number, NEW n \in Nat, n \in 1 .. Longer(Len(x), Len(y)),
         NEW signed,
         NEW difference, difference = sub(x, y, n, signed, signed)
  PROVE  WordsValue(Append(difference.dest, -difference.carry))
           = WordsValue(Extended(x, n, signed)) - WordsValue(Extended(y, n, signed))
<1>0. Within(x, y, n)
  <2>1. PICK l \in Nat, m \in Nat : l = Len(x) /\ m = Len(y)
    BY WordsInNat
  <2>2. n \in 1 .. (IF l < m THEN m ELSE l)
    BY <2>1 DEF Longer
  <2> QED BY <2>1, <2>2 DEF Lesser, Within
<1>1. PICK e : e = Extended(x, n, signed)
  OBVIOUS
<1>2. PICK f : f = Extended(y, n, signed)
  OBVIOUS
<1>3. PICK w \in Nat : w = Word /\ w > 0
  BY WordPositive
<1>4. /\ e \in [1 .. n -> 0 .. (Word - 1)]
      /\ \A i \in 1 .. n : e[i] = WordAt(x, i, signed)
  BY <1>0, <1>1, ExtendedType
<1>5. /\ f \in [1 .. n -> 0 .. (Word - 1)]
      /\ \A i \in 1 .. n : f[i] = WordAt(y, i, signed)
  BY <1>0, <1>2, ExtendedType
<1>6. PICK h : Subtracts(h, x, y, n, signed)
  <2>1. \A i \in 1 .. n : /\ WordAt(x, i, signed) \in 0 .. (Word - 1)
                          /\ WordAt(y, i, signed) \in 0 .. (Word - 1)
    BY <1>4, <1>5
  <2> QED BY <1>0, <2>1, SubLoop
<1>60. /\ h \in [0 .. n -> Sums] /\ h[0] = [dest |-> <<>>, carry |-> 0]
       /\ \A i \in 1 .. n : h[i] = SubStep(h[i - 1], WordAt(x, i, signed), WordAt(y, i, signed))
       /\ sub(x, y, n, signed, signed) = h[n]
  BY <1>6 DEF Subtracts
<1> DEFINE Difference(i, v) ==
             h[i].dest = Append(h[i - 1].dest, v) /\ v - w * h[i].carry = e[i] - f[i] - h[i - 1].carry
<1>7. ASSUME NEW i \in 1 .. n PROVE \E v \in 0 .. (w - 1) : Difference(i, v)
  <2>1. PICK s \in Sums : s = h[i - 1]
    <3>1. i - 1 \in 0 .. n
      BY <1>0
    <3> QED BY <1>60, <3>1
  <2>2. PICK a \in 0 .. (Word - 1), b \in 0 .. (Word - 1) : a = e[i] /\ b = f[i]
    BY <1>4, <1>5
  <2>3. PICK t : t = h[i] /\ t = SubStep(s, a, b)
    BY <1>4, <1>5, <1>60, <2>1, <2>2
  <2>4. TakesWord(s, t, a, b)
    BY <2>3, SubStepExact
  <2> QED BY <1>3, <2>1, <2>2, <2>3, <2>4 DEF TakesWord
<1>8. PICK v \in [1 .. n -> 0 .. (w - 1)] : \A i \in 1 .. n : Difference(i, v[i])
  <2>1. PICK v : v = [i \in 1 .. n |-> CHOOSE u \in 0 .. (w - 1) : Difference(i, u)]
    OBVIOUS
  <2>2. ASSUME NEW i \in 1 .. n PROVE v[i] \in 0 .. (w - 1) /\ Difference(i, v[i])
    <3> HIDE DEF Difference
    <3> QED BY <1>7, <2>1
  <2>3. v \in [1 .. n -> 0 .. (w - 1)]
    <3> HIDE DEF Difference
    <3> QED BY <2>1, <2>2
  <2> HIDE DEF Difference
  <2> QED BY <2>2, <2>3
<1>9. h[n].dest = v
  <2>1. PICK d : d = [i \in 0 .. n |-> h[i].dest]
    OBVIOUS
  <2>2. d[0] = <<>>
    BY <1>0, <1>60, <2>1
  <2>3. \A i \in 1 .. n : d[i] = Append(d[i - 1], v[i])
    <3> TAKE i \in 1 .. n
    <3>1. i \in 0 .. n /\ i - 1 \in 0 .. n
      BY <1>0
    <3>2. d[i] = h[i].dest /\ d[i - 1] = h[i - 1].dest
      BY <2>1, <3>1
    <3> QED BY <1>8, <3>2
  <2>4. d[n] = v
    <3>1. Appends(d, v, n)
      BY <2>2, <2>3, Zenon DEF Appends
    <3> QED BY <1>0, <3>1, Appended
  <2> QED BY <1>0, <2>1, <2>4
<1>10. PICK k : k = [i \in 0 .. n |-> -h[i].carry]
  OBVIOUS
<1>11. \A i \in 0 .. n : h[i].carry \in 0 .. 1 /\ k[i] = -h[i].carry /\ k[i] \in Int
  <2> TAKE i \in 0 .. n
  <2>1. h[i].carry \in 0 .. 1
    BY <1>60 DEF Sums
  <2>2. k[i] = -h[i].carry
    BY <1>10
  <2> QED BY <2>1, <2>2
<1>12. e \in Seq(Int) /\ Len(e) = n /\ f \in Seq(Int) /\ Len(f) = n
  <2>1. e \in [1 .. n -> Int] /\ f \in [1 .. n -> Int]
    BY <1>3, <1>4, <1>5
  <2> QED BY <1>0, <2>1
<1>13. PICK Y : Tails(Y, w, f)
  <2>1. w \in Int /\ f \in Seq(Int)
    BY <1>3, <1>12
  <2> HIDE DEF Difference
  <2> QED BY <2>1, TailsExist
<1>14. Y \in [1 .. (n + 1) -> Int] /\ Y[n + 1] = 0 /\ \A i \in 1 .. n : Y[i] = f[i] + w * Y[i + 1]
  BY <1>12, <1>13 DEF Tails
<1>15. PICK z : z = [i \in 1 .. n |-> -f[i]]
  OBVIOUS
<1>16. PICK Z : Z = [i \in 1 .. (n + 1) |-> -Y[i]]
  OBVIOUS
<1>17. Columns(w, n, v, k, e, z, Z)
  <2>1. v \in Seq(Int) /\ Len(v) = n
    <3>1. v \in [1 .. n -> Int]
      BY <1>3, <1>8
    <3> QED BY <1>0, <3>1
  <2>2. z \in [1 .. n -> Int] /\ k \in [0 .. n -> Int]
    <3>1. \A i \in 1 .. n : f[i] \in Int
      BY <1>3, <1>5
    <3>2. z \in [1 .. n -> Int]
      BY <1>15, <3>1
    <3> HIDE DEF Difference
    <3> QED BY <1>10, <1>11, <3>2
  <2>3. \A i \in 1 .. n : v[i] + w * k[i] = e[i] + z[i] + k[i - 1]
    <3> TAKE i \in 1 .. n
    <3>1. i \in 0 .. n /\ i - 1 \in 0 .. n
      BY <1>0
    <3>2. PICK a \in Int, b \in Int, u \in Int, c \in 0 .. 1, c0 \in 0 .. 1 :
            a = e[i] /\ b = f[i] /\ u = v[i] /\ c = h[i].carry /\ c0 = h[i - 1].carry
      <4>1. e[i] \in Int /\ f[i] \in Int
        BY <1>3, <1>4, <1>5
      <4>2. v[i] \in Int
        BY <1>3, <1>8
      <4>3. h[i].carry \in 0 .. 1 /\ h[i - 1].carry \in 0 .. 1
        BY <1>11, <3>1
      <4> QED BY <4>1, <4>2, <4>3
    <3>3. u - w * c = a - b - c0
      BY <1>8, <3>2
    <3>4. u + w * (-c) = a + (-b) + (-c0)
      <4>1. CASE c = 0
        BY <3>3, <4>1
      <4>2. CASE c = 1
        BY <3>3, <4>2
      <4> QED BY <4>1, <4>2
    <3>5. k[i] = -c /\ k[i - 1] = -c0 /\ z[i] = -b
      BY <1>11, <1>15, <3>1, <3>2
    <3> QED BY <3>2, <3>4, <3>5
  <2>4. Z \in [1 .. (n + 1) -> Int] /\ Z[n + 1] = 0
    <3>1. n + 1 \in 1 .. (n + 1)
      BY <1>0
    <3>2. \A i \in 1 .. (n + 1) : Y[i] \in Int
      BY <1>14
    <3>3. Z \in [1 .. (n + 1) -> Int]
      BY <1>16, <3>2
    <3>4. Z[n + 1] = -Y[n + 1]
      BY <1>16, <3>1
    <3>5. Y[n + 1] = 0
      BY <1>14
    <3>6. Z[n + 1] = 0
      <4>1. PICK a \in Int : a = Y[n + 1] /\ a = 0
        BY <3>5
      <4>2. PICK m \in Int : m = -a
        OBVIOUS
      <4>3. m + a = 0
        BY <4>2
      <4>4. m = 0
        BY <4>1, <4>3
      <4> QED BY <3>4, <4>1, <4>2, <4>4
    <3> HIDE DEF Difference
    <3> QED BY <3>3, <3>6
  <2>5. \A i \in 1 .. n : Z[i] = z[i] + w * Z[i + 1]
    <3> TAKE i \in 1 .. n
    <3>1. i \in 1 .. (n + 1) /\ i + 1 \in 1 .. (n + 1)
      BY <1>0
    <3>2. PICK a \in Int, b \in Int : a = Y[i + 1] /\ b = f[i]
      <4>1. Y[i + 1] \in Int
        BY <1>14, <3>1
      <4>2. f[i] \in Int
        BY <1>3, <1>5
      <4> QED BY <4>1, <4>2
    <3>3. Y[i] = b + w * a
      BY <1>14, <3>2
    <3>4. Z[i] = -(b + w * a) /\ z[i] = -b /\ Z[i + 1] = -a
      BY <1>15, <1>16, <3>1, <3>2, <3>3
    <3>5. w * (-a) = -(w * a) /\ w * a \in Int
      OBVIOUS
    <3>6. -(b + w * a) = (-b) + w * (-a)
      BY <3>5
    <3> QED BY <3>4, <3>6
  <2> QED BY <1>12, <2>1, <2>2, <2>3, <2>4, <2>5 DEF Columns
<1>18. Positional(w, Append(v, k[n])) = Positional(w, e) + Z[1] + k[0]
  BY <1>0, <1>3, <1>17, ColumnsValue
<1>19. k[0] = 0 /\ k[n] = -difference.carry /\ difference.dest = v
  <2>1. 0 \in 0 .. n /\ n \in 0 .. n
    BY <1>0
  <2> QED BY <1>60, <1>9, <1>11, <2>1
<1>20. Positional(w, f) = Y[1] /\ Z[1] = -Y[1]
  <2>1. 1 \in 1 .. (n + 1)
    BY <1>0
  <2> QED BY <1>3, <1>12, <1>13, <1>16, <2>1, PositionalTails
<1>21. Positional(w, e) \in Int /\ Positional(w, f) \in Int
  BY <1>3, <1>12, PositionalType
<1> QED BY <1>1, <1>2, <1>3, <1>18, <1>19, <1>20, <1>21 DEF WordsValue

-----------------------------------------------------------------------------
(* Quotients and remainders *)

\* The digits of a word.
LEMMA BasePositive == Base \in Nat /\ Base > 0
<1>1. DigitBits \in Nat
  BY DigitBitsAssumption
<1> QED BY <1>1, PowerPositive DEF Base

LEMMA WordDigits ==
  ASSUME NEW B \in Nat, B > 0, B = Base, NEW x \in 0 .. (B * B - 1)
  PROVE  /\ Lo(x) \in 0 .. (B - 1) /\ Hi(x) \in 0 .. (B - 1)
         /\ x = B * Hi(x) + Lo(x)
<1>1. x \in Nat
  OBVIOUS
<1>2. PICK h \in Nat, l \in 0 .. (B - 1) : h = x \div B /\ l = x % B /\ x = B * h + l
  <2>1. x % B \in 0 .. (B - 1) /\ x \div B \in Nat /\ x = B * (x \div B) + (x % B)
    BY <1>1, Quotients
  <2> QED BY <2>1, Zenon
<1>3. h <= B - 1
  <2>1. SUFFICES ASSUME h >= B PROVE FALSE
    OBVIOUS
  <2>2. B * h >= B * B
    BY <2>1
  <2> QED BY <1>2, <2>2
<1>4. Lo(x) = l /\ Hi(x) = h
  BY <1>2 DEF Lo, Hi
<1>5. h \in 0 .. (B - 1)
  BY <1>3
<1> QED BY <1>2, <1>4, <1>5, Zenon

LEMMA ProductBound ==
  ASSUME NEW p \in Nat, NEW q \in Nat, NEW P \in Nat, NEW Q \in Nat, p <= P, q <= Q
  PROVE  p * q \in Nat /\ p * q <= P * Q
<1>1. p * q \in Nat
  OBVIOUS
<1>2. p * q <= P * q
  OBVIOUS
<1>3. P * q <= P * Q
  OBVIOUS
<1>4. P * q \in Int /\ P * Q \in Int
  OBVIOUS
<1> QED BY <1>1, <1>2, <1>3, <1>4

\* The middle sum of a product of two words, its digits h and a, g and b, to which c is added:
\* it does not reach W with the product of the other digits, or just reaches it.
Middle(B, W, a, b, g, h, c, o, L1, L0, M1, M0) ==
  /\ a \in 0 .. (B - 1) /\ b \in 0 .. (B - 1) /\ g \in 0 .. (B - 1) /\ h \in 0 .. (B - 1)
  /\ c \in Nat /\ c <= B * g + b
  /\ ~(h = B - 1 /\ b = B - 1 /\ a < B - 1 /\ g < B - 1 /\ a + g >= B)
  /\ o \in 0 .. 1 /\ L1 \in 0 .. (B - 1) /\ L0 \in 0 .. (B - 1)
  /\ c + a * b = W * o + (B * L1 + L0)
  /\ M1 \in Nat /\ M0 \in 0 .. (B - 1) /\ a * g = B * M1 + M0

LEMMA MiddleSum ==
  ASSUME NEW B \in Nat, B > 0, NEW W \in Nat, W = B * B,
         NEW a, NEW b, NEW g, NEW h, NEW c, NEW o, NEW L1, NEW L0, NEW M1, NEW M0,
         Middle(B, W, a, b, g, h, c, o, L1, L0, M1, M0),
         NEW mid, mid = h * b + L1 + (IF o = 1 THEN B ELSE 0)
  PROVE  /\ mid \in 0 .. (W - 1) /\ (o = 1 => mid > 0)
         /\ mid + M0 < W \/ mid + M0 = W
<1> SUFFICES ASSUME a \in 0 .. (B - 1), b \in 0 .. (B - 1), g \in 0 .. (B - 1), h \in 0 .. (B - 1),
                    c \in Nat, c <= B * g + b,
                    ~(h = B - 1 /\ b = B - 1 /\ a < B - 1 /\ g < B - 1 /\ a + g >= B),
                    o \in 0 .. 1, L1 \in 0 .. (B - 1), L0 \in 0 .. (B - 1),
                    c + a * b = W * o + (B * L1 + L0),
                    M1 \in Nat, M0 \in 0 .. (B - 1), a * g = B * M1 + M0
             PROVE  /\ mid \in 0 .. (W - 1) /\ (o = 1 => mid > 0)
                    /\ mid + M0 < W \/ mid + M0 = W
  BY Zenon DEF Middle
<1>1. PICK hb \in Nat, ab \in Nat, ag \in Nat, Bg \in Nat, BL \in Nat, BM \in Nat :
        hb = h * b /\ ab = a * b /\ ag = a * g /\ Bg = B * g /\ BL = B * L1 /\ BM = B * M1
  <2>1. h * b \in Nat /\ a * b \in Nat /\ a * g \in Nat /\ B * g \in Nat /\ B * L1 \in Nat /\ B * M1 \in Nat
    OBVIOUS
  <2> QED BY <2>1
<1>2. (B - 1) * (B - 1) = W - 2 * B + 1
  <2>1. (B - 1) * (B - 1) = B * B - B - B + 1
    OBVIOUS
  <2> QED BY <2>1
<1>3. hb <= W - 2 * B + 1 /\ ab <= W - 2 * B + 1
  <2>1. h * b <= (B - 1) * (B - 1) /\ a * b <= (B - 1) * (B - 1)
    BY ProductBound
  <2> QED BY <1>1, <1>2, <2>1
<1>4. c + ab = W * o + BL + L0 /\ ag = BM + M0 /\ c <= Bg + b
  BY <1>1
<1>5. CASE o = 0
  <2>1. mid = hb + L1
    BY <1>1, <1>5
  <2> QED BY <1>3, <1>5, <2>1
<1>6. CASE o = 1
  <2>1. mid = hb + L1 + B /\ mid > 0
    BY <1>1, <1>6
  <2>2. c + ab = W + BL + L0
    BY <1>4, <1>6
  \* Because of the carry, c and the product of the lower digits are large.
  <2>3. L1 <= g + b - B
    <3>1. ab + b <= B * b
      <4>1. (a + 1) * b <= B * b
        BY ProductBound
      <4>2. (a + 1) * b = a * b + b
        OBVIOUS
      <4> QED BY <1>1, <4>1, <4>2
    <3>2. W + BL <= Bg + B * b
      <4>1. B * b \in Nat
        OBVIOUS
      <4> QED BY <1>4, <2>2, <3>1, <4>1
    <3>3. B * (B + L1) <= B * (g + b)
      <4>1. B * (B + L1) = W + BL
        BY <1>1
      <4>2. B * (g + b) = Bg + B * b
        BY <1>1
      <4> QED BY <3>2, <4>1, <4>2
    <3>4. B + L1 <= g + b
      <4>1. PICK u \in Nat, v \in Nat : u = B + L1 /\ v = g + b
        OBVIOUS
      <4>2. B * u <= B * v
        BY <3>3, <4>1
      <4>3. u <= v
        BY <4>2
      <4> QED BY <4>1, <4>3
    <3> QED BY <3>4
  <2>4. CASE b <= B - 2
    <3>1. hb + b <= B * (B - 2)
      <4>1. (h + 1) * b <= B * (B - 2)
        BY <2>4, ProductBound
      <4>2. (h + 1) * b = h * b + b
        OBVIOUS
      <4> QED BY <1>1, <4>1, <4>2
    <3>2. B * (B - 2) = W - 2 * B
      OBVIOUS
    <3> QED BY <2>1, <2>3, <3>1, <3>2
  <2>5. CASE b = B - 1 /\ h <= B - 2
    <3>1. hb <= (B - 2) * (B - 1)
      BY <1>1, <2>5, ProductBound
    <3>2. (B - 2) * (B - 1) = W - 3 * B + 2
      <4>1. (B - 2) * (B - 1) = B * B - B - 2 * B + 2
        OBVIOUS
      <4> QED BY <4>1
    <3> QED BY <2>1, <2>3, <2>5, <3>1, <3>2
  <2>6. CASE b = B - 1 /\ h = B - 1
    <3>1. hb = W - 2 * B + 1
      BY <1>1, <1>2, <2>6
    <3>2. mid = W - B + 1 + L1
      BY <2>1, <3>1
    <3>3. PICK Ba \in Nat : Ba = B * a
      OBVIOUS
    <3>4. ab = Ba - a
      <4>1. a * (B - 1) = a * B - a
        OBVIOUS
      <4> QED BY <1>1, <2>6, <3>3, <4>1
    <3>5. W + BL + L0 <= Bg + Ba + (B - 1 - a)
      BY <1>4, <2>2, <2>6, <3>4
    <3>6. L1 <= g + a - B
      <4>1. PICK u \in Nat, v \in Nat : u = B + L1 /\ v = g + a
        OBVIOUS
      <4>2. B * u = W + BL /\ B * v = Bg + Ba
        <5>1. B * (B + L1) = B * B + B * L1 /\ B * (g + a) = B * g + B * a
          OBVIOUS
        <5> QED BY <1>1, <3>3, <4>1, <5>1
      <4>3. B * u < B * v + B
        BY <3>5, <4>2
      <4>4. u <= v
        <5>1. SUFFICES ASSUME u >= v + 1 PROVE FALSE
          BY <4>1
        <5>2. B * u >= B * (v + 1)
          BY <5>1
        <5>3. B * (v + 1) = B * v + B
          OBVIOUS
        <5> QED BY <4>3, <5>2, <5>3
      <4> QED BY <4>1, <4>4
    <3>7. a = B - 1 \/ g = B - 1
      BY <2>6, <3>6
    <3>8. CASE a = B - 1
      <4>1. g > 0
        BY <3>6, <3>8
      <4>2. ag = B * (g - 1) + (B - g)
        <5>1. (B - 1) * g = B * (g - 1) + (B - g)
          OBVIOUS
        <5> QED BY <1>1, <3>8, <5>1
      <4>3. M0 = B - g
        <5>1. PICK q \in Int, r \in 0 .. (B - 1) : q = g - 1 /\ r = B - g
          BY <4>1
        <5>2. Divided(ag, B, q, r)
          BY <4>2, <5>1 DEF Divided
        <5>3. Divided(ag, B, M1, M0)
          BY <1>1 DEF Divided
        <5>4. r = M0
          BY <5>2, <5>3, SameQuotient
        <5> QED BY <5>1, <5>4
      <4>4. L1 <= g - 1
        BY <3>6, <3>8
      <4>5. mid <= W - B + g /\ mid + M0 <= W
        <5>1. mid <= W - B + g
          BY <3>2, <4>4
        <5>2. mid \in Int
          BY <3>2
        <5> QED BY <4>3, <5>1, <5>2
      <4>6. mid <= W - 1 /\ mid \in Nat
        BY <3>2, <4>5
      <4> QED BY <2>1, <4>5, <4>6
    <3>9. CASE g = B - 1
      <4>1. a > 0
        BY <3>6, <3>9
      <4>2. ag = B * (a - 1) + (B - a)
        <5>1. a * (B - 1) = B * (a - 1) + (B - a)
          OBVIOUS
        <5> QED BY <1>1, <3>9, <5>1
      <4>3. M0 = B - a
        <5>1. PICK q \in Int, r \in 0 .. (B - 1) : q = a - 1 /\ r = B - a
          BY <4>1
        <5>2. Divided(ag, B, q, r)
          BY <4>2, <5>1 DEF Divided
        <5>3. Divided(ag, B, M1, M0)
          BY <1>1 DEF Divided
        <5>4. r = M0
          BY <5>2, <5>3, SameQuotient
        <5> QED BY <5>1, <5>4
      <4>4. L1 <= a - 1
        BY <3>6, <3>9
      <4>5. mid <= W - B + a /\ mid + M0 <= W
        <5>1. mid <= W - B + a
          BY <3>2, <4>4
        <5>2. mid \in Int
          BY <3>2
        <5> QED BY <4>3, <5>1, <5>2
      <4>6. mid <= W - 1 /\ mid \in Nat
        BY <3>2, <4>5
      <4> QED BY <2>1, <4>5, <4>6
    <3> QED BY <3>7, <3>8, <3>9
  <2>7. b <= B - 2 \/ (b = B - 1 /\ h <= B - 2) \/ (b = B - 1 /\ h = B - 1)
    OBVIOUS
  <2> QED BY <2>4, <2>5, <2>6, <2>7
<1> QED BY <1>5, <1>6

\* One word of a product: word and carry together are the product and the carry before,
\* and the carry stays within y.
LEMMA MulStepExact ==
  ASSUME NEW x \in 0 .. (Word - 1), NEW y \in 0 .. (Word - 1), NEW c \in 0 .. y,
         ~Overrun(x, y), NEW p, p = MulStep(x, y, c)
  PROVE  /\ p.word \in 0 .. (Word - 1) /\ p.carry \in 0 .. y
         /\ p.word + Word * p.carry = x * y + c
<1>0. PICK B \in Nat, W \in Nat : B = Base /\ B > 0 /\ W = Word /\ W = B * B /\ W > 0
  <2>1. Word = Base * Base
    BY DEF Word
  <2> QED BY <2>1, BasePositive, WordPositive
<1>1. x \in 0 .. (B * B - 1) /\ y \in 0 .. (B * B - 1) /\ x \in Nat /\ y \in Nat /\ c \in Nat /\ c <= y
  BY <1>0
<1>2. PICK a \in 0 .. (B - 1), h \in 0 .. (B - 1) : a = Lo(x) /\ h = Hi(x) /\ x = B * h + a
  BY <1>0, <1>1, WordDigits
<1>3. PICK b \in 0 .. (B - 1), g \in 0 .. (B - 1) : b = Lo(y) /\ g = Hi(y) /\ y = B * g + b
  BY <1>0, <1>1, WordDigits
<1>4. ~(h = B - 1 /\ b = B - 1 /\ a < B - 1 /\ g < B - 1 /\ a + g >= B)
  BY <1>0, <1>2, <1>3 DEF Overrun
<1>5. PICK ab \in Nat, ag \in Nat, hb \in Nat, hg \in Nat :
        ab = a * b /\ ag = a * g /\ hb = h * b /\ hg = h * g
  <2>1. a * b \in Nat /\ a * g \in Nat /\ h * b \in Nat /\ h * g \in Nat
    OBVIOUS
  <2> QED BY <2>1
<1>6. ab <= W - 1 /\ ag <= W - 1
  <2>1. a * b <= (B - 1) * (B - 1) /\ a * g <= (B - 1) * (B - 1)
    BY ProductBound
  <2>2. (B - 1) * (B - 1) = B * B - B - B + 1
    OBVIOUS
  <2> QED BY <1>0, <1>5, <2>1, <2>2
<1>7. PICK o \in 0 .. 1 : o = IF c + ab < W THEN 0 ELSE 1
  OBVIOUS
<1>8. PICK low : low = (c + ab) % W
  OBVIOUS
<1>9. low \in 0 .. (W - 1) /\ c + ab = W * o + low /\ (low < c <=> o = 1)
  <2>1. PICK v \in 0 .. (2 * W - 1) : v = c + ab
    BY <1>0, <1>1, <1>6
  <2>2. v % W = IF v < W THEN v ELSE v - W
    BY <1>0, Wraps
  <2>3. W * 0 = 0 /\ W * 1 = W
    OBVIOUS
  <2> QED BY <1>1, <1>6, <1>7, <1>8, <2>1, <2>2, <2>3
<1>10. PICK L0 \in 0 .. (B - 1), L1 \in 0 .. (B - 1) : L0 = Lo(low) /\ L1 = Hi(low) /\ low = B * L1 + L0
  BY <1>0, <1>9, WordDigits
<1>11. PICK M0 \in 0 .. (B - 1), M1 \in 0 .. (B - 1) : M0 = Lo(ag) /\ M1 = Hi(ag) /\ ag = B * M1 + M0
  BY <1>0, <1>6, WordDigits
<1>12. PICK mid : mid = hb + L1 + (IF o = 1 THEN B ELSE 0)
  OBVIOUS
<1>13. mid \in 0 .. (W - 1) /\ (o = 1 => mid > 0) /\ (mid + M0 < W \/ mid + M0 = W)
  <2>1. c + a * b = W * o + (B * L1 + L0)
    BY <1>5, <1>9, <1>10
  <2>2. a * g = B * M1 + M0 /\ mid = h * b + L1 + (IF o = 1 THEN B ELSE 0) /\ c <= B * g + b
    BY <1>1, <1>3, <1>5, <1>11, <1>12
  <2>3. Middle(B, W, a, b, g, h, c, o, L1, L0, M1, M0)
    BY <1>1, <1>4, <2>1, <2>2, SMT DEF Middle
  <2> QED BY <1>0, <2>2, <2>3, MiddleSum
<1>14. PICK sum : sum = (mid + M0) % W
  OBVIOUS
<1>15. PICK spill : spill = IF mid + M0 = W THEN B ELSE 0
  OBVIOUS
<1>16. sum \in 0 .. (W - 1) /\ mid + M0 = sum + (IF spill = B THEN W ELSE 0)
  <2>1. PICK v \in 0 .. (2 * W - 1) : v = mid + M0
    BY <1>0, <1>13
  <2>2. v % W = IF v < W THEN v ELSE v - W
    BY <1>0, Wraps
  <2> QED BY <1>0, <1>13, <1>14, <1>15, <2>1, <2>2
<1>17. PICK flag : flag = IF mid # 0 THEN 0 ELSE IF low < c THEN 1 ELSE 2
  OBVIOUS
<1>18. (IF (sum = 0 /\ flag # 2) \/ flag = 1 THEN B ELSE 0) = spill
  <2>1. CASE mid + M0 = W
    BY <1>0, <1>9, <1>13, <1>15, <1>16, <1>17, <2>1
  <2>2. CASE mid + M0 # W
    BY <1>0, <1>9, <1>13, <1>15, <1>16, <1>17, <2>2
  <2> QED BY <2>1, <2>2
<1>19. PICK S0 \in 0 .. (B - 1), S1 \in 0 .. (B - 1) : S0 = Lo(sum) /\ S1 = Hi(sum) /\ sum = B * S1 + S0
  BY <1>0, <1>16, WordDigits
<1>20. p = [word |-> (S0 * B) + L0, carry |-> (spill + S1 + M1 + hg) % W]
  <2>1. low = (c + Lo(x) * Lo(y)) % Word
    BY <1>0, <1>2, <1>3, <1>5, <1>8
  <2>2. mid = (Hi(x) * Lo(y) + Hi(low) + IF low < c THEN Base ELSE 0) % Word
    <3>1. Hi(x) * Lo(y) + Hi(low) + (IF low < c THEN Base ELSE 0) = mid
      BY <1>0, <1>2, <1>3, <1>5, <1>9, <1>10, <1>12
    <3>2. mid % W = mid
      BY <1>0, <1>13
    <3> QED BY <1>0, <3>1, <3>2
  <2>3. sum = (mid + Lo(Lo(x) * Hi(y))) % Word /\ Lo(Lo(x) * Hi(y)) = M0 /\ Hi(Lo(x) * Hi(y)) = M1
    BY <1>0, <1>2, <1>3, <1>5, <1>11, <1>14
  <2>4. Hi(x) * Hi(y) = hg
    BY <1>2, <1>3, <1>5
  <2>5. p = [word |-> (Lo(sum) * Base) + Lo(low),
             carry |-> ((IF (sum = 0 /\ flag # 2) \/ flag = 1 THEN Base ELSE 0)
                        + Hi(sum) + M1 + hg) % Word]
    BY <1>17, <2>1, <2>2, <2>3, <2>4, Zenon DEF MulStep
  <2> QED BY <1>0, <1>10, <1>18, <1>19, <2>5
<1> DEFINE carry == spill + S1 + M1 + hg
<1>21. carry \in Nat /\ (S0 * B) + L0 + W * carry = x * y + c
  <2>1. carry \in Nat
    BY <1>15
  <2>2. PICK BS \in Nat, BL \in Nat, BM \in Nat : BS = B * S1 /\ BL = B * L1 /\ BM = B * M1
    <3>1. B * S1 \in Nat /\ B * L1 \in Nat /\ B * M1 \in Nat
      OBVIOUS
    <3> QED BY <3>1
  <2>3. PICK t \in Nat : t = IF spill = B THEN W ELSE 0
    BY <1>0
  <2>4. B * spill = t
    <3>1. B * 0 = 0
      OBVIOUS
    <3> QED BY <1>0, <1>15, <2>3, <3>1
  <2>5. B * (spill + S1 + M1) = t + BS + BM
    <3>1. spill \in Nat
      BY <1>15
    <3>2. B * (spill + S1 + M1) = B * spill + B * S1 + B * M1
      BY <3>1
    <3> QED BY <2>2, <2>4, <3>2
  <2>6. PICK u \in Nat : u = IF o = 1 THEN B ELSE 0
    OBVIOUS
  <2>7. t + BS + S0 = hb + L1 + u + M0
    <3>1. sum = BS + S0
      BY <1>19, <2>2
    <3>2. mid + M0 = sum + t
      BY <1>16, <2>3
    <3>3. mid = hb + L1 + u
      BY <1>12, <2>6
    <3> QED BY <1>13, <3>1, <3>2, <3>3
  \* Everything times the radix, but for the lowest digit.
  <2>8. S0 + t + BS + BM = hb + L1 + u + ag
    <3>1. ag = BM + M0
      BY <1>11, <2>2
    <3> QED BY <2>7, <3>1
  <2>9. B * (S0 + t + BS + BM) = B * hb + BL + B * u + B * ag
    <3>1. B * (hb + L1 + u + ag) = B * hb + B * L1 + B * u + B * ag
      OBVIOUS
    <3> QED BY <2>2, <2>8, <3>1
  <2>10. B * u = W * o
    <3>1. B * 0 = 0 /\ W * 0 = 0 /\ W * 1 = W
      OBVIOUS
    <3> QED BY <1>0, <2>6, <3>1
  <2>11. B * (S0 + t + BS + BM) + L0 = B * hb + B * ag + c + ab
    <3>1. PICK Wo \in Nat, P \in Nat, Q \in Nat, R \in Nat :
            Wo = W * o /\ P = B * (S0 + t + BS + BM) /\ Q = B * hb /\ R = B * ag
      <4>1. S0 + t + BS + BM \in Nat
        OBVIOUS
      <4>2. \A i, j \in Nat : i * j \in Nat
        OBVIOUS
      <4> QED BY <4>1, <4>2
    <3>2. P = Q + BL + Wo + R
      <4>1. PICK U \in Int : U = B * u
        OBVIOUS
      <4>2. P = Q + BL + U + R
        <5>1. P = B * hb + BL + U + B * ag
          BY <2>9, <3>1, <4>1, Zenon
        <5>2. BL \in Int /\ U \in Int
          BY <4>1
        <5> QED BY <3>1, <5>1, Zenon
      <4>3. U = Wo
        BY <2>10, <3>1, <4>1
      <4> QED BY <4>1, <4>2, <4>3
    <3>3. c + ab = Wo + BL + L0
      <4>1. c + ab = Wo + low
        BY <1>9, <3>1, Zenon
      <4>2. low = BL + L0
        BY <1>10, <2>2, Zenon
      <4> QED BY <1>9, <4>1, <4>2
    <3>4. P + L0 = Q + R + c + ab
      BY <3>2, <3>3
    <3> QED BY <3>1, <3>4
  <2>12. W * (spill + S1 + M1) = B * (t + BS + BM)
    <3>1. PICK v \in Nat : v = spill + S1 + M1
      BY <1>15
    <3>2. (B * B) * v = B * (B * v)
      OBVIOUS
    <3> QED BY <1>0, <2>5, <3>1, <3>2
  <2>13. (S0 * B) + L0 + W * carry = B * hb + B * ag + c + ab + W * hg
    <3>1. PICK v \in Nat : v = spill + S1 + M1 /\ carry = v + hg
      BY <1>15
    <3>2. W * carry = W * v + W * hg
      BY <3>1
    <3>3. PICK z \in Nat : z = t + BS + BM
      OBVIOUS
    <3>4. B * (S0 + t + BS + BM) = S0 * B + B * z
      BY <3>3
    <3>5. W * v = B * z
      BY <2>12, <3>1, <3>3
    <3>6. W * v \in Int /\ W * hg \in Int /\ S0 * B \in Int /\ B * z \in Int /\ B * hb \in Int /\ B * ag \in Int
      BY <3>1
    <3>7. PICK i \in Int, j \in Int, k \in Int, l \in Int, m \in Int, n \in Int :
            i = W * v /\ j = W * hg /\ k = S0 * B /\ l = B * z /\ m = B * hb /\ n = B * ag
      BY <3>6
    <3>8. k + l + L0 = m + n + c + ab
      BY <2>11, <3>4, <3>7
    <3>9. W * carry = l + j
      BY <3>2, <3>5, <3>7
    <3>10. k + L0 + W * carry = m + n + c + ab + j
      BY <3>8, <3>9
    <3> QED BY <3>7, <3>10
  <2>14. x * y = W * hg + B * hb + B * ag + ab
    <3>1. (B * h + a) * (B * g + b) = (B * B) * (h * g) + B * (h * b) + B * (a * g) + a * b
      OBVIOUS
    <3> QED BY <1>0, <1>2, <1>3, <1>5, <3>1
  <2>15. W * hg \in Int /\ B * hb \in Int /\ B * ag \in Int
    OBVIOUS
  <2> QED BY <2>1, <2>13, <2>14, <2>15
<1>22. (S0 * B) + L0 \in 0 .. (W - 1)
  <2>1. S0 * B <= (B - 1) * B /\ S0 * B \in Nat
    BY ProductBound
  <2>2. (B - 1) * B = B * B - B
    OBVIOUS
  <2> QED BY <1>0, <2>1, <2>2
<1>23. carry <= y
  <2>1. x * y <= (W - 1) * y
    BY <1>0, <1>1, ProductBound
  <2>2. (W - 1) * y = W * y - y
    BY <1>1
  <2>3. PICK Wc \in Nat, Wy \in Nat, xy \in Nat : Wc = W * carry /\ Wy = W * y /\ xy = x * y
    <3>1. W * carry \in Nat /\ W * y \in Nat /\ x * y \in Nat
      BY <1>1, <1>21
    <3> QED BY <3>1
  <2>4. Wc <= Wy
    BY <1>1, <1>21, <1>22, <2>1, <2>2, <2>3
  <2>5. PICK k \in Nat : k = carry
    BY <1>21
  <2>6. W * k <= W * y
    BY <2>3, <2>4, <2>5
  <2>7. k <= y
    BY <1>0, <1>1, <2>6
  <2> QED BY <2>5, <2>7
<1>24. carry % W = carry
  <2>1. PICK k \in 0 .. (W - 1) : k = carry
    BY <1>0, <1>21, <1>23
  <2>2. k % W = k
    BY <1>0
  <2> QED BY <2>1, <2>2
<1> HIDE DEF carry
<1>25. p.word = (S0 * B) + L0 /\ p.carry = carry
  <2>1. p = [word |-> (S0 * B) + L0, carry |-> carry % W]
    BY <1>20 DEF carry
  <2> QED BY <1>24, <2>1
<1> QED BY <1>0, <1>21, <1>22, <1>23, <1>25

-----------------------------------------------------------------------------
(* Rows of a product *)

\* e is d with u times x added from place i on, with the carries c; the last of them is
\* put behind.
AddsRow(w, i, m, x, u, d, e, c) ==
  /\ c[0] = 0 /\ c \in [0 .. m -> Int]
  /\ \A j \in 1 .. m : e[i + j - 1] + w * c[j] = d[i + j - 1] + x[j] * u + c[j - 1]
  /\ e[i + m] = c[m]
  /\ \A k \in 1 .. (i - 1) : e[k] = d[k]

HasRow(w, i, m, x, u, d, e) == \E c : AddsRow(w, i, m, x, u, d, e, c)

\* What a row adds to the value of the places up to its end.
RowGrows(L, E, X, pw, i, m, u) == E[i + m] = L[i + m - 1] + (pw[i - 1] * u) * X[m]

\* With a row the value of the places up to its end grows by u times x, as high as
\* the row lies.
LEMMA RowValue ==
  ASSUME NEW w \in Nat, NEW n \in Nat, NEW pw, Powers(pw, w, n),
         NEW i \in Nat, i > 0, NEW m \in Nat, i + m <= n,
         NEW x \in [1 .. m -> Int], NEW u \in Int,
         NEW d \in [1 .. n -> Int], NEW e \in [1 .. n -> Int],
         HasRow(w, i, m, x, u, d, e),
         NEW L, Lows(L, pw, d, n), NEW E, Lows(E, pw, e, n), NEW X, Lows(X, pw, x, m)
  PROVE  RowGrows(L, E, X, pw, i, m, u)
<1>1. (\A k \in 0 .. n : pw[k] \in Nat) /\ \A k \in 1 .. n : pw[k] = w * pw[k - 1]
  BY DEF Powers
<1>2. L \in [0 .. n -> Int] /\ \A k \in 1 .. n : L[k] = L[k - 1] + pw[k - 1] * d[k]
  BY DEF Lows
<1>3. E \in [0 .. n -> Int] /\ \A k \in 1 .. n : E[k] = E[k - 1] + pw[k - 1] * e[k]
  BY DEF Lows
<1>4. X \in [0 .. m -> Int] /\ X[0] = 0 /\ \A k \in 1 .. m : X[k] = X[k - 1] + pw[k - 1] * x[k]
  BY DEF Lows
<1>0. \A k \in 0 .. n : pw[k] \in Int
  BY <1>1
<1>5. PICK c : /\ c[0] = 0 /\ c \in [0 .. m -> Int]
               /\ \A j \in 1 .. m : e[i + j - 1] + w * c[j] = d[i + j - 1] + x[j] * u + c[j - 1]
               /\ e[i + m] = c[m]
               /\ \A k \in 1 .. (i - 1) : e[k] = d[k]
  BY Zenon DEF HasRow, AddsRow
<1>6. i - 1 \in 0 .. n /\ i - 1 \in Nat /\ i - 1 + m <= n
  OBVIOUS
<1>7. PICK h \in Nat : h = pw[i - 1]
  BY <1>1, <1>6
<1>8. ASSUME NEW j \in 0 .. m PROVE h * pw[j] = pw[i - 1 + j]
  <2>1. PICK a \in Nat : a = i - 1 /\ a + j <= n /\ j \in Nat
    BY <1>6
  <2>2. pw[a] * pw[j] = pw[a + j]
    BY <2>1, PowersTimes
  <2> QED BY <1>7, <2>1, <2>2, Zenon
<1> DEFINE P == {j \in Nat : E[i + j - 1] + pw[i + j - 1] * c[j] = L[i + j - 1] + (h * u) * X[j]}
<1>9. 0 \in P
  <2>1. E[i - 1] = L[i - 1]
    <3>1. PICK a \in 0 .. n : a = i - 1
      BY <1>6
    <3>2. SharedPlaces(d, e, a)
      BY <1>5, <3>1 DEF SharedPlaces
    <3>3. E[a] = L[a]
      BY <3>2, LowsShared
    <3> QED BY <3>1, <3>3
  <2>2. i + 0 - 1 = i - 1
    OBVIOUS
  <2>3. PICK l \in Int, hu \in Int : l = L[i - 1] /\ hu = h * u
    BY <1>2, <1>6
  <2>4. h * 0 = 0 /\ hu * 0 = 0 /\ l + 0 = l
    OBVIOUS
  <2>5. l + h * 0 = l + hu * 0
    BY <2>4, Zenon
  <2>6. E[i + 0 - 1] + pw[i + 0 - 1] * c[0] = L[i + 0 - 1] + (h * u) * X[0]
    BY <1>4, <1>5, <1>7, <2>1, <2>2, <2>3, <2>5, Zenon
  <2> QED BY <2>6
<1>10. ASSUME NEW j \in 1 .. m, j - 1 \in P PROVE j \in P
  <2>1. PICK k \in 1 .. n : k = i + j - 1
    OBVIOUS
  <2>2. /\ j \in Nat /\ j - 1 \in 0 .. m /\ j \in 0 .. m /\ i + (j - 1) - 1 = k - 1 /\ k - 1 \in 0 .. n /\ k \in 0 .. n
        /\ i - 1 + (j - 1) = k - 1
    BY <2>1
  <2>3. PICK q \in Int, ee \in Int, dd \in Int, xx \in Int, c1 \in Int, c0 \in Int :
          /\ q = pw[k - 1] /\ ee = e[k] /\ dd = d[k] /\ xx = x[j] /\ c1 = c[j] /\ c0 = c[j - 1]
    <3>1. pw[k - 1] \in Int
      BY <1>0, <2>2
    <3>2. e[k] \in Int /\ d[k] \in Int /\ x[j] \in Int
      OBVIOUS
    <3>3. c[j] \in Int /\ c[j - 1] \in Int
      BY <1>5, <2>2
    <3> QED BY <3>1, <3>2, <3>3
  <2>4. PICK l \in Int, f \in Int, y \in Int, pj \in Int : l = L[k - 1] /\ f = E[k - 1] /\ y = X[j - 1] /\ pj = pw[j - 1]
    <3>1. L[k - 1] \in Int /\ E[k - 1] \in Int
      BY <1>2, <1>3, <2>2
    <3>2. X[j - 1] \in Int
      BY <1>4, <2>2
    <3>3. j - 1 \in 0 .. n
      OBVIOUS
    <3>4. pw[j - 1] \in Int
      BY <1>0, <3>3
    <3> QED BY <3>1, <3>2, <3>4
  <2>5. f + q * c0 = l + (h * u) * y
    <3>1. E[i + (j - 1) - 1] + pw[i + (j - 1) - 1] * c[j - 1] = L[i + (j - 1) - 1] + (h * u) * X[j - 1]
      BY <1>10
    <3> QED BY <2>2, <2>3, <2>4, <3>1, Zenon
  <2>6. E[k] = f + q * ee /\ L[k] = l + q * dd /\ X[j] = y + pj * xx /\ pw[k] = w * q
    BY <1>1, <1>2, <1>3, <1>4, <2>3, <2>4, Zenon
  <2>7. ee + w * c1 = dd + xx * u + c0
    BY <1>5, <2>1, <2>3, Zenon
  <2>8. h * pj = q
    BY <1>8, <2>2, <2>3, <2>4
  <2>9. (f + q * ee) + (w * q) * c1 = (l + q * dd) + (h * u) * (y + pj * xx)
    <3>1. q * ee + (w * q) * c1 = q * (ee + w * c1)
      OBVIOUS
    <3>2. q * (dd + xx * u + c0) = q * dd + q * (xx * u) + q * c0
      OBVIOUS
    <3>3. (h * u) * (y + pj * xx) = (h * u) * y + (h * pj) * (xx * u)
      OBVIOUS
    <3>4. PICK a \in Int, b \in Int, s \in Int, t \in Int, v \in Int, z \in Int :
            /\ a = q * ee /\ b = (w * q) * c1 /\ s = q * dd /\ t = q * (xx * u) /\ v = q * c0
            /\ z = (h * u) * y
      <4>1. /\ q * ee \in Int /\ (w * q) * c1 \in Int /\ q * dd \in Int /\ q * (xx * u) \in Int
            /\ q * c0 \in Int /\ (h * u) * y \in Int
        OBVIOUS
      <4> QED BY <4>1
    <3>5. a + b = s + t + v
      BY <2>7, <3>1, <3>2, <3>4, Zenon
    <3>6. (h * u) * (y + pj * xx) = z + t
      BY <2>8, <3>3, <3>4, Zenon
    <3>7. f + v = l + z
      BY <2>5, <3>4, Zenon
    <3>8. (f + a) + b = (l + s) + (z + t)
      BY <3>5, <3>7
    <3> QED BY <3>4, <3>6, <3>8, Zenon
  <2>10. E[i + j - 1] + pw[i + j - 1] * c[j] = L[i + j - 1] + (h * u) * X[j]
    BY <2>1, <2>3, <2>6, <2>9, Zenon
  <2> QED BY <2>2, <2>10
<1>11. \A j \in 0 .. m : j \in P
  <2> HIDE DEF P
  <2> QED BY <1>9, <1>10, UpTo
<1>12. E[i + m - 1] + pw[i + m - 1] * c[m] = L[i + m - 1] + (h * u) * X[m]
  <2>1. m \in P
    <3> HIDE DEF P
    <3> QED BY <1>11
  <2> QED BY <2>1
<1>13. E[i + m] = E[i + m - 1] + pw[i + m - 1] * c[m]
  <2>1. PICK k \in 1 .. n : k = i + m
    OBVIOUS
  <2>2. E[k] = E[k - 1] + pw[k - 1] * e[k]
    BY <1>3
  <2>3. e[k] = c[m]
    BY <1>5, <2>1, Zenon
  <2>4. E[k] = E[k - 1] + pw[k - 1] * c[m]
    BY <2>2, <2>3, Zenon
  <2>5. k - 1 = i + m - 1
    BY <2>1
  <2> QED BY <2>1, <2>4, <2>5, Zenon
<1>14. E[i + m] = L[i + m - 1] + (h * u) * X[m]
  BY <1>12, <1>13, Zenon
<1> QED BY <1>7, <1>14, Zenon DEF RowGrows

WordPlaces(n) == [1 .. n -> 0 .. (Word - 1)]

\* The state of a row: the words it is added to, and a carry within the word of y.
Rows(n, y) == [dest : WordPlaces(n), carry : 0 .. y]

AddsTo(s, t, at, x, y) ==
  /\ t.dest = [s.dest EXCEPT ![at] = t.dest[at]]
  /\ t.dest[at] + Word * t.carry = s.dest[at] + x * y + s.carry

LEMMA RowStepExact ==
  ASSUME NEW x \in 0 .. (Word - 1), NEW y \in 0 .. (Word - 1), ~Overrun(x, y),
         NEW n \in Nat, NEW s \in Rows(n, y), NEW at \in 1 .. n,
         NEW t, t = RowStep(s, x, y, at)
  PROVE  t \in Rows(n, y) /\ AddsTo(s, t, at, x, y)
<1>0. PICK w \in Nat : w = Word /\ w > 0
  BY WordPositive
<1>1. PICK d \in [1 .. n -> 0 .. (w - 1)], c \in 0 .. y : s.dest = d /\ s.carry = c
  BY <1>0 DEF Rows, WordPlaces
<1>2. PICK p : p = MulStep(x, y, c)
  OBVIOUS
<1>3. p.word \in 0 .. (w - 1) /\ p.carry \in 0 .. y /\ p.word + w * p.carry = x * y + c
  BY <1>0, <1>2, MulStepExact
<1>4. PICK pw \in 0 .. (w - 1), pc \in 0 .. y : pw = p.word /\ pc = p.carry
  BY <1>3
<1>5. PICK a \in 0 .. (w - 1) : a = d[at]
  OBVIOUS
<1>6. PICK v \in 0 .. (w - 1) : v = IF a + pw < w THEN a + pw ELSE a + pw - w
  <2>1. (IF a + pw < w THEN a + pw ELSE a + pw - w) \in 0 .. (w - 1)
    BY <1>0
  <2> QED BY <2>1
<1>7. (a + pw) % w = v
  <2>1. PICK u \in 0 .. (2 * w - 1) : u = a + pw
    OBVIOUS
  <2>2. u % w = IF u < w THEN u ELSE u - w
    BY <1>0, Wraps
  <2> QED BY <1>6, <2>1, <2>2
<1>8. PICK o \in 0 .. 1 : o = Bit(v < pw) /\ a + pw = v + w * o
  <2>1. w * 0 = 0 /\ w * 1 = w
    OBVIOUS
  <2> QED BY <1>6, <2>1 DEF Bit
<1>9. PICK xy \in Nat, wc \in Nat, wy \in Nat : xy = x * y /\ wc = w * pc /\ wy = w * y
  <2>1. x \in Nat /\ y \in Nat /\ pc \in Nat
    BY <1>0
  <2>2. x * y \in Nat /\ w * pc \in Nat /\ w * y \in Nat
    BY <2>1
  <2> QED BY <2>2
<1>10. pw + wc = xy + c
  BY <1>0, <1>1, <1>3, <1>4, <1>9
<1>11. PICK k \in Nat : k = pc + o
  OBVIOUS
<1>12. w * k = wc + w * o
  BY <1>9, <1>11
<1>13. v + w * k = a + xy + c
  <2>1. PICK wo \in Int, wk \in Int : wo = w * o /\ wk = w * k
    OBVIOUS
  <2>2. a + pw = v + wo /\ wk = wc + wo
    BY <1>8, <1>12, <2>1, Zenon
  <2>3. v + wk = a + xy + c
    BY <1>10, <2>2
  <2> QED BY <2>1, <2>3, Zenon
<1>14. k <= y
  <2>1. xy + y <= wy
    <3>1. (x + 1) * y <= w * y
      <4>1. x + 1 \in Nat /\ y \in Nat /\ x + 1 <= w
        BY <1>0
      <4> QED BY <4>1, ProductBound
    <3>2. (x + 1) * y = x * y + y
      OBVIOUS
    <3> QED BY <1>9, <3>1, <3>2
  <2>2. PICK wk \in Nat : wk = w * k
    <3>1. w * k \in Nat
      OBVIOUS
    <3> QED BY <3>1
  <2>3. wk < wy + w
    <3>1. v + wk = a + xy + c
      BY <1>13, <2>2, Zenon
    <3>2. y \in Nat
      BY <1>0
    <3> QED BY <2>1, <3>1, <3>2
  <2>4. SUFFICES ASSUME k >= y + 1 PROVE FALSE
    BY <1>0
  <2>5. w * k >= w * (y + 1)
    BY <1>0, <2>4
  <2>6. w * (y + 1) = w * y + w
    OBVIOUS
  <2> QED BY <1>9, <2>2, <2>3, <2>5, <2>6
<1>15. k % w = k
  <2>1. k \in 0 .. (w - 1)
    BY <1>0, <1>14
  <2> QED BY <1>0, <2>1
<1>16. t = [dest |-> [d EXCEPT ![at] = v], carry |-> k]
  <2>1. at <= Len(s.dest)
    <3>1. Len(d) = n
      OBVIOUS
    <3> QED BY <1>1, <3>1
  <2>2. at \in DOMAIN d
    OBVIOUS
  <2>3. t = [dest |-> Put(d, at, (d[at] + p.word) % Word),
             carry |-> (p.carry + Bit((d[at] + p.word) % Word < p.word)) % Word]
    BY <1>1, <1>2, <2>1 DEF RowStep
  <2>4. Put(d, at, (d[at] + p.word) % Word) = [d EXCEPT ![at] = v]
    BY <1>0, <1>4, <1>5, <1>7, <2>2 DEF Put
  <2>5. (p.carry + Bit((d[at] + p.word) % Word < p.word)) % Word = k
    BY <1>0, <1>4, <1>5, <1>7, <1>8, <1>11, <1>15
  <2> QED BY <2>3, <2>4, <2>5, Zenon
<1>17. t.dest = [d EXCEPT ![at] = v] /\ t.carry = k /\ t.dest[at] = v
  BY <1>16
<1>18. [d EXCEPT ![at] = v] \in [1 .. n -> 0 .. (w - 1)] /\ k \in 0 .. y
  BY <1>0, <1>14
<1>19. t \in Rows(n, y)
  BY <1>0, <1>16, <1>18 DEF Rows, WordPlaces
<1>20. AddsTo(s, t, at, x, y)
  BY <1>0, <1>1, <1>5, <1>9, <1>13, <1>17 DEF AddsTo
<1> QED BY <1>19, <1>20

\* The state of mul_1.
Products(y) == [dest : Seq(0 .. (Word - 1)), carry : 0 .. y]

LEMMA Mul1StepType ==
  ASSUME NEW x \in 0 .. (Word - 1), NEW y \in 0 .. (Word - 1), ~Overrun(x, y), NEW s \in Products(y)
  PROVE  Mul1Step(s, x, y) \in Products(y)
<1>0. PICK w \in Nat : w = Word /\ w > 0
  BY WordPositive
<1>1. s.dest \in Seq(0 .. (w - 1)) /\ s.carry \in 0 .. y
  BY <1>0 DEF Products
<1>2. PICK p : p = MulStep(x, y, s.carry)
  OBVIOUS
<1>3. p.word \in 0 .. (w - 1) /\ p.carry \in 0 .. y
  BY <1>0, <1>1, <1>2, MulStepExact
<1>4. Append(s.dest, p.word) \in Seq(0 .. (w - 1))
  BY <1>1, <1>3, AppendProperties
<1>5. Mul1Step(s, x, y) = [dest |-> Append(s.dest, p.word), carry |-> p.carry]
  BY <1>2 DEF Mul1Step
<1> QED BY <1>0, <1>3, <1>4, <1>5 DEF Products

\* The loop of mul_1, pass by pass.
LEMMA Mul1Loop ==
  ASSUME NEW n \in Nat, NEW x \in WordPlaces(n), Len(x) = n, NEW y \in 0 .. (Word - 1),
         \A j \in 1 .. n : ~Overrun(x[j], y)
  PROVE  \E h \in [0 .. n -> Products(y)] :
           /\ h[0] = [dest |-> <<>>, carry |-> 0]
           /\ \A i \in 1 .. n : h[i] = Mul1Step(h[i - 1], x[i], y)
           /\ mul_1(x, y) = h[n]
<1> DEFINE D == 1 .. n
           S == Products(y)
           a == [dest |-> <<>>, carry |-> 0]
           l == Loop(1, n)
           g == [p \in Nat \X S |-> IF p[1] \in 1 .. n THEN Mul1Step(p[2], x[p[1]], y) ELSE p[2]]
           Body(F, t) == Mul1Step(F[t \ {Max(t)}], x[l[Max(t)]], y)
           value[t \in SUBSET DOMAIN l] == IF t = {} THEN a ELSE Body(value, t)
<1>1. D = DOMAIN l /\ \A i \in D : l[i] = i
  BY LoopUpTo
<1>2. mul_1(x, y) = value[D]
  BY <1>1 DEF mul_1, FoldLeft, MapThenFoldSet
<1>3. ASSUME NEW i \in 1 .. n, NEW s \in S PROVE Mul1Step(s, x[i], y) \in S
  BY Mul1StepType DEF WordPlaces
<1>4. g \in [Nat \X S -> S]
  <2> HIDE DEF S
  <2> QED BY <1>3
<1>5. \A i \in 1 .. n, s \in S : g[<<i, s>>] = Mul1Step(s, x[i], y)
  <2> TAKE i \in 1 .. n, s \in S
  <2>1. <<i, s>> \in Nat \X S
    OBVIOUS
  <2> QED BY <2>1
<1>6. a \in S
  BY WordPositive DEF Products
<1> HIDE DEF g, S, a, l
<1>7. PICK F \in [SUBSET D -> S] : FoldsLeft(F, n, a, g)
  BY <1>4, <1>6, FoldsLeftExist
<1>8. ASSUME NEW t \in SUBSET D, t # {}
      PROVE  Max(t) \in D /\ t \ {Max(t)} \in SUBSET D /\ l[Max(t)] = Max(t)
  BY <1>1, <1>8, MaxIn
<1>9. ASSUME NEW t \in SUBSET D PROVE F[t] = IF t = {} THEN a ELSE Body(F, t)
  <2>1. F[t] = IF t = {} THEN a ELSE g[<<Max(t), F[t \ {Max(t)}]>>]
    BY <1>7 DEF FoldsLeft
  <2>2. CASE t # {}
    <3>1. Max(t) \in 1 .. n /\ F[t \ {Max(t)}] \in S /\ l[Max(t)] = Max(t)
      BY <1>8, <2>2
    <3>2. g[<<Max(t), F[t \ {Max(t)}]>>] = Body(F, t)
      BY <1>5, <3>1
    <3> QED BY <2>1, <2>2, <3>2
  <2> QED BY <2>1, <2>2
<1>10. F = [t \in SUBSET DOMAIN l |-> IF t = {} THEN a ELSE Body(F, t)]
  <2> HIDE DEF D, Body
  <2>1. F = [t \in SUBSET D |-> F[t]]
    BY <1>7
  <2> QED BY <1>1, <1>9, <2>1
<1>11. value = CHOOSE v : v = [t \in SUBSET DOMAIN l |-> IF t = {} THEN a ELSE Body(v, t)]
  OBVIOUS
<1> HIDE DEF value
<1>12. value = [t \in SUBSET DOMAIN l |-> IF t = {} THEN a ELSE Body(value, t)]
  <2> HIDE DEF Body
  <2> QED BY <1>10, <1>11
<1>13. \A t \in SUBSET D : value[t] = IF t = {} THEN a ELSE Body(value, t)
  <2> HIDE DEF Body, D
  <2> QED BY <1>1, <1>12
<1>14. PICK h : Solves(h, n, S, a, g)
  BY <1>4, <1>6, SolutionExists
<1>15. h \in [0 .. n -> S] /\ h[0] = a
  BY <1>14 DEF Solves
<1>16. ASSUME NEW i \in 1 .. n PROVE h[i] = Mul1Step(h[i - 1], x[i], y)
  <2>1. h[i] = g[<<i, h[i - 1]>>] /\ h[i - 1] \in S
    BY <1>14, <1>15 DEF Solves
  <2> QED BY <1>5, <2>1
<1>17. value[D] = h[n]
  <2>1. value[{}] = h[0]
    BY <1>13, <1>15
  <2>2. ASSUME NEW i \in 1 .. n, value[1 .. (i - 1)] = h[i - 1] PROVE value[1 .. i] = h[i]
    <3>1. /\ i \in Nat /\ 1 .. i \in SUBSET D /\ 1 .. i # {}
          /\ (1 .. i) \ {i} = 1 .. (i - 1) /\ Max(1 .. i) = i
      BY FirstIndices
    <3>2. value[1 .. i] = Body(value, 1 .. i)
      <4> HIDE DEF Body, D
      <4> QED BY <1>13, <3>1
    <3>3. value[1 .. i] = Mul1Step(h[i - 1], x[i], y)
      BY <1>1, <2>2, <3>1, <3>2
    <3> QED BY <1>16, <3>3
  <2>3. Along(value, h, n)
    <3> HIDE DEF Body, D
    <3> QED BY <2>1, <2>2 DEF Along
  <2>4. value[1 .. n] = h[n]
    <3> HIDE DEF Body, D
    <3> QED BY <2>3, AlongPasses
  <2> QED BY <2>4
<1> QED BY <1>2, <1>15, <1>16, <1>17 DEF S, a

\* h is the state of the loop of a row after each pass.
RowStates(h, n, m, x, y, r, u, d) ==
  /\ h \in [0 .. m -> Rows(n, u)] /\ h[0] = [dest |-> d, carry |-> 0]
  /\ \A i \in 1 .. m : h[i] = RowStep(h[i - 1], x[i], y[r], r + i - 1)
  /\ RowLoop(d, x, y, r) = h[m]

\* The loop of a row, pass by pass.
LEMMA RowPasses ==
  ASSUME NEW n \in Nat, NEW m \in Nat, NEW x \in WordPlaces(m), Len(x) = m, NEW y, NEW r \in Nat, r > 0, r + m <= n,
         NEW u \in 0 .. (Word - 1), u = y[r], \A j \in 1 .. m : ~Overrun(x[j], u), NEW d \in WordPlaces(n)
  PROVE  \E h : RowStates(h, n, m, x, y, r, u, d)
<1> DEFINE D == 1 .. m
           S == Rows(n, u)
           a == [dest |-> d, carry |-> 0]
           l == Loop(1, m)
           g == [p \in Nat \X S |-> IF p[1] \in 1 .. m THEN RowStep(p[2], x[p[1]], y[r], r + p[1] - 1) ELSE p[2]]
           Body(F, t) == RowStep(F[t \ {Max(t)}], x[l[Max(t)]], y[r], r + l[Max(t)] - 1)
           value[t \in SUBSET DOMAIN l] == IF t = {} THEN a ELSE Body(value, t)
<1>1. D = DOMAIN l /\ \A i \in D : l[i] = i
  BY LoopUpTo
<1>2. RowLoop(d, x, y, r) = value[D]
  BY <1>1 DEF RowLoop, FoldLeft, MapThenFoldSet
<1>3. ASSUME NEW i \in 1 .. m, NEW s \in S PROVE RowStep(s, x[i], y[r], r + i - 1) \in S
  <2>0. r + i - 1 \in 1 .. n
    OBVIOUS
  <2>1. PICK at \in 1 .. n, v \in 0 .. (Word - 1) : at = r + i - 1 /\ v = x[i]
    BY <2>0 DEF WordPlaces
  <2>2. RowStep(s, v, u, at) \in Rows(n, u)
    BY <2>1, RowStepExact
  <2> QED BY <2>1, <2>2
<1>4. g \in [Nat \X S -> S]
  <2> HIDE DEF S
  <2> QED BY <1>3
<1>5. \A i \in 1 .. m, s \in S : g[<<i, s>>] = RowStep(s, x[i], y[r], r + i - 1)
  <2> TAKE i \in 1 .. m, s \in S
  <2>1. <<i, s>> \in Nat \X S
    OBVIOUS
  <2> QED BY <2>1
<1>6. a \in S
  <2>1. 0 \in 0 .. u
    BY WordPositive
  <2> QED BY <2>1 DEF Rows
<1> HIDE DEF g, S, a, l
<1>7. PICK F \in [SUBSET D -> S] : FoldsLeft(F, m, a, g)
  BY <1>4, <1>6, FoldsLeftExist
<1>8. ASSUME NEW t \in SUBSET D, t # {}
      PROVE  Max(t) \in D /\ t \ {Max(t)} \in SUBSET D /\ l[Max(t)] = Max(t)
  BY <1>1, <1>8, MaxIn
<1>9. ASSUME NEW t \in SUBSET D PROVE F[t] = IF t = {} THEN a ELSE Body(F, t)
  <2>1. F[t] = IF t = {} THEN a ELSE g[<<Max(t), F[t \ {Max(t)}]>>]
    BY <1>7 DEF FoldsLeft
  <2>2. CASE t # {}
    <3>1. Max(t) \in 1 .. m /\ F[t \ {Max(t)}] \in S /\ l[Max(t)] = Max(t)
      BY <1>8, <2>2
    <3>2. g[<<Max(t), F[t \ {Max(t)}]>>] = Body(F, t)
      BY <1>5, <3>1
    <3> QED BY <2>1, <2>2, <3>2
  <2> QED BY <2>1, <2>2
<1>10. F = [t \in SUBSET DOMAIN l |-> IF t = {} THEN a ELSE Body(F, t)]
  <2> HIDE DEF D, Body
  <2>1. F = [t \in SUBSET D |-> F[t]]
    BY <1>7
  <2> QED BY <1>1, <1>9, <2>1
<1>11. value = CHOOSE v : v = [t \in SUBSET DOMAIN l |-> IF t = {} THEN a ELSE Body(v, t)]
  OBVIOUS
<1> HIDE DEF value
<1>12. value = [t \in SUBSET DOMAIN l |-> IF t = {} THEN a ELSE Body(value, t)]
  <2> HIDE DEF Body
  <2> QED BY <1>10, <1>11
<1>13. \A t \in SUBSET D : value[t] = IF t = {} THEN a ELSE Body(value, t)
  <2> HIDE DEF Body, D
  <2> QED BY <1>1, <1>12
<1>14. PICK h : Solves(h, m, S, a, g)
  BY <1>4, <1>6, SolutionExists
<1>15. h \in [0 .. m -> S] /\ h[0] = a
  BY <1>14 DEF Solves
<1>16. ASSUME NEW i \in 1 .. m PROVE h[i] = RowStep(h[i - 1], x[i], y[r], r + i - 1)
  <2>1. h[i] = g[<<i, h[i - 1]>>] /\ h[i - 1] \in S
    BY <1>14, <1>15 DEF Solves
  <2> QED BY <1>5, <2>1
<1>17. value[D] = h[m]
  <2>1. value[{}] = h[0]
    BY <1>13, <1>15
  <2>2. ASSUME NEW i \in 1 .. m, value[1 .. (i - 1)] = h[i - 1] PROVE value[1 .. i] = h[i]
    <3>1. /\ i \in Nat /\ 1 .. i \in SUBSET D /\ 1 .. i # {}
          /\ (1 .. i) \ {i} = 1 .. (i - 1) /\ Max(1 .. i) = i
      BY FirstIndices
    <3>2. value[1 .. i] = Body(value, 1 .. i)
      <4> HIDE DEF Body, D
      <4> QED BY <1>13, <3>1
    <3>3. value[1 .. i] = RowStep(h[i - 1], x[i], y[r], r + i - 1)
      BY <1>1, <2>2, <3>1, <3>2
    <3> QED BY <1>16, <3>3
  <2>3. Along(value, h, m)
    <3> HIDE DEF Body, D
    <3> QED BY <2>1, <2>2 DEF Along
  <2>4. value[1 .. m] = h[m]
    <3> HIDE DEF Body, D
    <3> QED BY <2>3, AlongPasses
  <2> QED BY <2>4
<1> QED BY <1>2, <1>15, <1>16, <1>17 DEF S, a, RowStates

StepFits(x, y, c) ==
  x \in 0 .. (Word - 1) /\ y \in 0 .. (Word - 1) /\ c \in 0 .. y /\ ~Overrun(x, y)

LEMMA StepFitting ==
  ASSUME NEW x, NEW y, NEW c, StepFits(x, y, c), NEW p, p = MulStep(x, y, c)
  PROVE  p.word \in 0 .. (Word - 1) /\ p.word + Word * p.carry = x * y + c
BY MulStepExact DEF StepFits

\* c are the carries with which row is x times y.
IsRow(w, m, x, y, row, c) ==
  /\ c \in [0 .. m -> Int] /\ c[0] = 0 /\ c[m] = row.carry
  /\ \A j \in 1 .. m : row.dest[j] + w * c[j] = x[j] * y + c[j - 1]

LEMMA Mul1Row ==
  ASSUME NEW w \in Nat, w = Word, NEW m \in Nat, NEW x \in WordPlaces(m), Len(x) = m,
         NEW y \in 0 .. (Word - 1), \A j \in 1 .. m : ~Overrun(x[j], y), NEW row, row = mul_1(x, y)
  PROVE  row.dest \in WordPlaces(m) /\ row.carry \in 0 .. y /\ \E c : IsRow(w, m, x, y, row, c)
<1>1. PICK h \in [0 .. m -> Products(y)] :
        /\ h[0] = [dest |-> <<>>, carry |-> 0]
        /\ \A j \in 1 .. m : h[j] = Mul1Step(h[j - 1], x[j], y)
        /\ mul_1(x, y) = h[m]
  BY Mul1Loop
<1> DEFINE Mul(j, v) == h[j].dest = Append(h[j - 1].dest, v) /\ v + w * h[j].carry = x[j] * y + h[j - 1].carry
<1>2. ASSUME NEW j \in 1 .. m PROVE \E v \in 0 .. (w - 1) : Mul(j, v)
  <2>0. j - 1 \in 0 .. m
    OBVIOUS
  <2>1. PICK s : s = h[j - 1] /\ s.carry \in 0 .. y
    BY <1>1, <2>0 DEF Products
  <2>10. PICK c \in 0 .. y : c = s.carry
    BY <2>1
  <2>2. PICK a \in 0 .. (Word - 1) : a = x[j] /\ ~Overrun(a, y)
    BY DEF WordPlaces
  <2>3. PICK p : p = MulStep(a, y, c)
    OBVIOUS
  <2>4. p.word \in 0 .. (Word - 1) /\ p.word + Word * p.carry = a * y + c
    <3>1. StepFits(a, y, c)
      BY <2>2 DEF StepFits
    <3> QED BY <2>3, <3>1, StepFitting
  <2>5. h[j] = [dest |-> Append(s.dest, p.word), carry |-> p.carry]
    BY <1>1, <2>1, <2>2, <2>3, <2>10 DEF Mul1Step
  <2>6. h[j].dest = Append(s.dest, p.word) /\ h[j].carry = p.carry
    BY <2>5
  <2>7. Mul(j, p.word)
    BY <2>1, <2>2, <2>4, <2>6, <2>10, Zenon
  <2> HIDE DEF Mul
  <2> QED BY <2>4, <2>7
<1>3. PICK v \in [1 .. m -> 0 .. (w - 1)] : \A j \in 1 .. m : Mul(j, v[j])
  <2>1. PICK v : v = [j \in 1 .. m |-> CHOOSE u \in 0 .. (w - 1) : Mul(j, u)]
    OBVIOUS
  <2>2. ASSUME NEW j \in 1 .. m PROVE v[j] \in 0 .. (w - 1) /\ Mul(j, v[j])
    <3> HIDE DEF Mul
    <3> QED BY <1>2, <2>1
  <2>3. v \in [1 .. m -> 0 .. (w - 1)]
    <3> HIDE DEF Mul
    <3> QED BY <2>1, <2>2
  <2> HIDE DEF Mul
  <2> QED BY <2>2, <2>3
<1>4. h[m].dest = v
  <2>1. PICK d : d = [j \in 0 .. m |-> h[j].dest]
    OBVIOUS
  <2>2. d[0] = <<>>
    BY <1>1, <2>1
  <2>3. \A j \in 1 .. m : d[j] = Append(d[j - 1], v[j])
    <3> TAKE j \in 1 .. m
    <3>1. d[j] = h[j].dest /\ d[j - 1] = h[j - 1].dest
      BY <2>1
    <3> QED BY <1>3, <3>1
  <2>4. d[m] = v
    <3>1. Appends(d, v, m)
      BY <2>2, <2>3, Zenon DEF Appends
    <3> QED BY <3>1, Appended
  <2> QED BY <2>1, <2>4
<1>5. PICK c : c = [j \in 0 .. m |-> h[j].carry]
  OBVIOUS
<1>6. c \in [0 .. m -> Int] /\ c[0] = 0 /\ c[m] = row.carry /\ row.carry \in 0 .. y
  <2>1. \A j \in 0 .. m : h[j].carry \in 0 .. y
    BY <1>1 DEF Products
  <2>2. \A j \in 0 .. m : h[j].carry \in Int
    BY <2>1
  <2>3. c[m] = h[m].carry /\ c[0] = h[0].carry
    BY <1>5
  <2> HIDE DEF Mul
  <2> QED BY <1>1, <1>5, <2>1, <2>2, <2>3
<1>7. \A j \in 1 .. m : row.dest[j] + w * c[j] = x[j] * y + c[j - 1]
  <2> TAKE j \in 1 .. m
  <2>1. c[j] = h[j].carry /\ c[j - 1] = h[j - 1].carry
    BY <1>5
  <2>2. v[j] + w * h[j].carry = x[j] * y + h[j - 1].carry
    BY <1>3
  <2> HIDE DEF Mul
  <2> QED BY <1>1, <1>4, <2>1, <2>2, Zenon
<1> HIDE DEF Mul
<1>8. IsRow(w, m, x, y, row, c)
  BY <1>6, <1>7 DEF IsRow
<1> QED BY <1>1, <1>3, <1>4, <1>6, <1>8 DEF WordPlaces

\* The first row, on words that are taken for zeroes.
LEMMA FirstRowAdds ==
  ASSUME NEW w \in Nat, w = Word, NEW m \in Nat, NEW n \in Nat, 1 + m <= n,
         NEW x \in WordPlaces(m), Len(x) = m, NEW y, NEW u \in 0 .. (Word - 1), u = y[1],
         \A j \in 1 .. m : ~Overrun(x[j], u),
         NEW d \in WordPlaces(n), NEW zeroes \in [1 .. n -> Int], \A k \in 1 .. n : zeroes[k] = 0,
         NEW e, e = FirstRow(d, x, y)
  PROVE  e \in WordPlaces(n) /\ HasRow(w, 1, m, x, u, zeroes, e)
<1>1. PICK row : row = mul_1(x, u)
  OBVIOUS
<1>2. row.dest \in WordPlaces(m) /\ row.carry \in 0 .. u
  BY <1>1, Mul1Row
<1>3. PICK c : /\ c \in [0 .. m -> Int] /\ c[0] = 0 /\ c[m] = row.carry
               /\ \A j \in 1 .. m : row.dest[j] + w * c[j] = x[j] * u + c[j - 1]
  <2>1. PICK c : IsRow(w, m, x, u, row, c)
    BY <1>1, Mul1Row
  <2> QED BY <2>1 DEF IsRow
<1>4. PICK p \in [1 .. m -> 0 .. (w - 1)], k \in 0 .. (w - 1) : p = row.dest /\ k = row.carry
  <2>1. row.carry \in 0 .. (w - 1)
    BY <1>2
  <2> QED BY <1>2, <2>1 DEF WordPlaces
<1>5. PICK words : words = p \o <<k>>
  OBVIOUS
<1>6. Len(words) = m + 1 /\ words[m + 1] = k /\ \A j \in 1 .. m : words[j] = p[j]
  <2>1. p \in Seq(0 .. (w - 1)) /\ Len(p) = m
    OBVIOUS
  <2>2. words = Append(p, k)
    BY <1>5, <2>1, AppendIsConcat
  <2> QED BY <2>1, <2>2, AppendProperties
<1>7. d \in [1 .. n -> 0 .. (w - 1)] /\ Len(d) = n
  BY DEF WordPlaces
<1>8. e = [j \in 1 .. n |-> IF j <= m + 1 THEN words[j] ELSE d[j]]
  <2>1. Len(x) < Len(d)
    BY <1>7
  <2>2. e = [j \in DOMAIN d |-> IF j <= Len(words) THEN words[j] ELSE d[j]]
    BY <1>1, <1>4, <1>5, <2>1 DEF FirstRow
  <2>3. DOMAIN d = 1 .. n
    BY <1>7
  <2> QED BY <1>6, <2>2, <2>3, Zenon
<1>9. e[m + 1] = k /\ \A j \in 1 .. m : e[j] = p[j]
  <2>1. m + 1 \in 1 .. n /\ \A j \in 1 .. m : j \in 1 .. n /\ j <= m + 1
    OBVIOUS
  <2> QED BY <1>6, <1>8, <2>1
<1>10. e \in [1 .. n -> 0 .. (w - 1)]
  <2>1. ASSUME NEW j \in 1 .. n PROVE (IF j <= m + 1 THEN words[j] ELSE d[j]) \in 0 .. (w - 1)
    <3>1. CASE j = m + 1
      BY <1>6, <3>1
    <3>2. CASE j \in 1 .. m
      BY <1>6, <3>2
    <3>3. CASE j > m + 1
      BY <1>7, <3>3
    <3> QED BY <3>1, <3>2, <3>3
  <2> QED BY <1>8, <2>1
<1>11. AddsRow(w, 1, m, x, u, zeroes, e, c)
  <2>1. \A j \in 1 .. m : e[1 + j - 1] + w * c[j] = zeroes[1 + j - 1] + x[j] * u + c[j - 1]
    <3> TAKE j \in 1 .. m
    <3>1. 1 + j - 1 = j /\ j \in 1 .. n
      OBVIOUS
    <3>2. e[j] + w * c[j] = x[j] * u + c[j - 1]
      BY <1>3, <1>4, <1>9, Zenon
    <3>3. PICK xu \in Int : xu = x[j] * u
      <4>1. x[j] \in Int /\ u \in Int
        BY DEF WordPlaces
      <4> QED BY <4>1
    <3>4. zeroes[j] = 0 /\ 0 + xu = xu
      BY <3>1
    <3> QED BY <3>1, <3>2, <3>3, <3>4, Zenon
  <2>2. e[1 + m] = c[m]
    BY <1>3, <1>4, <1>9
  <2>3. \A j \in 1 .. (1 - 1) : e[j] = zeroes[j]
    OBVIOUS
  <2> QED BY <1>3, <2>1, <2>2, <2>3, Zenon DEF AddsRow
<1> QED BY <1>10, <1>11 DEF WordPlaces, HasRow

\* A row adds to the words it is put on, and is put where no words have been before.
LEMMA RowAdds ==
  ASSUME NEW w \in Nat, w = Word, NEW m \in Nat, NEW n \in Nat, NEW r \in Nat, r > 0, r + m <= n,
         NEW x \in WordPlaces(m), Len(x) = m, NEW y, NEW u \in 0 .. (Word - 1), u = y[r],
         \A j \in 1 .. m : ~Overrun(x[j], u),
         NEW d \in WordPlaces(n), NEW e, e = Row(d, x, y, r)
  PROVE  e \in WordPlaces(n) /\ HasRow(w, r, m, x, u, d, e)
<1>1. PICK h : /\ h \in [0 .. m -> Rows(n, u)] /\ h[0] = [dest |-> d, carry |-> 0]
               /\ \A i \in 1 .. m : h[i] = RowStep(h[i - 1], x[i], y[r], r + i - 1)
               /\ RowLoop(d, x, y, r) = h[m]
  <2>1. PICK h : RowStates(h, n, m, x, y, r, u, d)
    BY RowPasses
  <2> QED BY <2>1 DEF RowStates
<1>2. ASSUME NEW j \in 1 .. m PROVE AddsTo(h[j - 1], h[j], r + j - 1, x[j], u)
  <2>1. PICK s \in Rows(n, u) : s = h[j - 1]
    <3>1. j - 1 \in 0 .. m
      OBVIOUS
    <3> QED BY <1>1, <3>1
  <2>2. r + j - 1 \in 1 .. n
    OBVIOUS
  <2>3. PICK a \in 0 .. (Word - 1), at \in 1 .. n : a = x[j] /\ ~Overrun(a, u) /\ at = r + j - 1
    BY <2>2 DEF WordPlaces
  <2>4. PICK t : t = RowStep(s, a, u, at)
    OBVIOUS
  <2>5. AddsTo(s, t, at, a, u)
    BY <2>3, <2>4, RowStepExact
  <2>6. h[j] = t
    BY <1>1, <2>1, <2>3, <2>4
  <2> QED BY <2>1, <2>3, <2>5, <2>6, Zenon
<1>3. PICK W : W = 0 .. (w - 1)
  OBVIOUS
<1>4. PICK D : D = [j \in 0 .. m |-> h[j].dest]
  OBVIOUS
<1>5. PICK c : c = [j \in 0 .. m |-> h[j].carry]
  OBVIOUS
<1>6. D \in [0 .. m -> [1 .. n -> W]] /\ c \in [0 .. m -> 0 .. u] /\ D[0] = d /\ c[0] = 0
  <2>1. \A j \in 0 .. m : h[j].dest \in [1 .. n -> W] /\ h[j].carry \in 0 .. u
    BY <1>1, <1>3 DEF Rows, WordPlaces
  <2>2. h[0].dest = d /\ h[0].carry = 0
    BY <1>1
  <2>3. D[0] = h[0].dest /\ c[0] = h[0].carry
    BY <1>4, <1>5
  <2> QED BY <1>4, <1>5, <2>1, <2>2, <2>3
<1>7. ASSUME NEW j \in 1 .. m
      PROVE  /\ D[j] = [D[j - 1] EXCEPT ![r + j - 1] = D[j][r + j - 1]]
             /\ D[j][r + j - 1] + w * c[j] = D[j - 1][r + j - 1] + x[j] * u + c[j - 1]
  <2>1. D[j] = h[j].dest /\ D[j - 1] = h[j - 1].dest /\ c[j] = h[j].carry /\ c[j - 1] = h[j - 1].carry
    BY <1>4, <1>5
  <2> QED BY <1>2, <2>1, Zenon DEF AddsTo
\* Before its pass a word is what it was.
<1> DEFINE P == {j \in Nat : \A k \in 1 .. n : ~(r <= k /\ k <= r + j - 1) => D[j][k] = d[k]}
<1>8. \A j \in 0 .. m : j \in P
  <2>1. 0 \in P
    BY <1>6
  <2>2. ASSUME NEW j \in 1 .. m, j - 1 \in P PROVE j \in P
    <3>1. j \in Nat /\ j - 1 \in 0 .. m
      OBVIOUS
    <3>2. D[j - 1] \in [1 .. n -> W]
      BY <1>6, <3>1
    <3>3. ASSUME NEW k \in 1 .. n, ~(r <= k /\ k <= r + j - 1) PROVE D[j][k] = d[k]
      <4>1. k # r + j - 1 /\ ~(r <= k /\ k <= r + (j - 1) - 1)
        BY <3>3
      <4>2. D[j - 1][k] = d[k]
        BY <2>2, <4>1
      <4>3. D[j][k] = D[j - 1][k]
        BY <1>7, <3>2, <4>1
      <4> QED BY <4>2, <4>3
    <3> QED BY <3>1, <3>3
  <2> HIDE DEF P
  <2> QED BY <2>1, <2>2, UpTo
\* After its pass it stays.
<1> DEFINE Q == {j \in Nat : \A k \in 1 .. m : k <= j => D[j][r + k - 1] = D[k][r + k - 1]}
<1>9. \A j \in 0 .. m : j \in Q
  <2>1. 0 \in Q
    OBVIOUS
  <2>2. ASSUME NEW j \in 1 .. m, j - 1 \in Q PROVE j \in Q
    <3>1. j \in Nat /\ j - 1 \in 0 .. m
      OBVIOUS
    <3>2. D[j - 1] \in [1 .. n -> W]
      BY <1>6, <3>1
    <3>3. ASSUME NEW k \in 1 .. m, k <= j PROVE D[j][r + k - 1] = D[k][r + k - 1]
      <4>1. CASE k # j
        <5>1. k <= j - 1 /\ r + k - 1 # r + j - 1 /\ r + k - 1 \in 1 .. n
          BY <3>3, <4>1
        <5>2. D[j - 1][r + k - 1] = D[k][r + k - 1]
          BY <2>2, <5>1
        <5>3. D[j][r + k - 1] = D[j - 1][r + k - 1]
          BY <1>7, <3>2, <5>1
        <5> QED BY <5>2, <5>3
      <4> QED BY <4>1
    <3> QED BY <3>1, <3>3
  <2> HIDE DEF P, Q
  <2> QED BY <2>1, <2>2, UpTo
<1>10. PICK f \in [1 .. n -> W] : f = D[m] /\ f = RowLoop(d, x, y, r).dest /\ c[m] = RowLoop(d, x, y, r).carry
  <2>1. D[m] = h[m].dest /\ c[m] = h[m].carry
    BY <1>4, <1>5
  <2>2. D[m] \in [1 .. n -> W]
    BY <1>6
  <2> HIDE DEF P, Q
  <2> QED BY <1>1, <2>1, <2>2
<1>11. /\ \A j \in 1 .. m : f[r + j - 1] + w * c[j] = d[r + j - 1] + x[j] * u + c[j - 1]
       /\ \A k \in 1 .. (r - 1) : f[k] = d[k]
  <2>1. m \in P /\ m \in Q
    <3>1. m \in 0 .. m
      OBVIOUS
    <3> HIDE DEF P, Q
    <3> QED BY <1>8, <1>9, <3>1
  <2>2. ASSUME NEW j \in 1 .. m PROVE f[r + j - 1] + w * c[j] = d[r + j - 1] + x[j] * u + c[j - 1]
    <3>1. f[r + j - 1] = D[j][r + j - 1]
      <4>1. j <= m
        OBVIOUS
      <4> QED BY <1>10, <2>1, <4>1
    <3>2. D[j - 1][r + j - 1] = d[r + j - 1]
      <4>1. j - 1 \in 0 .. m /\ r + j - 1 \in 1 .. n /\ ~(r + j - 1 <= r + (j - 1) - 1)
        OBVIOUS
      <4>2. j - 1 \in P
        <5> HIDE DEF P
        <5> QED BY <1>8, <4>1
      <4> QED BY <4>1, <4>2
    <3> HIDE DEF P, Q
    <3> QED BY <1>7, <3>1, <3>2, Zenon
  <2>3. ASSUME NEW k \in 1 .. (r - 1) PROVE f[k] = d[k]
    <3>1. k \in 1 .. n /\ ~(r <= k)
      OBVIOUS
    <3> QED BY <1>10, <2>1, <3>1
  <2> HIDE DEF P, Q
  <2> QED BY <2>2, <2>3
<1> HIDE DEF P, Q
<1>12. e = [f EXCEPT ![r + m] = c[m]]
  <2>1. r + m \in DOMAIN f
    OBVIOUS
  <2> QED BY <1>10, <2>1 DEF Row, Put
<1>13. e \in [1 .. n -> W]
  <2>1. c[m] \in W
    <3>1. c[m] \in 0 .. u
      BY <1>6
    <3> QED BY <1>3, <3>1
  <2> QED BY <1>12, <2>1
<1>14. AddsRow(w, r, m, x, u, d, e, c)
  <2>1. \A j \in 1 .. m : e[r + j - 1] = f[r + j - 1]
    <3> TAKE j \in 1 .. m
    <3>1. r + j - 1 \in 1 .. n /\ r + j - 1 # r + m
      OBVIOUS
    <3> QED BY <1>12, <3>1
  <2>2. \A k \in 1 .. (r - 1) : e[k] = f[k]
    <3> TAKE k \in 1 .. (r - 1)
    <3>1. k \in 1 .. n /\ k # r + m
      OBVIOUS
    <3> QED BY <1>12, <3>1
  <2>3. e[r + m] = c[m]
    <3>1. r + m \in 1 .. n
      OBVIOUS
    <3> QED BY <1>12, <3>1
  <2>4. c \in [0 .. m -> Int]
    BY <1>6
  <2>5. \A j \in 1 .. m : e[r + j - 1] + w * c[j] = d[r + j - 1] + x[j] * u + c[j - 1]
    BY <1>11, <2>1, Zenon
  <2>6. \A k \in 1 .. (r - 1) : e[k] = d[k]
    BY <1>11, <2>2, Zenon
  <2> QED BY <1>6, <2>3, <2>4, <2>5, <2>6, Zenon DEF AddsRow
<1> QED BY <1>3, <1>13, <1>14 DEF WordPlaces, HasRow

\* The indices of a loop from 2 to n.
LEMMA LoopFromTwo ==
  ASSUME NEW k \in Nat
  PROVE  DOMAIN Loop(2, k + 1) = 1 .. k /\ \A i \in 1 .. k : Loop(2, k + 1)[i] = i + 1
<1>1. (IF k + 1 < 2 THEN 0 ELSE k + 1 - 2 + 1) = k
  OBVIOUS
<1>2. Loop(2, k + 1) = [i \in 1 .. k |-> 2 + i - 1]
  BY <1>1 DEF Loop
<1> QED BY <1>2

\* h is the state of the loop of mul after each pass.
MulStates(h, n, k, x, y, d) ==
  /\ h \in [0 .. k -> WordPlaces(n)] /\ h[0] = FirstRow(d, x, y)
  /\ \A i \in 1 .. k : h[i] = Row(h[i - 1], x, y, i + 1)
  /\ mul(d, x, y) = h[k]

\* The loop of mul, pass by pass.
LEMMA MulPasses ==
  ASSUME NEW n \in Nat, NEW m \in Nat, NEW k \in Nat, m + k + 1 = n,
         NEW x \in WordPlaces(m), Len(x) = m, NEW y \in WordPlaces(k + 1), Len(y) = k + 1,
         \A j \in 1 .. m, i \in 1 .. (k + 1) : ~Overrun(x[j], y[i]), NEW d \in WordPlaces(n)
  PROVE  \E h : MulStates(h, n, k, x, y, d)
<1> DEFINE D == 1 .. k
           S == WordPlaces(n)
           a == FirstRow(d, x, y)
           l == Loop(2, k + 1)
           g == [p \in Nat \X S |-> IF p[1] \in 1 .. k THEN Row(p[2], x, y, p[1] + 1) ELSE p[2]]
           Body(F, t) == Row(F[t \ {Max(t)}], x, y, l[Max(t)])
           value[t \in SUBSET DOMAIN l] == IF t = {} THEN a ELSE Body(value, t)
<1>1. D = DOMAIN l /\ \A i \in D : l[i] = i + 1
  BY LoopFromTwo
<1>2. mul(d, x, y) = value[D]
  BY <1>1 DEF mul, FoldLeft, MapThenFoldSet
<1>3. ASSUME NEW i \in 1 .. k, NEW s \in S PROVE Row(s, x, y, i + 1) \in S
  <2>1. PICK r \in Nat : r = i + 1 /\ r \in 1 .. (k + 1) /\ r + m <= n
    OBVIOUS
  <2>2. PICK u \in 0 .. (Word - 1) : u = y[r]
    BY <2>1 DEF WordPlaces
  <2>3. PICK e : e = Row(s, x, y, r)
    OBVIOUS
  <2>4. e \in WordPlaces(n)
    <3>1. Word \in Nat /\ r > 0 /\ \A j \in 1 .. m : ~Overrun(x[j], u)
      BY <2>1, <2>2, WordPositive
    <3> QED BY <2>1, <2>2, <2>3, <3>1, RowAdds
  <2> QED BY <2>1, <2>3, <2>4
<1>4. g \in [Nat \X S -> S]
  <2> HIDE DEF S
  <2> QED BY <1>3
<1>5. \A i \in 1 .. k, s \in S : g[<<i, s>>] = Row(s, x, y, i + 1)
  <2> TAKE i \in 1 .. k, s \in S
  <2>1. <<i, s>> \in Nat \X S
    OBVIOUS
  <2> QED BY <2>1
<1>6. a \in S
  <2>1. PICK u \in 0 .. (Word - 1) : u = y[1]
    BY DEF WordPlaces
  <2>2. [j \in 1 .. n |-> 0] \in [1 .. n -> Int] /\ \A j \in 1 .. n : [i \in 1 .. n |-> 0][j] = 0
    OBVIOUS
  <2>3. Word \in Nat /\ 1 + m <= n /\ \A j \in 1 .. m : ~Overrun(x[j], u)
    BY <2>1, WordPositive
  <2>4. PICK w \in Nat, z \in [1 .. n -> Int] : w = Word /\ \A j \in 1 .. n : z[j] = 0
    BY <2>2, <2>3
  <2> QED BY <2>1, <2>3, <2>4, FirstRowAdds
<1> HIDE DEF g, S, a, l
<1>7. PICK F \in [SUBSET D -> S] : FoldsLeft(F, k, a, g)
  BY <1>4, <1>6, FoldsLeftExist
<1>8. ASSUME NEW t \in SUBSET D, t # {}
      PROVE  Max(t) \in D /\ t \ {Max(t)} \in SUBSET D /\ l[Max(t)] = Max(t) + 1
  BY <1>1, <1>8, MaxIn
<1>9. ASSUME NEW t \in SUBSET D PROVE F[t] = IF t = {} THEN a ELSE Body(F, t)
  <2>1. F[t] = IF t = {} THEN a ELSE g[<<Max(t), F[t \ {Max(t)}]>>]
    BY <1>7 DEF FoldsLeft
  <2>2. CASE t # {}
    <3>1. Max(t) \in 1 .. k /\ F[t \ {Max(t)}] \in S /\ l[Max(t)] = Max(t) + 1
      BY <1>8, <2>2
    <3>2. g[<<Max(t), F[t \ {Max(t)}]>>] = Body(F, t)
      BY <1>5, <3>1
    <3> QED BY <2>1, <2>2, <3>2
  <2> QED BY <2>1, <2>2
<1>10. F = [t \in SUBSET DOMAIN l |-> IF t = {} THEN a ELSE Body(F, t)]
  <2> HIDE DEF D, Body
  <2>1. F = [t \in SUBSET D |-> F[t]]
    BY <1>7
  <2> QED BY <1>1, <1>9, <2>1
<1>11. value = CHOOSE v : v = [t \in SUBSET DOMAIN l |-> IF t = {} THEN a ELSE Body(v, t)]
  OBVIOUS
<1> HIDE DEF value
<1>12. value = [t \in SUBSET DOMAIN l |-> IF t = {} THEN a ELSE Body(value, t)]
  <2> HIDE DEF Body
  <2> QED BY <1>10, <1>11
<1>13. \A t \in SUBSET D : value[t] = IF t = {} THEN a ELSE Body(value, t)
  <2> HIDE DEF Body, D
  <2> QED BY <1>1, <1>12
<1>14. PICK h : Solves(h, k, S, a, g)
  BY <1>4, <1>6, SolutionExists
<1>15. h \in [0 .. k -> S] /\ h[0] = a
  BY <1>14 DEF Solves
<1>16. ASSUME NEW i \in 1 .. k PROVE h[i] = Row(h[i - 1], x, y, i + 1)
  <2>1. h[i] = g[<<i, h[i - 1]>>] /\ h[i - 1] \in S
    BY <1>14, <1>15 DEF Solves
  <2> QED BY <1>5, <2>1
<1>17. value[D] = h[k]
  <2>1. value[{}] = h[0]
    BY <1>13, <1>15
  <2>2. ASSUME NEW i \in 1 .. k, value[1 .. (i - 1)] = h[i - 1] PROVE value[1 .. i] = h[i]
    <3>1. /\ i \in Nat /\ 1 .. i \in SUBSET D /\ 1 .. i # {}
          /\ (1 .. i) \ {i} = 1 .. (i - 1) /\ Max(1 .. i) = i
      BY FirstIndices
    <3>2. value[1 .. i] = Body(value, 1 .. i)
      <4> HIDE DEF Body, D
      <4> QED BY <1>13, <3>1
    <3>3. value[1 .. i] = Row(h[i - 1], x, y, i + 1)
      BY <1>1, <2>2, <3>1, <3>2
    <3> QED BY <1>16, <3>3
  <2>3. Along(value, h, k)
    <3> HIDE DEF Body, D
    <3> QED BY <2>1, <2>2 DEF Along
  <2>4. value[1 .. k] = h[k]
    <3> HIDE DEF Body, D
    <3> QED BY <2>3, AlongPasses
  <2> QED BY <2>4
<1> QED BY <1>2, <1>15, <1>16, <1>17 DEF S, a, MulStates

\* Words are numbers.
LEMMA PlacesInt ==
  ASSUME NEW n \in Nat, NEW d \in WordPlaces(n)
  PROVE  d \in [1 .. n -> Int]
<1>1. PICK w \in Nat : w = Word
  BY WordPositive
<1>2. d \in [1 .. n -> 0 .. (w - 1)]
  BY <1>1 DEF WordPlaces
<1> QED BY <1>2

\* What the products of all rows so far have for their value.
LEMMA MulPlaces ==
  ASSUME NEW w \in Nat, w = Word, NEW n \in Nat, NEW m \in Nat, NEW k \in Nat, m + k + 1 = n,
         NEW x \in WordPlaces(m), Len(x) = m, NEW y \in WordPlaces(k + 1), Len(y) = k + 1,
         \A j \in 1 .. m, i \in 1 .. (k + 1) : ~Overrun(x[j], y[i]), NEW d \in WordPlaces(n)
  PROVE  mul(d, x, y) \in WordPlaces(n) /\ Positional(w, mul(d, x, y)) = Positional(w, x) * Positional(w, y)
<1>1. PICK h : /\ h \in [0 .. k -> WordPlaces(n)] /\ h[0] = FirstRow(d, x, y)
               /\ \A i \in 1 .. k : h[i] = Row(h[i - 1], x, y, i + 1)
               /\ mul(d, x, y) = h[k]
  <2>1. PICK h : MulStates(h, n, k, x, y, d)
    BY MulPasses
  <2> QED BY <2>1 DEF MulStates
<1>2. PICK pw : Powers(pw, w, n)
  BY PowersExist
<1>20. \A j \in 0 .. n : pw[j] \in Nat
  BY <1>2 DEF Powers
<1>3. Powers(pw, w, m) /\ Powers(pw, w, k + 1)
  <2>1. (\A j \in 0 .. n : pw[j] \in Nat) /\ pw[0] = 1 /\ \A j \in 1 .. n : pw[j] = w * pw[j - 1]
    BY <1>2 DEF Powers
  <2>2. /\ \A j \in 0 .. m : j \in 0 .. n
        /\ \A j \in 1 .. m : j \in 1 .. n
        /\ \A j \in 0 .. (k + 1) : j \in 0 .. n
        /\ \A j \in 1 .. (k + 1) : j \in 1 .. n
    OBVIOUS
  <2> QED BY <2>1, <2>2, Zenon DEF Powers
<1>4. x \in [1 .. m -> Int] /\ y \in [1 .. (k + 1) -> Int] /\ \A u \in 0 .. (w - 1) : u \in Int
  BY PlacesInt
<1>5. PICK X : Lows(X, pw, x, m)
  <2>1. x \in [1 .. m -> Int]
    BY <1>4
  <2> QED BY <1>3, <2>1, LowsExist
<1>6. PICK Y : Lows(Y, pw, y, k + 1)
  <2>1. k + 1 \in Nat /\ y \in [1 .. (k + 1) -> Int]
    BY <1>4
  <2> QED BY <1>3, <2>1, LowsExist
<1>7. X \in [0 .. m -> Int] /\ Y \in [0 .. (k + 1) -> Int] /\ Y[0] = 0 /\ \A i \in 1 .. (k + 1) : Y[i] = Y[i - 1] + pw[i - 1] * y[i]
  BY <1>5, <1>6 DEF Lows
<1>8. PICK a \in Int : a = X[m]
  BY <1>7
<1> DEFINE P == {i \in Nat : \A L \in [0 .. n -> Int] : Lows(L, pw, h[i], n) => L[i + 1 + m] = a * Y[i + 1]}
<1>9. 0 \in P
  <2> SUFFICES ASSUME NEW E \in [0 .. n -> Int], Lows(E, pw, h[0], n) PROVE E[0 + 1 + m] = a * Y[0 + 1]
    OBVIOUS
  <2>1. PICK e \in WordPlaces(n) : e = h[0] /\ e = FirstRow(d, x, y)
    BY <1>1
  <2>2. PICK u \in 0 .. (Word - 1) : u = y[1] /\ \A j \in 1 .. m : ~Overrun(x[j], u)
    <3>1. 1 \in 1 .. (k + 1)
      OBVIOUS
    <3> QED BY <3>1 DEF WordPlaces
  <2>3. PICK z \in [1 .. n -> Int] : \A j \in 1 .. n : z[j] = 0
    <3>1. [j \in 1 .. n |-> 0] \in [1 .. n -> Int] /\ \A j \in 1 .. n : [i \in 1 .. n |-> 0][j] = 0
      OBVIOUS
    <3> QED BY <3>1
  <2>4. 1 + m <= n
    OBVIOUS
  <2>5. HasRow(w, 1, m, x, u, z, e)
    BY <2>1, <2>2, <2>3, <2>4, FirstRowAdds
  <2>6. PICK L : L = [j \in 0 .. n |-> 0]
    OBVIOUS
  <2>7. Lows(L, pw, z, n)
    <3>1. \A j \in 1 .. n : L[j] = L[j - 1] + pw[j - 1] * z[j]
      <4> TAKE j \in 1 .. n
      <4>1. j - 1 \in 0 .. n /\ j \in 0 .. n
        OBVIOUS
      <4>2. PICK p \in Nat : p = pw[j - 1]
        BY <1>2, <4>1 DEF Powers
      <4>3. 0 = 0 + p * 0
        OBVIOUS
      <4>4. L[j] = 0 /\ L[j - 1] = 0 /\ z[j] = 0
        BY <2>3, <2>6, <4>1
      <4> QED BY <4>2, <4>3, <4>4, Zenon
    <3>2. L \in [0 .. n -> Int] /\ L[0] = 0
      BY <2>6
    <3> QED BY <3>1, <3>2 DEF Lows
  <2>8. E[1 + m] = L[1 + m - 1] + (pw[1 - 1] * u) * X[m]
    <3>1. x \in [1 .. m -> Int] /\ e \in [1 .. n -> Int] /\ u \in Int
      BY <1>4, PlacesInt
    <3>2. 1 \in Nat /\ 1 > 0 /\ Lows(E, pw, e, n)
      BY <2>1
    <3>3. RowGrows(L, E, X, pw, 1, m, u)
      BY <1>2, <1>5, <2>4, <2>5, <2>7, <3>1, <3>2, RowValue
    <3> QED BY <3>3, Zenon DEF RowGrows
  <2>9. L[1 + m - 1] = 0
    BY <2>6
  <2>10. Y[0 + 1] = pw[1 - 1] * u
    <3>1. 1 \in 1 .. (k + 1) /\ 0 \in 0 .. n /\ 1 - 1 = 0 /\ 0 + 1 = 1
      OBVIOUS
    <3>2. Y[1] = Y[1 - 1] + pw[1 - 1] * y[1]
      BY <1>7, <3>1
    <3>3. PICK t \in Int : t = pw[1 - 1] * u
      <4>1. pw[1 - 1] \in Int /\ u \in Int
        BY <1>20, <3>1
      <4> QED BY <4>1
    <3>4. Y[1] = 0 + t
      BY <1>7, <2>2, <3>1, <3>2, <3>3, Zenon
    <3> QED BY <3>3, <3>4
  <2>11. PICK t \in Int : t = pw[1 - 1] * u
    <3>1. 1 - 1 \in 0 .. n
      OBVIOUS
    <3>2. pw[1 - 1] \in Int /\ u \in Int
      BY <1>20, <3>1
    <3> QED BY <3>2
  <2>12. E[1 + m] = 0 + t * a /\ Y[0 + 1] = t /\ 0 + 1 + m = 1 + m
    BY <1>8, <2>8, <2>9, <2>10, <2>11
  <2>13. 0 + t * a = a * t
    OBVIOUS
  <2> QED BY <2>12, <2>13, Zenon
<1>10. ASSUME NEW i \in 1 .. k, i - 1 \in P PROVE i \in P
  <2> SUFFICES ASSUME NEW E \in [0 .. n -> Int], Lows(E, pw, h[i], n) PROVE E[i + 1 + m] = a * Y[i + 1]
    OBVIOUS
  <2>1. PICK r \in Nat : /\ r = i + 1 /\ r > 0 /\ r \in 1 .. (k + 1) /\ r + m <= n /\ i - 1 \in 0 .. k
                         /\ i - 1 + 1 = r - 1 /\ r + m - 1 = r - 1 + m
    OBVIOUS
  <2>2. PICK b \in WordPlaces(n), e \in WordPlaces(n) : b = h[i - 1] /\ e = h[i] /\ e = Row(b, x, y, r)
    BY <1>1, <2>1
  <2>3. PICK u \in 0 .. (Word - 1) : u = y[r] /\ \A j \in 1 .. m : ~Overrun(x[j], u)
    BY <2>1 DEF WordPlaces
  <2>4. HasRow(w, r, m, x, u, b, e)
    <3>1. r > 0 /\ r + m <= n
      BY <2>1
    <3>2. e = Row(b, x, y, r)
      BY <2>2
    <3> QED BY <2>3, <3>1, <3>2, RowAdds
  <2>5. x \in [1 .. m -> Int] /\ b \in [1 .. n -> Int] /\ e \in [1 .. n -> Int] /\ u \in Int
    BY <1>4, PlacesInt
  <2>6. PICK L : Lows(L, pw, b, n)
    BY <1>2, <2>5, LowsExist
  <2>7. E[r + m] = L[r + m - 1] + (pw[r - 1] * u) * X[m]
    <3>1. r > 0 /\ r + m <= n
      BY <2>1
    <3>2. b \in [1 .. n -> Int] /\ e \in [1 .. n -> Int]
      BY <2>5
    <3>3. x \in [1 .. m -> Int] /\ u \in Int
      BY <2>5
    <3>4. Lows(E, pw, e, n)
      BY <2>2, Zenon
    <3>5. RowGrows(L, E, X, pw, r, m, u)
      BY <1>2, <1>5, <2>4, <2>6, <3>1, <3>2, <3>3, <3>4, RowValue
    <3> QED BY <3>5, Zenon DEF RowGrows
  <2>8. L[r - 1 + m] = a * Y[r - 1]
    <3>1. L \in [0 .. n -> Int]
      BY <2>6 DEF Lows
    <3>2. L[i - 1 + 1 + m] = a * Y[i - 1 + 1]
      BY <1>10, <2>2, <2>6, <3>1
    <3> QED BY <2>1, <3>2, Zenon
  <2>9. PICK t \in Int, y0 \in Int : t = pw[r - 1] * u /\ y0 = Y[r - 1]
    <3>1. r - 1 \in 0 .. n /\ r - 1 \in 0 .. (k + 1)
      BY <2>1
    <3>2. PICK p \in Nat : p = pw[r - 1]
      BY <1>2, <3>1 DEF Powers
    <3>3. p * u \in Int
      BY <2>5
    <3>4. Y[r - 1] \in Int
      BY <1>7, <3>1
    <3> QED BY <3>2, <3>3, <3>4
  <2>10. E[r + m] = a * y0 + t * a
    BY <1>8, <2>1, <2>7, <2>8, <2>9, Zenon
  <2>11. Y[r] = y0 + t
    BY <1>7, <2>1, <2>3, <2>9, Zenon
  <2>12. a * y0 + t * a = a * (y0 + t)
    OBVIOUS
  <2> QED BY <2>1, <2>10, <2>11, <2>12, Zenon
<1>11. k \in P
  <2>1. \A i \in 0 .. k : i \in P
    <3> HIDE DEF P
    <3> QED BY <1>9, <1>10, UpTo
  <2>2. k \in 0 .. k
    OBVIOUS
  <2> HIDE DEF P
  <2> QED BY <2>1, <2>2
<1>12. PICK e \in WordPlaces(n) : e = h[k] /\ e = mul(d, x, y)
  BY <1>1
<1>13. PICK E : Lows(E, pw, e, n)
  <2>1. e \in [1 .. n -> Int]
    BY PlacesInt
  <2> QED BY <1>2, <2>1, LowsExist
<1>14. E[n] = a * Y[k + 1]
  <2>1. E \in [0 .. n -> Int] /\ k + 1 + m = n
    BY <1>13 DEF Lows
  <2> QED BY <1>11, <1>12, <1>13, <2>1
<1> HIDE DEF P
<1>15. /\ x \in Seq(Int) /\ Len(x) = m /\ y \in Seq(Int) /\ Len(y) = k + 1 /\ e \in Seq(Int) /\ Len(e) = n
       /\ k + 1 \in Nat
  <2>1. x \in [1 .. m -> Int] /\ y \in [1 .. (k + 1) -> Int] /\ e \in [1 .. n -> Int]
    BY <1>4, PlacesInt
  <2> QED BY <2>1
<1>16. Positional(w, x) = X[m]
  BY <1>3, <1>5, <1>15, LowsValue
<1>17. Positional(w, y) = Y[k + 1]
  BY <1>3, <1>6, <1>15, LowsValue
<1>18. Positional(w, e) = E[n]
  BY <1>2, <1>13, <1>15, LowsValue
<1> QED BY <1>8, <1>12, <1>14, <1>16, <1>17, <1>18, Zenon

-----------------------------------------------------------------------------
(* Numbers modulo their width *)

LEMMA WordPower == Word = 2 ^ WordBits
<1>1. DigitBits \in Nat /\ WordBits = DigitBits + DigitBits
  BY DigitBitsAssumption DEF WordBits
<1>2. 2 ^ (DigitBits + DigitBits) = 2 ^ DigitBits * 2 ^ DigitBits
  BY <1>1, PowerOfSum
<1> QED BY <1>1, <1>2, Zenon DEF Word, Base

LEMMA WordPowers ==
  ASSUME NEW n \in Nat, NEW pw, Powers(pw, Word, n)
  PROVE  pw[n] = 2 ^ (WordBits * n)
<1>1. WordBits \in Nat /\ Word = 2 ^ WordBits
  BY DigitBitsAssumption, WordPower DEF WordBits
<1>2. \A k \in 0 .. n : pw[k] = 2 ^ (WordBits * k)
  BY <1>1, PowersOfTwo
<1> QED BY <1>2

\* The value of n words is below the power of Word of their number.
LEMMA LowsBelow ==
  ASSUME NEW w \in Nat, w = Word, NEW n \in Nat, NEW pw, Powers(pw, w, n), NEW s \in WordPlaces(n),
         NEW L, Lows(L, pw, s, n)
  PROVE  L[n] \in 0 .. (pw[n] - 1)
<1>1. s \in [1 .. n -> 0 .. (w - 1)]
  BY DEF WordPlaces
<1>2. \A k \in 0 .. n : L[k] \in 0 .. (pw[k] - 1)
  BY <1>1, LowsWithin
<1> QED BY <1>2

\* What a word more is worth, and what is left without it.
LEMMA AppendedValue ==
  ASSUME NEW n \in Nat, NEW s \in WordPlaces(n), NEW c \in Int
  PROVE  WordsValue(s) = WordsValue(Append(s, c)) % 2 ^ (WordBits * n)
<1>0. PICK w \in Nat : w = Word
  BY WordPositive
<1>1. PICK pw : Powers(pw, w, n + 1)
  BY PowersExist
<1>2. PICK e : e = Append(s, c)
  OBVIOUS
<1>3. s \in [1 .. n -> Int] /\ s \in Seq(Int) /\ Len(s) = n
  <2>1. s \in [1 .. n -> Int]
    BY PlacesInt
  <2> QED BY <2>1
<1>4. /\ e \in Seq(Int) /\ Len(e) = n + 1 /\ e \in [1 .. (n + 1) -> Int]
      /\ e[n + 1] = c /\ \A k \in 1 .. n : e[k] = s[k]
  <2>1. e \in Seq(Int) /\ Len(e) = n + 1 /\ e[n + 1] = c /\ \A k \in 1 .. n : e[k] = s[k]
    BY <1>2, <1>3, AppendProperties
  <2>2. e \in [1 .. (n + 1) -> Int]
    BY <2>1
  <2> QED BY <2>1, <2>2
<1>5. PICK E : Lows(E, pw, e, n + 1)
  BY <1>0, <1>1, <1>4, LowsExist
<1>6. E \in [0 .. (n + 1) -> Int] /\ E[0] = 0 /\ \A k \in 1 .. (n + 1) : E[k] = E[k - 1] + pw[k - 1] * e[k]
  BY <1>5 DEF Lows
<1>7. Powers(pw, w, n)
  BY <1>1 DEF Powers
<1>8. PICK L : L = [k \in 0 .. n |-> E[k]]
  OBVIOUS
<1>9. Lows(L, pw, s, n)
  <2>1. L \in [0 .. n -> Int]
    BY <1>6, <1>8
  <2>2. L[0] = 0
    BY <1>6, <1>8
  <2>3. ASSUME NEW k \in 1 .. n PROVE L[k] = L[k - 1] + pw[k - 1] * s[k]
    <3>1. L[k] = E[k] /\ L[k - 1] = E[k - 1] /\ e[k] = s[k] /\ k \in 1 .. (n + 1)
      BY <1>4, <1>8
    <3> QED BY <1>6, <3>1, Zenon
  <2> QED BY <2>1, <2>2, <2>3 DEF Lows
<1>16. PICK p \in Nat : p = pw[n]
  <2>1. n \in 0 .. n
    OBVIOUS
  <2> QED BY <1>7, <2>1 DEF Powers
<1>10. PICK v \in 0 .. (p - 1) : v = L[n]
  <2>1. L[n] \in 0 .. (pw[n] - 1)
    BY <1>0, <1>7, <1>9, LowsBelow
  <2> QED BY <1>16, <2>1
<1>11. Positional(w, s) = v
  BY <1>3, <1>7, <1>9, <1>10, LowsValue
<1>12. Positional(w, e) = v + p * c
  <2>1. Positional(w, e) = E[n + 1]
    BY <1>1, <1>4, <1>5, LowsValue
  <2>2. E[n + 1] = E[n] + pw[n] * c
    <3>1. n + 1 \in 1 .. (n + 1) /\ n + 1 - 1 = n
      OBVIOUS
    <3> QED BY <1>4, <1>6, <3>1
  <2>3. E[n] = v
    BY <1>8, <1>10
  <2> QED BY <1>10, <1>16, <2>1, <2>2, <2>3
<1>13. p > 0
  BY <1>10
<1>14. (v + p * c) % p = v
  <2>1. v + p * c = p * c + v
    OBVIOUS
  <2>2. Divided(v + p * c, p, c, v)
    BY <2>1, <1>10 DEF Divided
  <2> QED BY <1>13, <2>2, ByQuotient
<1>15. p = 2 ^ (WordBits * n)
  BY <1>0, <1>7, <1>16, WordPowers
<1> QED BY <1>0, <1>2, <1>11, <1>12, <1>14, <1>15, Zenon DEF WordsValue

\* Numbers of the same length are added modulo their width.
LEMMA AddWraps ==
  ASSUME NEW n \in Nat, NEW x \in Number, NEW y \in Number, Len(x) = n, Len(y) = n
  PROVE  WordsValue(add(x, y, n, FALSE, FALSE).dest)
           = (WordsValue(x) + WordsValue(y)) % 2 ^ (WordBits * n)
<1>1. x \in [1 .. n -> 0 .. (Word - 1)] /\ y \in [1 .. n -> 0 .. (Word - 1)]
  BY WordsInNat
<1>2. PICK h \in [0 .. n -> Sums] :
        /\ h[0] = [dest |-> <<>>, carry |-> 0]
        /\ \A i \in 1 .. n : h[i] = AddStep(h[i - 1], x[i], y[i], Lesser(x[i], y[i]))
        /\ add(x, y, n, FALSE, FALSE) = h[n]
  BY <1>1, AddLoop
<1>3. PICK w \in Nat : w = Word
  BY WordPositive
<1> DEFINE P == {i \in Nat : Len(h[i].dest) = i}
<1>4. 0 \in P
  BY <1>2
<1>5. ASSUME NEW i \in 1 .. n, i - 1 \in P PROVE i \in P
  <2>1. PICK s \in Sums : s = h[i - 1]
    <3>1. i - 1 \in 0 .. n
      OBVIOUS
    <3> QED BY <1>2, <3>1
  <2>2. PICK a \in 0 .. (Word - 1), b \in 0 .. (Word - 1) : a = x[i] /\ b = y[i]
    BY <1>1
  <2>3. PICK t : t = h[i] /\ t = AddStep(s, a, b, Lesser(a, b))
    BY <1>2, <2>1, <2>2
  <2>4. AddsWord(s, t, a, b)
    BY <2>3, AddStepExact
  <2>5. PICK u \in 0 .. (w - 1) : t.dest = Append(s.dest, u)
    BY <1>3, <2>4 DEF AddsWord
  <2>6. s.dest \in Seq(0 .. (w - 1)) /\ Len(s.dest) = i - 1
    BY <1>3, <1>5, <2>1 DEF Sums
  <2>7. Len(t.dest) = i - 1 + 1
    BY <2>5, <2>6, AppendProperties
  <2>8. i - 1 + 1 = i /\ i \in Nat
    OBVIOUS
  <2>9. Len(h[i].dest) = i
    BY <2>3, <2>7, <2>8, Zenon
  <2> QED BY <2>8, <2>9
<1>6. n \in P
  <2> HIDE DEF P
  <2>1. \A i \in 0 .. n : i \in P
    BY <1>4, <1>5, UpTo
  <2>2. n \in 0 .. n
    OBVIOUS
  <2> QED BY <2>1, <2>2
<1>7. PICK sum \in Sums : sum = add(x, y, n, FALSE, FALSE) /\ sum = h[n]
  <2>1. n \in 0 .. n
    OBVIOUS
  <2>2. h[n] \in Sums
    BY <1>2, <2>1
  <2> QED BY <1>2, <2>2
<1>8. sum.dest \in WordPlaces(n) /\ sum.carry \in Int
  <2>1. sum.dest \in Seq(0 .. (w - 1)) /\ sum.carry \in 0 .. 1
    BY <1>3, <1>7 DEF Sums
  <2>2. Len(sum.dest) = n
    BY <1>6, <1>7
  <2>3. sum.dest \in [1 .. n -> 0 .. (w - 1)]
    BY <2>1, <2>2
  <2> QED BY <1>3, <2>1, <2>3 DEF WordPlaces
<1>9. WordsValue(Append(sum.dest, sum.carry)) = WordsValue(x) + WordsValue(y)
  BY <1>7, AddValue
<1>10. WordsValue(sum.dest) = WordsValue(Append(sum.dest, sum.carry)) % 2 ^ (WordBits * n)
  BY <1>8, AppendedValue
<1> QED BY <1>7, <1>9, <1>10, Zenon

\* Words that are a number.
LEMMA PlacesNumber ==
  ASSUME NEW n \in Nat, n > 0, NEW d \in WordPlaces(n)
  PROVE  d \in Number /\ Len(d) = n
<1>1. PICK w \in Nat : w = Word
  BY WordPositive
<1>2. d \in [1 .. n -> 0 .. (w - 1)]
  BY <1>1 DEF WordPlaces
<1>3. d \in Seq(0 .. (w - 1)) /\ Len(d) = n
  BY <1>2
<1>4. d # <<>>
  BY <1>3
<1> QED BY <1>1, <1>3, <1>4 DEF Number

\* Numbers one behind the other.
LEMMA ConcatPlaces ==
  ASSUME NEW x \in Number, NEW y \in Number
  PROVE  y \o x \in WordPlaces(Len(x) + Len(y))
<1>1. PICK w \in Nat : w = Word
  BY WordPositive
<1>2. x \in Seq(0 .. (w - 1)) /\ y \in Seq(0 .. (w - 1)) /\ Len(x) \in Nat /\ Len(y) \in Nat
  BY <1>1, WordsInNat
<1>3. y \o x \in Seq(0 .. (w - 1)) /\ Len(y \o x) = Len(y) + Len(x)
  BY <1>2, ConcatProperties
<1>4. PICK d : d = y \o x
  OBVIOUS
<1>5. d \in Seq(0 .. (w - 1)) /\ Len(d) = Len(x) + Len(y)
  BY <1>2, <1>3, <1>4
<1>6. d \in [1 .. (Len(x) + Len(y)) -> 0 .. (w - 1)]
  BY <1>2, <1>5
<1> QED BY <1>1, <1>4, <1>6 DEF WordPlaces

LEMMA NumberLength ==
  ASSUME NEW x \in Number
  PROVE  \E k \in Nat : k + 1 = Len(x)
<1>1. PICK l \in Nat : l = Len(x) /\ l > 0
  BY WordsInNat
<1>2. l - 1 \in Nat /\ (l - 1) + 1 = l
  BY <1>1
<1> QED BY <1>1, <1>2, Zenon

\* The product of two numbers, and the sum with it.
LEMMA ProductOf ==
  ASSUME NEW x \in Number, NEW y \in Number, ~Overruns(x, y)
  PROVE  /\ WordsValue(mul(y \o x, x, y)) = WordsValue(x) * WordsValue(y)
         /\ WordsValue(mul_add(y \o x, x, y, FALSE))
              = (WordsValue(y \o x) + WordsValue(x) * WordsValue(y)) % 2 ^ (WordBits * (Len(x) + Len(y)))
<1>1. PICK w \in Nat : w = Word
  BY WordPositive
<1>2. PICK m \in Nat : m = Len(x)
  <2>1. PICK j \in Nat : j + 1 = Len(x)
    BY NumberLength
  <2> QED BY <2>1
<1>3. PICK k \in Nat : k + 1 = Len(y)
  BY NumberLength
<1>4. PICK n \in Nat : n = Len(x) + Len(y) /\ m + k + 1 = n /\ n > 0
  BY <1>2, <1>3
<1>5. PICK d \in WordPlaces(n) : d = y \o x
  BY <1>4, ConcatPlaces
<1>6. x \in WordPlaces(m) /\ y \in WordPlaces(k + 1)
  <2>1. x \in [1 .. m -> 0 .. (Word - 1)]
    BY <1>2, WordsInNat
  <2>2. y \in [1 .. (k + 1) -> 0 .. (Word - 1)]
    BY <1>3, WordsInNat
  <2> QED BY <2>1, <2>2 DEF WordPlaces
<1>7. \A j \in 1 .. m, i \in 1 .. (k + 1) : ~Overrun(x[j], y[i])
  <2>1. DOMAIN x = 1 .. m /\ DOMAIN y = 1 .. (k + 1)
    BY <1>6 DEF WordPlaces
  <2>2. \A j \in DOMAIN x, i \in DOMAIN y : ~Overrun(x[j], y[i])
    BY Zenon DEF Overruns
  <2> QED BY <2>1, <2>2, Zenon
<1>8. mul(d, x, y) \in WordPlaces(n) /\ Positional(w, mul(d, x, y)) = Positional(w, x) * Positional(w, y)
  <2>1. w = Word
    BY <1>1
  <2>2. m + k + 1 = n
    BY <1>4
  <2>3. x \in WordPlaces(m)
    BY <1>6
  <2>4. Len(x) = m
    BY <1>2
  <2>5. y \in WordPlaces(k + 1)
    BY <1>6
  <2>6. Len(y) = k + 1
    BY <1>3
  <2> QED BY <2>1, <2>2, <2>3, <2>4, <2>5, <2>6, <1>7, MulPlaces
<1>9. PICK e \in WordPlaces(n) : e = mul(d, x, y)
  BY <1>8
<1>10. WordsValue(e) = WordsValue(x) * WordsValue(y)
  BY <1>1, <1>8, <1>9, Zenon DEF WordsValue
<1>11. d \in Number /\ Len(d) = n /\ e \in Number /\ Len(e) = n
  BY <1>4, PlacesNumber
<1>12. mul_add(d, x, y, FALSE) = add(e, d, n, FALSE, FALSE).dest
  BY <1>9, <1>11, Zenon DEF mul_add
<1>13. WordsValue(add(e, d, n, FALSE, FALSE).dest) = (WordsValue(e) + WordsValue(d)) % 2 ^ (WordBits * n)
  BY <1>11, AddWraps
<1>14. WordsValue(e) + WordsValue(d) = WordsValue(d) + WordsValue(e)
  <2>1. ASSUME NEW z \in Number PROVE WordsValue(z) \in Int
    <3>1. z \in Seq(Int)
      BY WordsInNat
    <3> QED BY <1>1, <3>1, PositionalType DEF WordsValue
  <2>2. WordsValue(e) \in Int /\ WordsValue(d) \in Int
    BY <1>11, <2>1
  <2> QED BY <2>2
<1> QED BY <1>4, <1>5, <1>9, <1>10, <1>12, <1>13, <1>14, Zenon

-----------------------------------------------------------------------------
(* The bits of a word *)

\* What lies above the lowest b bits.
LEMMA ShiftedRight ==
  ASSUME NEW b \in Nat, NEW p, p = 2 ^ b, NEW v, NEW q, NEW r, Divided(v, p, q, r)
  PROVE  Shr(v, b) = q /\ BitAt(v, b) = q % 2
<1>1. p \in Nat /\ p > 0
  BY PowerPositive
<1>2. v \div p = q
  BY <1>1, ByQuotient
<1> QED BY <1>2, Zenon DEF Shr, BitAt

LEMMA BitType ==
  ASSUME NEW v \in Nat, NEW b \in Nat
  PROVE  BitAt(v, b) \in 0 .. 1
<1>1. PICK p \in Nat : p = 2 ^ b /\ p > 0
  BY PowerPositive
<1>2. PICK q : q = v \div p
  OBVIOUS
<1>3. q \in Int
  BY <1>1, <1>2
<1>4. q % 2 \in 0 .. 1
  BY <1>3
<1>5. BitAt(v, b) = q % 2
  BY <1>1, <1>2, Zenon DEF BitAt, Shr
<1> QED BY <1>4, <1>5

\* The bits from l up to below h are set in 2^h - 2^l, and no others.
Ones(h, l) == 2 ^ h - 2 ^ l

LEMMA OnesBits ==
  ASSUME NEW h \in Nat, NEW l \in Nat, l <= h, NEW b \in Nat
  PROVE  BitAt(Ones(h, l), b) = 1 <=> l <= b /\ b < h
<1>1. PICK p \in Nat : p = 2 ^ b /\ p > 0
  BY PowerPositive
<1>2. PICK u \in Nat, v \in Nat : u = 2 ^ h /\ v = 2 ^ l /\ v <= u /\ v > 0
  <2>1. 2 ^ h \in Nat /\ 2 ^ l \in Nat /\ 2 ^ l > 0
    BY PowerPositive
  <2>2. 2 ^ l <= 2 ^ h
    BY PowerGrows
  <2> QED BY <2>1, <2>2
<1>3. Ones(h, l) = u - v
  BY <1>2, Zenon DEF Ones
<1>4. CASE b < l
  <2>1. PICK i \in Nat, j \in Nat : i = h - b /\ j = l - b /\ i > 0 /\ j > 0
    BY <1>4
  <2>2. PICK y \in Nat : 2 ^ i = 2 * y
    BY <2>1, PowerEven
  <2>3. PICK z \in Nat : 2 ^ j = 2 * z
    BY <2>1, PowerEven
  <2>4. u = p * (2 * y)
    <3>1. 2 ^ h = 2 ^ b * 2 ^ (h - b)
      BY <1>4, PowerDown
    <3> QED BY <1>1, <1>2, <2>1, <2>2, <3>1, Zenon
  <2>5. v = p * (2 * z)
    <3>1. 2 ^ l = 2 ^ b * 2 ^ (l - b)
      BY <1>4, PowerDown
    <3> QED BY <1>1, <1>2, <2>1, <2>3, <3>1, Zenon
  <2>6. Divided(Ones(h, l), p, 2 * (y - z), 0)
    <3>1. p * (2 * y) - p * (2 * z) = p * (2 * (y - z)) + 0
      OBVIOUS
    <3>2. 0 \in 0 .. (p - 1) /\ 2 * (y - z) \in Int
      BY <1>1
    <3> QED BY <1>3, <2>4, <2>5, <3>1, <3>2, Zenon DEF Divided
  <2>7. BitAt(Ones(h, l), b) = (2 * (y - z)) % 2
    BY <1>1, <2>6, ShiftedRight
  <2>8. (2 * (y - z)) % 2 = 0
    OBVIOUS
  <2> QED BY <1>4, <2>7, <2>8
<1>5. CASE l <= b /\ b < h
  <2>1. PICK i \in Nat : i = h - b /\ i > 0
    BY <1>5
  <2>2. PICK y \in Nat : y > 0 /\ 2 ^ i = 2 * y
    BY <2>1, PowerEven
  <2>3. u = p * (2 * y)
    <3>1. 2 ^ h = 2 ^ b * 2 ^ (h - b)
      BY <1>5, PowerDown
    <3> QED BY <1>1, <1>2, <2>1, <2>2, <3>1, Zenon
  <2>4. v <= p
    BY <1>1, <1>2, <1>5, PowerGrows
  <2>5. Divided(Ones(h, l), p, 2 * y - 1, p - v)
    <3>1. p * (2 * y) - v = p * (2 * y - 1) + (p - v)
      OBVIOUS
    <3>2. p - v \in 0 .. (p - 1) /\ 2 * y - 1 \in Int
      BY <1>1, <1>2, <2>4
    <3> QED BY <1>3, <2>3, <3>1, <3>2, Zenon DEF Divided
  <2>6. BitAt(Ones(h, l), b) = (2 * y - 1) % 2
    BY <1>1, <2>5, ShiftedRight
  <2>7. (2 * y - 1) % 2 = 1
    OBVIOUS
  <2> QED BY <1>5, <2>6, <2>7
<1>6. CASE h <= b
  <2>1. u <= p
    BY <1>1, <1>2, <1>6, PowerGrows
  <2>2. Divided(Ones(h, l), p, 0, u - v)
    <3>1. u - v = p * 0 + (u - v)
      OBVIOUS
    <3>2. u - v \in 0 .. (p - 1) /\ 0 \in Int
      BY <1>1, <1>2, <2>1
    <3> QED BY <1>3, <3>1, <3>2, Zenon DEF Divided
  <2>3. BitAt(Ones(h, l), b) = 0 % 2
    BY <1>1, <2>2, ShiftedRight
  <2> QED BY <1>6, <2>3
<1> QED BY <1>4, <1>5, <1>6

\* Ones that are shifted to the right, some of them out of the word.
LEMMA OnesRight ==
  ASSUME NEW n \in Nat, NEW c \in Nat, c <= n
  PROVE  Shr(Ones(n, 0), c) = Ones(n - c, 0)
<1>1. PICK p \in Nat : p = 2 ^ c /\ p > 0
  BY PowerPositive
<1>2. PICK k \in Nat : k = n - c
  OBVIOUS
<1>3. PICK u \in Nat : u = 2 ^ k
  BY PowerPositive
<1>4. 2 ^ n = p * u
  <2>1. 2 ^ n = 2 ^ c * 2 ^ (n - c)
    BY PowerDown
  <2> QED BY <1>1, <1>2, <1>3, <2>1, Zenon
<1>5. Ones(n, 0) = p * u - 1 /\ Ones(k, 0) = u - 1
  BY <1>3, <1>4, PowerOfZero, Zenon DEF Ones
<1>6. Divided(Ones(n, 0), p, u - 1, p - 1)
  <2>1. p * u - 1 = p * (u - 1) + (p - 1)
    OBVIOUS
  <2>2. p - 1 \in 0 .. (p - 1) /\ u - 1 \in Int
    BY <1>1
  <2> QED BY <1>5, <2>1, <2>2, Zenon DEF Divided
<1>7. Shr(Ones(n, 0), c) = u - 1
  BY <1>1, <1>6, ShiftedRight
<1> QED BY <1>2, <1>5, <1>7, Zenon

\* Ones that are shifted to the right within the word.
LEMMA OnesDown ==
  ASSUME NEW h \in Nat, NEW l \in Nat, l <= h, NEW c \in Nat, c <= l
  PROVE  Shr(Ones(h, l), c) = Ones(h - c, l - c)
<1>1. PICK p \in Nat : p = 2 ^ c /\ p > 0
  BY PowerPositive
<1>2. PICK i \in Nat, j \in Nat : i = h - c /\ j = l - c
  OBVIOUS
<1>3. PICK u \in Nat, v \in Nat : u = 2 ^ i /\ v = 2 ^ j
  BY PowerPositive
<1>4. 2 ^ h = p * u
  <2>1. 2 ^ h = 2 ^ c * 2 ^ (h - c)
    BY PowerDown
  <2> QED BY <1>1, <1>2, <1>3, <2>1, Zenon
<1>5. 2 ^ l = p * v
  <2>1. 2 ^ l = 2 ^ c * 2 ^ (l - c)
    BY PowerDown
  <2> QED BY <1>1, <1>2, <1>3, <2>1, Zenon
<1>6. Ones(h, l) = p * u - p * v /\ Ones(i, j) = u - v
  BY <1>3, <1>4, <1>5, Zenon DEF Ones
<1>7. Divided(Ones(h, l), p, u - v, 0)
  <2>1. p * u - p * v = p * (u - v) + 0
    OBVIOUS
  <2>2. 0 \in 0 .. (p - 1) /\ u - v \in Int
    BY <1>1
  <2> QED BY <1>6, <2>1, <2>2, Zenon DEF Divided
<1>8. Shr(Ones(h, l), c) = u - v
  BY <1>1, <1>7, ShiftedRight
<1> QED BY <1>2, <1>6, <1>8, Zenon

LEMMA WordBitsType == WordBits \in Nat /\ WordBits > 0
BY DigitBitsAssumption DEF WordBits

\* Ones that are shifted to the left, up to the end of the word or beyond.
LEMMA OnesLeft ==
  ASSUME NEW n \in Nat, n = WordBits, NEW m \in Nat, NEW c \in Nat, c <= n, m + c >= n
  PROVE  Shl(Ones(m, 0), c) = Ones(n, c)
<1>1. PICK p \in Nat : p = 2 ^ c /\ p > 0
  BY PowerPositive
<1>2. PICK k \in Nat : k = m + c - n
  OBVIOUS
<1>3. PICK u \in Nat : u = 2 ^ k
  BY PowerPositive
<1>4. PICK w \in Nat : w = 2 ^ n /\ w > 0 /\ w = Word
  BY PowerPositive, WordPower
<1>5. PICK v \in Nat : v = 2 ^ m
  BY PowerPositive
<1>6. v * p = w * u
  <2>1. 2 ^ (m + c) = 2 ^ m * 2 ^ c
    BY PowerOfSum
  <2>2. n <= m + c /\ m + c \in Nat
    OBVIOUS
  <2>3. 2 ^ (m + c) = 2 ^ n * 2 ^ (m + c - n)
    BY <2>2, PowerDown
  <2> QED BY <1>1, <1>2, <1>3, <1>4, <1>5, <2>1, <2>3, Zenon
<1>7. p <= w
  BY <1>1, <1>4, PowerGrows
<1>8. Ones(m, 0) = v - 1 /\ Ones(n, c) = w - p
  BY <1>1, <1>4, <1>5, PowerOfZero, Zenon DEF Ones
<1>9. Divided((v - 1) * p, w, u - 1, w - p)
  <2>1. (v - 1) * p = v * p - p
    OBVIOUS
  <2>2. w * u - p = w * (u - 1) + (w - p)
    OBVIOUS
  <2>3. w - p \in 0 .. (w - 1) /\ u - 1 \in Int
    BY <1>1, <1>4, <1>7
  <2> QED BY <1>6, <2>1, <2>2, <2>3, Zenon DEF Divided
<1>10. ((v - 1) * p) % w = w - p
  BY <1>4, <1>9, ByQuotient
<1> QED BY <1>1, <1>4, <1>8, <1>10, Zenon DEF Shl

\* Places in words of n bits are ordered as their words are, then as they are in the word.
LEMMA PlacesOrdered ==
  ASSUME NEW n \in Nat, NEW w \in Nat, NEW q \in Nat, NEW b \in 0 .. (n - 1), NEW r \in 0 .. (n - 1)
  PROVE  n * w + b <= n * q + r <=> w < q \/ (w = q /\ b <= r)
<1>1. CASE w < q
  <2>1. PICK t \in Nat : q = w + 1 + t
    <3>1. q - w - 1 \in Nat /\ q = w + 1 + (q - w - 1)
      BY <1>1
    <3> QED BY <3>1
  <2>2. n * (w + 1 + t) = n * w + n + n * t
    OBVIOUS
  <2>3. PICK c \in Nat, d \in Nat : c = n * w /\ d = n * t
    <3>1. n * w \in Nat /\ n * t \in Nat
      OBVIOUS
    <3> QED BY <3>1
  <2>4. c + b <= c + n + d + r
    OBVIOUS
  <2>5. n * w + b <= n * q + r
    BY <2>1, <2>2, <2>3, <2>4
  <2> QED BY <1>1, <2>5
<1>2. CASE w = q
  <2>1. PICK c \in Nat : c = n * w /\ c = n * q
    <3>1. n * w \in Nat
      OBVIOUS
    <3> QED BY <1>2, <3>1
  <2>2. c + b <= c + r <=> b <= r
    OBVIOUS
  <2> QED BY <1>2, <2>1, <2>2
<1>3. CASE q < w
  <2>1. PICK t \in Nat : w = q + 1 + t
    <3>1. w - q - 1 \in Nat /\ w = q + 1 + (w - q - 1)
      BY <1>3
    <3> QED BY <3>1
  <2>2. n * (q + 1 + t) = n * q + n + n * t
    OBVIOUS
  <2>3. PICK c \in Nat, d \in Nat : c = n * q /\ d = n * t
    <3>1. n * q \in Nat /\ n * t \in Nat
      OBVIOUS
    <3> QED BY <3>1
  <2>4. ~(c + n + d + b <= c + r)
    OBVIOUS
  <2>5. ~(n * w + b <= n * q + r)
    BY <2>1, <2>2, <2>3, <2>4
  <2> QED BY <1>3, <2>5
<1> QED BY <1>1, <1>2, <1>3

\* A word of ones is one less than Word.
LEMMA AllOnes == Word - 1 = Ones(WordBits, 0) /\ Ones(0, 0) = 0
<1>1. 2 ^ 0 = 1
  BY PowerOfZero
<1>2. Word - 1 = 2 ^ WordBits - 2 ^ 0
  BY <1>1, WordPower, Zenon
<1>3. Ones(0, 0) = 1 - 1
  BY <1>1, Zenon DEF Ones
<1> QED BY <1>2, <1>3 DEF Ones

\* The mask of a word: in a range within one word, in the highest word of a range, in
\* the lowest one, between them and outside.
LEMMA MaskWithin ==
  ASSUME NEW n \in Nat, n = WordBits, n > 0, NEW r \in 0 .. (n - 1), NEW s \in 0 .. (n - 1), s <= r
  PROVE  Shr(Shl(Shr(Word - 1, s), n - r - 1 + s), n - r - 1) = Ones(r + 1, s)
<1>1. PICK t \in Nat : t = n - r - 1 /\ n - r - 1 + s = t + s /\ t + s \in Nat /\ t + s <= n /\ n - s \in Nat
  OBVIOUS
<1>2. Shr(Word - 1, s) = Ones(n - s, 0)
  <2>1. s \in Nat /\ s <= n
    OBVIOUS
  <2>2. Shr(Ones(n, 0), s) = Ones(n - s, 0)
    BY <2>1, OnesRight
  <2> QED BY <2>2, AllOnes
<1>3. Shl(Ones(n - s, 0), t + s) = Ones(n, t + s)
  <2>1. (n - s) + (t + s) >= n
    BY <1>1
  <2> QED BY <1>1, <2>1, OnesLeft
<1>4. Shr(Ones(n, t + s), t) = Ones(n - t, t + s - t)
  <2>1. t + s <= n /\ t <= t + s
    BY <1>1
  <2> QED BY <1>1, <2>1, OnesDown
<1>5. n - t = r + 1 /\ t + s - t = s
  BY <1>1
<1> QED BY <1>1, <1>2, <1>3, <1>4, <1>5, Zenon

LEMMA MaskHighest ==
  ASSUME NEW n \in Nat, n = WordBits, n > 0, NEW r \in 0 .. (n - 1)
  PROVE  Shr(Shl(Word - 1, n - r - 1), n - r - 1) = Ones(r + 1, 0)
<1>1. PICK t \in Nat : t = n - r - 1 /\ t <= n
  OBVIOUS
<1>2. Shl(Ones(n, 0), t) = Ones(n, t)
  <2>1. n + t >= n
    OBVIOUS
  <2> QED BY <1>1, <2>1, OnesLeft
<1>3. Shr(Ones(n, t), t) = Ones(n - t, t - t)
  <2>1. t <= t
    OBVIOUS
  <2> QED BY <1>1, <2>1, OnesDown
<1>4. n - t = r + 1 /\ t - t = 0
  BY <1>1
<1> QED BY <1>1, <1>2, <1>3, <1>4, AllOnes, Zenon

LEMMA MaskLowest ==
  ASSUME NEW n \in Nat, n = WordBits, n > 0, NEW s \in 0 .. (n - 1)
  PROVE  Shl(Shr(Word - 1, s), s) = Ones(n, s)
<1>1. s \in Nat /\ s <= n /\ n - s \in Nat /\ (n - s) + s >= n
  OBVIOUS
<1>2. Shr(Ones(n, 0), s) = Ones(n - s, 0)
  BY <1>1, OnesRight
<1>3. Shl(Ones(n - s, 0), s) = Ones(n, s)
  BY <1>1, OnesLeft
<1> QED BY <1>2, <1>3, AllOnes, Zenon

\* The mask of word w is the ones from l up to below h, which are the places of the range
\* that lie in the word.
MaskOf(w, mark1, mark2, h, l) ==
  /\ RangeMask(w, mark1, mark2) = Ones(h, l) /\ l <= h
  /\ \A b \in 0 .. (WordBits - 1) :
       (l <= b /\ b < h) <=> (mark2 <= WordBits * w + b /\ WordBits * w + b <= mark1)

LEMMA MaskExact ==
  ASSUME NEW mark1 \in Nat, NEW mark2 \in Nat, mark2 <= mark1, NEW w \in Nat
  PROVE  \E h \in Nat, l \in Nat : MaskOf(w, mark1, mark2, h, l)
<1>1. PICK n \in Nat : n = WordBits /\ n > 0
  BY WordBitsType
<1>2. PICK q1 \in Nat, r1 \in 0 .. (n - 1) : q1 = mark1 \div n /\ r1 = mark1 % n /\ mark1 = n * q1 + r1
  BY <1>1, PlaceParts
<1>3. PICK q2 \in Nat, r2 \in 0 .. (n - 1) : q2 = mark2 \div n /\ r2 = mark2 % n /\ mark2 = n * q2 + r2
  BY <1>1, PlaceParts
<1>4. q2 < q1 \/ (q2 = q1 /\ r2 <= r1)
  BY <1>2, <1>3, PlacesOrdered
<1>5. ASSUME NEW b \in 0 .. (n - 1)
      PROVE  (mark2 <= n * w + b /\ n * w + b <= mark1)
               <=> ((q2 < w \/ (q2 = w /\ r2 <= b)) /\ (w < q1 \/ (w = q1 /\ b <= r1)))
  <2>1. n * w + b <= n * q1 + r1 <=> w < q1 \/ (w = q1 /\ b <= r1)
    BY PlacesOrdered
  <2>2. n * q2 + r2 <= n * w + b <=> q2 < w \/ (q2 = w /\ r2 <= b)
    BY PlacesOrdered
  <2> QED BY <1>2, <1>3, <2>1, <2>2, Zenon
<1>6. PICK mask : mask = RangeMask(w, mark1, mark2)
  OBVIOUS
<1>7. mask = CASE w = q1 /\ w = q2 -> Shr(Shl(Shr(Word - 1, r2), n - r1 - 1 + r2), n - r1 - 1)
               [] w = q1 /\ w # q2 -> Shr(Shl(Word - 1, n - r1 - 1), n - r1 - 1)
               [] w = q2 /\ w # q1 -> Shl(Shr(Word - 1, r2), r2)
               [] w \in (q2 + 1) .. (q1 - 1) -> Word - 1
               [] OTHER -> 0
  BY <1>1, <1>2, <1>3, <1>6 DEF RangeMask
<1> DEFINE Is(h, l) == /\ mask = Ones(h, l) /\ l <= h
                       /\ \A b \in 0 .. (n - 1) :
                            (l <= b /\ b < h) <=> ( /\ q2 < w \/ (q2 = w /\ r2 <= b)
                                                    /\ w < q1 \/ (w = q1 /\ b <= r1) )
<1>8. \E h \in Nat, l \in Nat : Is(h, l)
  <2>1. CASE w = q1 /\ w = q2
    <3>1. r2 <= r1
      BY <1>4, <2>1
    <3>2. mask = Ones(r1 + 1, r2)
      <4>1. Shr(Shl(Shr(Word - 1, r2), n - r1 - 1 + r2), n - r1 - 1) = Ones(r1 + 1, r2)
        BY <1>1, <3>1, MaskWithin
      <4> QED BY <1>7, <2>1, <4>1
    <3>3. Is(r1 + 1, r2) /\ r1 + 1 \in Nat /\ r2 \in Nat
      BY <2>1, <3>1, <3>2
    <3> QED BY <3>3
  <2>2. CASE w = q1 /\ w # q2
    <3>1. mask = Ones(r1 + 1, 0)
      <4>1. Shr(Shl(Word - 1, n - r1 - 1), n - r1 - 1) = Ones(r1 + 1, 0)
        BY <1>1, MaskHighest
      <4> QED BY <1>7, <2>2, <4>1
    <3>2. Is(r1 + 1, 0) /\ r1 + 1 \in Nat
      BY <1>4, <2>2, <3>1
    <3> QED BY <3>2
  <2>3. CASE w = q2 /\ w # q1
    <3>1. mask = Ones(n, r2)
      <4>1. Shl(Shr(Word - 1, r2), r2) = Ones(n, r2)
        BY <1>1, MaskLowest
      <4> QED BY <1>7, <2>3, <4>1
    <3>2. Is(n, r2) /\ r2 \in Nat
      BY <1>4, <2>3, <3>1
    <3> QED BY <3>2
  <2>4. CASE w # q1 /\ w # q2 /\ w \in (q2 + 1) .. (q1 - 1)
    <3>1. mask = Ones(n, 0)
      <4>1. Word - 1 = Ones(n, 0)
        BY <1>1, AllOnes
      <4> QED BY <1>7, <2>4, <4>1
    <3>2. Is(n, 0)
      BY <1>4, <2>4, <3>1
    <3> QED BY <3>2
  <2>5. CASE w # q1 /\ w # q2 /\ w \notin (q2 + 1) .. (q1 - 1)
    <3>1. mask = Ones(0, 0)
      <4>1. mask = 0
        BY <1>7, <2>5
      <4> QED BY <4>1, AllOnes
    <3>2. w < q2 \/ w > q1
      BY <2>5
    <3>3. Is(0, 0)
      BY <1>4, <3>1, <3>2
    <3> QED BY <3>3
  <2> QED BY <2>1, <2>2, <2>3, <2>4, <2>5
<1>9. PICK h \in Nat, l \in Nat : Is(h, l)
  BY <1>8
<1>10. \A b \in 0 .. (n - 1) : (l <= b /\ b < h) <=> (mark2 <= n * w + b /\ n * w + b <= mark1)
  BY <1>5, <1>9, Zenon
<1>11. mask = Ones(h, l) /\ l <= h
  BY <1>9
<1> HIDE DEF Is
<1> QED BY <1>1, <1>6, <1>10, <1>11, Zenon DEF MaskOf

-----------------------------------------------------------------------------
(* Words under a mask *)

\* The indices of a loop over n bits, which are counted from 0.
LEMMA LoopFromZero ==
  ASSUME NEW n \in Nat
  PROVE  DOMAIN Loop(0, n - 1) = 1 .. n /\ \A i \in 1 .. n : Loop(0, n - 1)[i] = i - 1
<1>1. (IF n - 1 < 0 THEN 0 ELSE n - 1 - 0 + 1) = n
  OBVIOUS
<1>2. Loop(0, n - 1) = [i \in 1 .. n |-> 0 + i - 1]
  BY <1>1 DEF Loop
<1> QED BY <1>2

LEMMA MaskedBitType ==
  ASSUME NEW word \in Nat, NEW mask, NEW on, NEW b \in Nat
  PROVE  MaskedBit(word, mask, on, b) \in 0 .. 1
<1>1. BitAt(word, b) \in 0 .. 1
  BY BitType
<1>2. Bit(on) \in 0 .. 1
  BY DEF Bit
<1> QED BY <1>1, <1>2 DEF MaskedBit

\* h is the sum of the bits of a word under a mask, bit by bit.
BitSums(h, n, word, mask, on) ==
  /\ h \in [0 .. n -> Nat] /\ h[0] = 0
  /\ \A i \in 1 .. n : h[i] = MaskedStep(h[i - 1], word, mask, on, i - 1)
  /\ Masked(word, mask, on) = h[n]

\* The loop over the bits of a word, pass by pass.
LEMMA MaskedPasses ==
  ASSUME NEW n \in Nat, n = WordBits, NEW word \in Nat, NEW mask, NEW on
  PROVE  \E h : BitSums(h, n, word, mask, on)
<1> DEFINE D == 1 .. n
           S == Nat
           a == 0
           l == Loop(0, n - 1)
           g == [p \in Nat \X S |-> IF p[1] \in 1 .. n THEN MaskedStep(p[2], word, mask, on, p[1] - 1)
                                                        ELSE p[2]]
           Body(F, t) == MaskedStep(F[t \ {Max(t)}], word, mask, on, l[Max(t)])
           value[t \in SUBSET DOMAIN l] == IF t = {} THEN a ELSE Body(value, t)
<1>1. D = DOMAIN l /\ \A i \in D : l[i] = i - 1
  BY LoopFromZero
<1>2. Masked(word, mask, on) = value[D]
  BY <1>1 DEF Masked, FoldLeft, MapThenFoldSet
<1>3. ASSUME NEW i \in 1 .. n, NEW s \in S PROVE MaskedStep(s, word, mask, on, i - 1) \in S
  <2>1. i - 1 \in Nat
    OBVIOUS
  <2>2. PICK p \in Nat, c \in Nat : p = 2 ^ (i - 1) /\ c = MaskedBit(word, mask, on, i - 1)
    <3>1. 2 ^ (i - 1) \in Nat /\ MaskedBit(word, mask, on, i - 1) \in 0 .. 1
      BY <2>1, PowerPositive, MaskedBitType
    <3> QED BY <3>1
  <2>3. s + p * c \in Nat
    OBVIOUS
  <2>4. MaskedStep(s, word, mask, on, i - 1) = s + p * c
    BY <2>2, Zenon DEF MaskedStep
  <2> QED BY <2>3, <2>4
<1>4. g \in [Nat \X S -> S]
  <2> HIDE DEF S
  <2> QED BY <1>3
<1>5. \A i \in 1 .. n, s \in S : g[<<i, s>>] = MaskedStep(s, word, mask, on, i - 1)
  <2> TAKE i \in 1 .. n, s \in S
  <2>1. <<i, s>> \in Nat \X S
    OBVIOUS
  <2> QED BY <2>1
<1>6. a \in S
  OBVIOUS
<1> HIDE DEF g, S, a, l
<1>7. PICK F \in [SUBSET D -> S] : FoldsLeft(F, n, a, g)
  BY <1>4, <1>6, FoldsLeftExist
<1>8. ASSUME NEW t \in SUBSET D, t # {}
      PROVE  Max(t) \in D /\ t \ {Max(t)} \in SUBSET D /\ l[Max(t)] = Max(t) - 1
  BY <1>1, <1>8, MaxIn
<1>9. ASSUME NEW t \in SUBSET D PROVE F[t] = IF t = {} THEN a ELSE Body(F, t)
  <2>1. F[t] = IF t = {} THEN a ELSE g[<<Max(t), F[t \ {Max(t)}]>>]
    BY <1>7 DEF FoldsLeft
  <2>2. CASE t # {}
    <3>1. Max(t) \in 1 .. n /\ F[t \ {Max(t)}] \in S /\ l[Max(t)] = Max(t) - 1
      BY <1>8, <2>2
    <3>2. g[<<Max(t), F[t \ {Max(t)}]>>] = Body(F, t)
      BY <1>5, <3>1
    <3> QED BY <2>1, <2>2, <3>2
  <2> QED BY <2>1, <2>2
<1>10. F = [t \in SUBSET DOMAIN l |-> IF t = {} THEN a ELSE Body(F, t)]
  <2> HIDE DEF D, Body
  <2>1. F = [t \in SUBSET D |-> F[t]]
    BY <1>7
  <2> QED BY <1>1, <1>9, <2>1
<1>11. value = CHOOSE v : v = [t \in SUBSET DOMAIN l |-> IF t = {} THEN a ELSE Body(v, t)]
  OBVIOUS
<1> HIDE DEF value
<1>12. value = [t \in SUBSET DOMAIN l |-> IF t = {} THEN a ELSE Body(value, t)]
  <2> HIDE DEF Body
  <2> QED BY <1>10, <1>11
<1>13. \A t \in SUBSET D : value[t] = IF t = {} THEN a ELSE Body(value, t)
  <2> HIDE DEF Body, D
  <2> QED BY <1>1, <1>12
<1>14. PICK h : Solves(h, n, S, a, g)
  BY <1>4, <1>6, SolutionExists
<1>15. h \in [0 .. n -> S] /\ h[0] = a
  BY <1>14 DEF Solves
<1>16. ASSUME NEW i \in 1 .. n PROVE h[i] = MaskedStep(h[i - 1], word, mask, on, i - 1)
  <2>1. h[i] = g[<<i, h[i - 1]>>] /\ h[i - 1] \in S
    BY <1>14, <1>15 DEF Solves
  <2> QED BY <1>5, <2>1
<1>17. value[D] = h[n]
  <2>1. value[{}] = h[0]
    BY <1>13, <1>15
  <2>2. ASSUME NEW i \in 1 .. n, value[1 .. (i - 1)] = h[i - 1] PROVE value[1 .. i] = h[i]
    <3>1. /\ i \in Nat /\ 1 .. i \in SUBSET D /\ 1 .. i # {}
          /\ (1 .. i) \ {i} = 1 .. (i - 1) /\ Max(1 .. i) = i
      BY FirstIndices
    <3>2. value[1 .. i] = Body(value, 1 .. i)
      <4> HIDE DEF Body, D
      <4> QED BY <1>13, <3>1
    <3>3. value[1 .. i] = MaskedStep(h[i - 1], word, mask, on, i - 1)
      BY <1>1, <2>2, <3>1, <3>2
    <3> QED BY <1>16, <3>3
  <2>3. Along(value, h, n)
    <3> HIDE DEF Body, D
    <3> QED BY <2>1, <2>2 DEF Along
  <2>4. value[1 .. n] = h[n]
    <3> HIDE DEF Body, D
    <3> QED BY <2>3, AlongPasses
  <2> QED BY <2>4
<1> QED BY <1>2, <1>15, <1>16, <1>17 DEF S, a, BitSums

\* Above the sum of b bits lie bit b and the bits behind it.
LEMMA BitRecovered ==
  ASSUME NEW n \in Nat, n = WordBits, NEW word \in Nat, NEW mask, NEW on, NEW b \in 0 .. (n - 1)
  PROVE  BitAt(Masked(word, mask, on), b) = MaskedBit(word, mask, on, b)
<1>1. PICK h : /\ h \in [0 .. n -> Nat] /\ h[0] = 0
               /\ \A i \in 1 .. n : h[i] = MaskedStep(h[i - 1], word, mask, on, i - 1)
               /\ Masked(word, mask, on) = h[n]
  <2>1. PICK h : BitSums(h, n, word, mask, on)
    BY MaskedPasses
  <2> QED BY <2>1 DEF BitSums
<1>2. ASSUME NEW i \in 1 .. n
      PROVE  \E p \in Nat, c \in 0 .. 1, s \in Nat :
               /\ p = 2 ^ (i - 1) /\ c = MaskedBit(word, mask, on, i - 1) /\ s = h[i - 1]
               /\ h[i] = s + p * c /\ 2 ^ i = 2 * p
  <2>1. PICK j \in Nat : j = i - 1 /\ i = j + 1 /\ j \in 0 .. n
    OBVIOUS
  <2>2. PICK p \in Nat : p = 2 ^ j
    BY PowerPositive
  <2>3. PICK c \in 0 .. 1 : c = MaskedBit(word, mask, on, j)
    BY MaskedBitType
  <2>4. PICK s \in Nat : s = h[j]
    BY <1>1, <2>1
  <2>5. h[i] = MaskedStep(s, word, mask, on, j)
    BY <1>1, <2>1, <2>4
  <2>6. h[i] = s + p * c
    BY <2>2, <2>3, <2>5, Zenon DEF MaskedStep
  <2>7. 2 ^ (j + 1) = 2 * 2 ^ j
    BY PowerNext
  <2>8. 2 ^ i = 2 * p
    BY <2>1, <2>2, <2>7, Zenon
  <2> QED BY <2>1, <2>2, <2>3, <2>4, <2>6, <2>8
<1> DEFINE P == {i \in Nat : h[i] \in 0 .. (2 ^ i - 1)}
<1>3. 0 \in P
  BY <1>1, PowerOfZero
<1>4. ASSUME NEW i \in 1 .. n, i - 1 \in P PROVE i \in P
  <2>1. PICK p \in Nat, c \in 0 .. 1, s \in Nat :
               /\ p = 2 ^ (i - 1) /\ c = MaskedBit(word, mask, on, i - 1) /\ s = h[i - 1]
               /\ h[i] = s + p * c /\ 2 ^ i = 2 * p
    BY <1>2
  <2>2. s \in 0 .. (p - 1)
    BY <1>4, <2>1
  <2>3. p * c \in 0 .. p
    <3>1. c = 0 \/ c = 1
      OBVIOUS
    <3>2. p * 0 = 0 /\ p * 1 = p
      OBVIOUS
    <3> QED BY <3>1, <3>2
  <2>4. PICK d \in 0 .. p : d = p * c
    BY <2>3
  <2>5. s + d \in 0 .. (2 * p - 1)
    BY <2>2
  <2>6. h[i] \in 0 .. (2 ^ i - 1)
    BY <2>1, <2>4, <2>5, Zenon
  <2> QED BY <2>6
<1>5. b \in P
  <2> HIDE DEF P
  <2>1. \A i \in 0 .. n : i \in P
    BY <1>3, <1>4, UpTo
  <2>2. b \in 0 .. n
    OBVIOUS
  <2> QED BY <2>1, <2>2
<1>6. PICK e \in 0 .. 1 : e = MaskedBit(word, mask, on, b)
  <2>1. b \in Nat
    OBVIOUS
  <2> QED BY <2>1, MaskedBitType
<1>7. PICK p \in Nat : p = 2 ^ b /\ p > 0
  <2>1. b \in Nat
    OBVIOUS
  <2> QED BY <2>1, PowerPositive
<1>8. PICK low \in 0 .. (p - 1) : low = h[b]
  BY <1>5, <1>7
<1> DEFINE Q == {j \in Nat : \E t \in Nat : h[b + 1 + j] = p * (e + 2 * t) + low}
<1>9. 0 \in Q
  <2>1. PICK i \in 1 .. n : i = b + 1 /\ i - 1 = b /\ b + 1 + 0 = i
    OBVIOUS
  <2>2. h[i] = low + p * e
    BY <1>2, <1>6, <1>7, <1>8, <2>1
  <2>3. low + p * e = p * (e + 2 * 0) + low
    OBVIOUS
  <2>4. 0 \in Nat /\ h[b + 1 + 0] = p * (e + 2 * 0) + low
    BY <2>1, <2>2, <2>3, Zenon
  <2> QED BY <2>4
<1>10. PICK m \in Nat : m = n - b - 1 /\ b + 1 + m = n
  OBVIOUS
<1>11. ASSUME NEW j \in 1 .. m, j - 1 \in Q PROVE j \in Q
  <2>1. PICK t \in Nat : h[b + 1 + (j - 1)] = p * (e + 2 * t) + low
    BY <1>11
  <2>2. PICK i \in 1 .. n : i = b + 1 + j /\ i - 1 = b + 1 + (j - 1) /\ b + 1 + j = i
    BY <1>10
  <2>3. PICK c \in 0 .. 1 : h[i] = h[i - 1] + 2 ^ (i - 1) * c
    BY <1>2
  <2>4. PICK k \in Nat, a \in Nat : k = i - 1 - (b + 1) /\ a = b + 1 /\ a <= i - 1 /\ i - 1 \in Nat /\ b \in Nat
    BY <2>2
  <2>5. PICK r \in Nat : r = 2 ^ k
    BY PowerPositive
  <2>6. 2 ^ (i - 1) = (2 * p) * r
    <3>1. 2 ^ (i - 1) = 2 ^ a * 2 ^ (i - 1 - a)
      BY <2>4, PowerDown
    <3>2. 2 ^ (b + 1) = 2 * 2 ^ b
      BY <2>4, PowerNext
    <3> QED BY <1>7, <2>4, <2>5, <3>1, <3>2, Zenon
  <2>7. h[i] = (p * (e + 2 * t) + low) + ((2 * p) * r) * c
    BY <2>1, <2>2, <2>3, <2>6, Zenon
  <2>8. (p * (e + 2 * t) + low) + ((2 * p) * r) * c = p * (e + 2 * (t + r * c)) + low
    <3>1. ((2 * p) * r) * c = p * (2 * (r * c))
      OBVIOUS
    <3>2. p * (e + 2 * t) + p * (2 * (r * c)) = p * (e + 2 * (t + r * c))
      OBVIOUS
    <3>3. PICK u \in Int, v \in Int, z \in Int :
            u = p * (e + 2 * t) /\ v = p * (2 * (r * c)) /\ z = p * (e + 2 * (t + r * c))
      OBVIOUS
    <3>4. (u + low) + v = (u + v) + low
      OBVIOUS
    <3> QED BY <3>1, <3>2, <3>3, <3>4, Zenon
  <2>9. PICK z \in Nat : z = t + r * c
    OBVIOUS
  <2>10. h[b + 1 + j] = p * (e + 2 * z) + low
    BY <2>2, <2>7, <2>8, <2>9, Zenon
  <2>11. \E q \in Nat : h[b + 1 + j] = p * (e + 2 * q) + low
    BY <2>10, Zenon
  <2>12. j \in Nat
    OBVIOUS
  <2> QED BY <2>11, <2>12, Zenon
<1>12. PICK t \in Nat : h[n] = p * (e + 2 * t) + low
  <2> HIDE DEF Q
  <2>1. \A j \in 0 .. m : j \in Q
    BY <1>9, <1>11, UpTo
  <2>2. m \in Q
    BY <2>1
  <2> USE DEF Q
  <2> QED BY <1>10, <2>2
<1>13. Divided(h[n], p, e + 2 * t, low)
  BY <1>12 DEF Divided
<1>14. BitAt(h[n], b) = (e + 2 * t) % 2
  <2>1. b \in Nat
    OBVIOUS
  <2> QED BY <1>7, <1>13, <2>1, ShiftedRight
<1>15. (e + 2 * t) % 2 = e
  OBVIOUS
<1> QED BY <1>1, <1>6, <1>14, <1>15, Zenon

\* A range of bits of a number that is set or cleared, bit by bit.
LEMMA RangeBits ==
  ASSUME NEW x \in Number, NEW mark1 \in Nat, NEW mark2 \in Nat, mark2 <= mark1,
         NEW index \in 0 .. (WordBits * Len(x) - 1)
  PROVE  /\ get(set(x, mark1, mark2), index) <=> (index \in mark2 .. mark1 \/ get(x, index))
         /\ get(clear(x, mark1, mark2), index) <=> (index \notin mark2 .. mark1 /\ get(x, index))
<1>1. PICK n \in Nat : n = WordBits /\ n > 0
  BY WordBitsType
<1>2. PICK m \in Nat : m = Len(x)
  BY WordsInNat
<1>3. index \in Nat /\ index < n * m
  <2>1. PICK c \in Nat : c = n * m
    <3>1. n * m \in Nat
      OBVIOUS
    <3> QED BY <3>1
  <2>2. index \in 0 .. (c - 1)
    BY <1>1, <1>2, <2>1
  <2> QED BY <2>1, <2>2
<1>4. PICK w \in Nat, b \in 0 .. (n - 1) : w = index \div n /\ b = index % n /\ index = n * w + b
  BY <1>1, <1>3, PlaceParts
<1>5. w + 1 \in 1 .. m
  <2>1. 0 \in 0 .. (n - 1)
    BY <1>1
  <2>2. n * m + 0 <= n * w + b <=> m < w \/ (m = w /\ 0 <= b)
    BY <2>1, PlacesOrdered
  <2>3. PICK c \in Nat, d \in Nat : c = n * m /\ d = n * w
    <3>1. n * m \in Nat /\ n * w \in Nat
      OBVIOUS
    <3> QED BY <3>1
  <2>4. ~(c + 0 <= d + b)
    BY <1>3, <1>4, <2>3
  <2> QED BY <2>2, <2>3, <2>4
<1>6. PICK word \in Nat : word = x[w + 1]
  <2>1. x \in [1 .. m -> 0 .. (Word - 1)]
    BY <1>2, WordsInNat
  <2>2. PICK u \in 0 .. (Word - 1) : u = x[w + 1]
    BY <1>5, <2>1
  <2>3. u \in Nat
    OBVIOUS
  <2> QED BY <2>2, <2>3
<1>7. PICK mask : mask = RangeMask(w, mark1, mark2)
  OBVIOUS
<1>8. BitAt(mask, b) = 1 <=> index \in mark2 .. mark1
  <2>1. PICK h \in Nat, l \in Nat : MaskOf(w, mark1, mark2, h, l)
    BY MaskExact
  <2>2. /\ mask = Ones(h, l) /\ l <= h
        /\ (l <= b /\ b < h) <=> (mark2 <= n * w + b /\ n * w + b <= mark1)
    BY <1>1, <1>7, <2>1, Zenon DEF MaskOf
  <2>3. BitAt(mask, b) = 1 <=> l <= b /\ b < h
    <3>1. b \in Nat
      OBVIOUS
    <3> QED BY <2>2, <3>1, OnesBits
  <2>4. index \in mark2 .. mark1 <=> (mark2 <= index /\ index <= mark1)
    BY <1>3
  <2> QED BY <1>4, <2>2, <2>3, <2>4, Zenon
<1>9. BitAt(word, b) \in 0 .. 1
  <2>1. b \in Nat
    OBVIOUS
  <2> QED BY <2>1, BitType
<1>10. DOMAIN x = 1 .. m
  BY <1>2, WordsInNat
<1>11. w + 1 - 1 = w
  OBVIOUS
<1>12. get(x, index) <=> BitAt(word, b) = 1
  BY <1>1, <1>4, <1>6, Zenon DEF get
<1>13. get(set(x, mark1, mark2), index) <=> MaskedBit(word, mask, TRUE, b) = 1
  <2>1. set(x, mark1, mark2)[w + 1] = Masked(word, mask, TRUE)
    <3>1. set(x, mark1, mark2)[w + 1] = Masked(x[w + 1], RangeMask(w + 1 - 1, mark1, mark2), TRUE)
      BY <1>5, <1>10 DEF set
    <3> QED BY <1>6, <1>7, <1>11, <3>1, Zenon
  <2>2. BitAt(Masked(word, mask, TRUE), b) = MaskedBit(word, mask, TRUE, b)
    <3>1. PICK on : on = TRUE
      OBVIOUS
    <3>2. BitAt(Masked(word, mask, on), b) = MaskedBit(word, mask, on, b)
      BY <1>1, BitRecovered
    <3> QED BY <3>1, <3>2, Zenon
  <2> QED BY <1>1, <1>4, <2>1, <2>2, Zenon DEF get
<1>14. get(clear(x, mark1, mark2), index) <=> MaskedBit(word, mask, FALSE, b) = 1
  <2>1. clear(x, mark1, mark2)[w + 1] = Masked(word, mask, FALSE)
    <3>1. clear(x, mark1, mark2)[w + 1] = Masked(x[w + 1], RangeMask(w + 1 - 1, mark1, mark2), FALSE)
      BY <1>5, <1>10 DEF clear
    <3> QED BY <1>6, <1>7, <1>11, <3>1, Zenon
  <2>2. BitAt(Masked(word, mask, FALSE), b) = MaskedBit(word, mask, FALSE, b)
    <3>1. PICK on : on = FALSE
      OBVIOUS
    <3>2. BitAt(Masked(word, mask, on), b) = MaskedBit(word, mask, on, b)
      BY <1>1, BitRecovered
    <3> QED BY <3>1, <3>2, Zenon
  <2> QED BY <1>1, <1>4, <2>1, <2>2, Zenon DEF get
<1>15. MaskedBit(word, mask, TRUE, b) = 1 <=> BitAt(mask, b) = 1 \/ BitAt(word, b) = 1
  BY DEF MaskedBit, Bit
<1>16. MaskedBit(word, mask, FALSE, b) = 1 <=> BitAt(mask, b) # 1 /\ BitAt(word, b) = 1
  BY DEF MaskedBit, Bit
<1> QED BY <1>8, <1>12, <1>13, <1>14, <1>15, <1>16, Zenon

-----------------------------------------------------------------------------
(* Numbers in digits *)

LEMMA BasePowers ==
  /\ BasePower(0) = 1
  /\ \A n \in Nat : /\ BasePower(n) \in Nat /\ BasePower(n) > 0
                    /\ BasePower(n + 1) = Base * BasePower(n)
<1>1. DigitBits \in Nat
  BY DigitBitsAssumption
<1>2. BasePower(0) = 1
  <2>1. DigitBits * 0 = 0
    BY <1>1
  <2> QED BY <2>1, PowerOfZero DEF BasePower
<1>3. ASSUME NEW n \in Nat
      PROVE  BasePower(n) \in Nat /\ BasePower(n) > 0 /\ BasePower(n + 1) = Base * BasePower(n)
  <2>1. PICK c \in Nat : c = DigitBits * n
    BY <1>1
  <2>2. DigitBits * (n + 1) = DigitBits + c
    BY <1>1, <2>1
  <2>3. 2 ^ (DigitBits + c) = 2 ^ DigitBits * 2 ^ c
    BY <1>1, PowerOfSum
  <2>4. BasePower(n + 1) = Base * BasePower(n)
    BY <2>1, <2>2, <2>3, Zenon DEF BasePower, Base
  <2>5. BasePower(n) \in Nat /\ BasePower(n) > 0
    BY <2>1, PowerPositive DEF BasePower
  <2> QED BY <2>4, <2>5
<1> QED BY <1>2, <1>3

LEMMA BasePowerSum ==
  ASSUME NEW a \in Nat, NEW b \in Nat
  PROVE  BasePower(a + b) = BasePower(a) * BasePower(b)
<1>1. PICK f \in Nat, g \in Nat : f = DigitBits * a /\ g = DigitBits * b
  <2>1. DigitBits * a \in Nat /\ DigitBits * b \in Nat
    BY DigitBitsAssumption
  <2> QED BY <2>1
<1>2. DigitBits * (a + b) = f + g
  BY <1>1, DigitBitsAssumption
<1>3. 2 ^ (f + g) = 2 ^ f * 2 ^ g
  BY PowerOfSum
<1> QED BY <1>1, <1>2, <1>3, Zenon DEF BasePower

LEMMA BasePowersPowers ==
  ASSUME NEW n \in Nat
  PROVE  Powers([i \in Nat |-> BasePower(i)], Base, n)
<1>1. PICK pw : pw = [i \in Nat |-> BasePower(i)]
  OBVIOUS
<1>2. pw[0] = 1 /\ \A k \in 0 .. n : pw[k] \in Nat
  BY <1>1, BasePowers
<1>3. ASSUME NEW k \in 1 .. n PROVE pw[k] = Base * pw[k - 1]
  <2>1. k \in Nat /\ k - 1 \in Nat /\ (k - 1) + 1 = k
    OBVIOUS
  <2>2. BasePower((k - 1) + 1) = Base * BasePower(k - 1)
    BY <2>1, BasePowers
  <2>3. pw[k] = BasePower(k) /\ pw[k - 1] = BasePower(k - 1)
    BY <1>1, <2>1
  <2> QED BY <2>1, <2>2, <2>3, Zenon
<1> QED BY <1>1, <1>2, <1>3 DEF Powers

\* Digits in n places, and the value of the lowest k of them.
ApDigits(n) == [1 .. n -> 0 .. (Base - 1)]
LowPart(d, k) == (CHOOSE L : Lows(L, [i \in Nat |-> BasePower(i)], d, Len(d)))[k]

LEMMA ApDigitsType ==
  ASSUME NEW n \in Nat, NEW d \in ApDigits(n)
  PROVE  /\ d \in [1 .. n -> Int] /\ d \in [1 .. n -> Nat]
         /\ d \in Seq(Int) /\ d \in Seq(0 .. (Base - 1)) /\ Len(d) = n
<1>1. PICK B \in Nat : B = Base
  BY BasePositive
<1>2. d \in [1 .. n -> 0 .. (B - 1)]
  BY <1>1 DEF ApDigits
<1>3. d \in Seq(0 .. (B - 1)) /\ Len(d) = n /\ d \in Seq(Int)
  BY <1>2
<1>4. d \in [1 .. n -> Int] /\ d \in [1 .. n -> Nat]
  BY <1>2
<1> QED BY <1>1, <1>3, <1>4

LEMMA LowPartLows ==
  ASSUME NEW n \in Nat, NEW d \in [1 .. n -> Int]
  PROVE  /\ Len(d) = n /\ d \in Seq(Int)
         /\ \E L : /\ Lows(L, [i \in Nat |-> BasePower(i)], d, n)
                   /\ \A k : LowPart(d, k) = L[k]
<1>1. Len(d) = n /\ d \in Seq(Int)
  OBVIOUS
<1>2. PICK pw : pw = [i \in Nat |-> BasePower(i)]
  OBVIOUS
<1>3. \E L : Lows(L, pw, d, n)
  BY <1>2, BasePositive, BasePowersPowers, LowsExist
<1>4. PICK L : L = CHOOSE M : Lows(M, pw, d, n)
  OBVIOUS
<1>5. Lows(L, pw, d, n)
  BY <1>3, <1>4, Zenon
<1>6. \A k : LowPart(d, k) = L[k]
  BY <1>1, <1>2, <1>4, Zenon DEF LowPart
<1> QED BY <1>1, <1>2, <1>5, <1>6, Zenon

\* Value is Positional.
LEMMA ValuePositional == \A d : Value(d) = Positional(Base, d)
BY DEF Value, Positional

LEMMA LowParts ==
  ASSUME NEW n \in Nat, NEW d \in [1 .. n -> Int]
  PROVE  /\ LowPart(d, 0) = 0 /\ Value(d) = LowPart(d, n)
         /\ \A k \in 0 .. n : LowPart(d, k) \in Int
         /\ \A k \in 1 .. n : LowPart(d, k) = LowPart(d, k - 1) + BasePower(k - 1) * d[k]
<1>1. PICK pw : pw = [i \in Nat |-> BasePower(i)]
  OBVIOUS
<1>2. PICK L : Lows(L, pw, d, n) /\ \A k : LowPart(d, k) = L[k]
  BY <1>1, LowPartLows
<1>3. L \in [0 .. n -> Int] /\ L[0] = 0 /\ \A k \in 1 .. n : L[k] = L[k - 1] + pw[k - 1] * d[k]
  BY <1>2 DEF Lows
<1>4. \A k \in 1 .. n : pw[k - 1] = BasePower(k - 1)
  BY <1>1
<1>5. Positional(Base, d) = L[n]
  <2>1. Powers(pw, Base, n)
    BY <1>1, BasePowersPowers
  <2> QED BY <1>2, <2>1, BasePositive, LowPartLows, LowsValue
<1>6. Value(d) = LowPart(d, n)
  BY <1>2, <1>5, ValuePositional
<1>7. \A k \in 0 .. n : LowPart(d, k) \in Int
  BY <1>2, <1>3
<1>8. ASSUME NEW k \in 1 .. n PROVE LowPart(d, k) = LowPart(d, k - 1) + BasePower(k - 1) * d[k]
  <2>1. L[k] = L[k - 1] + pw[k - 1] * d[k]
    BY <1>3
  <2> QED BY <1>2, <1>4, <2>1, Zenon
<1> QED BY <1>2, <1>3, <1>6, <1>7, <1>8

\* The lowest k digits make up less than the power of k; and the others a multiple of it.
LEMMA LowPartBelow ==
  ASSUME NEW n \in Nat, NEW d \in ApDigits(n), NEW k \in 0 .. n
  PROVE  LowPart(d, k) \in 0 .. (BasePower(k) - 1)
<1>1. PICK pw : pw = [i \in Nat |-> BasePower(i)]
  OBVIOUS
<1>2. d \in [1 .. n -> Int]
  BY ApDigitsType
<1>3. PICK L : Lows(L, pw, d, n) /\ \A i : LowPart(d, i) = L[i]
  BY <1>1, <1>2, LowPartLows
<1>4. PICK B \in Nat : B = Base
  BY BasePositive
<1>5. Powers(pw, B, n) /\ d \in [1 .. n -> 0 .. (B - 1)]
  BY <1>1, <1>4, BasePowersPowers DEF ApDigits
<1>6. L[k] \in 0 .. (pw[k] - 1)
  BY <1>3, <1>5, LowsWithin
<1>7. pw[k] = BasePower(k)
  BY <1>1
<1> QED BY <1>3, <1>6, <1>7, Zenon

LEMMA LowPartAbove ==
  ASSUME NEW n \in Nat, NEW d \in ApDigits(n), NEW k \in 0 .. n
  PROVE  \E q \in Nat : Value(d) = LowPart(d, k) + BasePower(k) * q
<1>1. PICK pw : pw = [i \in Nat |-> BasePower(i)]
  OBVIOUS
<1>2. d \in [1 .. n -> Int] /\ d \in [1 .. n -> Nat]
  BY ApDigitsType
<1>3. PICK L : Lows(L, pw, d, n) /\ \A i : LowPart(d, i) = L[i]
  BY <1>1, <1>2, LowPartLows
<1>4. Powers(pw, Base, n) /\ Base \in Nat
  BY <1>1, BasePowersPowers, BasePositive
<1>5. PICK q \in Nat : L[n] = L[k] + pw[k] * q
  BY <1>2, <1>3, <1>4, LowsAbove
<1>6. pw[k] = BasePower(k)
  BY <1>1
<1>7. Value(d) = L[n]
  BY <1>2, <1>3, LowParts
<1>8. Value(d) = LowPart(d, k) + BasePower(k) * q
  BY <1>3, <1>5, <1>6, <1>7, Zenon
<1> QED BY <1>8

\* A number in digits.
LEMMA ValueBelow ==
  ASSUME NEW n \in Nat, NEW d \in ApDigits(n)
  PROVE  Value(d) \in Nat /\ Value(d) < BasePower(n)
<1>1. n \in 0 .. n /\ d \in [1 .. n -> Int]
  BY ApDigitsType
<1>2. LowPart(d, n) \in 0 .. (BasePower(n) - 1)
  BY <1>1, LowPartBelow
<1>3. PICK p \in Nat : p = BasePower(n)
  BY BasePowers
<1>4. Value(d) = LowPart(d, n)
  BY <1>1, LowParts
<1> QED BY <1>2, <1>3, <1>4

\* Equal digits make up equal numbers.
LEMMA LowPartSame ==
  ASSUME NEW n \in Nat, NEW m \in Nat, NEW d \in [1 .. n -> Int], NEW e \in [1 .. m -> Int],
         NEW k \in Nat, k <= n, k <= m, \A i \in 1 .. k : d[i] = e[i]
  PROVE  LowPart(d, k) = LowPart(e, k)
<1> DEFINE P == {i \in Nat : LowPart(d, i) = LowPart(e, i)}
<1>1. 0 \in P
  BY LowParts
<1>2. ASSUME NEW i \in 1 .. k, i - 1 \in P PROVE i \in P
  <2>1. i \in 1 .. n /\ i \in 1 .. m /\ i \in Nat
    OBVIOUS
  <2>2. LowPart(d, i) = LowPart(d, i - 1) + BasePower(i - 1) * d[i]
    BY <2>1, LowParts
  <2>3. LowPart(e, i) = LowPart(e, i - 1) + BasePower(i - 1) * e[i]
    BY <2>1, LowParts
  <2>4. d[i] = e[i] /\ LowPart(d, i - 1) = LowPart(e, i - 1)
    BY <1>2
  <2>5. LowPart(d, i) = LowPart(e, i)
    BY <2>2, <2>3, <2>4, Zenon
  <2> QED BY <2>1, <2>5
<1>3. \A i \in 0 .. k : i \in P
  <2> HIDE DEF P
  <2> QED BY <1>1, <1>2, UpTo
<1>4. k \in P
  <2>1. k \in 0 .. k
    OBVIOUS
  <2> HIDE DEF P
  <2> QED BY <1>3, <2>1
<1> QED BY <1>4

\* What another digit in one place changes.
LEMMA DigitChanged ==
  ASSUME NEW n \in Nat, NEW d \in [1 .. n -> Int], NEW i \in 1 .. n, NEW x \in Int
  PROVE  Value([d EXCEPT ![i] = x]) = Value(d) + BasePower(i - 1) * (x - d[i])
<1>1. PICK e : e = [d EXCEPT ![i] = x]
  OBVIOUS
<1>2. e \in [1 .. n -> Int] /\ e[i] = x /\ \A k \in 1 .. n : k # i => e[k] = d[k]
  BY <1>1
<1>3. PICK p \in Nat : p = BasePower(i - 1)
  <2>1. i - 1 \in Nat
    OBVIOUS
  <2> QED BY <2>1, BasePowers
<1>4. PICK y \in Int, c \in Int : y = d[i] /\ c = p * (x - y)
  <2>1. d[i] \in Int
    OBVIOUS
  <2>2. PICK y \in Int : y = d[i]
    BY <2>1
  <2>3. p * (x - y) \in Int
    OBVIOUS
  <2> QED BY <2>2, <2>3
<1>5. p * x = p * y + c
  <2>1. p * x \in Int /\ p * y \in Int /\ p * (x - y) = p * x - p * y
    OBVIOUS
  <2> QED BY <1>4, <2>1
<1>6. PICK a \in Int, b \in Int : a = p * x /\ b = p * y
  <2>1. p * x \in Int /\ p * y \in Int
    OBVIOUS
  <2> QED BY <2>1
<1>7. PICK l \in Int : l = LowPart(d, i - 1) /\ l = LowPart(e, i - 1)
  <2>1. i - 1 \in Nat /\ i - 1 <= n /\ i - 1 \in 0 .. n /\ \A k \in 1 .. (i - 1) : e[k] = d[k]
    BY <1>2
  <2>2. LowPart(e, i - 1) = LowPart(d, i - 1)
    BY <1>2, <2>1, LowPartSame
  <2>3. LowPart(d, i - 1) \in Int
    BY <2>1, LowParts
  <2> QED BY <2>2, <2>3
<1>8. LowPart(e, i) = LowPart(d, i) + c /\ LowPart(d, i) \in Int
  <2>1. LowPart(e, i) = LowPart(e, i - 1) + BasePower(i - 1) * e[i]
    BY <1>2, LowParts
  <2>2. LowPart(d, i) = LowPart(d, i - 1) + BasePower(i - 1) * d[i]
    BY LowParts
  <2>3. LowPart(e, i) = l + a /\ LowPart(d, i) = l + b
    BY <1>2, <1>3, <1>4, <1>6, <1>7, <2>1, <2>2, Zenon
  <2>4. a = b + c
    BY <1>5, <1>6
  <2> QED BY <2>3, <2>4
<1> DEFINE P == {j \in Nat : LowPart(e, i + j) = LowPart(d, i + j) + c}
<1>9. 0 \in P
  BY <1>8
<1>10. ASSUME NEW j \in 1 .. (n - i), j - 1 \in P PROVE j \in P
  <2>1. PICK k \in 1 .. n : k = i + j
    OBVIOUS
  <2>2. k - 1 \in 0 .. n /\ k - 1 = i + (j - 1) /\ k # i /\ j \in Nat
    BY <2>1
  <2>3. LowPart(e, k) = LowPart(e, k - 1) + BasePower(k - 1) * e[k]
    BY <1>2, LowParts
  <2>4. LowPart(d, k) = LowPart(d, k - 1) + BasePower(k - 1) * d[k]
    BY LowParts
  <2>5. PICK t \in Int : t = BasePower(k - 1) * d[k]
    <3>1. k - 1 \in Nat /\ d[k] \in Int
      BY <2>2
    <3>2. PICK z \in Nat : z = BasePower(k - 1)
      BY <3>1, BasePowers
    <3>3. z * d[k] \in Int
      BY <3>1
    <3> QED BY <3>2, <3>3
  <2>6. e[k] = d[k]
    BY <1>2, <2>2
  <2>7. LowPart(d, k - 1) \in Int
    BY <2>2, LowParts
  <2>8. LowPart(e, k - 1) = LowPart(d, k - 1) + c
    BY <1>10, <2>2
  <2>9. LowPart(e, k) = (LowPart(d, k - 1) + c) + t /\ LowPart(d, k) = LowPart(d, k - 1) + t
    BY <2>3, <2>4, <2>5, <2>6, <2>8, Zenon
  <2>10. LowPart(e, k) = LowPart(d, k) + c
    BY <2>7, <2>9
  <2> QED BY <2>1, <2>2, <2>10
<1>11. n - i \in P
  <2>1. n - i \in Nat /\ n - i \in 0 .. (n - i)
    OBVIOUS
  <2> HIDE DEF P
  <2>2. \A j \in 0 .. (n - i) : j \in P
    BY <1>9, <1>10, <2>1, UpTo
  <2> QED BY <2>1, <2>2
<1>12. i + (n - i) = n
  OBVIOUS
<1>13. LowPart(e, n) = LowPart(d, n) + c
  BY <1>11, <1>12
<1>14. Value(e) = LowPart(e, n) /\ Value(d) = LowPart(d, n)
  BY <1>2, LowParts
<1>15. Value(e) = Value(d) + BasePower(i - 1) * (x - d[i])
  BY <1>3, <1>4, <1>13, <1>14, Zenon
<1> QED BY <1>1, <1>15

\* Digits above the lowest k that are 0 are worth nothing.
LEMMA LowPartIdle ==
  ASSUME NEW n \in Nat, NEW d \in [1 .. n -> Int], NEW k \in 0 .. n, \A i \in 1 .. n : i > k => d[i] = 0
  PROVE  Value(d) = LowPart(d, k)
<1>1. PICK pw : pw = [i \in Nat |-> BasePower(i)]
  OBVIOUS
<1>2. PICK L : Lows(L, pw, d, n) /\ \A i : LowPart(d, i) = L[i]
  BY <1>1, LowPartLows
<1>3. Powers(pw, Base, n) /\ Base \in Nat
  BY <1>1, BasePowersPowers, BasePositive
<1>4. L[n] = L[k]
  BY <1>2, <1>3, LowsIdle
<1>5. Value(d) = L[n]
  BY <1>2, LowParts
<1> QED BY <1>2, <1>4, <1>5

-----------------------------------------------------------------------------
(* The digits of a number *)

\* A quotient by a power is divided further.
LEMMA PowerQuotient ==
  ASSUME NEW x \in Nat, NEW k \in Nat
  PROVE  /\ x \div BasePower(k) \in Nat
         /\ x \div BasePower(k) = Base * (x \div BasePower(k + 1)) + ((x \div BasePower(k)) % Base)
         /\ (x \div BasePower(k)) % Base \in 0 .. (Base - 1)
<1>1. PICK B \in Nat : B = Base /\ B > 0
  BY BasePositive
<1>2. PICK p \in Nat : p = BasePower(k) /\ p > 0
  BY BasePowers
<1>3. PICK P \in Nat : P = BasePower(k + 1) /\ P = B * p /\ P > 0
  <2>1. k + 1 \in Nat
    OBVIOUS
  <2>2. BasePower(k + 1) = B * p
    BY <1>1, <1>2, BasePowers
  <2> QED BY <2>1, <2>2, BasePowers
<1>4. PICK y \in Nat, r \in 0 .. (p - 1) : y = x \div p /\ x = p * y + r
  <2>1. x % p \in 0 .. (p - 1) /\ x \div p \in Nat /\ x = p * (x \div p) + (x % p)
    BY <1>2, Quotients
  <2> QED BY <2>1, Zenon
<1>5. PICK z \in Nat, d \in 0 .. (B - 1) : z = y \div B /\ d = y % B /\ y = B * z + d
  <2>1. y % B \in 0 .. (B - 1) /\ y \div B \in Nat /\ y = B * (y \div B) + (y % B)
    BY <1>1, Quotients
  <2> QED BY <2>1, Zenon
<1>6. Divided(x, P, z, p * d + r)
  <2>1. PICK t \in Nat : d + t + 1 = B
    <3>1. B - 1 - d \in Nat /\ d + (B - 1 - d) + 1 = B
      OBVIOUS
    <3> QED BY <3>1
  <2>2. P = p * d + p * t + p
    <3>1. (d + t + 1) * p = p * d + p * t + p
      OBVIOUS
    <3> QED BY <1>3, <2>1, <3>1
  <2>3. p * d \in Nat /\ p * t \in Nat
    OBVIOUS
  <2>4. p * d + r \in 0 .. (P - 1)
    BY <2>2, <2>3
  <2>5. x = P * z + (p * d + r)
    <3>1. p * (B * z + d) = (B * p) * z + p * d
      OBVIOUS
    <3>2. p * y = P * z + p * d
      BY <1>3, <1>5, <3>1
    <3>3. P * z \in Int
      OBVIOUS
    <3> QED BY <1>4, <2>3, <3>2, <3>3
  <2> QED BY <2>4, <2>5 DEF Divided
<1>7. x \div P = z
  BY <1>3, <1>6, ByQuotient
<1>8. x \div BasePower(k) = y
  BY <1>2, <1>4, Zenon
<1>9. x \div BasePower(k + 1) = z
  BY <1>3, <1>7, Zenon
<1>10. y = Base * z + (y % Base) /\ y % Base \in 0 .. (Base - 1)
  BY <1>1, <1>5, Zenon
<1> QED BY <1>8, <1>9, <1>10, Zenon

\* The digits of a number are its digits.
LEMMA DigitsOfType ==
  ASSUME NEW x \in Nat, NEW n \in Nat
  PROVE  DigitsOf(x, n) \in ApDigits(n)
<1>1. ASSUME NEW k \in 1 .. n PROVE (x \div BasePower(k - 1)) % Base \in 0 .. (Base - 1)
  <2>1. k - 1 \in Nat
    OBVIOUS
  <2> QED BY <2>1, PowerQuotient
<1> QED BY <1>1, Zenon DEF DigitsOf, ApDigits

LEMMA DigitsOfValue ==
  ASSUME NEW x \in Nat, NEW n \in Nat, x < BasePower(n)
  PROVE  Value(DigitsOf(x, n)) = x
<1>1. PICK d : d = DigitsOf(x, n)
  OBVIOUS
<1>2. d \in ApDigits(n) /\ d \in [1 .. n -> Int]
  BY <1>1, DigitsOfType, ApDigitsType
<1>3. \A k \in 1 .. n : d[k] = (x \div BasePower(k - 1)) % Base
  BY <1>1 DEF DigitsOf
<1> DEFINE Q(k) == x \div BasePower(k)
           P == {k \in Nat : LowPart(d, k) + BasePower(k) * Q(k) = x}
<1>4. 0 \in P
  <2>1. 1 * x = x /\ 0 + x = x
    OBVIOUS
  <2>2. Q(0) = x
    <3>1. BasePower(0) = 1
      BY BasePowers
    <3>2. Divided(x, 1, x, 0)
      <4>1. x = 1 * x + 0 /\ 0 \in 0 .. (1 - 1)
        OBVIOUS
      <4> QED BY <4>1 DEF Divided
    <3>3. x \div 1 = x
      BY <3>2, ByQuotient
    <3> QED BY <3>1, <3>3
  <2>3. LowPart(d, 0) = 0 /\ BasePower(0) = 1
    BY <1>2, LowParts, BasePowers
  <2> HIDE DEF Q
  <2> QED BY <2>1, <2>2, <2>3
<1>5. ASSUME NEW k \in 1 .. n, k - 1 \in P PROVE k \in P
  <2>1. k - 1 \in Nat /\ k \in Nat /\ (k - 1) + 1 = k /\ k - 1 \in 0 .. n
    OBVIOUS
  <2>2. Q(k - 1) \in Nat /\ Q(k - 1) = Base * Q(k) + d[k] /\ d[k] \in Int
    <3>1. Q(k - 1) = Base * (x \div BasePower((k - 1) + 1)) + (Q(k - 1) % Base)
      BY <2>1, PowerQuotient
    <3>2. d[k] = Q(k - 1) % Base
      BY <1>3
    <3>3. Q(k - 1) = Base * Q(k) + d[k]
      BY <2>1, <3>1, <3>2, Zenon
    <3> QED BY <1>2, <2>1, <3>3, PowerQuotient
  <2>3. Q(k) \in Nat
    BY <2>1, PowerQuotient
  <2>4. PICK B \in Nat, p \in Nat : B = Base /\ p = BasePower(k - 1) /\ BasePower(k) = B * p
    <3>1. BasePower((k - 1) + 1) = Base * BasePower(k - 1)
      BY <2>1, BasePowers
    <3>2. BasePower(k) = Base * BasePower(k - 1)
      BY <2>1, <3>1
    <3> QED BY <2>1, <3>2, BasePositive, BasePowers
  <2> HIDE DEF Q
  <2>5. PICK z \in Nat, e \in Int, l \in Int : z = Q(k) /\ e = d[k] /\ l = LowPart(d, k - 1)
    BY <1>2, <2>1, <2>2, <2>3, LowParts
  <2>6. l + p * (B * z + e) = x
    <3>1. LowPart(d, k - 1) + BasePower(k - 1) * Q(k - 1) = x
      BY <1>5
    <3> QED BY <2>2, <2>4, <2>5, <3>1, Zenon
  <2>7. LowPart(d, k) = l + p * e
    <3>1. LowPart(d, k) = LowPart(d, k - 1) + BasePower(k - 1) * d[k]
      BY <1>2, LowParts
    <3> QED BY <2>4, <2>5, <3>1, Zenon
  <2>8. (l + p * e) + (B * p) * z = l + p * (B * z + e)
    <3>1. p * (B * z + e) = (B * p) * z + p * e
      OBVIOUS
    <3>2. (B * p) * z \in Int /\ p * e \in Int
      OBVIOUS
    <3> QED BY <3>1, <3>2
  <2>9. LowPart(d, k) + BasePower(k) * Q(k) = x
    BY <2>4, <2>5, <2>6, <2>7, <2>8, Zenon
  <2> QED BY <2>1, <2>9
<1>6. n \in P
  <2>1. n \in 0 .. n
    OBVIOUS
  <2>2. \A k \in 0 .. n : k \in P
    <3> HIDE DEF P
    <3> QED BY <1>4, <1>5, UpTo
  <2> HIDE DEF P
  <2> QED BY <2>1, <2>2
<1>7. Q(n) = 0
  <2>1. PICK p \in Nat : p = BasePower(n) /\ p > 0
    BY BasePowers
  <2>2. Divided(x, p, 0, x)
    <3>1. x = p * 0 + x /\ x \in 0 .. (p - 1)
      BY <2>1
    <3> QED BY <3>1 DEF Divided
  <2>3. x \div p = 0
    BY <2>1, <2>2, ByQuotient
  <2> QED BY <2>1, <2>3
<1> HIDE DEF Q
<1>8. LowPart(d, n) = x
  <2>1. LowPart(d, n) + BasePower(n) * Q(n) = x
    BY <1>6
  <2>2. PICK p \in Nat, l \in Int : p = BasePower(n) /\ l = LowPart(d, n)
    <3>1. n \in 0 .. n
      OBVIOUS
    <3> QED BY <1>2, <3>1, BasePowers, LowParts
  <2>3. l + p * 0 = l
    OBVIOUS
  <2> QED BY <1>7, <2>1, <2>2, <2>3
<1> QED BY <1>1, <1>2, <1>8, LowParts

\* A digit put before others.
LEMMA DigitBefore ==
  ASSUME NEW n \in Nat, NEW s \in ApDigits(n), NEW x \in 0 .. (Base - 1)
  PROVE  <<x>> \o s \in ApDigits(n + 1) /\ Value(<<x>> \o s) = x + Base * Value(s)
<1>1. PICK B \in Nat : B = Base
  BY BasePositive
<1>2. s \in Seq(Int) /\ s \in Seq(0 .. (B - 1)) /\ Len(s) = n
  BY <1>1, ApDigitsType
<1>3. PICK t : t = <<x>> \o s
  OBVIOUS
<1>a. PICK o : o = <<x>>
  OBVIOUS
<1>b. o \in Seq(0 .. (B - 1)) /\ Len(o) = 1 /\ o[1] = x
  <2>1. x \in 0 .. (B - 1)
    BY <1>1
  <2> QED BY <1>a, <2>1
<1>c. t \in Seq(0 .. (B - 1)) /\ Len(t) = n + 1
  BY <1>2, <1>3, <1>a, <1>b, ConcatProperties
<1>4. Len(t) = n + 1 /\ t[1] = x /\ \A k \in 1 .. n : t[k + 1] = s[k]
  <2>1. \A i \in 1 .. (1 + n) : t[i] = IF i <= 1 THEN o[i] ELSE s[i - 1]
    BY <1>2, <1>3, <1>a, <1>b, ConcatProperties
  <2>2. t[1] = x
    BY <1>b, <2>1
  <2>3. ASSUME NEW k \in 1 .. n PROVE t[k + 1] = s[k]
    <3>1. k + 1 \in 1 .. (1 + n) /\ ~(k + 1 <= 1) /\ (k + 1) - 1 = k
      OBVIOUS
    <3> QED BY <2>1, <3>1
  <2> QED BY <1>c, <2>2, <2>3
<1>5. t \in [1 .. (n + 1) -> 0 .. (B - 1)]
  BY <1>c
<1>6. PICK V : Tails(V, B, s)
  BY <1>1, <1>2, TailsExist
<1>7. V \in [1 .. (n + 1) -> Int] /\ V[n + 1] = 0 /\ \A i \in 1 .. n : V[i] = s[i] + B * V[i + 1]
  BY <1>2, <1>6 DEF Tails
<1>8. PICK T : T = [i \in 1 .. (n + 2) |-> IF i = 1 THEN x + B * V[1] ELSE V[i - 1]]
  OBVIOUS
<1>9. T \in [1 .. (n + 2) -> Int]
  <2>1. x + B * V[1] \in Int
    <3>1. V[1] \in Int /\ x \in Int
      BY <1>1, <1>7
    <3> QED BY <3>1
  <2>2. \A i \in 1 .. (n + 2) : i # 1 => V[i - 1] \in Int
    BY <1>7
  <2> QED BY <1>8, <2>1, <2>2
<1>10. Tails(T, B, t)
  <2>1. T[n + 2] = 0
    <3>1. n + 2 \in 1 .. (n + 2) /\ n + 2 # 1 /\ (n + 2) - 1 = n + 1
      OBVIOUS
    <3> QED BY <1>7, <1>8, <3>1
  <2>2. ASSUME NEW i \in 1 .. (n + 1) PROVE T[i] = t[i] + B * T[i + 1]
    <3>1. T[i + 1] = V[i]
      <4>1. i + 1 \in 1 .. (n + 2) /\ i + 1 # 1 /\ (i + 1) - 1 = i
        OBVIOUS
      <4> QED BY <1>8, <4>1
    <3>2. CASE i = 1
      <4>1. T[i] = x + B * V[1] /\ t[i] = x
        BY <1>4, <1>8, <3>2
      <4> QED BY <3>1, <3>2, <4>1
    <3>3. CASE i # 1
      <4>1. i - 1 \in 1 .. n /\ i \in 1 .. (n + 2) /\ (i - 1) + 1 = i
        BY <3>3
      <4>2. T[i] = V[i - 1] /\ t[i] = s[i - 1]
        BY <1>4, <1>8, <3>3, <4>1
      <4>3. V[i - 1] = s[i - 1] + B * V[i]
        BY <1>7, <4>1
      <4> QED BY <3>1, <4>2, <4>3
    <3> QED BY <3>2, <3>3
  <2>3. (n + 1) + 1 = n + 2
    OBVIOUS
  <2> QED BY <1>4, <1>9, <2>1, <2>2, <2>3 DEF Tails
<1>11. Positional(B, s) = V[1] /\ Positional(B, t) = T[1]
  <2>1. t \in Seq(Int)
    BY <1>5
  <2> QED BY <1>1, <1>2, <1>6, <1>10, <2>1, PositionalTails
<1>12. T[1] = x + B * V[1]
  <2>1. 1 \in 1 .. (n + 2)
    OBVIOUS
  <2> QED BY <1>8, <2>1
<1>13. Value(t) = x + Base * Value(s)
  BY <1>1, <1>11, <1>12, ValuePositional, Zenon
<1>14. t \in ApDigits(n + 1)
  BY <1>1, <1>5 DEF ApDigits
<1> QED BY <1>3, <1>13, <1>14, Zenon

\* No digits are worth nothing.
LEMMA NoDigits == <<>> \in ApDigits(0) /\ Value(<<>>) = 0
<1>1. <<>> \in ApDigits(0)
  BY DEF ApDigits
<1>2. <<>> \in [1 .. 0 -> Int]
  OBVIOUS
<1>3. Value(<<>>) = LowPart(<<>>, 0) /\ LowPart(<<>>, 0) = 0
  BY <1>2, LowParts
<1> QED BY <1>1, <1>3

\* Words and their digits.
LEMMA PairsValue ==
  ASSUME NEW n \in Nat, NEW e \in ApDigits(2 * n), NEW w \in [1 .. n -> Int],
         \A k \in 1 .. n : w[k] = e[2 * k - 1] + Base * e[2 * k]
  PROVE  WordsValue(w) = Value(e)
<1>0. e \in [1 .. (2 * n) -> Int] /\ 2 * n \in Nat
  BY ApDigitsType
<1>1. PICK pw : pw = [i \in 0 .. n |-> BasePower(2 * i)]
  OBVIOUS
<1>2. PICK L : L = [i \in 0 .. n |-> LowPart(e, 2 * i)]
  OBVIOUS
<1>3. \A i \in 0 .. n : 2 * i \in Nat /\ 2 * i \in 0 .. (2 * n)
  OBVIOUS
<1>4. Powers(pw, Word, n)
  <2>1. \A i \in 0 .. n : pw[i] \in Nat
    BY <1>1, <1>3, BasePowers
  <2>2. pw[0] = 1
    <3>1. 0 \in 0 .. n /\ 2 * 0 = 0
      OBVIOUS
    <3>2. pw[0] = BasePower(2 * 0)
      BY <1>1, <3>1
    <3> QED BY <3>1, <3>2, BasePowers
  <2>3. ASSUME NEW k \in 1 .. n PROVE pw[k] = Word * pw[k - 1]
    <3>1. PICK j \in Nat : j = 2 * (k - 1) /\ 2 * k = (j + 1) + 1 /\ k - 1 \in 0 .. n /\ k \in 0 .. n
      <4>1. 2 * (k - 1) \in Nat /\ 2 * k = (2 * (k - 1) + 1) + 1 /\ k - 1 \in 0 .. n /\ k \in 0 .. n
        OBVIOUS
      <4> QED BY <4>1
    <3>2. pw[k] = BasePower((j + 1) + 1) /\ pw[k - 1] = BasePower(j)
      BY <1>1, <3>1
    <3>3. PICK B \in Nat, p \in Nat : B = Base /\ p = BasePower(j)
      BY BasePositive, BasePowers
    <3>4. j + 1 \in Nat
      OBVIOUS
    <3>5. BasePower((j + 1) + 1) = B * (B * p)
      BY <3>3, <3>4, BasePowers
    <3>6. B * (B * p) = (B * B) * p
      OBVIOUS
    <3> QED BY <3>2, <3>3, <3>5, <3>6, Zenon DEF Word
  <2> QED BY <2>1, <2>2, <2>3 DEF Powers
<1>5. Lows(L, pw, w, n)
  <2>1. L \in [0 .. n -> Int]
    BY <1>0, <1>2, <1>3, LowParts
  <2>2. L[0] = 0
    <3>1. 0 \in 0 .. n /\ 2 * 0 = 0
      OBVIOUS
    <3>2. L[0] = LowPart(e, 2 * 0)
      BY <1>2, <3>1
    <3> QED BY <1>0, <3>1, <3>2, LowParts
  <2>3. ASSUME NEW k \in 1 .. n PROVE L[k] = L[k - 1] + pw[k - 1] * w[k]
    <3>1. /\ 2 * (k - 1) \in Nat /\ 2 * k - 1 \in 1 .. (2 * n) /\ (2 * k - 1) - 1 = 2 * (k - 1) /\ 2 * k \in 1 .. (2 * n)
          /\ 2 * (k - 1) + 1 = 2 * k - 1 /\ k - 1 \in 0 .. n /\ k \in 0 .. n /\ 2 * (k - 1) \in 0 .. (2 * n)
      OBVIOUS
    <3>2. PICK B \in Nat, p \in Nat : B = Base /\ p = BasePower(2 * (k - 1)) /\ BasePower(2 * k - 1) = B * p
      <4>1. BasePower(2 * (k - 1) + 1) = Base * BasePower(2 * (k - 1))
        BY <3>1, BasePowers
      <4> QED BY <3>1, <4>1, BasePositive, BasePowers
    <3>3. PICK x \in Int, y \in Int, l \in Int : x = e[2 * k - 1] /\ y = e[2 * k] /\ l = LowPart(e, 2 * (k - 1))
      BY <1>0, <3>1, LowParts
    <3>4. LowPart(e, 2 * k - 1) = l + p * x
      <4>1. LowPart(e, 2 * k - 1) = LowPart(e, (2 * k - 1) - 1) + BasePower((2 * k - 1) - 1) * e[2 * k - 1]
        BY <1>0, <3>1, LowParts
      <4> QED BY <3>1, <3>2, <3>3, <4>1
    <3>5. LowPart(e, 2 * k) = (l + p * x) + (B * p) * y
      <4>1. LowPart(e, 2 * k) = LowPart(e, 2 * k - 1) + BasePower(2 * k - 1) * e[2 * k]
        BY <1>0, <3>1, LowParts
      <4> QED BY <3>2, <3>3, <3>4, <4>1
    <3>6. (l + p * x) + (B * p) * y = l + p * (x + B * y)
      <4>1. p * (x + B * y) = p * x + (B * p) * y
        OBVIOUS
      <4>2. p * x \in Int /\ (B * p) * y \in Int
        OBVIOUS
      <4> QED BY <4>1, <4>2
    <3>7. w[k] = x + B * y
      BY <3>2, <3>3
    <3>8. L[k] = LowPart(e, 2 * k) /\ L[k - 1] = l /\ pw[k - 1] = p
      BY <1>1, <1>2, <3>1, <3>2, <3>3
    <3> QED BY <3>5, <3>6, <3>7, <3>8, Zenon
  <2> QED BY <2>1, <2>2, <2>3 DEF Lows
<1>6. Positional(Word, w) = L[n]
  <2>1. w \in Seq(Int) /\ Len(w) = n
    OBVIOUS
  <2> QED BY <1>4, <1>5, <2>1, WordPositive, LowsValue
<1>7. L[n] = LowPart(e, 2 * n)
  <2>1. n \in 0 .. n
    OBVIOUS
  <2> QED BY <1>2, <2>1
<1>8. LowPart(e, 2 * n) = Value(e)
  BY <1>0, LowParts
<1> QED BY <1>6, <1>7, <1>8 DEF WordsValue

-----------------------------------------------------------------------------
(* Trial digits of numbers *)

LEMMA TimesAtMost ==
  ASSUME NEW k \in Nat, NEW p \in Int, NEW q \in Int, p <= q
  PROVE  k * p <= k * q /\ k * p \in Int /\ k * q \in Int
<1>1. PICK t \in Nat : q = p + t
  <2>1. q - p \in Nat /\ q = p + (q - p)
    OBVIOUS
  <2> QED BY <2>1
<1>2. k * (p + t) = k * p + k * t /\ k * t \in Nat /\ k * p \in Int
  OBVIOUS
<1> QED BY <1>1, <1>2

LEMMA TimesLess ==
  ASSUME NEW k \in Nat, NEW p \in Int, NEW q \in Int, k * p < k * q
  PROVE  p < q
<1>1. SUFFICES ASSUME q <= p PROVE FALSE
  OBVIOUS
<1>2. k * q <= k * p /\ k * p \in Int /\ k * q \in Int
  BY <1>1, TimesAtMost
<1> QED BY <1>2

LEMMA LessTimes ==
  ASSUME NEW k \in Nat, k > 0, NEW p \in Int, NEW q \in Int, p < q
  PROVE  k * p < k * q /\ k * p \in Int /\ k * q \in Int
<1>1. p + 1 \in Int /\ p + 1 <= q
  OBVIOUS
<1>2. k * (p + 1) <= k * q /\ k * q \in Int /\ k * p \in Int
  BY <1>1, TimesAtMost
<1>3. k * (p + 1) = k * p + k
  OBVIOUS
<1> QED BY <1>2, <1>3

\* a, b and c are the highest digits of the dividend, x and y of the divisor.
Exceeds(B, y, c, qp, rp) == qp = B \/ qp * y > B * rp + c
Trial(B, x, y, c, q, r) ==
  IF ~Exceeds(B, y, c, q, r) THEN q
  ELSE IF r + x < B /\ Exceeds(B, y, c, q - 1, r + x) THEN q - 2 ELSE q - 1

\* One more than the trial digit is enough for the dividend.
Enough(B, D, E, q) == q \in 0 .. (B - 1) /\ (q + 1 = B \/ D + 1 <= (q + 1) * E)
TrialParts(B, a, b, c, x, y, D, E, N) ==
  /\ a \in 0 .. (B - 1) /\ b \in 0 .. (B - 1) /\ c \in 0 .. (B - 1)
  /\ x \in 0 .. (B - 1) /\ y \in 0 .. (B - 1) /\ B <= 2 * x
  /\ N = a * B + b /\ D = N * B + c /\ E = x * B + y

LEMMA TrialBelow ==
  ASSUME NEW B \in Nat, B > 1, NEW a, NEW b, NEW c, NEW x, NEW y, NEW D, NEW E, NEW N,
         TrialParts(B, a, b, c, x, y, D, E, N), NEW qp \in Int, NEW rp \in Int, N = x * qp + rp, qp * y > B * rp + c
  PROVE  D + 1 <= qp * E
<1>1. /\ b \in Int /\ c \in Int /\ x \in Int /\ y \in Int
      /\ D = N * B + c /\ E = x * B + y
  BY DEF TrialParts
<1>2. PICK s \in Int, t \in Int, u \in Int : s = x * qp /\ t = B * rp /\ u = qp * y
  <2>1. x * qp \in Int /\ B * rp \in Int /\ qp * y \in Int
    BY <1>1
  <2> QED BY <2>1
<1>3. D = (s + rp) * B + c
  BY <1>1, <1>2
<1>4. (s + rp) * B = s * B + t /\ s * B \in Int
  <2>1. (s + rp) * B = s * B + B * rp /\ s * B \in Int
    OBVIOUS
  <2> QED BY <1>2, <2>1
<1>5. qp * E = s * B + u
  <2>1. qp * (x * B + y) = (x * qp) * B + qp * y
    BY <1>1
  <2> QED BY <1>1, <1>2, <2>1
<1>6. PICK z \in Int : z = s * B
  BY <1>4
<1>7. u > t + c
  BY <1>2
<1>8. D = z + t + c /\ qp * E = z + u
  BY <1>3, <1>4, <1>5, <1>6
<1> QED BY <1>1, <1>7, <1>8

LEMMA TrialRest ==
  ASSUME NEW B \in Nat, B > 1, NEW a, NEW b, NEW c, NEW x, NEW y, NEW D, NEW E, NEW N,
         TrialParts(B, a, b, c, x, y, D, E, N), NEW q \in Nat, NEW r \in 0 .. (x - 1), N = x * q + r
  PROVE  D + 1 <= (q + 1) * E
<1>1. /\ c \in 0 .. (B - 1) /\ x \in Nat /\ y \in Nat
      /\ D = N * B + c /\ E = x * B + y
  BY DEF TrialParts
<1>2. PICK s \in Nat : s = x * q
  <2>1. x * q \in Nat
    BY <1>1
  <2> QED BY <2>1
<1>3. B * r <= B * (x - 1) /\ B * r \in Int /\ B * (x - 1) = B * x - B /\ B * x \in Int
  <2>1. r \in Int /\ x - 1 \in Int /\ r <= x - 1
    BY <1>1
  <2>2. B * r <= B * (x - 1) /\ B * r \in Int
    BY <2>1, TimesAtMost
  <2>3. B * (x - 1) = B * x - B /\ B * x \in Int
    BY <1>1
  <2> QED BY <2>2, <2>3
<1>4. D = s * B + B * r + c /\ s * B \in Int
  <2>1. D = (s + r) * B + c
    BY <1>1, <1>2
  <2>2. (s + r) * B = s * B + B * r /\ s * B \in Int
    <3>1. r \in Int
      BY <1>1
    <3> QED BY <3>1
  <2> QED BY <2>1, <2>2
<1>5. (q + 1) * E = s * B + B * x + (q + 1) * y /\ (q + 1) * y \in Nat
  <2>1. (q + 1) * (x * B + y) = (x * q) * B + B * x + (q + 1) * y /\ (q + 1) * y \in Nat
    BY <1>1
  <2> QED BY <1>1, <1>2, <2>1
<1>6. PICK z \in Int, t \in Int, p \in Int, v \in Nat : z = s * B /\ t = B * r /\ p = B * x /\ v = (q + 1) * y
  BY <1>3, <1>4, <1>5
<1>7. t <= p - B /\ D = z + t + c /\ (q + 1) * E = z + p + v
  BY <1>3, <1>4, <1>5, <1>6
<1> QED BY <1>1, <1>7

LEMMA TrialEnough ==
  ASSUME NEW B \in Nat, B > 1, NEW a, NEW b, NEW c, NEW x, NEW y, NEW D, NEW E, NEW N,
         TrialParts(B, a, b, c, x, y, D, E, N), N <= E, NEW q, NEW r, Divided(N, x, q, r)
  PROVE  /\ q \in 0 .. (B + 1) /\ r \in 0 .. (x - 1)
         /\ Enough(B, D, E, Trial(B, x, y, c, q, r))
<1>1. /\ a \in 0 .. (B - 1) /\ b \in 0 .. (B - 1) /\ c \in 0 .. (B - 1)
      /\ x \in 0 .. (B - 1) /\ y \in 0 .. (B - 1) /\ B <= 2 * x
      /\ N = a * B + b /\ D = N * B + c /\ E = x * B + y
  BY DEF TrialParts
<1>2. x \in Nat /\ x > 0 /\ a \in Nat /\ b \in Nat /\ c \in Nat /\ y \in Nat
  BY <1>1
<1>3. q \in Int /\ r \in 0 .. (x - 1) /\ N = x * q + r
  BY DEF Divided
<1>4. N \in Nat
  BY <1>1, <1>2
<1>5. q \in Nat
  <2>1. SUFFICES ASSUME q < 0 PROVE FALSE
    BY <1>3
  <2>2. x * q <= x * (-1)
    <3>1. q <= -1 /\ -1 \in Int
      BY <1>3, <2>1
    <3> QED BY <1>2, <1>3, <3>1, TimesAtMost
  <2>3. x * (-1) = -x /\ x * q \in Int
    BY <1>2, <1>3
  <2> QED BY <1>2, <1>3, <1>4, <2>2, <2>3
<1>6. PICK e \in Nat, f \in Nat, m \in Nat : e = a * B /\ f = x * B /\ m = x * q
  <2>1. a * B \in Nat /\ x * B \in Nat /\ x * q \in Nat
    BY <1>2, <1>5
  <2> QED BY <2>1
<1>7. a <= x
  <2>1. SUFFICES ASSUME x + 1 <= a PROVE FALSE
    BY <1>2
  <2>2. B * (x + 1) <= B * a
    <3>1. x + 1 \in Int /\ a \in Int
      BY <1>2
    <3> QED BY <2>1, <3>1, TimesAtMost
  <2>3. B * (x + 1) = f + B /\ B * a = e
    <3>1. B * (x + 1) = x * B + B /\ B * a = a * B
      BY <1>2
    <3> QED BY <1>6, <3>1
  <2> QED BY <1>1, <1>2, <1>6, <2>2, <2>3
\* Above the digits there are only two trial digits, the second with a known rest.
<1>8. /\ q >= B => (q = B \/ q = B + 1)
      /\ q = B + 1 => r = b - x /\ b <= y
  <2>1. CASE a # x
    <3>1. a + 1 <= x
      BY <1>2, <1>7, <2>1
    <3>2. B * (a + 1) <= B * x
      <4>1. a + 1 \in Int /\ x \in Int
        BY <1>2
      <4> QED BY <3>1, <4>1, TimesAtMost
    <3>3. B * (a + 1) = e + B /\ B * x = f
      <4>1. B * (a + 1) = a * B + B /\ B * x = x * B
        BY <1>2
      <4> QED BY <1>6, <4>1
    <3>4. N < f
      BY <1>1, <1>2, <1>6, <3>2, <3>3
    <3>5. x * q < x * B
      BY <1>2, <1>3, <1>6, <3>4
    <3>6. q < B
      <4>1. q \in Int /\ B \in Int
        BY <1>5
      <4> QED BY <1>2, <3>5, <4>1, TimesLess
    <3> QED BY <1>5, <3>6
  <2>2. CASE a = x
    <3>1. b <= y /\ N = f + b
      BY <1>1, <1>2, <1>6, <2>2
    <3>2. CASE b < x
      <4>1. Divided(N, x, B, b)
        <5>1. N = x * B + b /\ b \in 0 .. (x - 1) /\ B \in Int
          BY <1>2, <1>6, <3>1, <3>2
        <5> QED BY <5>1 DEF Divided
      <4>2. q = B /\ r = b
        BY <1>2, <4>1, SameQuotient
      <4> QED BY <4>2
    <3>3. CASE ~(b < x)
      <4>1. Divided(N, x, B + 1, b - x)
        <5>1. x * (B + 1) = x * B + x
          BY <1>2
        <5>2. b - x \in 0 .. (x - 1)
          BY <1>1, <1>2, <3>3
        <5>3. N = x * (B + 1) + (b - x)
          BY <1>2, <1>6, <3>1, <5>1
        <5> QED BY <5>2, <5>3 DEF Divided
      <4>2. q = B + 1 /\ r = b - x
        BY <1>2, <4>1, SameQuotient
      <4> QED BY <3>1, <4>2
    <3> QED BY <3>2, <3>3
  <2> QED BY <2>1, <2>2
<1>9. q \in 0 .. (B + 1)
  BY <1>5, <1>8
<1>10. PICK u \in Int, t \in Int : u = q * y /\ t = B * r
  <2>1. q * y \in Int /\ B * r \in Int
    BY <1>2, <1>3, <1>5
  <2> QED BY <2>1
<1>11. q = B + 1 => u > t + c
  <2>1. SUFFICES ASSUME q = B + 1 PROVE u > t + c
    OBVIOUS
  <2>2. r = b - x /\ b <= y
    BY <1>8, <2>1
  <2>3. B * r <= B * (y - 1) /\ B * (y - 1) = B * y - B /\ B * y \in Int
    <3>1. r \in Int /\ y - 1 \in Int /\ r <= y - 1
      BY <1>2, <2>2
    <3>2. B * (y - 1) = B * y - B /\ B * y \in Int
      BY <1>2
    <3> QED BY <3>1, <3>2, TimesAtMost
  <2>4. u = B * y + y
    <3>1. (B + 1) * y = B * y + y
      BY <1>2
    <3> QED BY <1>10, <2>1, <3>1
  <2>5. PICK p \in Int : p = B * y
    BY <2>3
  <2>6. t <= p - B /\ u = p + y
    BY <1>10, <2>3, <2>4, <2>5
  <2> QED BY <1>1, <1>2, <2>6
<1>12. q = B + 1 => r + x < B /\ q - 1 = B
  BY <1>1, <1>2, <1>8
<1>13. Exceeds(B, y, c, q, r) <=> (q = B \/ u > t + c)
  BY <1>10 DEF Exceeds
<1>14. CASE ~Exceeds(B, y, c, q, r)
  <2>1. q <= B - 1 /\ q \in 0 .. (B - 1)
    BY <1>5, <1>8, <1>11, <1>13, <1>14
  <2>2. Trial(B, x, y, c, q, r) = q
    BY <1>14, Zenon DEF Trial
  <2>3. D + 1 <= (q + 1) * E
    BY <1>3, <1>5, TrialRest
  <2> QED BY <1>3, <1>9, <2>1, <2>2, <2>3 DEF Enough
<1>15. CASE Exceeds(B, y, c, q, r) /\ r + x < B /\ Exceeds(B, y, c, q - 1, r + x)
  <2>1. PICK g \in Int, h \in Int : g = q - 1 /\ h = r + x
    BY <1>2, <1>3, <1>5
  <2>2. Trial(B, x, y, c, q, r) = q - 2
    BY <1>15, Zenon DEF Trial
  <2>3. CASE g = B
    <3>1. q - 2 = B - 1 /\ (q - 2) + 1 = B /\ q - 2 \in 0 .. (B - 1)
      BY <1>5, <2>1, <2>3
    <3> QED BY <1>3, <1>9, <2>2, <3>1 DEF Enough
  <2>4. CASE g # B
    <3>1. g * y > B * h + c
      BY <1>15, <2>1, <2>4 DEF Exceeds
    <3>2. N = x * g + h
      <4>1. x * (q - 1) = x * q - x /\ x * q \in Int
        BY <1>2, <1>5
      <4> QED BY <1>2, <1>3, <2>1, <4>1
    <3>3. D + 1 <= g * E
      BY <3>1, <3>2, TrialBelow
    <3>4. g >= 1
      <4>1. SUFFICES ASSUME g <= 0 PROVE FALSE
        BY <2>1
      <4>2. y * g <= y * 0
        <5>1. 0 \in Int
          OBVIOUS
        <5> QED BY <1>2, <4>1, <5>1, TimesAtMost
      <4>3. y * g = g * y /\ y * 0 = 0 /\ B * h >= 0 /\ B * h \in Int /\ g * y \in Int
        <5>1. h \in Nat
          BY <1>2, <1>3, <2>1
        <5> QED BY <1>2, <5>1
      <4> QED BY <1>2, <3>1, <4>2, <4>3
    <3>5. q - 2 \in 0 .. (B - 1) /\ (q - 2) + 1 = g
      BY <1>9, <2>1, <2>4, <3>4
    <3> QED BY <1>3, <1>9, <2>2, <3>3, <3>5 DEF Enough
  <2> QED BY <2>3, <2>4
<1>16. CASE Exceeds(B, y, c, q, r) /\ ~(r + x < B /\ Exceeds(B, y, c, q - 1, r + x))
  <2>1. Trial(B, x, y, c, q, r) = q - 1
    BY <1>16, Zenon DEF Trial
  <2>2. q # B + 1
    <3>1. SUFFICES ASSUME q = B + 1 PROVE FALSE
      OBVIOUS
    <3>2. r + x < B /\ q - 1 = B
      BY <1>12, <3>1
    <3>3. Exceeds(B, y, c, q - 1, r + x)
      BY <3>2, Zenon DEF Exceeds
    <3> QED BY <1>16, <3>2, <3>3
  <2>3. q >= 1
    <3>1. SUFFICES ASSUME q = 0 PROVE FALSE
      BY <1>5
    <3>2. u = 0
      <4>1. 0 * y = 0
        BY <1>2
      <4> QED BY <1>10, <3>1, <4>1
    <3>3. t >= 0
      <4>1. r \in Nat
        BY <1>2, <1>3
      <4>2. B * r >= 0
        BY <4>1
      <4> QED BY <1>10, <4>2
    <3> QED BY <1>2, <1>13, <1>16, <3>1, <3>2, <3>3
  <2>4. q - 1 \in 0 .. (B - 1) /\ (q - 1) + 1 = q
    BY <1>8, <1>9, <2>2, <2>3
  <2>5. CASE q = B
    BY <1>3, <1>9, <2>1, <2>4, <2>5 DEF Enough
  <2>6. CASE q # B
    <3>1. q * y > B * r + c
      BY <1>16, <2>6 DEF Exceeds
    <3>2. r \in Int
      BY <1>2, <1>3
    <3>3. D + 1 <= q * E
      BY <1>3, <1>5, <3>1, <3>2, TrialBelow
    <3> QED BY <1>3, <1>9, <2>1, <2>4, <3>3 DEF Enough
  <2> QED BY <2>5, <2>6
<1> QED BY <1>14, <1>15, <1>16

-----------------------------------------------------------------------------
(* The highest digits of the dividend and the divisor *)

\* l is less than z, and h times z and l make up v.
Split(v, h, z, l) == h \in Nat /\ z \in Nat /\ z > 0 /\ l \in 0 .. (z - 1) /\ v = h * z + l

\* A number that is less than a power of Base has no digits beyond.
LEMMA NothingAbove ==
  ASSUME NEW n \in Nat, NEW d \in ApDigits(n), NEW k \in 0 .. n, Value(d) < BasePower(k)
  PROVE  Value(d) = LowPart(d, k)
<1>1. PICK q \in Nat : Value(d) = LowPart(d, k) + BasePower(k) * q
  BY LowPartAbove
<1>2. PICK p \in Nat : p = BasePower(k) /\ p > 0
  BY BasePowers
<1>3. PICK l \in Nat : l = LowPart(d, k)
  BY <1>2, LowPartBelow
<1>4. l + p * q < p
  BY <1>1, <1>2, <1>3
<1>5. q = 0
  <2>1. SUFFICES ASSUME q >= 1 PROVE FALSE
    OBVIOUS
  <2>2. p * 1 <= p * q /\ p * 1 = p /\ p * q \in Int
    <3>1. 1 \in Int /\ p * 1 = p
      OBVIOUS
    <3> QED BY <2>1, <3>1, TimesAtMost
  <2> QED BY <1>4, <2>2
<1>6. l + p * 0 = l
  OBVIOUS
<1> QED BY <1>1, <1>2, <1>3, <1>5, <1>6

\* The highest two digits of n, and the highest three.
LEMMA HighestTwo ==
  ASSUME NEW n \in Nat, NEW d \in ApDigits(n), NEW k \in 2 .. n
  PROVE  Split(LowPart(d, k), d[k] * Base + d[k - 1], BasePower(k - 2), LowPart(d, k - 2))
<1>1. PICK B \in Nat, p \in Nat : B = Base /\ p = BasePower(k - 2) /\ p > 0 /\ BasePower(k - 1) = B * p
  <2>1. k - 2 \in Nat /\ (k - 2) + 1 = k - 1
    OBVIOUS
  <2>2. BasePower((k - 2) + 1) = Base * BasePower(k - 2)
    BY <2>1, BasePowers
  <2> QED BY <2>1, <2>2, BasePositive, BasePowers
<1>2. d \in [1 .. n -> Int] /\ d \in [1 .. n -> Nat]
  BY ApDigitsType
<1>3. /\ k \in 1 .. n /\ k - 1 \in 1 .. n /\ (k - 1) - 1 = k - 2 /\ k - 2 \in 0 .. n
  OBVIOUS
<1>4. PICK x \in Nat, y \in Nat : x = d[k] /\ y = d[k - 1]
  BY <1>2, <1>3
<1>5. PICK l \in 0 .. (p - 1) : l = LowPart(d, k - 2)
  BY <1>1, <1>3, LowPartBelow
<1>6. LowPart(d, k - 1) = l + p * y
  <2>1. LowPart(d, k - 1) = LowPart(d, (k - 1) - 1) + BasePower((k - 1) - 1) * d[k - 1]
    BY <1>2, <1>3, LowParts
  <2> QED BY <1>1, <1>3, <1>4, <1>5, <2>1
<1>7. LowPart(d, k) = (l + p * y) + (B * p) * x
  <2>1. LowPart(d, k) = LowPart(d, k - 1) + BasePower(k - 1) * d[k]
    BY <1>2, <1>3, LowParts
  <2> QED BY <1>1, <1>4, <1>6, <2>1
<1>8. (l + p * y) + (B * p) * x = (x * B + y) * p + l
  <2>1. (x * B + y) * p = (B * p) * x + p * y
    OBVIOUS
  <2>2. (B * p) * x \in Int /\ p * y \in Int /\ l \in Int
    OBVIOUS
  <2> QED BY <2>1, <2>2
<1>9. x * B + y \in Nat
  OBVIOUS
<1>10. LowPart(d, k) = (x * B + y) * p + l
  BY <1>7, <1>8, Zenon
<1>11. Split(LowPart(d, k), x * B + y, p, l)
  BY <1>1, <1>9, <1>10 DEF Split
<1> QED BY <1>1, <1>4, <1>5, <1>11, Zenon

LEMMA HighestThree ==
  ASSUME NEW n \in Nat, NEW d \in ApDigits(n), NEW k \in 3 .. n
  PROVE  Split(LowPart(d, k), (d[k] * Base + d[k - 1]) * Base + d[k - 2], BasePower(k - 3), LowPart(d, k - 3))
<1>1. PICK B \in Nat, p \in Nat : B = Base /\ p = BasePower(k - 3) /\ p > 0 /\ BasePower(k - 2) = B * p
  <2>1. k - 3 \in Nat /\ (k - 3) + 1 = k - 2
    OBVIOUS
  <2>2. BasePower((k - 3) + 1) = Base * BasePower(k - 3)
    BY <2>1, BasePowers
  <2> QED BY <2>1, <2>2, BasePositive, BasePowers
<1>2. d \in [1 .. n -> Int] /\ d \in [1 .. n -> Nat]
  BY ApDigitsType
<1>3. /\ k \in 2 .. n /\ k - 2 \in 1 .. n /\ (k - 2) - 1 = k - 3 /\ k - 3 \in 0 .. n
  OBVIOUS
<1>4. PICK h \in Nat : /\ h = d[k] * Base + d[k - 1]
                       /\ LowPart(d, k) = h * BasePower(k - 2) + LowPart(d, k - 2)
  <2>1. Split(LowPart(d, k), d[k] * Base + d[k - 1], BasePower(k - 2), LowPart(d, k - 2))
    BY <1>3, HighestTwo
  <2> QED BY <2>1 DEF Split
<1>5. PICK y \in Nat : y = d[k - 2]
  BY <1>2, <1>3
<1>6. PICK l \in 0 .. (p - 1) : l = LowPart(d, k - 3)
  BY <1>1, <1>3, LowPartBelow
<1>7. LowPart(d, k - 2) = l + p * y
  <2>1. LowPart(d, k - 2) = LowPart(d, (k - 2) - 1) + BasePower((k - 2) - 1) * d[k - 2]
    BY <1>2, <1>3, LowParts
  <2> QED BY <1>1, <1>3, <1>5, <1>6, <2>1
<1>8. h * (B * p) + (l + p * y) = (h * B + y) * p + l
  <2>1. (h * B + y) * p = h * (B * p) + p * y
    OBVIOUS
  <2>2. h * (B * p) \in Int /\ p * y \in Int /\ l \in Int
    OBVIOUS
  <2> QED BY <2>1, <2>2
<1>9. h * B + y \in Nat
  OBVIOUS
<1>10. LowPart(d, k) = (h * B + y) * p + l
  BY <1>1, <1>4, <1>7, <1>8, Zenon
<1>11. Split(LowPart(d, k), h * B + y, p, l)
  BY <1>1, <1>9, <1>10 DEF Split
<1> QED BY <1>1, <1>4, <1>5, <1>6, <1>11, Zenon

\* u is less than the next multiple of v, in place Y; and E in place X at most v in Y.
BelowNext(u, B, v, Y) == u < B * (v * Y)
AtMostIn(E, X, v, Y) == E * X <= v * Y
IsTimes(X, Z, Y) == X = Z * Y

\* The dividend is less than the divisor, one digit further: so are their highest digits.
LEMMA HighestBelow ==
  ASSUME NEW B \in Nat, B > 0, NEW u \in Nat, NEW v \in Nat, NEW D, NEW E, NEW Z, NEW Y \in Nat, Y > 0, NEW l, NEW r,
         NEW X0, IsTimes(X0, Z, Y), Split(u, D, X0, l), Split(v, E, Z, r), Z \in Nat, BelowNext(u, B, v, Y)
  PROVE  D < B * (E + 1) /\ AtMostIn(E, X0, v, Y)
<1>0. X0 = Z * Y /\ u < B * (v * Y)
  BY DEF IsTimes, BelowNext
<1>1. Z * Y \in Nat /\ Z * Y > 0 /\ D \in Nat /\ E \in Nat /\ l \in Nat /\ r \in 0 .. (Z - 1)
      /\ u = D * (Z * Y) + l /\ v = E * Z + r
  BY <1>0 DEF Split
<1>2. PICK X \in Nat : X = Z * Y /\ X > 0
  BY <1>1
<1>3. v * Y = E * X + r * Y /\ r * Y \in Nat /\ E * X \in Int
  <2>1. r \in Nat
    BY <1>1
  <2>2. (E * Z + r) * Y = E * (Z * Y) + r * Y /\ r * Y \in Nat
    BY <1>1, <2>1
  <2>3. E * X \in Int
    BY <1>1
  <2> QED BY <1>1, <1>2, <2>2, <2>3
<1>4. r * Y <= X
  <2>1. Y * r <= Y * Z
    <3>1. r \in Int /\ Z \in Int /\ r <= Z
      BY <1>1
    <3> QED BY <3>1, TimesAtMost
  <2>2. Y * r = r * Y /\ Y * Z = Z * Y
    BY <1>1
  <2> QED BY <1>2, <2>1, <2>2
<1>5. PICK w \in Nat : w = v * Y
  <2>1. v * Y \in Nat
    OBVIOUS
  <2> QED BY <2>1
<1>6. w <= (E + 1) * X
  <2>1. (E + 1) * X = E * X + X
    BY <1>1
  <2> QED BY <1>3, <1>4, <1>5, <2>1
<1>7. B * w <= B * ((E + 1) * X) /\ B * w \in Int /\ B * ((E + 1) * X) \in Int
  <2>1. PICK t \in Int : t = (E + 1) * X
    <3>1. (E + 1) * X \in Int
      BY <1>1
    <3> QED BY <3>1
  <2>2. B * w <= B * t /\ B * w \in Int /\ B * t \in Int
    BY <1>6, <2>1, TimesAtMost
  <2> QED BY <2>1, <2>2
<1>8. X * D < X * (B * (E + 1))
  <2>1. X * D = D * X /\ X * (B * (E + 1)) = B * ((E + 1) * X) /\ D * X \in Int
    BY <1>1
  <2>2. D * X <= u
    BY <1>1, <1>2, <2>1
  <2>3. u < B * w
    BY <1>0, <1>5
  <2> QED BY <1>7, <2>1, <2>2, <2>3
<1>9. D < B * (E + 1)
  <2>1. PICK t \in Int : t = B * (E + 1)
    <3>1. B * (E + 1) \in Int
      BY <1>1
    <3> QED BY <3>1
  <2>2. X * D < X * t /\ D \in Int
    BY <1>1, <1>8, <2>1
  <2>3. D < t
    BY <2>2, TimesLess
  <2> QED BY <2>1, <2>3
<1>10. E * X0 <= v * Y
  BY <1>0, <1>2, <1>3
<1> QED BY <1>9, <1>10 DEF AtMostIn

\* One more than the trial digit is enough for all of the dividend.
LEMMA EnoughForAll ==
  ASSUME NEW B \in Nat, B > 0, NEW u \in Nat, NEW v \in Nat, NEW D, NEW E, NEW Z, NEW Y \in Nat, NEW l,
         NEW X0, IsTimes(X0, Z, Y), Split(u, D, X0, l), Z \in Nat, E \in Nat, AtMostIn(E, X0, v, Y), BelowNext(u, B, v, Y),
         NEW q, Enough(B, D, E, q)
  PROVE  u < (q + 1) * (v * Y)
<1>0. X0 = Z * Y /\ E * X0 <= v * Y /\ u < B * (v * Y)
  BY DEF IsTimes, AtMostIn, BelowNext
<1>1. /\ Z * Y \in Nat /\ Z * Y > 0 /\ D \in Nat /\ l \in 0 .. ((Z * Y) - 1)
      /\ u = D * (Z * Y) + l
  BY <1>0 DEF Split
<1>2. PICK X \in Nat : X = Z * Y /\ X > 0
  BY <1>1
<1>3. PICK w \in Nat : w = v * Y
  <2>1. v * Y \in Nat
    OBVIOUS
  <2> QED BY <2>1
<1>4. q \in Nat /\ (q + 1 = B \/ D + 1 <= (q + 1) * E)
  BY DEF Enough
<1>5. CASE q + 1 = B
  BY <1>0, <1>5
<1>6. CASE D + 1 <= (q + 1) * E
  <2>1. PICK e \in Int : e = (q + 1) * E
    <3>1. (q + 1) * E \in Int
      BY <1>4
    <3> QED BY <3>1
  <2>2. X * (D + 1) <= X * e /\ X * e \in Int
    <3>1. D + 1 \in Int /\ D + 1 <= e
      BY <1>1, <1>6, <2>1
    <3> QED BY <3>1, TimesAtMost
  <2>3. u < X * (D + 1)
    <3>1. X * (D + 1) = D * X + X /\ D * X \in Int
      BY <1>1
    <3> QED BY <1>1, <1>2, <3>1
  <2>4. X * e = (q + 1) * (E * X)
    <3>1. X * ((q + 1) * E) = (q + 1) * (E * X)
      BY <1>4
    <3> QED BY <2>1, <3>1
  <2>5. PICK g \in Int : g = E * X
    <3>1. E * X \in Int
      OBVIOUS
    <3> QED BY <3>1
  <2>6. (q + 1) * g <= (q + 1) * w /\ (q + 1) * w \in Int
    <3>1. q + 1 \in Nat /\ g <= w
      BY <1>0, <1>2, <1>3, <1>4, <2>5
    <3>2. PICK k \in Nat : k = q + 1
      BY <3>1
    <3>3. k * g <= k * w /\ k * w \in Int
      BY <3>1, TimesAtMost
    <3> QED BY <3>2, <3>3
  <2>7. X * e = (q + 1) * g
    BY <2>4, <2>5
  <2>8. u < (q + 1) * w
    BY <1>1, <1>3, <2>2, <2>3, <2>6, <2>7
  <2> QED BY <1>3, <2>8
<1> QED BY <1>4, <1>5, <1>6

-----------------------------------------------------------------------------
(* Step D3 *)

LEMMA BaseAboveOne == Base > 1
<1>1. DigitBits - 1 \in Nat /\ (DigitBits - 1) + 1 = DigitBits
  BY DigitBitsAssumption
<1>2. PICK p \in Nat : p = 2 ^ (DigitBits - 1) /\ p > 0
  BY <1>1, PowerPositive
<1>3. 2 ^ ((DigitBits - 1) + 1) = 2 * 2 ^ (DigitBits - 1)
  BY <1>1, PowerNext
<1>4. Base = 2 * p
  BY <1>1, <1>2, <1>3, Zenon DEF Base
<1> QED BY <1>2, <1>4

\* The products of the comparison do not wrap.
LEMMA ComparisonFits ==
  ASSUME NEW B \in Nat, B > 1, NEW y \in 0 .. (B - 1), NEW c \in 0 .. (B - 1),
         NEW q \in 0 .. (B + 1), NEW r \in 0 .. (B - 1)
  PROVE  (q * y) % (B * B) = q * y /\ (B * r + c) % (B * B) = B * r + c
<1>1. PICK s \in Nat, t \in Nat, w \in Nat : s = q * y /\ t = B * r /\ w = B * B
  <2>1. q * y \in Nat /\ B * r \in Nat /\ B * B \in Nat
    OBVIOUS
  <2> QED BY <2>1
<1>2. s <= (B + 1) * (B - 1)
  <2>1. B + 1 \in Nat /\ B - 1 \in Nat /\ q \in Nat /\ y \in Nat /\ q <= B + 1 /\ y <= B - 1
    OBVIOUS
  <2>2. PICK e \in Nat, f \in Nat : e = B + 1 /\ f = B - 1
    BY <2>1
  <2>3. q * y <= e * f
    BY <2>1, <2>2, ProductBound
  <2> QED BY <1>1, <2>2, <2>3
<1>3. (B + 1) * (B - 1) = B * B - 1
  OBVIOUS
<1>4. t <= B * (B - 1) /\ B * (B - 1) = w - B
  <2>1. r \in Int /\ B - 1 \in Int /\ r <= B - 1
    OBVIOUS
  <2>2. B * r <= B * (B - 1)
    BY <2>1, TimesAtMost
  <2>3. B * (B - 1) = B * B - B
    OBVIOUS
  <2> QED BY <1>1, <2>2, <2>3
<1>5. s < w /\ t + c < w /\ t + c \in Nat
  BY <1>1, <1>2, <1>3, <1>4
<1>6. s % w = s /\ (t + c) % w = t + c
  BY <1>5
<1> QED BY <1>1, <1>6

LEMMA TrialDigitTrial ==
  ASSUME NEW B \in Nat, B = Base, NEW m \in Nat, NEW u \in ApDigits(m), NEW n \in Nat, n >= 2, NEW v \in ApDigits(n),
         NEW k \in 3 .. m, NEW q, NEW r, q \in 0 .. (B + 1), r \in 0 .. (v[n] - 1),
         q = (u[k] * B + u[k - 1]) \div v[n], r = (u[k] * B + u[k - 1]) % v[n]
  PROVE  TrialDigit(u, v, k) = Trial(B, v[n], v[n - 1], u[k - 2], q, r)
<1>1. B > 1
  BY BaseAboveOne
<1>2. Len(v) = n
  BY ApDigitsType
<1>3. PICK x \in 0 .. (B - 1), y \in 0 .. (B - 1), c \in 0 .. (B - 1) : x = v[n] /\ y = v[n - 1] /\ c = u[k - 2]
  <2>1. u \in [1 .. m -> 0 .. (B - 1)] /\ v \in [1 .. n -> 0 .. (B - 1)]
    BY DEF ApDigits
  <2>2. n \in 1 .. n /\ n - 1 \in 1 .. n /\ k - 2 \in 1 .. m
    OBVIOUS
  <2> QED BY <2>1, <2>2
<1>4. ASSUME NEW qp \in 0 .. (B + 1), NEW rp \in 0 .. (B - 1)
      PROVE  TooBig(u, v, k, qp, rp) <=> Exceeds(B, y, c, qp, rp)
  <2>1. (qp * y) % (B * B) = qp * y /\ (B * rp + c) % (B * B) = B * rp + c
    BY <1>1, ComparisonFits
  <2>2. TooBig(u, v, k, qp, rp) <=> (qp = B \/ (qp * y) % (B * B) > (B * rp + c) % (B * B))
    BY <1>2, <1>3 DEF TooBig, Word
  <2> QED BY <2>1, <2>2 DEF Exceeds
<1>5. r \in 0 .. (B - 1) /\ r + x \in Nat /\ x \in Nat
  BY <1>3
<1>6. TooBig(u, v, k, q, r) <=> Exceeds(B, y, c, q, r)
  BY <1>4, <1>5
<1>7. TrialDigit(u, v, k) =
        IF ~TooBig(u, v, k, q, r) THEN q
        ELSE IF r + x < B /\ TooBig(u, v, k, q - 1, r + x) THEN q - 2 ELSE q - 1
  BY <1>2, <1>3, Zenon DEF TrialDigit
<1>8. CASE q = 0
  <2>1. ~Exceeds(B, y, c, q, r)
    <3>1. 0 * y = 0 /\ B * r + c >= 0 /\ B * r + c \in Int
      BY <1>5
    <3> QED BY <1>1, <1>8, <3>1 DEF Exceeds
  <2> QED BY <1>3, <1>6, <1>7, <2>1, Zenon DEF Trial
<1>9. CASE q # 0 /\ r + x < B
  <2>1. q - 1 \in 0 .. (B + 1) /\ r + x \in 0 .. (B - 1)
    BY <1>5, <1>9
  <2>2. TooBig(u, v, k, q - 1, r + x) <=> Exceeds(B, y, c, q - 1, r + x)
    BY <1>4, <2>1
  <2> QED BY <1>3, <1>6, <1>7, <2>2, Zenon DEF Trial
<1>10. CASE ~(r + x < B)
  BY <1>3, <1>6, <1>7, <1>10, Zenon DEF Trial
<1> QED BY <1>8, <1>9, <1>10

\* Step D3 finds a digit that is not less than that of the quotient.
LEMMA TrialDigitEnough ==
  ASSUME NEW m \in Nat, NEW u \in ApDigits(m), NEW n \in Nat, n >= 2, NEW v \in ApDigits(n), Base <= 2 * v[n],
         NEW j \in Nat, j >= 1, j + n <= m, Value(u) < Base * (Value(v) * BasePower(j - 1))
  PROVE  /\ TrialDigit(u, v, j + n) \in 0 .. (Base - 1)
         /\ Value(u) < (TrialDigit(u, v, j + n) + 1) * (Value(v) * BasePower(j - 1))
<1>1. PICK B \in Nat : B = Base /\ B > 1
  BY BasePositive, BaseAboveOne
<1>2. PICK k \in 3 .. m : k = j + n
  OBVIOUS
<1>3. PICK U \in Nat, V \in Nat : U = Value(u) /\ V = Value(v) /\ V < BasePower(n)
  BY ValueBelow
<1>4. PICK Y \in Nat, Z \in Nat : Y = BasePower(j - 1) /\ Y > 0 /\ Z = BasePower(n - 2) /\ Z > 0
  <2>1. j - 1 \in Nat /\ n - 2 \in Nat
    OBVIOUS
  <2> QED BY <2>1, BasePowers
<1>5. BasePower(k - 3) = Z * Y
  <2>1. k - 3 = (n - 2) + (j - 1) /\ n - 2 \in Nat /\ j - 1 \in Nat
    BY <1>2
  <2>2. BasePower((n - 2) + (j - 1)) = BasePower(n - 2) * BasePower(j - 1)
    BY <2>1, BasePowerSum
  <2> QED BY <1>4, <2>1, <2>2
<1>6. U < B * (V * Y)
  BY <1>1, <1>3, <1>4
\* The highest digits of both numbers.
<1>7. U = LowPart(u, k)
  <2>1. PICK P \in Nat, Q \in Nat : P = BasePower(n) /\ Q = BasePower(j) /\ BasePower(k) = P * Q /\ Q = B * Y /\ Q > 0
    <3>1. BasePower(n + j) = BasePower(n) * BasePower(j)
      BY BasePowerSum
    <3>2. j - 1 \in Nat /\ (j - 1) + 1 = j /\ k = n + j
      BY <1>2
    <3>3. BasePower((j - 1) + 1) = Base * BasePower(j - 1)
      BY <3>2, BasePowers
    <3> QED BY <1>1, <1>4, <3>1, <3>2, <3>3, BasePowers
  <2>2. B * (V * Y) = Q * V
    <3>1. B * (V * Y) = (B * Y) * V
      OBVIOUS
    <3> QED BY <2>1, <3>1
  <2>3. Q * V <= Q * P /\ Q * P = P * Q /\ Q * P \in Int /\ Q * V \in Int
    <3>1. V <= P /\ V \in Int /\ P \in Int
      BY <1>3, <2>1
    <3> QED BY <3>1, TimesAtMost
  <2>4. U < BasePower(k)
    BY <1>6, <2>1, <2>2, <2>3
  <2>5. k \in 0 .. m
    OBVIOUS
  <2> QED BY <1>3, <2>4, <2>5, NothingAbove
<1>8. PICK a \in 0 .. (B - 1), b \in 0 .. (B - 1), c \in 0 .. (B - 1) : a = u[k] /\ b = u[k - 1] /\ c = u[k - 2]
  <2>1. u \in [1 .. m -> 0 .. (B - 1)]
    BY <1>1 DEF ApDigits
  <2>2. k \in 1 .. m /\ k - 1 \in 1 .. m /\ k - 2 \in 1 .. m
    OBVIOUS
  <2> QED BY <2>1, <2>2
<1>9. PICK x \in 0 .. (B - 1), y \in 0 .. (B - 1) : x = v[n] /\ y = v[n - 1] /\ B <= 2 * x
  <2>1. v \in [1 .. n -> 0 .. (B - 1)]
    BY <1>1 DEF ApDigits
  <2>2. n \in 1 .. n /\ n - 1 \in 1 .. n
    OBVIOUS
  <2>3. v[n] \in 0 .. (B - 1) /\ v[n - 1] \in 0 .. (B - 1)
    BY <2>1, <2>2
  <2> QED BY <1>1, <2>3
<1>10. PICK N \in Nat, D \in Nat, E \in Nat : N = a * B + b /\ D = N * B + c /\ E = x * B + y
  <2>1. a * B + b \in Nat /\ (a * B + b) * B + c \in Nat /\ x * B + y \in Nat
    <3>1. a * B + b \in Nat /\ x * B + y \in Nat
      OBVIOUS
    <3>2. \A t \in Nat : t * B + c \in Nat
      OBVIOUS
    <3> QED BY <3>1, <3>2
  <2> QED BY <2>1
<1>11. TrialParts(B, a, b, c, x, y, D, E, N)
  BY <1>9, <1>10 DEF TrialParts
<1>a. PICK X : X = Z * Y
  OBVIOUS
<1>b. IsTimes(X, Z, Y) /\ BelowNext(U, B, V, Y)
  BY <1>6, <1>a DEF IsTimes, BelowNext
<1>12. Split(U, D, X, LowPart(u, k - 3))
  <2>1. Split(LowPart(u, k), (u[k] * Base + u[k - 1]) * Base + u[k - 2], BasePower(k - 3), LowPart(u, k - 3))
    BY HighestThree
  <2> QED BY <1>1, <1>5, <1>7, <1>8, <1>10, <1>a, <2>1, Zenon
<1>13. Split(V, E, Z, LowPart(v, n - 2))
  <2>1. n \in 2 .. n /\ n \in 0 .. n /\ v \in [1 .. n -> Int]
    BY ApDigitsType
  <2>2. Split(LowPart(v, n), v[n] * Base + v[n - 1], BasePower(n - 2), LowPart(v, n - 2))
    BY <2>1, HighestTwo
  <2>3. V = LowPart(v, n)
    BY <1>3, <2>1, LowParts
  <2> QED BY <1>1, <1>4, <1>9, <1>10, <2>2, <2>3, Zenon
<1>14. D < B * (E + 1) /\ AtMostIn(E, X, V, Y)
  <2>1. B > 0
    BY <1>1
  <2> QED BY <1>4, <1>b, <1>12, <1>13, <2>1, HighestBelow, Zenon
<1>15. N <= E
  <2>1. SUFFICES ASSUME E + 1 <= N PROVE FALSE
    BY <1>10
  <2>2. PICK e \in Int : e = E + 1
    OBVIOUS
  <2>3. B * e <= B * N /\ B * N \in Int /\ B * e \in Int
    BY <2>1, <2>2, TimesAtMost
  <2>4. D = B * N + c
    <3>1. N * B = B * N
      OBVIOUS
    <3> QED BY <1>10, <3>1
  <2> QED BY <1>14, <2>2, <2>3, <2>4
<1>16. x \in Nat /\ x > 0
  BY <1>1, <1>9
<1>17. PICK q, r : q = N \div x /\ r = N % x /\ Divided(N, x, q, r)
  <2>1. N % x \in 0 .. (x - 1) /\ N \div x \in Nat /\ N = x * (N \div x) + (N % x)
    BY <1>16, Quotients
  <2>2. N \div x \in Int
    BY <2>1
  <2>3. Divided(N, x, N \div x, N % x)
    BY <2>1, <2>2, Zenon DEF Divided
  <2> QED BY <2>3
<1>18. q \in 0 .. (B + 1) /\ r \in 0 .. (x - 1) /\ Enough(B, D, E, Trial(B, x, y, c, q, r))
  BY <1>1, <1>11, <1>15, <1>17, TrialEnough
<1>19. PICK t : t = Trial(B, x, y, c, q, r)
  OBVIOUS
<1>20. TrialDigit(u, v, k) = t
  <2>1. q = (u[k] * B + u[k - 1]) \div v[n] /\ r = (u[k] * B + u[k - 1]) % v[n]
    BY <1>8, <1>9, <1>10, <1>17, Zenon
  <2>2. r \in 0 .. (v[n] - 1)
    BY <1>9, <1>18
  <2>3. TrialDigit(u, v, k) = Trial(B, v[n], v[n - 1], u[k - 2], q, r)
    BY <1>1, <1>18, <2>1, <2>2, TrialDigitTrial
  <2> QED BY <1>8, <1>9, <1>19, <2>3, Zenon
<1>21. Enough(B, D, E, t)
  BY <1>18, <1>19, Zenon
<1>22. U < (t + 1) * (V * Y)
  BY <1>1, <1>b, <1>12, <1>14, <1>21, EnoughForAll
<1>23. t \in 0 .. (B - 1)
  BY <1>21 DEF Enough
<1> QED BY <1>1, <1>2, <1>3, <1>4, <1>20, <1>22, <1>23, Zenon

-----------------------------------------------------------------------------
(* The borrows of step D4 *)

\* The indices of a loop from k to m.
LEMMA LoopFrom ==
  ASSUME NEW m \in Nat, NEW k \in 1 .. (m + 1)
  PROVE  DOMAIN Loop(k, m) = 1 .. (m - k + 1) /\ \A i \in 1 .. (m - k + 1) : Loop(k, m)[i] = k + i - 1
<1>1. (IF m < k THEN 0 ELSE m - k + 1) = m - k + 1
  OBVIOUS
<1>2. Loop(k, m) = [i \in 1 .. (m - k + 1) |-> k + i - 1]
  BY <1>1 DEF Loop
<1> QED BY <1>2

\* Another digit in one place.
LEMMA DigitPut ==
  ASSUME NEW m \in Nat, NEW u \in ApDigits(m), NEW i \in 1 .. m, NEW x \in 0 .. (Base - 1)
  PROVE  [u EXCEPT ![i] = x] \in ApDigits(m)
BY DEF ApDigits

BorrowStates(m) == [u : ApDigits(m), borrow : BOOLEAN]

\* s has the value K, or if it borrows the power of i more.
BorrowedFrom(s, K, i) == K \in Int /\ Value(s.u) = K + IF s.borrow THEN BasePower(i) ELSE 0

LEMMA BorrowStepExact ==
  ASSUME NEW m \in Nat, NEW s \in BorrowStates(m), NEW i \in 1 .. m
  PROVE  /\ BorrowStep(s, i) \in BorrowStates(m)
         /\ \A K : BorrowedFrom(s, K, i - 1) => BorrowedFrom(BorrowStep(s, i), K, i)
<1>1. PICK B \in Nat : B = Base /\ B > 0
  BY BasePositive
<1>2. PICK p \in Nat : p = BasePower(i - 1) /\ BasePower(i) = B * p
  <2>1. i - 1 \in Nat /\ (i - 1) + 1 = i
    OBVIOUS
  <2>2. BasePower((i - 1) + 1) = Base * BasePower(i - 1)
    BY <2>1, BasePowers
  <2> QED BY <1>1, <2>1, <2>2, BasePowers
<1>3. PICK u : u = s.u
  OBVIOUS
<1>4. s.borrow \in BOOLEAN /\ u \in ApDigits(m) /\ u \in [1 .. m -> Int]
  BY <1>3, ApDigitsType DEF BorrowStates
<1>5. PICK d \in 0 .. (B - 1) : d = u[i]
  BY <1>1, <1>4 DEF ApDigits
<1>6. CASE ~s.borrow
  <2>1. BorrowStep(s, i) = s
    BY <1>6, Zenon DEF BorrowStep
  <2> QED BY <1>6, <2>1 DEF BorrowedFrom
<1>7. CASE s.borrow
  <2>1. PICK x \in 0 .. (B - 1) : /\ x = (d + B - 1) % B
                                  /\ d = 0 => x = B - 1
                                  /\ d # 0 => x = d - 1
    <3>1. CASE d = 0
      <4>1. (d + B - 1) % B = B - 1
        BY <1>1, <3>1
      <4> QED BY <1>1, <3>1, <4>1
    <3>2. CASE d # 0
      <4>1. d + B - 1 \in 0 .. (2 * B - 1) /\ ~(d + B - 1 < B) /\ (d + B - 1) - B = d - 1
        BY <1>1, <3>2
      <4>2. (d + B - 1) % B = d - 1
        <5>1. PICK t \in 0 .. (2 * B - 1) : t = d + B - 1
          BY <4>1
        <5>2. t % B = IF t < B THEN t ELSE t - B
          BY <1>1, Wraps
        <5> QED BY <4>1, <5>1, <5>2
      <4> QED BY <1>1, <3>2, <4>2
    <3> QED BY <3>1, <3>2
  <2>2. PICK t : t = BorrowStep(s, i)
    OBVIOUS
  <2>3. t = [u |-> [u EXCEPT ![i] = (d + B - 1) % B], borrow |-> d = 0]
    BY <1>1, <1>3, <1>4, <1>5, <1>7, <2>2 DEF BorrowStep
  <2>4. t.u = [u EXCEPT ![i] = x] /\ t.borrow \in BOOLEAN /\ (t.borrow <=> d = 0) /\ t = [u |-> t.u, borrow |-> t.borrow]
    BY <2>1, <2>3
  <2>5. t.u \in ApDigits(m)
    <3>1. x \in 0 .. (Base - 1)
      BY <1>1
    <3>2. [u EXCEPT ![i] = x] \in ApDigits(m)
      BY <1>4, <3>1, DigitPut
    <3> QED BY <2>4, <3>2, Zenon
  <2>6. Value(t.u) = Value(u) + p * (x - d)
    <3>1. x \in Int
      OBVIOUS
    <3>2. Value([u EXCEPT ![i] = x]) = Value(u) + BasePower(i - 1) * (x - u[i])
      BY <1>4, <3>1, DigitChanged
    <3> QED BY <1>2, <1>5, <2>4, <3>2, Zenon
  <2>7. Value(u) \in Int
    BY <1>4, ValueBelow
  <2>8. ASSUME NEW K, BorrowedFrom(s, K, i - 1) PROVE BorrowedFrom(t, K, i)
    <3>1. K \in Int /\ Value(u) = K + p
      BY <1>2, <1>3, <1>7, <2>8 DEF BorrowedFrom
    <3>2. CASE d = 0
      <4>1. p * (x - d) = B * p - p /\ B * p \in Int
        <5>1. x - d = B - 1
          BY <2>1, <3>2
        <5>2. p * (B - 1) = B * p - p /\ B * p \in Int
          OBVIOUS
        <5> QED BY <5>1, <5>2
      <4>2. Value(t.u) = K + B * p
        BY <2>6, <3>1, <4>1
      <4> QED BY <1>2, <2>4, <3>1, <3>2, <4>2 DEF BorrowedFrom
    <3>3. CASE d # 0
      <4>1. p * (x - d) = -p
        <5>1. x - d = -1
          BY <2>1, <3>3
        <5>2. p * (-1) = -p
          OBVIOUS
        <5> QED BY <5>1, <5>2
      <4>2. Value(t.u) = K + 0
        BY <2>6, <3>1, <4>1
      <4> QED BY <2>4, <3>1, <3>3, <4>2 DEF BorrowedFrom
    <3> QED BY <3>2, <3>3
  <2>9. t \in BorrowStates(m)
    BY <2>4, <2>5 DEF BorrowStates
  <2> QED BY <2>2, <2>8, <2>9
<1> QED BY <1>4, <1>6, <1>7

\* The loop of a borrow, pass by pass.
LEMMA BorrowPasses ==
  ASSUME NEW m \in Nat, NEW u \in ApDigits(m), NEW k \in 1 .. (m + 1), NEW b \in BOOLEAN
  PROVE  \E h \in [0 .. (m - k + 1) -> BorrowStates(m)] :
           /\ h[0] = [u |-> u, borrow |-> b]
           /\ \A i \in 1 .. (m - k + 1) : h[i] = BorrowStep(h[i - 1], k + i - 1)
           /\ Borrow(u, k, b) = h[(m - k + 1)]
<1> DEFINE D == 1 .. (m - k + 1)
           S == BorrowStates(m)
           a == [u |-> u, borrow |-> b]
           l == Loop(k, m)
           g == [p \in Nat \X S |-> IF p[1] \in 1 .. (m - k + 1) THEN BorrowStep(p[2], k + p[1] - 1) ELSE p[2]]
           Body(F, t) == BorrowStep(F[t \ {Max(t)}], l[Max(t)])
           value[t \in SUBSET DOMAIN l] == IF t = {} THEN a ELSE Body(value, t)
<1>0. (m - k + 1) \in Nat
  OBVIOUS
<1>1. D = DOMAIN l /\ \A i \in D : l[i] = k + i - 1
  BY LoopFrom
<1>2. Borrow(u, k, b) = value[D]
  <2>1. Len(u) = m
    BY ApDigitsType
  <2>2. Borrow(u, k, b) = value[DOMAIN l]
    BY <2>1 DEF Borrow, FoldLeft, MapThenFoldSet
  <2> HIDE DEF D, l, value
  <2> QED BY <1>1, <2>2
<1>3. ASSUME NEW i \in 1 .. (m - k + 1), NEW s \in S PROVE BorrowStep(s, k + i - 1) \in S
  <2>1. k + i - 1 \in 1 .. m
    OBVIOUS
  <2> QED BY <2>1, BorrowStepExact
<1>4. g \in [Nat \X S -> S]
  <2> HIDE DEF S
  <2> QED BY <1>3
<1>5. \A i \in 1 .. (m - k + 1), s \in S : g[<<i, s>>] = BorrowStep(s, k + i - 1)
  <2> TAKE i \in 1 .. (m - k + 1), s \in S
  <2>1. <<i, s>> \in Nat \X S
    OBVIOUS
  <2> QED BY <2>1
<1>6. a \in S
  BY DEF BorrowStates
<1> HIDE DEF g, S, a, l
<1>7. PICK F \in [SUBSET D -> S] : FoldsLeft(F, (m - k + 1), a, g)
  BY <1>0, <1>4, <1>6, FoldsLeftExist
<1>8. ASSUME NEW t \in SUBSET D, t # {}
      PROVE  Max(t) \in D /\ t \ {Max(t)} \in SUBSET D /\ l[Max(t)] = k + Max(t) - 1
  <2>1. Max(t) \in D
    BY <1>0, <1>8, MaxIn
  <2> HIDE DEF D
  <2> QED BY <1>1, <2>1
<1>9. ASSUME NEW t \in SUBSET D PROVE F[t] = IF t = {} THEN a ELSE Body(F, t)
  <2>1. F[t] = IF t = {} THEN a ELSE g[<<Max(t), F[t \ {Max(t)}]>>]
    BY <1>7 DEF FoldsLeft
  <2>2. CASE t # {}
    <3>1. Max(t) \in 1 .. (m - k + 1) /\ F[t \ {Max(t)}] \in S /\ l[Max(t)] = k + Max(t) - 1
      BY <1>8, <2>2
    <3>2. g[<<Max(t), F[t \ {Max(t)}]>>] = Body(F, t)
      BY <1>5, <3>1
    <3> QED BY <2>1, <2>2, <3>2
  <2> QED BY <2>1, <2>2
<1>10. F = [t \in SUBSET DOMAIN l |-> IF t = {} THEN a ELSE Body(F, t)]
  <2> HIDE DEF D, Body
  <2>1. F = [t \in SUBSET D |-> F[t]]
    BY <1>7
  <2> QED BY <1>1, <1>9, <2>1
<1>11. value = CHOOSE e : e = [t \in SUBSET DOMAIN l |-> IF t = {} THEN a ELSE Body(e, t)]
  OBVIOUS
<1> HIDE DEF value
<1>12. value = [t \in SUBSET DOMAIN l |-> IF t = {} THEN a ELSE Body(value, t)]
  <2> HIDE DEF Body
  <2> QED BY <1>10, <1>11
<1>13. \A t \in SUBSET D : value[t] = IF t = {} THEN a ELSE Body(value, t)
  <2> HIDE DEF Body, D
  <2> QED BY <1>1, <1>12
<1>14. PICK h : Solves(h, (m - k + 1), S, a, g)
  BY <1>0, <1>4, <1>6, SolutionExists
<1>15. h \in [0 .. (m - k + 1) -> S] /\ h[0] = a
  BY <1>14 DEF Solves
<1>16. ASSUME NEW i \in 1 .. (m - k + 1) PROVE h[i] = BorrowStep(h[i - 1], k + i - 1)
  <2>1. h[i] = g[<<i, h[i - 1]>>] /\ h[i - 1] \in S
    BY <1>14, <1>15 DEF Solves
  <2> QED BY <1>5, <2>1
<1>17. value[D] = h[(m - k + 1)]
  <2>1. value[{}] = h[0]
    BY <1>13, <1>15
  <2>2. ASSUME NEW i \in 1 .. (m - k + 1), value[1 .. (i - 1)] = h[i - 1] PROVE value[1 .. i] = h[i]
    <3>1. /\ i \in Nat /\ 1 .. i \in SUBSET D /\ 1 .. i # {} /\ i \in D
          /\ (1 .. i) \ {i} = 1 .. (i - 1) /\ Max(1 .. i) = i
      BY <1>0, FirstIndices
    <3>2. value[1 .. i] = Body(value, 1 .. i)
      <4> HIDE DEF Body, D
      <4> QED BY <1>13, <3>1
    <3>3. l[i] = k + i - 1
      <4> HIDE DEF D
      <4> QED BY <1>1, <3>1
    <3>4. value[1 .. i] = BorrowStep(h[i - 1], k + i - 1)
      BY <2>2, <3>1, <3>2, <3>3, Zenon
    <3> QED BY <1>16, <3>4
  <2>3. Along(value, h, (m - k + 1))
    <3> HIDE DEF Body, D
    <3> QED BY <2>1, <2>2 DEF Along
  <2>4. value[1 .. (m - k + 1)] = h[(m - k + 1)]
    <3> HIDE DEF Body, D
    <3> QED BY <1>0, <2>3, AlongPasses
  <2> QED BY <2>4
<1> QED BY <1>2, <1>15, <1>16, <1>17 DEF S, a

LEMMA BorrowExact ==
  ASSUME NEW m \in Nat, NEW u \in ApDigits(m), NEW k \in 1 .. (m + 1), NEW b \in BOOLEAN
  PROVE  /\ Borrow(u, k, b) \in BorrowStates(m)
         /\ \A K : BorrowedFrom([u |-> u, borrow |-> b], K, k - 1) => BorrowedFrom(Borrow(u, k, b), K, m)
<1>0. PICK n \in Nat : n = m - k + 1 /\ k \in Nat
  OBVIOUS
<1>1. PICK h \in [0 .. n -> BorrowStates(m)] :
        /\ h[0] = [u |-> u, borrow |-> b] /\ \A i \in 1 .. n : h[i] = BorrowStep(h[i - 1], k + i - 1)
        /\ Borrow(u, k, b) = h[n]
  <2>1. \E h \in [0 .. (m - k + 1) -> BorrowStates(m)] :
           /\ h[0] = [u |-> u, borrow |-> b]
           /\ \A i \in 1 .. (m - k + 1) : h[i] = BorrowStep(h[i - 1], k + i - 1)
           /\ Borrow(u, k, b) = h[m - k + 1]
    BY BorrowPasses
  <2> QED BY <1>0, <2>1
<1>2. ASSUME NEW K, BorrowedFrom(h[0], K, k - 1) PROVE BorrowedFrom(h[n], K, m)
  <2> DEFINE P == {i \in Nat : BorrowedFrom(h[i], K, k + i - 1)}
  <2>1. 0 \in P
    <3>1. k + 0 - 1 = k - 1
      BY <1>0
    <3> QED BY <1>2, <3>1
  <2>2. ASSUME NEW i \in 1 .. n, i - 1 \in P PROVE i \in P
    <3>1. PICK j \in 1 .. m : j = k + i - 1 /\ j - 1 = k + (i - 1) - 1 /\ i - 1 \in 0 .. n /\ i \in Nat
      BY <1>0
    <3>2. h[i - 1] \in BorrowStates(m) /\ BorrowedFrom(h[i - 1], K, j - 1) /\ h[i] = BorrowStep(h[i - 1], j)
      BY <1>1, <2>2, <3>1
    <3>3. BorrowedFrom(h[i], K, j)
      BY <3>2, BorrowStepExact
    <3> QED BY <3>1, <3>3
  <2>3. n \in P
    <3>1. n \in 0 .. n
      OBVIOUS
    <3>2. \A i \in 0 .. n : i \in P
      <4> HIDE DEF P
      <4> QED BY <2>1, <2>2, UpTo
    <3> HIDE DEF P
    <3> QED BY <3>1, <3>2
  <2>4. k + n - 1 = m
    BY <1>0
  <2> QED BY <2>3, <2>4
<1>3. h[n] \in BorrowStates(m)
  BY <1>1
<1> QED BY <1>1, <1>2, <1>3, Zenon

-----------------------------------------------------------------------------
(* The subtraction of step D4 *)

SubtractStates(m) == [u : ApDigits(m), neg : BOOLEAN]

\* e: u with other digits at two positions.
TwoPut(e, u, at, x, y) == e = [u EXCEPT ![at] = x, ![at + 1] = y]

\* What two digits with another value change.
LEMMA TwoDigitsPut ==
  ASSUME NEW m \in Nat, NEW u \in ApDigits(m), NEW at \in 1 .. (m - 1),
         NEW x \in 0 .. (Base - 1), NEW y \in 0 .. (Base - 1), NEW e, TwoPut(e, u, at, x, y)
  PROVE  /\ e \in ApDigits(m)
         /\ Value(e) = Value(u) + BasePower(at - 1) * ((x + Base * y) - (u[at] + Base * u[at + 1]))
<1>1. PICK B \in Nat : B = Base
  BY BasePositive
<1>2. PICK p \in Nat : p = BasePower(at - 1) /\ BasePower(at) = B * p
  <2>1. at - 1 \in Nat /\ (at - 1) + 1 = at
    OBVIOUS
  <2>2. BasePower((at - 1) + 1) = Base * BasePower(at - 1)
    BY <2>1, BasePowers
  <2> QED BY <1>1, <2>1, <2>2, BasePowers
<1>3. PICK f : f = [u EXCEPT ![at] = x]
  OBVIOUS
<1>4. u \in [1 .. m -> Int] /\ at \in 1 .. m /\ at + 1 \in 1 .. m /\ x \in Int /\ y \in Int
  <2>1. u \in [1 .. m -> Int]
    BY ApDigitsType
  <2> QED BY <1>1, <2>1
<1>5. f \in ApDigits(m) /\ Value(f) = Value(u) + BasePower(at - 1) * (x - u[at])
  <2>1. [u EXCEPT ![at] = x] \in ApDigits(m)
    BY <1>4, DigitPut
  <2>2. Value([u EXCEPT ![at] = x]) = Value(u) + BasePower(at - 1) * (x - u[at])
    BY <1>4, DigitChanged
  <2> QED BY <1>3, <2>1, <2>2, Zenon
<1>6. e = [f EXCEPT ![at + 1] = y]
  BY <1>3, <1>4 DEF TwoPut
<1>7. f \in [1 .. m -> Int]
  BY <1>5, ApDigitsType
<1>8. e \in ApDigits(m) /\ Value(e) = Value(f) + BasePower((at + 1) - 1) * (y - f[at + 1])
  <2>1. [f EXCEPT ![at + 1] = y] \in ApDigits(m)
    BY <1>4, <1>5, DigitPut
  <2>2. Value([f EXCEPT ![at + 1] = y]) = Value(f) + BasePower((at + 1) - 1) * (y - f[at + 1])
    BY <1>4, <1>7, DigitChanged
  <2> QED BY <1>6, <2>1, <2>2, Zenon
<1>9. PICK c \in Int, d \in Int, U \in Int : c = u[at] /\ d = u[at + 1] /\ U = Value(u)
  BY <1>4, ValueBelow
<1>10. f[at + 1] = d /\ (at + 1) - 1 = at
  BY <1>3, <1>4, <1>9
<1>11. Value(e) = (U + p * (x - c)) + (B * p) * (y - d)
  BY <1>2, <1>5, <1>8, <1>9, <1>10
<1>12. (U + p * (x - c)) + (B * p) * (y - d) = U + p * ((x + B * y) - (c + B * d))
  <2>1. p * ((x + B * y) - (c + B * d)) = p * (x - c) + (B * p) * (y - d)
    BY <1>4
  <2>2. p * (x - c) \in Int /\ (B * p) * (y - d) \in Int
    BY <1>4
  <2> QED BY <2>1, <2>2
<1> QED BY <1>1, <1>2, <1>8, <1>9, <1>11, <1>12, Zenon

\* Two digits as one word.
LEMMA DigitsWord ==
  ASSUME NEW B \in Nat, B > 0, NEW c \in 0 .. (B - 1), NEW d \in 0 .. (B - 1)
  PROVE  c + B * d \in 0 .. (B * B - 1)
<1>1. B * d <= B * (B - 1) /\ B * d \in Int
  <2>1. d \in Int /\ B - 1 \in Int /\ d <= B - 1
    OBVIOUS
  <2> QED BY <2>1, TimesAtMost
<1>2. B * (B - 1) = B * B - B /\ B * B \in Int
  OBVIOUS
<1>3. B * d >= 0
  OBVIOUS
<1> QED BY <1>1, <1>2, <1>3

LEMMA SubtractStepExact ==
  ASSUME NEW m \in Nat, NEW s \in SubtractStates(m), NEW at \in 1 .. (m - 1), NEW z \in 0 .. (Word - 1)
  PROVE  /\ SubtractStep(s, at, z) \in SubtractStates(m)
         /\ ~SubtractStep(s, at, z).neg =>
              ~s.neg /\ Value(SubtractStep(s, at, z).u) = Value(s.u) - z * BasePower(at - 1)
<1>1. PICK B \in Nat : B = Base /\ B > 0
  BY BasePositive
<1>2. PICK W \in Nat : W = Word /\ W = B * B /\ W > 0
  BY <1>1, WordPositive DEF Word
<1>3. PICK u : u = s.u
  OBVIOUS
<1>4. s.neg \in BOOLEAN /\ u \in ApDigits(m)
  BY <1>3 DEF SubtractStates
<1>5. PICK c \in 0 .. (B - 1), d \in 0 .. (B - 1) : c = u[at] /\ d = u[at + 1]
  BY <1>1, <1>4 DEF ApDigits
<1>6. PICK tmp \in 0 .. (W - 1) : tmp = c + B * d
  <2>1. c + B * d \in 0 .. (B * B - 1)
    BY <1>1, DigitsWord
  <2> QED BY <1>2, <2>1
<1>7. PICK bit \in BOOLEAN : bit = (z > tmp) /\ (bit => z > tmp) /\ (~bit => z <= tmp)
  <2>1. z \in Int /\ tmp \in Int
    BY <1>2
  <2>2. CASE z > tmp
    <3>1. (z > tmp) = TRUE
      BY <2>2
    <3> QED BY <2>2, <3>1
  <2>3. CASE ~(z > tmp)
    <3>1. (z > tmp) = FALSE
      BY <2>3
    <3>2. z <= tmp
      BY <2>1, <2>3
    <3> QED BY <3>1, <3>2
  <2> QED BY <2>2, <2>3
<1>8. PICK result \in 0 .. (W - 1) : /\ result = (tmp - z + W) % W
                                     /\ bit => result = tmp - z + W
                                     /\ ~bit => result = tmp - z
  <2>1. PICK t \in 0 .. (2 * W - 1) : t = tmp - z + W
    BY <1>2
  <2>2. t % W = IF t < W THEN t ELSE t - W
    BY <1>2, Wraps
  <2>3. CASE bit
    <3>1. t < W /\ t \in 0 .. (W - 1)
      BY <1>2, <1>7, <2>1, <2>3
    <3> QED BY <2>1, <2>2, <2>3, <3>1
  <2>4. CASE ~bit
    <3>1. ~(t < W) /\ t - W \in 0 .. (W - 1) /\ t - W = tmp - z
      BY <1>2, <1>7, <2>1, <2>4
    <3> QED BY <2>1, <2>2, <2>4, <3>1
  <2> QED BY <2>3, <2>4
<1>9. Lo(result) \in 0 .. (B - 1) /\ Hi(result) \in 0 .. (B - 1) /\ result = B * Hi(result) + Lo(result)
  <2>1. result \in 0 .. (B * B - 1)
    BY <1>2
  <2> QED BY <1>1, <2>1, WordDigits
<1>10. PICK x \in 0 .. (B - 1), y \in 0 .. (B - 1) : x = Lo(result) /\ y = Hi(result) /\ x + B * y = result
  <2>1. PICK x \in 0 .. (B - 1), y \in 0 .. (B - 1) : x = Lo(result) /\ y = Hi(result)
    BY <1>9
  <2>2. x + B * y = B * y + x
    OBVIOUS
  <2> QED BY <1>9, <2>1, <2>2, Zenon
<1>11. PICK e : e = [u EXCEPT ![at] = x, ![at + 1] = y]
  OBVIOUS
<1>12. PICK done : done = Borrow(e, at + 2, bit)
  OBVIOUS
<1>13. SubtractStep(s, at, z) = [u |-> done.u, neg |-> s.neg \/ done.borrow]
  <2>1. s.u[at] + Base * s.u[at + 1] = tmp
    BY <1>1, <1>3, <1>5, <1>6
  <2>2. SubtractStep(s, at, z) =
          LET res == (tmp - z + Word) % Word
              dn == Borrow([u EXCEPT ![at] = Lo(res), ![at + 1] = Hi(res)], at + 2, z > tmp)
          IN [u |-> dn.u, neg |-> s.neg \/ dn.borrow]
    BY <1>3, <2>1, Zenon DEF SubtractStep
  <2>3. (tmp - z + Word) % Word = result
    BY <1>2, <1>8
  <2>4. SubtractStep(s, at, z) =
          LET dn == Borrow([u EXCEPT ![at] = Lo(result), ![at + 1] = Hi(result)], at + 2, z > tmp)
          IN [u |-> dn.u, neg |-> s.neg \/ dn.borrow]
    BY <2>2, <2>3, Zenon
  <2> QED BY <1>7, <1>10, <1>11, <1>12, <2>4, Zenon
<1>14. PICK p \in Nat : p = BasePower(at - 1) /\ BasePower(at + 1) = W * p
  <2>1. at - 1 \in Nat /\ at \in Nat /\ (at - 1) + 1 = at /\ at + 1 \in Nat
    OBVIOUS
  <2>2. BasePower((at - 1) + 1) = Base * BasePower(at - 1) /\ BasePower(at + 1) = Base * BasePower(at)
    BY <2>1, BasePowers
  <2>3. PICK p \in Nat : p = BasePower(at - 1)
    BY <2>1, BasePowers
  <2>4. BasePower(at + 1) = B * (B * p)
    BY <1>1, <2>1, <2>2, <2>3
  <2>5. B * (B * p) = (B * B) * p
    OBVIOUS
  <2> QED BY <1>2, <2>3, <2>4, <2>5
<1>15. PICK U \in Int : U = Value(u)
  BY <1>4, ValueBelow
<1>16. e \in ApDigits(m) /\ Value(e) = U + p * (result - tmp)
  <2>1. x \in 0 .. (Base - 1) /\ y \in 0 .. (Base - 1)
    BY <1>1
  <2>2. PICK uu \in ApDigits(m) : uu = u
    BY <1>4
  <2>3. TwoPut(e, uu, at, x, y)
    BY <1>11, <2>2 DEF TwoPut
  <2>4. /\ e \in ApDigits(m)
        /\ Value(e) = Value(uu) + BasePower(at - 1) * ((x + Base * y) - (uu[at] + Base * uu[at + 1]))
    BY <2>1, <2>3, TwoDigitsPut
  <2> QED BY <1>1, <1>5, <1>6, <1>10, <1>14, <1>15, <2>2, <2>4, Zenon
<1>17. PICK K \in Int : K = U - z * p
  <2>1. z * p \in Int
    <3>1. z \in Int
      BY <1>2
    <3> QED BY <3>1
  <2> QED BY <2>1
<1>18. BorrowedFrom([u |-> e, borrow |-> bit], K, (at + 2) - 1)
  <2>0. (at + 2) - 1 = at + 1 /\ z \in Int /\ tmp \in Int /\ result \in Int
    BY <1>2
  <2>1. CASE bit
    <3>1. p * (result - tmp) = W * p - z * p /\ W * p \in Int /\ z * p \in Int
      <4>1. result - tmp = W - z
        BY <1>8, <2>0, <2>1
      <4>2. p * (W - z) = W * p - z * p /\ W * p \in Int /\ z * p \in Int
        BY <2>0
      <4> QED BY <4>1, <4>2
    <3>2. Value(e) = K + W * p
      BY <1>16, <1>17, <3>1
    <3> QED BY <1>14, <2>0, <2>1, <3>2 DEF BorrowedFrom
  <2>2. CASE ~bit
    <3>1. p * (result - tmp) = -(z * p) /\ z * p \in Int
      <4>1. result - tmp = -z
        BY <1>8, <2>0, <2>2
      <4>2. p * (-z) = -(z * p) /\ z * p \in Int
        BY <2>0
      <4> QED BY <4>1, <4>2
    <3>2. Value(e) = K + 0
      BY <1>16, <1>17, <3>1
    <3> QED BY <2>2, <3>2 DEF BorrowedFrom
  <2> QED BY <2>1, <2>2
<1>19. done \in BorrowStates(m) /\ BorrowedFrom(done, K, m)
  <2>1. at + 2 \in 1 .. (m + 1)
    OBVIOUS
  <2>2. Borrow(e, at + 2, bit) \in BorrowStates(m)
    BY <1>16, <2>1, BorrowExact
  <2>3. \A Kx : BorrowedFrom([u |-> e, borrow |-> bit], Kx, (at + 2) - 1) => BorrowedFrom(Borrow(e, at + 2, bit), Kx, m)
    BY <1>16, <2>1, BorrowExact
  <2> QED BY <1>12, <1>18, <2>2, <2>3, Zenon
<1>20. done.u \in ApDigits(m) /\ done.borrow \in BOOLEAN
  BY <1>19 DEF BorrowStates
<1>21. [u |-> done.u, neg |-> s.neg \/ done.borrow] \in SubtractStates(m)
  BY <1>4, <1>20 DEF SubtractStates
<1>22. ~done.borrow => Value(done.u) = U - z * p
  <2>1. ~done.borrow => Value(done.u) = K + 0
    BY <1>19 DEF BorrowedFrom
  <2> QED BY <1>17, <2>1
<1>23. ~[u |-> done.u, neg |-> s.neg \/ done.borrow].neg => ~s.neg /\ Value(done.u) = U - z * p
  BY <1>22
<1>24. [u |-> done.u, neg |-> s.neg \/ done.borrow].u = done.u
  OBVIOUS
<1> QED BY <1>3, <1>13, <1>14, <1>15, <1>21, <1>23, <1>24, Zenon

LEMMA IntRemainder == ASSUME NEW w \in Nat, w > 0, NEW x \in Int PROVE x % w \in 0 .. (w - 1)
OBVIOUS

\* The states h of the loop of step D4.
Subtracting(h, m, u, n, v, j, q) ==
  /\ h \in [0 .. n -> SubtractStates(m)]
  /\ h[0] = [u |-> u, neg |-> FALSE]
  /\ \A i \in 1 .. n : h[i] = SubtractStep(h[i - 1], j + i - 1, (q * v[i]) % Word)
  /\ MultiplyAndSubtract(u, v, j, q) = h[n]

\* The loop of step D4, pass by pass.
LEMMA SubtractPasses ==
  ASSUME NEW m \in Nat, NEW u \in ApDigits(m), NEW n \in Nat, NEW v \in ApDigits(n),
         NEW j \in Nat, j >= 1, j + n <= m, NEW q \in Int
  PROVE  \E h : Subtracting(h, m, u, n, v, j, q)
<1> DEFINE D == 1 .. n
           S == SubtractStates(m)
           a == [u |-> u, neg |-> FALSE]
           l == Loop(1, n)
           g == [p \in Nat \X S |-> IF p[1] \in 1 .. n THEN SubtractStep(p[2], j + p[1] - 1, (q * v[p[1]]) % Word) ELSE p[2]]
           Body(F, t) == SubtractStep(F[t \ {Max(t)}], j + l[Max(t)] - 1, (q * v[l[Max(t)]]) % Word)
           value[t \in SUBSET DOMAIN l] == IF t = {} THEN a ELSE Body(value, t)
<1>0. n \in Nat
  OBVIOUS
<1>1. D = DOMAIN l /\ \A i \in D : l[i] = i
  BY LoopUpTo
<1>2. MultiplyAndSubtract(u, v, j, q) = value[D]
  <2>1. Len(v) = n
    BY ApDigitsType
  <2>2. MultiplyAndSubtract(u, v, j, q) = value[DOMAIN l]
    BY <2>1 DEF MultiplyAndSubtract, FoldLeft, MapThenFoldSet
  <2> HIDE DEF D, l, value
  <2> QED BY <1>1, <2>2
<1>3. ASSUME NEW i \in 1 .. n, NEW s \in S PROVE SubtractStep(s, j + i - 1, (q * v[i]) % Word) \in S
  <2>1. j + i - 1 \in 1 .. (m - 1)
    OBVIOUS
  <2>2. (q * v[i]) % Word \in 0 .. (Word - 1)
    <3>1. v[i] \in Int
      BY ApDigitsType
    <3>2. PICK x \in Int : x = q * v[i]
      BY <3>1
    <3> QED BY <3>2, WordPositive, IntRemainder
  <2> QED BY <2>1, <2>2, SubtractStepExact
<1>4. g \in [Nat \X S -> S]
  <2> HIDE DEF S
  <2> QED BY <1>3
<1>5. \A i \in 1 .. n, s \in S : g[<<i, s>>] = SubtractStep(s, j + i - 1, (q * v[i]) % Word)
  <2> TAKE i \in 1 .. n, s \in S
  <2>1. <<i, s>> \in Nat \X S
    OBVIOUS
  <2> QED BY <2>1
<1>6. a \in S
  BY DEF SubtractStates
<1> HIDE DEF g, S, a, l
<1>7. PICK F \in [SUBSET D -> S] : FoldsLeft(F, n, a, g)
  BY <1>0, <1>4, <1>6, FoldsLeftExist
<1>8. ASSUME NEW t \in SUBSET D, t # {}
      PROVE  Max(t) \in D /\ t \ {Max(t)} \in SUBSET D /\ l[Max(t)] = Max(t)
  <2>1. Max(t) \in D
    BY <1>0, <1>8, MaxIn
  <2> HIDE DEF D
  <2> QED BY <1>1, <2>1
<1>9. ASSUME NEW t \in SUBSET D PROVE F[t] = IF t = {} THEN a ELSE Body(F, t)
  <2>1. F[t] = IF t = {} THEN a ELSE g[<<Max(t), F[t \ {Max(t)}]>>]
    BY <1>7 DEF FoldsLeft
  <2>2. CASE t # {}
    <3>1. Max(t) \in 1 .. n /\ F[t \ {Max(t)}] \in S /\ l[Max(t)] = Max(t)
      BY <1>8, <2>2
    <3>2. g[<<Max(t), F[t \ {Max(t)}]>>] = Body(F, t)
      BY <1>5, <3>1
    <3> QED BY <2>1, <2>2, <3>2
  <2> QED BY <2>1, <2>2
<1>10. F = [t \in SUBSET DOMAIN l |-> IF t = {} THEN a ELSE Body(F, t)]
  <2> HIDE DEF D, Body
  <2>1. F = [t \in SUBSET D |-> F[t]]
    BY <1>7
  <2> QED BY <1>1, <1>9, <2>1
<1>11. value = CHOOSE e : e = [t \in SUBSET DOMAIN l |-> IF t = {} THEN a ELSE Body(e, t)]
  OBVIOUS
<1> HIDE DEF value
<1>12. value = [t \in SUBSET DOMAIN l |-> IF t = {} THEN a ELSE Body(value, t)]
  <2> HIDE DEF Body
  <2> QED BY <1>10, <1>11
<1>13. \A t \in SUBSET D : value[t] = IF t = {} THEN a ELSE Body(value, t)
  <2> HIDE DEF Body, D
  <2> QED BY <1>1, <1>12
<1>14. PICK h : Solves(h, n, S, a, g)
  BY <1>0, <1>4, <1>6, SolutionExists
<1>15. h \in [0 .. n -> S] /\ h[0] = a
  BY <1>14 DEF Solves
<1>16. ASSUME NEW i \in 1 .. n PROVE h[i] = SubtractStep(h[i - 1], j + i - 1, (q * v[i]) % Word)
  <2>1. h[i] = g[<<i, h[i - 1]>>] /\ h[i - 1] \in S
    BY <1>14, <1>15 DEF Solves
  <2> QED BY <1>5, <2>1
<1>17. value[D] = h[n]
  <2>1. value[{}] = h[0]
    BY <1>13, <1>15
  <2>2. ASSUME NEW i \in 1 .. n, value[1 .. (i - 1)] = h[i - 1] PROVE value[1 .. i] = h[i]
    <3>1. /\ i \in Nat /\ 1 .. i \in SUBSET D /\ 1 .. i # {} /\ i \in D
          /\ (1 .. i) \ {i} = 1 .. (i - 1) /\ Max(1 .. i) = i
      BY <1>0, FirstIndices
    <3>2. value[1 .. i] = Body(value, 1 .. i)
      <4> HIDE DEF Body, D
      <4> QED BY <1>13, <3>1
    <3>3. l[i] = i
      <4> HIDE DEF D
      <4> QED BY <1>1, <3>1
    <3>4. value[1 .. i] = SubtractStep(h[i - 1], j + i - 1, (q * v[i]) % Word)
      BY <2>2, <3>1, <3>2, <3>3, Zenon
    <3> QED BY <1>16, <3>4
  <2>3. Along(value, h, n)
    <3> HIDE DEF Body, D
    <3> QED BY <2>1, <2>2 DEF Along
  <2>4. value[1 .. n] = h[n]
    <3> HIDE DEF Body, D
    <3> QED BY <1>0, <2>3, AlongPasses
  <2> QED BY <2>4
<1> QED BY <1>2, <1>15, <1>16, <1>17 DEF S, a, Subtracting

\* Step D4 takes q times the divisor away, if the result is not negative.
TakesTimes(t, u, v, q, p) == Value(t) = Value(u) - q * (Value(v) * p)

LEMMA MultiplyAndSubtractExact ==
  ASSUME NEW m \in Nat, NEW u \in ApDigits(m), NEW n \in Nat, NEW v \in ApDigits(n),
         NEW j \in Nat, j >= 1, j + n <= m, NEW q \in Int
  PROVE  /\ MultiplyAndSubtract(u, v, j, q) \in SubtractStates(m)
         /\ q \in 0 .. (Base - 1) /\ ~MultiplyAndSubtract(u, v, j, q).neg =>
              TakesTimes(MultiplyAndSubtract(u, v, j, q).u, u, v, q, BasePower(j - 1))
<1>0. PICK h : Subtracting(h, m, u, n, v, j, q)
  BY SubtractPasses
<1>1. /\ h \in [0 .. n -> SubtractStates(m)]
      /\ h[0] = [u |-> u, neg |-> FALSE]
      /\ \A i \in 1 .. n : h[i] = SubtractStep(h[i - 1], j + i - 1, (q * v[i]) % Word)
      /\ MultiplyAndSubtract(u, v, j, q) = h[n]
  BY <1>0, Zenon DEF Subtracting
<1>2. h[n] \in SubtractStates(m)
  BY <1>1
<1>3. ASSUME q \in 0 .. (Base - 1), ~h[n].neg PROVE TakesTimes(h[n].u, u, v, q, BasePower(j - 1))
  <2>1. PICK B \in Nat : B = Base /\ B > 0 /\ Word = B * B
    BY BasePositive DEF Word
  <2>2. PICK Y \in Nat, U \in Int : Y = BasePower(j - 1) /\ U = Value(u)
    <3>1. j - 1 \in Nat
      OBVIOUS
    <3>2. BasePower(j - 1) \in Nat
      BY <3>1, BasePowers
    <3>3. Value(u) \in Int
      BY ValueBelow
    <3> QED BY <3>2, <3>3
  <2>3. v \in [1 .. n -> Int] /\ v \in [1 .. n -> 0 .. (B - 1)]
    BY <2>1, ApDigitsType DEF ApDigits
  <2> DEFINE P == {i \in Nat : ~h[i].neg => Value(h[i].u) = U - q * (LowPart(v, i) * Y)}
  <2>4. 0 \in P
    <3>1. LowPart(v, 0) = 0
      BY <2>3, LowParts
    <3>2. U - q * (0 * Y) = U
      <4>1. 0 * Y = 0 /\ q * 0 = 0
        OBVIOUS
      <4> QED BY <4>1
    <3>3. h[0].u = u
      BY <1>1
    <3>4. Value(h[0].u) = U - q * (LowPart(v, 0) * Y)
      BY <2>2, <3>1, <3>2, <3>3, Zenon
    <3> QED BY <3>4
  <2>5. ASSUME NEW i \in 1 .. n, i - 1 \in P PROVE i \in P
    <3>1. PICK at \in 1 .. (m - 1) : at = j + i - 1 /\ at - 1 = (j - 1) + (i - 1) /\ j - 1 \in Nat /\ i - 1 \in Nat /\ i - 1 \in 0 .. n /\ i \in Nat
      OBVIOUS
    <3>2. PICK d \in 0 .. (B - 1) : d = v[i]
      BY <2>3
    <3>3. PICK z \in 0 .. (Word - 1) : z = q * d /\ (q * v[i]) % Word = z
      <4>1. q \in 0 .. (B - 1)
        BY <1>3, <2>1
      <4>2. q * d \in 0 .. (B * B - 1)
        <5>1. q \in Nat /\ d \in Nat /\ B - 1 \in Nat /\ q <= B - 1 /\ d <= B - 1
          BY <2>1, <4>1
        <5>2. PICK b \in Nat : b = B - 1
          BY <5>1
        <5>3. q * d \in Nat /\ q * d <= b * b
          BY <5>1, <5>2, ProductBound
        <5>4. B * B = b * b + b + b + 1
          <6>1. (b + 1) * (b + 1) = b * b + b + b + 1
            OBVIOUS
          <6>2. B = b + 1
            BY <5>2
          <6> QED BY <6>1, <6>2
        <5>5. b * b \in Int
          OBVIOUS
        <5> QED BY <5>3, <5>4, <5>5
      <4>3. PICK z \in 0 .. (Word - 1) : z = q * d
        BY <2>1, <4>2
      <4>4. z % Word = z
        BY WordPositive
      <4> QED BY <3>2, <4>3, <4>4
    <3>4. h[i - 1] \in SubtractStates(m) /\ h[i] = SubtractStep(h[i - 1], at, z)
      BY <1>1, <3>1, <3>3
    <3>5. ~h[i].neg => ~h[i - 1].neg /\ Value(h[i].u) = Value(h[i - 1].u) - z * BasePower(at - 1)
      BY <3>4, SubtractStepExact
    <3>6. PICK p \in Nat, l \in Int : p = BasePower(i - 1) /\ l = LowPart(v, i - 1) /\ BasePower(at - 1) = Y * p
      <4>1. BasePower((j - 1) + (i - 1)) = BasePower(j - 1) * BasePower(i - 1)
        BY <3>1, BasePowerSum
      <4>2. BasePower(i - 1) \in Nat
        BY <3>1, BasePowers
      <4>3. LowPart(v, i - 1) \in Int
        BY <2>3, <3>1, LowParts
      <4> QED BY <2>2, <3>1, <4>1, <4>2, <4>3
    <3>7. LowPart(v, i) = l + p * d
      <4>1. LowPart(v, i) = LowPart(v, i - 1) + BasePower(i - 1) * v[i]
        BY <2>3, LowParts
      <4> QED BY <3>2, <3>6, <4>1
    <3>8. (U - q * (l * Y)) - (q * d) * (Y * p) = U - q * ((l + p * d) * Y)
      <4>1. q * ((l + p * d) * Y) = q * (l * Y) + (q * d) * (Y * p)
        OBVIOUS
      <4>2. q * (l * Y) \in Int /\ (q * d) * (Y * p) \in Int
        OBVIOUS
      <4> QED BY <4>1, <4>2
    <3>9. ~h[i].neg => Value(h[i].u) = U - q * (LowPart(v, i) * Y)
      <4>1. SUFFICES ASSUME ~h[i].neg PROVE Value(h[i].u) = U - q * (LowPart(v, i) * Y)
        OBVIOUS
      <4>2. Value(h[i - 1].u) = U - q * (l * Y)
        BY <2>5, <3>5, <3>6, <4>1
      <4>3. Value(h[i].u) = (U - q * (l * Y)) - (q * d) * (Y * p)
        BY <3>3, <3>5, <3>6, <4>1, <4>2, Zenon
      <4> QED BY <3>7, <3>8, <4>3, Zenon
    <3> QED BY <3>1, <3>9
  <2>6. n \in P
    <3>1. n \in 0 .. n
      OBVIOUS
    <3>2. \A i \in 0 .. n : i \in P
      <4> HIDE DEF P
      <4> QED BY <2>4, <2>5, UpTo
    <3> HIDE DEF P
    <3> QED BY <3>1, <3>2
  <2>7. Value(h[n].u) = U - q * (LowPart(v, n) * Y)
    BY <1>3, <2>6
  <2>8. Value(v) = LowPart(v, n)
    BY <2>3, LowParts
  <2> QED BY <2>2, <2>7, <2>8, Zenon DEF TakesTimes
<1> QED BY <1>1, <1>2, <1>3, Zenon

-----------------------------------------------------------------------------
(* The main loop *)

LEMMA SmallRemainder == ASSUME NEW w \in Nat, w > 0, NEW x \in 0 .. (w - 1) PROVE x % w = x
OBVIOUS

\* A trial digit is a number.
LEMMA TrialDigitType ==
  ASSUME NEW m \in Nat, NEW u \in ApDigits(m), NEW n \in Nat, n >= 2, NEW v \in ApDigits(n), v[n] > 0,
         NEW k \in 3 .. m
  PROVE  TrialDigit(u, v, k) \in Int
<1>1. PICK h \in Nat : h = v[n] /\ h > 0 /\ Len(v) = n
  <2>1. v[n] \in Nat /\ Len(v) = n
    BY ApDigitsType
  <2> QED BY <2>1
<1>2. PICK N \in Nat : N = u[k] * Base + u[k - 1]
  <2>1. u[k] \in Nat /\ u[k - 1] \in Nat /\ Base \in Nat
    BY ApDigitsType, BasePositive
  <2> QED BY <2>1
<1>3. PICK q \in Int, r \in Int : q = N \div h /\ r = N % h
  <2>1. N \div h \in Int /\ N % h \in Int
    BY <1>1
  <2> QED BY <2>1
<1>4. TrialDigit(u, v, k) =
        IF ~TooBig(u, v, k, q, r) THEN q
        ELSE IF r + h < Base /\ TooBig(u, v, k, q - 1, r + h) THEN q - 2 ELSE q - 1
  BY <1>1, <1>2, <1>3, Zenon DEF TrialDigit
<1>5. q - 1 \in Int /\ q - 2 \in Int
  OBVIOUS
<1> QED BY <1>4, <1>5

\* What the complement and the adding back leave are digits.
LEMMA ComplementType ==
  ASSUME NEW m \in Nat, NEW u \in ApDigits(m)
  PROVE  Complement(u) \in ApDigits(m)
<1>1. Len(u) = m
  BY ApDigitsType
<1>2. PICK x \in Nat : x = BasePower(m) - Value(u)
  <2>1. Value(u) \in Nat /\ Value(u) < BasePower(m)
    BY ValueBelow
  <2>2. BasePower(m) \in Nat
    BY BasePowers
  <2> QED BY <2>1, <2>2
<1>3. DigitsOf(x, m) \in ApDigits(m)
  BY DigitsOfType
<1> QED BY <1>1, <1>2, <1>3, Zenon DEF Complement

LEMMA AddBackType ==
  ASSUME NEW m \in Nat, NEW u \in ApDigits(m), NEW n \in Nat, NEW v \in ApDigits(n), NEW j \in Nat, j >= 1, j + n <= m
  PROVE  AddBack(u, v, j) \in ApDigits(m)
<1>1. Len(v) = n /\ DOMAIN u = 1 .. m /\ n + 1 \in Nat
  BY ApDigitsType
<1>2. Window(u, j, n + 1) \in ApDigits(n + 1)
  <2>1. \A k \in 1 .. (n + 1) : j + k - 1 \in 1 .. m
    OBVIOUS
  <2>2. \A k \in 1 .. m : u[k] \in 0 .. (Base - 1)
    BY DEF ApDigits
  <2>3. \A k \in 1 .. (n + 1) : u[j + k - 1] \in 0 .. (Base - 1)
    BY <2>1, <2>2
  <2> QED BY <2>3 DEF Window, ApDigits
<1>3. PICK x \in Nat : x = Value(Window(u, j, n + 1)) + Value(v)
  <2>1. Value(Window(u, j, n + 1)) \in Nat /\ Value(v) \in Nat
    BY <1>1, <1>2, ValueBelow
  <2> QED BY <2>1
<1>4. PICK sum \in ApDigits(n + 1) : sum = DigitsOf(x, n + 1)
  BY <1>1, DigitsOfType
<1>5. AddBack(u, v, j) = [k \in DOMAIN u |-> IF k \in j .. (j + n) THEN sum[k - j + 1] ELSE u[k]]
  BY <1>1, <1>3, <1>4, Zenon DEF AddBack
<1>6. AddBack(u, v, j) = [k \in 1 .. m |-> IF k \in j .. (j + n) THEN sum[k - j + 1] ELSE u[k]]
  BY <1>1, <1>5, Zenon
<1>7. ASSUME NEW k \in 1 .. m PROVE (IF k \in j .. (j + n) THEN sum[k - j + 1] ELSE u[k]) \in 0 .. (Base - 1)
  <2>1. CASE k \in j .. (j + n)
    <3>1. k - j + 1 \in 1 .. (n + 1)
      BY <2>1
    <3> QED BY <2>1, <3>1 DEF ApDigits
  <2>2. CASE ~(k \in j .. (j + n))
    BY <2>2 DEF ApDigits
  <2> QED BY <2>1, <2>2
<1> QED BY <1>6, <1>7 DEF ApDigits

\* The states of the main loop, and what is left of the dividend U when it comes to the power Y.
KnuthStates(m) == [u : ApDigits(m), q : Seq(0 .. (Base - 1)), back : BOOLEAN]
Remains(s, v, U, Y) == Value(s.u) < Value(v) * Y /\ U = Value(s.u) + (Value(v) * Y) * Value(s.q)

LEMMA KnuthStepExact ==
  ASSUME NEW m \in Nat, NEW s \in KnuthStates(m), NEW n \in Nat, n >= 2, NEW v \in ApDigits(n), Base <= 2 * v[n],
         NEW j \in Nat, j >= 1, j + n <= m
  PROVE  /\ KnuthStep(s, v, j) \in KnuthStates(m)
         /\ ~KnuthStep(s, v, j).back =>
              /\ ~s.back
              /\ \A i \in Nat, U \in Nat :
                   s.q \in ApDigits(i) /\ Remains(s, v, U, BasePower(j)) =>
                     /\ KnuthStep(s, v, j).q \in ApDigits(i + 1)
                     /\ Remains(KnuthStep(s, v, j), v, U, BasePower(j - 1))
<1>1. PICK B \in Nat : B = Base /\ B > 1
  BY BasePositive, BaseAboveOne
<1>2. Len(v) = n /\ v[n] > 0 /\ v[n] \in Nat
  <2>1. v[n] \in Nat /\ Len(v) = n
    BY ApDigitsType
  <2> QED BY <1>1, <2>1
<1>3. PICK u \in ApDigits(m), qs \in Seq(0 .. (Base - 1)) : u = s.u /\ qs = s.q /\ s.back \in BOOLEAN
  BY DEF KnuthStates
<1>4. PICK q \in Int : q = TrialDigit(u, v, j + n)
  <2>1. j + n \in 3 .. m
    OBVIOUS
  <2> QED BY <1>2, <2>1, TrialDigitType
<1>5. PICK d4 : d4 = MultiplyAndSubtract(u, v, j, q)
  OBVIOUS
<1>6. d4 \in SubtractStates(m)
  BY <1>5, MultiplyAndSubtractExact
<1>7. d4.u \in ApDigits(m) /\ d4.neg \in BOOLEAN
  BY <1>6 DEF SubtractStates
<1>8. KnuthStep(s, v, j) =
        IF d4.neg
        THEN [u |-> AddBack(Complement(d4.u), v, j), q |-> <<(q - 1) % Base>> \o qs, back |-> TRUE]
        ELSE [u |-> d4.u, q |-> <<q % Base>> \o qs, back |-> s.back]
  BY <1>2, <1>3, <1>4, <1>5, Zenon DEF KnuthStep
<1>9. \A x \in Int : x % Base \in 0 .. (Base - 1) /\ <<x % Base>> \o qs \in Seq(0 .. (Base - 1))
  <2> TAKE x \in Int
  <2>1. x % Base \in 0 .. (Base - 1)
    BY <1>1, IntRemainder
  <2>2. PICK d \in 0 .. (Base - 1) : d = x % Base
    BY <2>1
  <2>3. <<d>> \o qs \in Seq(0 .. (Base - 1))
    OBVIOUS
  <2> QED BY <2>1, <2>2, <2>3
<1>10. CASE d4.neg
  <2>1. AddBack(Complement(d4.u), v, j) \in ApDigits(m)
    BY <1>7, ComplementType, AddBackType
  <2>2. <<(q - 1) % Base>> \o qs \in Seq(0 .. (Base - 1))
    <3>1. q - 1 \in Int
      OBVIOUS
    <3> QED BY <1>9, <3>1
  <2>3. KnuthStep(s, v, j) = [u |-> AddBack(Complement(d4.u), v, j), q |-> <<(q - 1) % Base>> \o qs, back |-> TRUE]
    BY <1>8, <1>10
  <2>4. KnuthStep(s, v, j) \in KnuthStates(m)
    BY <2>1, <2>2, <2>3 DEF KnuthStates
  <2>5. KnuthStep(s, v, j).back = TRUE
    BY <2>3
  <2> QED BY <2>4, <2>5, Zenon
<1>11. CASE ~d4.neg
  <2>1. KnuthStep(s, v, j) = [u |-> d4.u, q |-> <<q % Base>> \o qs, back |-> s.back]
    BY <1>8, <1>11
  <2>2. KnuthStep(s, v, j) \in KnuthStates(m)
    BY <1>3, <1>7, <1>9, <2>1 DEF KnuthStates
  <2>3. /\ KnuthStep(s, v, j).u = d4.u /\ KnuthStep(s, v, j).q = <<q % Base>> \o qs
        /\ KnuthStep(s, v, j).back = s.back
    BY <2>1
  <2>4. ASSUME NEW i \in Nat, NEW U \in Nat, s.q \in ApDigits(i), Remains(s, v, U, BasePower(j))
        PROVE  /\ KnuthStep(s, v, j).q \in ApDigits(i + 1)
               /\ Remains(KnuthStep(s, v, j), v, U, BasePower(j - 1))
    <3>1. PICK Y \in Nat : Y = BasePower(j - 1) /\ BasePower(j) = B * Y
      <4>1. j - 1 \in Nat /\ (j - 1) + 1 = j
        OBVIOUS
      <4>2. BasePower((j - 1) + 1) = Base * BasePower(j - 1)
        BY <4>1, BasePowers
      <4>3. BasePower(j - 1) \in Nat
        BY <4>1, BasePowers
      <4> QED BY <1>1, <4>1, <4>2, <4>3
    <3>2. PICK V \in Nat, R \in Nat : V = Value(v) /\ R = Value(u)
      BY ValueBelow
    <3>3. PICK Q \in Nat : Q = Value(qs) /\ qs \in ApDigits(i)
      <4>1. qs \in ApDigits(i)
        BY <1>3, <2>4
      <4> QED BY <4>1, ValueBelow
    <3>4. R < V * (B * Y) /\ U = R + (V * (B * Y)) * Q
      BY <1>3, <2>4, <3>1, <3>2, <3>3, Zenon DEF Remains
    <3>5. PICK Z \in Nat : Z = V * Y
      OBVIOUS
    <3>6. V * (B * Y) = B * Z
      <4>1. V * (B * Y) = B * (V * Y)
        OBVIOUS
      <4> QED BY <3>5, <4>1
    <3>7. q \in 0 .. (Base - 1) /\ R < (q + 1) * Z
      <4>1. Value(u) < Base * (Value(v) * BasePower(j - 1))
        BY <1>1, <3>1, <3>2, <3>4, <3>5, <3>6
      <4>2. /\ TrialDigit(u, v, j + n) \in 0 .. (Base - 1)
            /\ Value(u) < (TrialDigit(u, v, j + n) + 1) * (Value(v) * BasePower(j - 1))
        BY <4>1, TrialDigitEnough
      <4> QED BY <1>4, <3>1, <3>2, <3>5, <4>2
    <3>8. Value(d4.u) = R - q * Z
      <4>1. TakesTimes(d4.u, u, v, q, BasePower(j - 1))
        BY <1>5, <1>11, <3>7, MultiplyAndSubtractExact
      <4>2. Value(d4.u) = Value(u) - q * (Value(v) * BasePower(j - 1))
        BY <4>1 DEF TakesTimes
      <4> QED BY <3>1, <3>2, <3>5, <4>2
    <3>9. q % Base = q
      <4>1. q \in 0 .. (B - 1)
        BY <1>1, <3>7
      <4>2. q % B = q
        <5>1. B > 0
          BY <1>1
        <5> QED BY <4>1, <5>1, SmallRemainder
      <4> QED BY <1>1, <4>2
    <3>10. <<q>> \o qs \in ApDigits(i + 1) /\ Value(<<q>> \o qs) = q + B * Q
      <4>1. <<q>> \o qs \in ApDigits(i + 1) /\ Value(<<q>> \o qs) = q + Base * Value(qs)
        BY <3>3, <3>7, DigitBefore
      <4> QED BY <1>1, <3>3, <4>1
    <3>11. R - q * Z < Z
      <4>1. (q + 1) * Z = q * Z + Z /\ q * Z \in Int
        OBVIOUS
      <4> QED BY <3>7, <4>1
    <3>12. U = (R - q * Z) + Z * (q + B * Q)
      <4>1. (B * Z) * Q = Z * (B * Q) /\ Z * (q + B * Q) = q * Z + Z * (B * Q)
        OBVIOUS
      <4>2. q * Z \in Int /\ Z * (B * Q) \in Int
        OBVIOUS
      <4>3. U = R + Z * (B * Q)
        BY <3>4, <3>6, <4>1
      <4> QED BY <4>1, <4>2, <4>3
    <3>13. KnuthStep(s, v, j).q = <<q>> \o qs
      BY <2>3, <3>9
    <3>14. /\ Value(KnuthStep(s, v, j).u) < Value(v) * BasePower(j - 1)
           /\ U = Value(KnuthStep(s, v, j).u) + (Value(v) * BasePower(j - 1)) * Value(KnuthStep(s, v, j).q)
      BY <2>3, <3>1, <3>2, <3>5, <3>8, <3>10, <3>11, <3>12, <3>13, Zenon
    <3> QED BY <3>10, <3>13, <3>14, Zenon DEF Remains
  <2> QED BY <2>2, <2>3, <2>4, Zenon
<1> QED BY <1>7, <1>10, <1>11, Zenon

\* The states h of the main loop.
Dividing(h, N, m, u, v) ==
  /\ h \in [0 .. N -> KnuthStates(m)]
  /\ h[0] = [u |-> u, q |-> <<>>, back |-> FALSE]
  /\ \A i \in 1 .. N : h[i] = KnuthStep(h[i - 1], v, Len(u) - Len(v) - i + 1)
  /\ KnuthLoop(u, v) = h[N]

\* The main loop, pass by pass.
LEMMA KnuthPasses ==
  ASSUME NEW N \in Nat, NEW n \in Nat, n >= 2, NEW v \in ApDigits(n), Base <= 2 * v[n],
         NEW m \in Nat, m = n + N, NEW u \in ApDigits(m)
  PROVE  \E h : Dividing(h, N, m, u, v)
<1> DEFINE D == 1 .. N
           S == KnuthStates(m)
           a == [u |-> u, q |-> <<>>, back |-> FALSE]
           l == Loop(1, N)
           g == [p \in Nat \X S |-> IF p[1] \in 1 .. N THEN KnuthStep(p[2], v, Len(u) - Len(v) - p[1] + 1) ELSE p[2]]
           Body(F, t) == KnuthStep(F[t \ {Max(t)}], v, Len(u) - Len(v) - l[Max(t)] + 1)
           value[t \in SUBSET DOMAIN l] == IF t = {} THEN a ELSE Body(value, t)
<1>0. N \in Nat
  OBVIOUS
<1>1. D = DOMAIN l /\ \A i \in D : l[i] = i
  BY LoopUpTo
<1>2. KnuthLoop(u, v) = value[D]
  <2>1. Len(u) - Len(v) = N
    <3>1. Len(u) = m /\ Len(v) = n
      BY ApDigitsType
    <3> QED BY <3>1
  <2>2. KnuthLoop(u, v) = value[DOMAIN l]
    BY <2>1 DEF KnuthLoop, FoldLeft, MapThenFoldSet
  <2> HIDE DEF D, l, value
  <2> QED BY <1>1, <2>2
<1>3. ASSUME NEW i \in 1 .. N, NEW s \in S PROVE KnuthStep(s, v, Len(u) - Len(v) - i + 1) \in S
  <2>1. Len(u) = m /\ Len(v) = n
    BY ApDigitsType
  <2>2. PICK j \in Nat : j = Len(u) - Len(v) - i + 1 /\ j >= 1 /\ j + n <= m
    BY <2>1
  <2>3. KnuthStep(s, v, j) \in KnuthStates(m)
    BY <2>2, KnuthStepExact
  <2> QED BY <2>2, <2>3
<1>4. g \in [Nat \X S -> S]
  <2> HIDE DEF S
  <2> QED BY <1>3
<1>5. \A i \in 1 .. N, s \in S : g[<<i, s>>] = KnuthStep(s, v, Len(u) - Len(v) - i + 1)
  <2> TAKE i \in 1 .. N, s \in S
  <2>1. <<i, s>> \in Nat \X S
    OBVIOUS
  <2> QED BY <2>1
<1>6. a \in S
  BY DEF KnuthStates
<1> HIDE DEF g, S, a, l
<1>7. PICK F \in [SUBSET D -> S] : FoldsLeft(F, N, a, g)
  BY <1>0, <1>4, <1>6, FoldsLeftExist
<1>8. ASSUME NEW t \in SUBSET D, t # {}
      PROVE  Max(t) \in D /\ t \ {Max(t)} \in SUBSET D /\ l[Max(t)] = Max(t)
  <2>1. Max(t) \in D
    BY <1>0, <1>8, MaxIn
  <2> HIDE DEF D
  <2> QED BY <1>1, <2>1
<1>9. ASSUME NEW t \in SUBSET D PROVE F[t] = IF t = {} THEN a ELSE Body(F, t)
  <2>1. F[t] = IF t = {} THEN a ELSE g[<<Max(t), F[t \ {Max(t)}]>>]
    BY <1>7 DEF FoldsLeft
  <2>2. CASE t # {}
    <3>1. Max(t) \in 1 .. N /\ F[t \ {Max(t)}] \in S /\ l[Max(t)] = Max(t)
      BY <1>8, <2>2
    <3>2. g[<<Max(t), F[t \ {Max(t)}]>>] = Body(F, t)
      BY <1>5, <3>1
    <3> QED BY <2>1, <2>2, <3>2
  <2> QED BY <2>1, <2>2
<1>10. F = [t \in SUBSET DOMAIN l |-> IF t = {} THEN a ELSE Body(F, t)]
  <2> HIDE DEF D, Body
  <2>1. F = [t \in SUBSET D |-> F[t]]
    BY <1>7
  <2> QED BY <1>1, <1>9, <2>1
<1>11. value = CHOOSE e : e = [t \in SUBSET DOMAIN l |-> IF t = {} THEN a ELSE Body(e, t)]
  OBVIOUS
<1> HIDE DEF value
<1>12. value = [t \in SUBSET DOMAIN l |-> IF t = {} THEN a ELSE Body(value, t)]
  <2> HIDE DEF Body
  <2> QED BY <1>10, <1>11
<1>13. \A t \in SUBSET D : value[t] = IF t = {} THEN a ELSE Body(value, t)
  <2> HIDE DEF Body, D
  <2> QED BY <1>1, <1>12
<1>14. PICK h : Solves(h, N, S, a, g)
  BY <1>0, <1>4, <1>6, SolutionExists
<1>15. h \in [0 .. N -> S] /\ h[0] = a
  BY <1>14 DEF Solves
<1>16. ASSUME NEW i \in 1 .. N PROVE h[i] = KnuthStep(h[i - 1], v, Len(u) - Len(v) - i + 1)
  <2>1. h[i] = g[<<i, h[i - 1]>>] /\ h[i - 1] \in S
    BY <1>14, <1>15 DEF Solves
  <2> QED BY <1>5, <2>1
<1>17. value[D] = h[N]
  <2>1. value[{}] = h[0]
    BY <1>13, <1>15
  <2>2. ASSUME NEW i \in 1 .. N, value[1 .. (i - 1)] = h[i - 1] PROVE value[1 .. i] = h[i]
    <3>1. /\ i \in Nat /\ 1 .. i \in SUBSET D /\ 1 .. i # {} /\ i \in D
          /\ (1 .. i) \ {i} = 1 .. (i - 1) /\ Max(1 .. i) = i
      BY <1>0, FirstIndices
    <3>2. value[1 .. i] = Body(value, 1 .. i)
      <4> HIDE DEF Body, D
      <4> QED BY <1>13, <3>1
    <3>3. l[i] = i
      <4> HIDE DEF D
      <4> QED BY <1>1, <3>1
    <3>4. value[1 .. i] = KnuthStep(h[i - 1], v, Len(u) - Len(v) - i + 1)
      BY <2>2, <3>1, <3>2, <3>3, Zenon
    <3> QED BY <1>16, <3>4
  <2>3. Along(value, h, N)
    <3> HIDE DEF Body, D
    <3> QED BY <2>1, <2>2 DEF Along
  <2>4. value[1 .. N] = h[N]
    <3> HIDE DEF Body, D
    <3> QED BY <1>0, <2>3, AlongPasses
  <2> QED BY <2>4
<1> QED BY <1>2, <1>15, <1>16, <1>17 DEF S, a, Dividing

\* Unless a digit is added back, the main loop divides.
LEMMA KnuthLoopExact ==
  ASSUME NEW N \in Nat, NEW n \in Nat, n >= 2, NEW v \in ApDigits(n), Base <= 2 * v[n],
         NEW m \in Nat, m = n + N, NEW u \in ApDigits(m), Value(u) < Value(v) * BasePower(N)
  PROVE  /\ KnuthLoop(u, v) \in KnuthStates(m)
         /\ \/ KnuthLoop(u, v).back
            \/ KnuthLoop(u, v).q \in ApDigits(N) /\ Remains(KnuthLoop(u, v), v, Value(u), 1)
<1>1. PICK h : Dividing(h, N, m, u, v)
  BY KnuthPasses
<1>2. /\ h \in [0 .. N -> KnuthStates(m)]
      /\ h[0] = [u |-> u, q |-> <<>>, back |-> FALSE]
      /\ \A i \in 1 .. N : h[i] = KnuthStep(h[i - 1], v, Len(u) - Len(v) - i + 1)
      /\ KnuthLoop(u, v) = h[N]
  BY <1>1, Zenon DEF Dividing
<1> DEFINE P == {i \in Nat : ~h[i].back => h[i].q \in ApDigits(i) /\ Remains(h[i], v, Value(u), BasePower(N - i))}
<1>3. 0 \in P
  <2>1. h[0].u = u /\ h[0].q = <<>>
    BY <1>2
  <2>2. PICK Z \in Nat, U \in Nat : Z = Value(v) * BasePower(N) /\ U = Value(u)
    <3>1. Value(v) \in Nat /\ BasePower(N) \in Nat /\ Value(u) \in Nat
      BY ValueBelow, BasePowers
    <3> QED BY <3>1
  <2>3. N - 0 = N /\ U = U + Z * 0 /\ U < Z
    BY <2>2
  <2>4. Value(u) < Value(v) * BasePower(N - 0) /\ Value(u) = Value(u) + (Value(v) * BasePower(N - 0)) * Value(<<>>)
    BY <2>2, <2>3, NoDigits, Zenon
  <2>5. h[0].q \in ApDigits(0) /\ Remains(h[0], v, Value(u), BasePower(N - 0))
    BY <2>1, <2>4, NoDigits, Zenon DEF Remains
  <2> QED BY <2>5
<1>4. ASSUME NEW i \in 1 .. N, i - 1 \in P PROVE i \in P
  <2>1. Len(u) = m /\ Len(v) = n
    BY ApDigitsType
  <2>2. PICK j \in Nat : /\ j = Len(u) - Len(v) - i + 1 /\ j >= 1 /\ j + n <= m
                         /\ j = N - (i - 1) /\ j - 1 = N - i
    BY <2>1
  <2>3. PICK s \in KnuthStates(m) : s = h[i - 1]
    <3>1. i - 1 \in 0 .. N
      OBVIOUS
    <3> QED BY <1>2, <3>1
  <2>4. h[i] = KnuthStep(s, v, j)
    BY <1>2, <2>2, <2>3
  <2>5. PICK k \in Nat : k = i - 1 /\ k + 1 = i
    OBVIOUS
  <2>6. ~h[i].back =>
          /\ ~s.back
          /\ \A c \in Nat, U \in Nat : s.q \in ApDigits(c) /\ Remains(s, v, U, BasePower(j)) =>
               h[i].q \in ApDigits(c + 1) /\ Remains(h[i], v, U, BasePower(j - 1))
    <3>1. ~KnuthStep(s, v, j).back =>
              /\ ~s.back
              /\ \A c \in Nat, U \in Nat :
                   s.q \in ApDigits(c) /\ Remains(s, v, U, BasePower(j)) =>
                     /\ KnuthStep(s, v, j).q \in ApDigits(c + 1)
                     /\ Remains(KnuthStep(s, v, j), v, U, BasePower(j - 1))
      BY <2>2, KnuthStepExact
    <3> QED BY <2>4, <3>1, Zenon
  <2>7. ~s.back => s.q \in ApDigits(k) /\ Remains(s, v, Value(u), BasePower(j))
    BY <1>4, <2>2, <2>3, <2>5
  <2>8. ~h[i].back => h[i].q \in ApDigits(i) /\ Remains(h[i], v, Value(u), BasePower(N - i))
    <3>1. SUFFICES ASSUME ~h[i].back PROVE h[i].q \in ApDigits(i) /\ Remains(h[i], v, Value(u), BasePower(N - i))
      OBVIOUS
    <3>2. Value(u) \in Nat
      BY ValueBelow
    <3>3. h[i].q \in ApDigits(k + 1) /\ Remains(h[i], v, Value(u), BasePower(j - 1))
      BY <2>6, <2>7, <3>1, <3>2, Zenon
    <3> QED BY <2>2, <2>5, <3>3, Zenon
  <2> QED BY <2>8
<1>5. N \in P
  <2>1. N \in 0 .. N
    OBVIOUS
  <2>2. \A i \in 0 .. N : i \in P
    <3> HIDE DEF P
    <3> QED BY <1>3, <1>4, UpTo
  <2> HIDE DEF P
  <2> QED BY <2>1, <2>2
<1>6. BasePower(N - N) = 1
  <2>1. N - N = 0
    OBVIOUS
  <2> QED BY <2>1, BasePowers, Zenon
<1>7. h[N] \in KnuthStates(m) /\ h[N].back \in BOOLEAN
  <2>1. N \in 0 .. N
    OBVIOUS
  <2>2. h[N] \in KnuthStates(m)
    BY <1>2, <2>1
  <2> QED BY <2>2 DEF KnuthStates
<1>8. ~h[N].back => h[N].q \in ApDigits(N) /\ Remains(h[N], v, Value(u), 1)
  BY <1>5, <1>6
<1>9. KnuthLoop(u, v) = h[N]
  BY <1>2, Zenon
<1>10. h[N].back \/ (h[N].q \in ApDigits(N) /\ Remains(h[N], v, Value(u), 1))
  BY <1>7, <1>8, Zenon
<1> QED BY <1>7, <1>9, <1>10, Zenon

-----------------------------------------------------------------------------
(* The shift, and KnuthDiv *)

\* f: the factor that takes the highest bit of a digit to the top.
ShiftsUp(f, d) == f \in Nat /\ f > 0 /\ Base <= 2 * (d * f) /\ (d + 1) * f <= Base

LEMMA ShiftOfHighest ==
  ASSUME NEW d \in 1 .. (Base - 1)
  PROVE  ShiftsUp(2 ^ CountLeadingZeros(d), d)
<1>1. PICK D \in Nat : D = DigitBits /\ D > 0 /\ Base = 2 ^ D
  BY DigitBitsAssumption DEF Base
<1>2. \A k \in Nat : 2 ^ k \in Nat /\ 2 ^ k > 0
  BY PowerPositive
<1>3. PICK S \in SUBSET (1 .. D) : S = {k \in 1 .. D : d >= 2 ^ (k - 1)}
  OBVIOUS
<1>4. d \in Nat /\ d > 0 /\ d < Base
  BY <1>1, <1>2
<1>5. 1 \in S
  <2>1. 1 \in 1 .. D /\ 1 - 1 = 0
    BY <1>1
  <2>2. 2 ^ (1 - 1) = 1
    BY <2>1, PowerOfZero
  <2> QED BY <1>3, <1>4, <2>1, <2>2
<1>6. PICK g \in S : \A j \in S : j <= g
  <2>1. S # {}
    BY <1>5
  <2> QED BY <2>1, Greatest
<1>7. PICK h \in 0 .. (D - 1) : g = h + 1 /\ h \in Nat
  <2>1. g \in 1 .. D
    OBVIOUS
  <2> QED BY <2>1
<1>8. d >= 2 ^ h
  <2>1. g - 1 = h
    BY <1>7
  <2>2. d >= 2 ^ (g - 1)
    BY <1>3
  <2> QED BY <2>1, <2>2
<1>9. d < 2 ^ (h + 1)
  <2>1. CASE h + 1 = D
    BY <1>1, <1>4, <2>1
  <2>2. CASE h + 1 < D
    <3>1. h + 2 \in 1 .. D /\ (h + 2) - 1 = h + 1 /\ ~(h + 2 <= g)
      BY <1>7, <2>2
    <3>2. h + 2 \notin S
      BY <1>6, <3>1
    <3>3. ~(d >= 2 ^ (h + 1))
      BY <1>3, <3>1, <3>2
    <3>4. 2 ^ (h + 1) \in Nat
      BY <1>2, <1>7
    <3> QED BY <1>4, <3>3, <3>4
  <2>3. h + 1 = D \/ h + 1 < D
    BY <1>7
  <2> QED BY <2>1, <2>2, <2>3
<1>10. {k \in 0 .. (D - 1) : d >= 2 ^ k} = 0 .. h
  <2>1. ASSUME NEW k \in 0 .. (D - 1) PROVE d >= 2 ^ k <=> k <= h
    <3>1. 2 ^ k \in Nat /\ 2 ^ h \in Nat /\ k \in Nat
      BY <1>2, <1>7
    <3>2. CASE k <= h
      <4>1. 2 ^ k <= 2 ^ h
        BY <1>7, <3>1, <3>2, PowerGrows
      <4> QED BY <1>4, <1>8, <3>1, <3>2, <4>1
    <3>3. CASE ~(k <= h)
      <4>1. k + 1 \in 1 .. D /\ (k + 1) - 1 = k /\ ~(k + 1 <= g)
        BY <1>7, <3>3
      <4>2. k + 1 \notin S
        BY <1>6, <4>1
      <4>3. ~(d >= 2 ^ k)
        BY <1>3, <4>1, <4>2
      <4> QED BY <3>3, <4>3
    <3> QED BY <3>2, <3>3
  <2> QED BY <1>7, <2>1
<1>11. Cardinality(0 .. h) = h + 1
  <2>1. Cardinality(0 .. h) = IF 0 > h THEN 0 ELSE h - 0 + 1
    BY <1>7, FS_Interval
  <2> QED BY <1>7, <2>1
<1>12. PICK s \in Nat : s = CountLeadingZeros(d) /\ h + s = D - 1 /\ (h + 1) + s = D /\ D - 1 \in Nat
  <2>1. CountLeadingZeros(d) = D - (h + 1)
    BY <1>1, <1>10, <1>11, Zenon DEF CountLeadingZeros
  <2> QED BY <1>7, <2>1
<1>13. PICK f \in Nat, a \in Nat, b \in Nat, c \in Nat :
         f = 2 ^ s /\ f > 0 /\ a = 2 ^ h /\ b = 2 ^ (h + 1) /\ c = 2 ^ (D - 1)
  <2>1. h + 1 \in Nat
    BY <1>7
  <2> QED BY <1>2, <1>7, <1>12, <2>1
<1>14. c = a * f /\ Base = b * f /\ Base = 2 * c
  <2>1. 2 ^ (h + s) = 2 ^ h * 2 ^ s
    BY <1>7, PowerOfSum
  <2>2. 2 ^ ((h + 1) + s) = 2 ^ (h + 1) * 2 ^ s
    <3>1. h + 1 \in Nat
      BY <1>7
    <3> QED BY <3>1, PowerOfSum
  <2>3. 2 ^ (1 + (D - 1)) = 2 ^ 1 * 2 ^ (D - 1)
    BY <1>12, PowerOfSum
  <2>4. 1 + (D - 1) = D
    OBVIOUS
  <2>5. 2 ^ 1 = 2
    OBVIOUS
  <2> QED BY <1>1, <1>12, <1>13, <2>1, <2>2, <2>3, <2>4, <2>5, Zenon
<1>15. f * a <= f * d /\ f * (d + 1) <= f * b
  <2>1. a <= d /\ d + 1 <= b
    BY <1>4, <1>8, <1>9, <1>13
  <2> QED BY <1>4, <2>1, TimesAtMost
<1>16. Base <= 2 * (d * f) /\ (d + 1) * f <= Base
  <2>1. f * a = a * f /\ f * d = d * f /\ f * (d + 1) = (d + 1) * f /\ f * b = b * f
    BY <1>4
  <2>2. d * f \in Int /\ a * f \in Int /\ (d + 1) * f \in Int
    BY <1>4
  <2> QED BY <1>14, <1>15, <2>1, <2>2
<1>17. f = 2 ^ CountLeadingZeros(d)
  BY <1>12, <1>13
<1>18. ShiftsUp(f, d)
  BY <1>13, <1>16 DEF ShiftsUp
<1> QED BY <1>17, <1>18, Zenon

\* A number with a highest digit that is not 0, and what the shift makes of it.
LEMMA TopDigit ==
  ASSUME NEW n \in Nat, n >= 1, NEW v \in ApDigits(n)
  PROVE  \E p \in Nat, l \in Nat :
           p = BasePower(n - 1) /\ l < p /\ Value(v) = l + p * v[n] /\ BasePower(n) = Base * p /\ v[n] \in Nat
<1>1. n - 1 \in Nat /\ n - 1 \in 0 .. n /\ n \in 1 .. n /\ (n - 1) + 1 = n
  OBVIOUS
<1>2. BasePower((n - 1) + 1) = Base * BasePower(n - 1) /\ BasePower(n - 1) \in Nat
  BY <1>1, BasePowers
<1>3. LowPart(v, n - 1) \in 0 .. (BasePower(n - 1) - 1)
  BY <1>1, LowPartBelow
<1>4. v \in [1 .. n -> Int] /\ v[n] \in Nat
  BY <1>1, ApDigitsType
<1>5. LowPart(v, n) = LowPart(v, n - 1) + BasePower(n - 1) * v[n] /\ Value(v) = LowPart(v, n)
  BY <1>1, <1>4, LowParts
<1>6. PICK p \in Nat : p = BasePower(n - 1)
  BY <1>2
<1>7. PICK l \in Nat : l = LowPart(v, n - 1) /\ l < p
  BY <1>3, <1>6
<1> QED BY <1>1, <1>2, <1>4, <1>5, <1>6, <1>7

LEMMA DivisorShifted ==
  ASSUME NEW n \in Nat, n >= 1, NEW v \in ApDigits(n), v[n] # 0, NEW f, f = 2 ^ CountLeadingZeros(v[n])
  PROVE  /\ f \in Nat /\ f > 0 /\ Value(v) * f < BasePower(n) /\ Value(v) * f \in Nat
         /\ Base <= 2 * DigitsOf(Value(v) * f, n)[n]
<1>1. PICK B \in Nat : B = Base
  BY BasePositive
<1>2. PICK p \in Nat, l \in Nat :
        p = BasePower(n - 1) /\ l < p /\ Value(v) = l + p * v[n] /\ BasePower(n) = Base * p /\ v[n] \in Nat
  BY TopDigit
<1>3. PICK d \in Nat : d = v[n] /\ d \in 1 .. (B - 1)
  <2>1. v[n] \in 0 .. (B - 1)
    BY <1>1 DEF ApDigits
  <2> QED BY <2>1
<1>4. f \in Nat /\ f > 0 /\ B <= 2 * (d * f) /\ (d + 1) * f <= B
  <2>1. ShiftsUp(2 ^ CountLeadingZeros(d), d)
    <3>1. d \in 1 .. (Base - 1)
      BY <1>1, <1>3
    <3> QED BY <3>1, ShiftOfHighest
  <2>2. ShiftsUp(f, d)
    BY <1>3, <2>1
  <2> QED BY <1>1, <2>2 DEF ShiftsUp
<1>5. PICK x \in Nat : x = (l + p * d) * f
  BY <1>4
<1>6. Value(v) * f = x
  BY <1>2, <1>3, <1>5
<1>7. x = l * f + p * (d * f) /\ l * f \in Nat /\ p * (d * f) \in Nat
  BY <1>4, <1>5
<1>8. x < p * B
  <2>1. f * l < f * p
    BY <1>2, <1>4, LessTimes
  <2>2. p * ((d + 1) * f) <= p * B
    BY <1>4, TimesAtMost
  <2>3. p * ((d + 1) * f) = p * f + p * (d * f) /\ f * l = l * f /\ f * p = p * f /\ p * f \in Nat /\ p * B \in Nat
    BY <1>4
  <2> QED BY <1>7, <2>1, <2>2, <2>3
<1>9. x < BasePower(n)
  <2>1. p * B = B * p
    OBVIOUS
  <2> QED BY <1>1, <1>2, <1>8, <2>1
<1>10. PICK w \in ApDigits(n) : w = DigitsOf(x, n) /\ Value(w) = x
  BY <1>9, DigitsOfType, DigitsOfValue
<1>11. PICK r \in Nat, e \in Nat : r < p /\ x = r + p * e /\ e = w[n]
  <2>1. \E pp \in Nat, ll \in Nat :
          pp = BasePower(n - 1) /\ ll < pp /\ Value(w) = ll + pp * w[n] /\ BasePower(n) = Base * pp /\ w[n] \in Nat
    BY TopDigit
  <2> QED BY <1>2, <1>10, <2>1
<1>12. d * f < e + 1
  <2>1. PICK k \in Nat : k = d * f
    BY <1>4
  <2>2. p * (e + 1) = p * e + p /\ p * e \in Int /\ p * k \in Int
    OBVIOUS
  <2>3. p * k < p * (e + 1)
    BY <1>7, <1>11, <2>1, <2>2
  <2>4. e + 1 \in Int
    OBVIOUS
  <2> QED BY <2>1, <2>3, <2>4, TimesLess
<1>13. B <= 2 * e
  <2>1. PICK k \in Nat : k = d * f
    BY <1>4
  <2> QED BY <1>4, <1>12, <2>1
<1>14. Base <= 2 * DigitsOf(x, n)[n]
  BY <1>1, <1>10, <1>11, <1>13
<1> QED BY <1>4, <1>6, <1>9, <1>14, Zenon

\* s: quotient and remainder of the numbers of digits u and v.
DivisionOf(s, u, v, N, n) ==
  /\ s.q \in ApDigits(N) /\ s.r \in ApDigits(n)
  /\ Value(u) = Value(v) * Value(s.q) + Value(s.r) /\ Value(s.r) < Value(v)

\* The remainder of numbers that are multiplied is a multiple.
LEMMA MultipleRest ==
  ASSUME NEW f \in Nat, f > 0, NEW U \in Nat, NEW V \in Nat, NEW Q \in Nat, NEW R \in Nat,
         R < V * f, U * f = R + (V * f) * Q
  PROVE  \E r \in Nat : R \div f = r /\ U = V * Q + r /\ r < V
<1>1. PICK r \in Int : r = U - V * Q
  OBVIOUS
<1>2. R = f * r
  <2>1. f * (U - V * Q) = U * f - (V * f) * Q
    OBVIOUS
  <2>2. U * f \in Int /\ (V * f) * Q \in Int
    OBVIOUS
  <2> QED BY <1>1, <2>1, <2>2
<1>3. r >= 0
  <2>1. SUFFICES ASSUME r < 0 PROVE FALSE
    BY <1>1
  <2>2. f * r < f * 0
    BY <2>1, LessTimes
  <2>3. f * 0 = 0
    OBVIOUS
  <2> QED BY <1>2, <2>2, <2>3
<1>4. r < V
  <2>1. f * r < f * V
    <3>1. V * f = f * V
      OBVIOUS
    <3> QED BY <1>2, <3>1
  <2> QED BY <2>1, TimesLess
<1>5. R \div f = r
  <2>1. r \in Nat
    BY <1>3
  <2>2. Divided(R, f, r, 0)
    <3>1. R = f * r + 0
      BY <1>2
    <3> QED BY <2>1, <3>1 DEF Divided
  <2> QED BY <2>1, <2>2, ByQuotient
<1>6. U = V * Q + r
  <2>1. V * Q \in Int
    OBVIOUS
  <2> QED BY <1>1, <2>1
<1> QED BY <1>3, <1>4, <1>5, <1>6

LEMMA WindowLow ==
  ASSUME NEW m \in Nat, NEW u \in ApDigits(m), NEW n \in 0 .. m
  PROVE  Window(u, 1, n) \in ApDigits(n) /\ Value(Window(u, 1, n)) = LowPart(u, n)
<1>1. n \in Nat /\ \A k \in 1 .. n : 1 + k - 1 = k /\ k \in 1 .. m
  OBVIOUS
<1>2. PICK w : w = Window(u, 1, n)
  OBVIOUS
<1>3. w = [k \in 1 .. n |-> u[k]]
  BY <1>1, <1>2 DEF Window
<1>4. w \in ApDigits(n)
  BY <1>1, <1>3 DEF ApDigits
<1>5. w \in [1 .. n -> Int] /\ u \in [1 .. m -> Int]
  BY <1>1, <1>4, ApDigitsType
<1>6. LowPart(w, n) = LowPart(u, n)
  <2>1. \A i \in 1 .. n : w[i] = u[i]
    BY <1>3
  <2>2. n <= n /\ n <= m
    OBVIOUS
  <2> QED BY <1>1, <1>5, <2>1, <2>2, LowPartSame
<1>7. Value(w) = LowPart(w, n)
  BY <1>1, <1>5, LowParts
<1> QED BY <1>2, <1>4, <1>6, <1>7, Zenon

\* Unless a digit is added back, KnuthDiv gives quotient and remainder.
LEMMA KnuthDivExact ==
  ASSUME NEW N \in Nat, NEW n \in Nat, n >= 2, NEW v \in ApDigits(n), v[n] # 0,
         NEW m \in Nat, m = n + N, NEW u \in ApDigits(m), Value(u) < Value(v) * BasePower(N)
  PROVE  KnuthDiv(u, v).back \/ DivisionOf(KnuthDiv(u, v), u, v, N, n)
<1>1. Len(u) = m /\ Len(v) = n /\ n >= 1
  BY ApDigitsType
<1>2. PICK f : f = 2 ^ CountLeadingZeros(v[n])
  OBVIOUS
<1>3. PICK U \in Nat, V \in Nat, P \in Nat : U = Value(u) /\ V = Value(v) /\ P = BasePower(N) /\ U < V * P
  BY ValueBelow, BasePowers
<1>4. f \in Nat /\ f > 0 /\ V * f < BasePower(n) /\ V * f \in Nat /\ Base <= 2 * DigitsOf(V * f, n)[n]
  <2>1. /\ f \in Nat /\ f > 0 /\ Value(v) * f < BasePower(n) /\ Value(v) * f \in Nat
        /\ Base <= 2 * DigitsOf(Value(v) * f, n)[n]
    BY <1>1, <1>2, DivisorShifted
  <2> QED BY <1>3, <2>1, Zenon
<1>5. PICK vn \in ApDigits(n) : vn = DigitsOf(V * f, n) /\ Value(vn) = V * f /\ Base <= 2 * vn[n]
  BY <1>4, DigitsOfType, DigitsOfValue
<1>6. PICK X \in Nat : X = U * f /\ X < (V * f) * P
  <2>1. f * U < f * (V * P)
    BY <1>3, <1>4, LessTimes
  <2>2. f * U = U * f /\ f * (V * P) = (V * f) * P /\ U * f \in Nat
    BY <1>4
  <2> QED BY <2>1, <2>2
<1>7. X < BasePower(m)
  <2>1. BasePower(n + N) = BasePower(n) * BasePower(N) /\ BasePower(n) \in Nat
    BY BasePowerSum, BasePowers
  <2>2. PICK p \in Nat, k \in Nat : p = BasePower(n) /\ k = V * f /\ k < p
    BY <1>4, <2>1
  <2>3. P * k <= P * p
    <3>1. k <= p
      BY <2>2
    <3> QED BY <3>1, TimesAtMost
  <2>4. k * P = P * k /\ p * P = P * p /\ P * k \in Int /\ P * p \in Int
    OBVIOUS
  <2> QED BY <1>3, <1>6, <2>1, <2>2, <2>3, <2>4
<1>8. PICK un \in ApDigits(m) : un = DigitsOf(X, m) /\ Value(un) = X
  BY <1>7, DigitsOfType, DigitsOfValue
<1>9. PICK end : end = KnuthLoop(un, vn)
  OBVIOUS
<1>10. /\ end \in KnuthStates(m)
       /\ end.back \/ (end.q \in ApDigits(N) /\ Remains(end, vn, Value(un), 1))
  <2>1. Value(un) < Value(vn) * BasePower(N)
    BY <1>3, <1>5, <1>6, <1>8
  <2>2. /\ KnuthLoop(un, vn) \in KnuthStates(m)
        /\ \/ KnuthLoop(un, vn).back
           \/ KnuthLoop(un, vn).q \in ApDigits(N) /\ Remains(KnuthLoop(un, vn), vn, Value(un), 1)
    BY <1>5, <2>1, KnuthLoopExact
  <2> QED BY <1>9, <2>2, Zenon
<1>11. KnuthDiv(u, v) = [q |-> end.q, back |-> end.back, r |-> DigitsOf(Value(Window(end.u, 1, n)) \div f, n)]
  BY <1>1, <1>2, <1>3, <1>5, <1>6, <1>8, <1>9, Zenon DEF KnuthDiv
<1>12. /\ KnuthDiv(u, v).q = end.q /\ KnuthDiv(u, v).back = end.back
       /\ KnuthDiv(u, v).r = DigitsOf(Value(Window(end.u, 1, n)) \div f, n)
  BY <1>11
<1>13. CASE end.back
  BY <1>12, <1>13, Zenon
<1>14. CASE ~end.back
  <2>1. end.q \in ApDigits(N) /\ Remains(end, vn, X, 1)
    BY <1>8, <1>10, <1>14, Zenon
  <2>2. end.u \in ApDigits(m)
    BY <1>10 DEF KnuthStates
  <2>3. PICK R \in Nat, Q \in Nat, k \in Nat : R = Value(end.u) /\ Q = Value(end.q) /\ k = V * f
    BY <1>4, <2>1, <2>2, ValueBelow
  <2>4. R < k /\ X = R + k * Q
    <3>1. R < k * 1 /\ X = R + (k * 1) * Q
      BY <1>5, <2>1, <2>3, Zenon DEF Remains
    <3>2. k * 1 = k
      OBVIOUS
    <3> QED BY <3>1, <3>2, Zenon
  <2>5. PICK r \in Nat : R \div f = r /\ U = V * Q + r /\ r < V
    <3>1. R < V * f /\ U * f = R + (V * f) * Q
      BY <1>6, <2>3, <2>4, Zenon
    <3>2. \E r \in Nat : R \div f = r /\ U = V * Q + r /\ r < V
      BY <1>4, <3>1, MultipleRest
    <3> QED BY <3>2
  <2>6. n \in 0 .. m
    OBVIOUS
  <2>7. Value(Window(end.u, 1, n)) = R
    <3>1. Value(end.u) < BasePower(n)
      <4>1. BasePower(n) \in Nat
        BY BasePowers
      <4> QED BY <1>4, <2>3, <2>4, <4>1
    <3>2. Value(end.u) = LowPart(end.u, n)
      BY <2>2, <2>6, <3>1, NothingAbove
    <3>3. Value(Window(end.u, 1, n)) = LowPart(end.u, n)
      BY <2>2, <2>6, WindowLow
    <3> QED BY <2>3, <3>2, <3>3, Zenon
  <2>8. r < BasePower(n)
    <3>1. Value(v) < BasePower(n) /\ BasePower(n) \in Nat
      BY ValueBelow, BasePowers
    <3> QED BY <1>3, <2>5, <3>1
  <2>9. DigitsOf(r, n) \in ApDigits(n) /\ Value(DigitsOf(r, n)) = r
    BY <2>8, DigitsOfType, DigitsOfValue
  <2>10. KnuthDiv(u, v).r = DigitsOf(r, n)
    BY <1>12, <2>5, <2>7, Zenon
  <2>11. DivisionOf(KnuthDiv(u, v), u, v, N, n)
    BY <1>3, <1>12, <2>1, <2>3, <2>5, <2>9, <2>10, Zenon DEF DivisionOf
  <2> QED BY <2>11
<1> QED BY <1>13, <1>14

-----------------------------------------------------------------------------
(* The short division *)

\* The states of the short division, and what they stand for when it comes to the power Y.
ShortStates(d) == [q : Seq(0 .. (Base - 1)), r : 0 .. (d - 1)]
ShortRemains(s, d, U, Y, low) == U = ((d * Y) * Value(s.q) + s.r * Y) + low

\* One digit of a dividend by a divisor of one digit.
LEMMA ShortQuotient ==
  ASSUME NEW d \in Nat, d > 0, NEW r \in 0 .. (d - 1), NEW x \in 0 .. (Base - 1), NEW y, y = r * Base + x
  PROVE  /\ y \div d \in 0 .. (Base - 1) /\ y % d \in 0 .. (d - 1)
         /\ y = d * (y \div d) + (y % d)
<1>1. PICK B \in Nat : B = Base /\ B > 0
  BY BasePositive
<1>2. y \in Nat /\ y = r * B + x
  BY <1>1
<1>3. PICK q \in Nat, z \in 0 .. (d - 1) : q = y \div d /\ z = y % d /\ y = d * q + z
  <2>1. y % d \in 0 .. (d - 1) /\ y \div d \in Nat /\ y = d * (y \div d) + (y % d)
    BY <1>2, Quotients
  <2> QED BY <2>1, Zenon
<1>4. q < B
  <2>1. B * r <= B * (d - 1)
    BY TimesAtMost
  <2>2. B * (d - 1) = d * B - B /\ B * r = r * B /\ r * B \in Int /\ d * B \in Int /\ d * q \in Int
    OBVIOUS
  <2>3. d * q < d * B
    BY <1>1, <1>2, <1>3, <2>1, <2>2
  <2> QED BY <2>3, TimesLess
<1>5. q \in 0 .. (Base - 1)
  BY <1>1, <1>4
<1> QED BY <1>3, <1>5, Zenon

LEMMA ShortStepExact ==
  ASSUME NEW d \in Nat, d > 0, NEW s \in ShortStates(d), NEW x \in 0 .. (Base - 1)
  PROVE  /\ ShortStep(s, x, d) \in ShortStates(d)
         /\ \A i \in Nat, U \in Nat, Y \in Nat, low \in Int :
              s.q \in ApDigits(i) /\ ShortRemains(s, d, U, Base * Y, low + Y * x) =>
                ShortStep(s, x, d).q \in ApDigits(i + 1) /\ ShortRemains(ShortStep(s, x, d), d, U, Y, low)
<1>1. PICK B \in Nat : B = Base /\ B > 0
  BY BasePositive
<1>2. PICK r \in 0 .. (d - 1), qs \in Seq(0 .. (Base - 1)) : r = s.r /\ qs = s.q
  BY DEF ShortStates
<1>0. PICK y : y = r * Base + x
  OBVIOUS
<1>3. PICK q \in 0 .. (Base - 1), z \in 0 .. (d - 1) : q = y \div d /\ z = y % d /\ y = d * q + z
  <2>1. /\ y \div d \in 0 .. (Base - 1) /\ y % d \in 0 .. (d - 1)
        /\ y = d * (y \div d) + (y % d)
    BY <1>0, ShortQuotient
  <2> QED BY <2>1, Zenon
<1>4. ShortStep(s, x, d) = [q |-> <<q>> \o qs, r |-> z]
  <2>1. s.r * Base + x = y
    BY <1>0, <1>2
  <2> QED BY <1>2, <1>3, <2>1, Zenon DEF ShortStep
<1>5. ShortStep(s, x, d) \in ShortStates(d)
  <2>1. <<q>> \o qs \in Seq(0 .. (Base - 1))
    OBVIOUS
  <2> QED BY <1>4, <2>1 DEF ShortStates
<1>6. ShortStep(s, x, d).q = <<q>> \o qs /\ ShortStep(s, x, d).r = z
  BY <1>4
<1>7. ASSUME NEW i \in Nat, NEW U \in Nat, NEW Y \in Nat, NEW low \in Int,
             s.q \in ApDigits(i), ShortRemains(s, d, U, Base * Y, low + Y * x)
      PROVE  ShortStep(s, x, d).q \in ApDigits(i + 1) /\ ShortRemains(ShortStep(s, x, d), d, U, Y, low)
  <2>1. PICK Q \in Nat : Q = Value(qs) /\ qs \in ApDigits(i)
    <3>1. qs \in ApDigits(i)
      BY <1>2, <1>7
    <3> QED BY <3>1, ValueBelow
  <2>2. U = ((d * (B * Y)) * Q + r * (B * Y)) + (low + Y * x)
    BY <1>1, <1>2, <1>7, <2>1, Zenon DEF ShortRemains
  <2>3. <<q>> \o qs \in ApDigits(i + 1) /\ Value(<<q>> \o qs) = q + B * Q
    <3>1. <<q>> \o qs \in ApDigits(i + 1) /\ Value(<<q>> \o qs) = q + Base * Value(qs)
      BY <2>1, DigitBefore
    <3> QED BY <1>1, <2>1, <3>1
  <2>4. PICK g \in Int : g = q
    BY <1>1
  <2>5. x \in Int /\ z \in Int /\ r \in Int
    BY <1>1
  <2>6. r * B + x = d * g + z
    BY <1>0, <1>1, <1>3, <2>4
  <2>7. (d * Y) * (g + B * Q) = Y * (d * g) + (d * (B * Y)) * Q
    BY <2>5
  <2>8. r * (B * Y) + Y * x = Y * (d * g) + Y * z
    <3>1. Y * (r * B + x) = Y * (d * g + z)
      BY <2>6
    <3>2. Y * (r * B + x) = r * (B * Y) + Y * x /\ Y * (d * g + z) = Y * (d * g) + Y * z
      BY <2>5
    <3> QED BY <3>1, <3>2
  <2>9. U = ((d * Y) * (g + B * Q) + z * Y) + low
    <3>1. /\ (d * (B * Y)) * Q \in Int /\ r * (B * Y) \in Int /\ Y * x \in Int /\ Y * (d * g) \in Int
          /\ Y * z \in Int /\ Y * z = z * Y
      BY <2>5
    <3> QED BY <2>2, <2>7, <2>8, <3>1
  <2>10. ShortRemains(ShortStep(s, x, d), d, U, Y, low)
    BY <1>6, <2>3, <2>4, <2>9, Zenon DEF ShortRemains
  <2> QED BY <1>6, <2>3, <2>10, Zenon
<1> QED BY <1>5, <1>7

\* The states h of the short division.
ShortlyDividing(h, n, u, d) ==
  /\ h \in [0 .. n -> ShortStates(d)]
  /\ h[0] = [q |-> <<>>, r |-> 0]
  /\ \A i \in 1 .. n : h[i] = ShortStep(h[i - 1], u[Len(u) - i + 1], d)
  /\ ShortDivision(u, d) = [q |-> h[n].q, r |-> <<h[n].r>>, back |-> FALSE]

\* The short division, digit by digit.
LEMMA ShortPasses ==
  ASSUME NEW n \in Nat, NEW u \in ApDigits(n), NEW d \in Nat, d > 0
  PROVE  \E h : ShortlyDividing(h, n, u, d)
<1> DEFINE D == 1 .. n
           S == ShortStates(d)
           a == [q |-> <<>>, r |-> 0]
           l == Loop(1, n)
           g == [p \in Nat \X S |-> IF p[1] \in 1 .. n THEN ShortStep(p[2], u[Len(u) - p[1] + 1], d) ELSE p[2]]
           Body(F, t) == ShortStep(F[t \ {Max(t)}], u[Len(u) - l[Max(t)] + 1], d)
           value[t \in SUBSET DOMAIN l] == IF t = {} THEN a ELSE Body(value, t)
<1>0. n \in Nat
  OBVIOUS
<1>1. D = DOMAIN l /\ \A i \in D : l[i] = i
  BY LoopUpTo
<1>2. ShortDivision(u, d) = [q |-> value[D].q, r |-> <<value[D].r>>, back |-> FALSE]
  <2>1. Len(u) = n
    BY ApDigitsType
  <2>2. FoldLeft(LAMBDA s, k : ShortStep(s, u[Len(u) - k + 1], d), [q |-> <<>>, r |-> 0], Loop(1, n)) = value[DOMAIN l]
    BY DEF FoldLeft, MapThenFoldSet
  <2> HIDE DEF D, l, value
  <2>3. ShortDivision(u, d) = [q |-> value[D].q, r |-> <<value[D].r>>, back |-> FALSE]
    BY <1>1, <2>1, <2>2, Zenon DEF ShortDivision
  <2> QED BY <2>3
<1>3. ASSUME NEW i \in 1 .. n, NEW s \in S PROVE ShortStep(s, u[Len(u) - i + 1], d) \in S
  <2>1. Len(u) - i + 1 \in 1 .. n
    BY ApDigitsType
  <2>2. u[Len(u) - i + 1] \in 0 .. (Base - 1)
    BY <2>1 DEF ApDigits
  <2> QED BY <2>2, ShortStepExact
<1>4. g \in [Nat \X S -> S]
  <2> HIDE DEF S
  <2> QED BY <1>3
<1>5. \A i \in 1 .. n, s \in S : g[<<i, s>>] = ShortStep(s, u[Len(u) - i + 1], d)
  <2> TAKE i \in 1 .. n, s \in S
  <2>1. <<i, s>> \in Nat \X S
    OBVIOUS
  <2> QED BY <2>1
<1>6. a \in S
  <2>1. 0 \in 0 .. (d - 1)
    OBVIOUS
  <2> QED BY <2>1 DEF ShortStates
<1> HIDE DEF g, S, a, l
<1>7. PICK F \in [SUBSET D -> S] : FoldsLeft(F, n, a, g)
  BY <1>0, <1>4, <1>6, FoldsLeftExist
<1>8. ASSUME NEW t \in SUBSET D, t # {}
      PROVE  Max(t) \in D /\ t \ {Max(t)} \in SUBSET D /\ l[Max(t)] = Max(t)
  <2>1. Max(t) \in D
    BY <1>0, <1>8, MaxIn
  <2> HIDE DEF D
  <2> QED BY <1>1, <2>1
<1>9. ASSUME NEW t \in SUBSET D PROVE F[t] = IF t = {} THEN a ELSE Body(F, t)
  <2>1. F[t] = IF t = {} THEN a ELSE g[<<Max(t), F[t \ {Max(t)}]>>]
    BY <1>7 DEF FoldsLeft
  <2>2. CASE t # {}
    <3>1. Max(t) \in 1 .. n /\ F[t \ {Max(t)}] \in S /\ l[Max(t)] = Max(t)
      BY <1>8, <2>2
    <3>2. g[<<Max(t), F[t \ {Max(t)}]>>] = Body(F, t)
      BY <1>5, <3>1
    <3> QED BY <2>1, <2>2, <3>2
  <2> QED BY <2>1, <2>2
<1>10. F = [t \in SUBSET DOMAIN l |-> IF t = {} THEN a ELSE Body(F, t)]
  <2> HIDE DEF D, Body
  <2>1. F = [t \in SUBSET D |-> F[t]]
    BY <1>7
  <2> QED BY <1>1, <1>9, <2>1
<1>11. value = CHOOSE e : e = [t \in SUBSET DOMAIN l |-> IF t = {} THEN a ELSE Body(e, t)]
  OBVIOUS
<1> HIDE DEF value
<1>12. value = [t \in SUBSET DOMAIN l |-> IF t = {} THEN a ELSE Body(value, t)]
  <2> HIDE DEF Body
  <2> QED BY <1>10, <1>11
<1>13. \A t \in SUBSET D : value[t] = IF t = {} THEN a ELSE Body(value, t)
  <2> HIDE DEF Body, D
  <2> QED BY <1>1, <1>12
<1>14. PICK h : Solves(h, n, S, a, g)
  BY <1>0, <1>4, <1>6, SolutionExists
<1>15. h \in [0 .. n -> S] /\ h[0] = a
  BY <1>14 DEF Solves
<1>16. ASSUME NEW i \in 1 .. n PROVE h[i] = ShortStep(h[i - 1], u[Len(u) - i + 1], d)
  <2>1. h[i] = g[<<i, h[i - 1]>>] /\ h[i - 1] \in S
    BY <1>14, <1>15 DEF Solves
  <2> QED BY <1>5, <2>1
<1>17. value[D] = h[n]
  <2>1. value[{}] = h[0]
    BY <1>13, <1>15
  <2>2. ASSUME NEW i \in 1 .. n, value[1 .. (i - 1)] = h[i - 1] PROVE value[1 .. i] = h[i]
    <3>1. /\ i \in Nat /\ 1 .. i \in SUBSET D /\ 1 .. i # {} /\ i \in D
          /\ (1 .. i) \ {i} = 1 .. (i - 1) /\ Max(1 .. i) = i
      BY <1>0, FirstIndices
    <3>2. value[1 .. i] = Body(value, 1 .. i)
      <4> HIDE DEF Body, D
      <4> QED BY <1>13, <3>1
    <3>3. l[i] = i
      <4> HIDE DEF D
      <4> QED BY <1>1, <3>1
    <3>4. value[1 .. i] = ShortStep(h[i - 1], u[Len(u) - i + 1], d)
      BY <2>2, <3>1, <3>2, <3>3, Zenon
    <3> QED BY <1>16, <3>4
  <2>3. Along(value, h, n)
    <3> HIDE DEF Body, D
    <3> QED BY <2>1, <2>2 DEF Along
  <2>4. value[1 .. n] = h[n]
    <3> HIDE DEF Body, D
    <3> QED BY <1>0, <2>3, AlongPasses
  <2> QED BY <2>4
<1> QED BY <1>2, <1>15, <1>16, <1>17 DEF S, a, ShortlyDividing

\* A number of one digit.
LEMMA OneDigit ==
  ASSUME NEW x \in 0 .. (Base - 1)
  PROVE  <<x>> \in ApDigits(1) /\ Value(<<x>>) = x
<1>1. <<x>> \o <<>> \in ApDigits(0 + 1) /\ Value(<<x>> \o <<>>) = x + Base * Value(<<>>)
  <2>1. 0 \in Nat
    OBVIOUS
  <2> QED BY <2>1, NoDigits, DigitBefore, Zenon
<1>2. <<x>> \o <<>> = <<x>> /\ 0 + 1 = 1
  OBVIOUS
<1>3. Base * 0 = 0 /\ x + 0 = x
  <2>1. PICK B \in Nat : B = Base
    BY BasePositive
  <2>2. B * 0 = 0 /\ x \in Int
    BY <2>1
  <2> QED BY <2>1, <2>2
<1> QED BY <1>1, <1>2, <1>3, NoDigits, Zenon

LEMMA ShortDivisionExact ==
  ASSUME NEW n \in Nat, NEW u \in ApDigits(n), NEW v \in ApDigits(1), v[1] # 0
  PROVE  DivisionOf(ShortDivision(u, v[1]), u, v, n, 1)
<1>1. PICK d \in Nat : d = v[1] /\ d > 0 /\ d \in 0 .. (Base - 1) /\ v = <<d>>
  <2>1. v[1] \in 0 .. (Base - 1)
    BY DEF ApDigits
  <2>2. PICK B \in Nat : B = Base
    BY BasePositive
  <2>3. v[1] \in Nat /\ v[1] > 0
    BY <2>1, <2>2
  <2>4. v \in Seq(Int) /\ Len(v) = 1
    BY ApDigitsType
  <2>5. v = <<v[1]>>
    BY <2>4
  <2> QED BY <2>1, <2>3, <2>5
<1>2. PICK h : ShortlyDividing(h, n, u, d)
  BY <1>1, ShortPasses
<1>3. /\ h \in [0 .. n -> ShortStates(d)]
      /\ h[0] = [q |-> <<>>, r |-> 0]
      /\ \A i \in 1 .. n : h[i] = ShortStep(h[i - 1], u[Len(u) - i + 1], d)
      /\ ShortDivision(u, d) = [q |-> h[n].q, r |-> <<h[n].r>>, back |-> FALSE]
  BY <1>2, Zenon DEF ShortlyDividing
<1> DEFINE P == {i \in Nat : /\ h[i].q \in ApDigits(i)
                             /\ ShortRemains(h[i], d, Value(u), BasePower(n - i), LowPart(u, n - i))}
<1>4. u \in [1 .. n -> Int] /\ Len(u) = n
  BY ApDigitsType
<1>5. 0 \in P
  <2>1. h[0].q = <<>> /\ h[0].r = 0 /\ n - 0 = n
    BY <1>3
  <2>2. Value(u) = LowPart(u, n)
    BY <1>4, LowParts
  <2>3. PICK Y \in Nat, U \in Int : Y = BasePower(n) /\ U = Value(u)
    BY BasePowers, ValueBelow
  <2>4. U = ((d * Y) * 0 + 0 * Y) + U
    <3>1. (d * Y) * 0 = 0 /\ 0 * Y = 0
      OBVIOUS
    <3> QED BY <3>1
  <2>5. ShortRemains(h[0], d, Value(u), BasePower(n - 0), LowPart(u, n - 0))
    BY <2>1, <2>2, <2>3, <2>4, NoDigits, Zenon DEF ShortRemains
  <2>6. h[0].q \in ApDigits(0)
    BY <2>1, NoDigits, Zenon
  <2> QED BY <2>5, <2>6
<1>6. ASSUME NEW i \in 1 .. n, i - 1 \in P PROVE i \in P
  <2>1. PICK j \in 1 .. n, k \in Nat, l \in Nat :
          /\ j = n - i + 1 /\ j - 1 = n - i /\ j = n - (i - 1) /\ k = i - 1 /\ k + 1 = i /\ l = n - i /\ l + 1 = j
    OBVIOUS
  <2>2. PICK s \in ShortStates(d) : s = h[k]
    <3>1. i - 1 \in 0 .. n
      OBVIOUS
    <3> QED BY <1>3, <2>1, <3>1
  <2>3. PICK x \in 0 .. (Base - 1) : x = u[j]
    BY DEF ApDigits
  <2>4. h[i] = ShortStep(s, x, d)
    BY <1>3, <1>4, <2>1, <2>2, <2>3
  <2>5. PICK Y \in Nat, low \in Int : Y = BasePower(l) /\ low = LowPart(u, l) /\ BasePower(j) = Base * Y
    <3>1. BasePower(l + 1) = Base * BasePower(l) /\ BasePower(l) \in Nat
      BY BasePowers
    <3>2. l \in 0 .. n
      BY <2>1
    <3>3. LowPart(u, l) \in Int
      BY <1>4, <3>2, LowParts
    <3> QED BY <2>1, <3>1, <3>3
  <2>6. LowPart(u, j) = low + Y * x
    <3>1. LowPart(u, j) = LowPart(u, j - 1) + BasePower(j - 1) * u[j]
      BY <1>4, LowParts
    <3>2. j - 1 = l
      BY <2>1
    <3> QED BY <2>3, <2>5, <3>1, <3>2, Zenon
  <2>7. s.q \in ApDigits(k) /\ ShortRemains(s, d, Value(u), Base * Y, low + Y * x)
    <3>1. h[i - 1].q \in ApDigits(i - 1) /\ ShortRemains(h[i - 1], d, Value(u), BasePower(n - (i - 1)), LowPart(u, n - (i - 1)))
      BY <1>6
    <3> QED BY <2>1, <2>2, <2>5, <2>6, <3>1, Zenon
  <2>8. h[i].q \in ApDigits(k + 1) /\ ShortRemains(h[i], d, Value(u), Y, low)
    <3>1. \A ii \in Nat, U \in Nat, YY \in Nat, ll \in Int :
              s.q \in ApDigits(ii) /\ ShortRemains(s, d, U, Base * YY, ll + YY * x) =>
                ShortStep(s, x, d).q \in ApDigits(ii + 1) /\ ShortRemains(ShortStep(s, x, d), d, U, YY, ll)
      BY <1>1, ShortStepExact
    <3>2. Value(u) \in Nat
      BY ValueBelow
    <3>3. PICK t \in Nat : t = Value(u)
      BY <3>2
    <3>4. s.q \in ApDigits(k) /\ ShortRemains(s, d, t, Base * Y, low + Y * x)
      BY <2>7, <3>3
    <3>5. ShortStep(s, x, d).q \in ApDigits(k + 1) /\ ShortRemains(ShortStep(s, x, d), d, t, Y, low)
      BY <3>1, <3>4
    <3> QED BY <2>4, <3>3, <3>5, Zenon
  <2>9. h[i].q \in ApDigits(i) /\ ShortRemains(h[i], d, Value(u), BasePower(n - i), LowPart(u, n - i))
    BY <2>1, <2>5, <2>8, Zenon
  <2> QED BY <2>9
<1>7. n \in P
  <2>1. n \in 0 .. n
    OBVIOUS
  <2>2. \A i \in 0 .. n : i \in P
    <3> HIDE DEF P
    <3> QED BY <1>5, <1>6, UpTo
  <2> HIDE DEF P
  <2> QED BY <2>1, <2>2
<1>8. h[n].q \in ApDigits(n) /\ ShortRemains(h[n], d, Value(u), 1, 0)
  <2>1. n - n = 0
    OBVIOUS
  <2>2. h[n].q \in ApDigits(n) /\ ShortRemains(h[n], d, Value(u), BasePower(n - n), LowPart(u, n - n))
    BY <1>7
  <2>3. LowPart(u, 0) = 0 /\ BasePower(0) = 1
    BY <1>4, LowParts, BasePowers
  <2> QED BY <2>1, <2>2, <2>3, Zenon
<1>9. PICK r \in 0 .. (d - 1), Q \in Nat : r = h[n].r /\ Q = Value(h[n].q)
  <2>1. n \in 0 .. n
    OBVIOUS
  <2>2. h[n].r \in 0 .. (d - 1)
    BY <1>3, <2>1 DEF ShortStates
  <2>3. Value(h[n].q) \in Nat
    BY <1>8, ValueBelow
  <2> QED BY <2>2, <2>3
<1>10. r \in 0 .. (Base - 1) /\ r \in Int /\ r < d
  <2>1. PICK B \in Nat : B = Base
    BY BasePositive
  <2>2. r \in 0 .. (B - 1) /\ r \in Int /\ r < d
    BY <1>1, <2>1
  <2> QED BY <2>1, <2>2
<1>11. <<r>> \in ApDigits(1) /\ Value(<<r>>) = r /\ Value(v) = d
  <2>1. <<r>> \in ApDigits(1) /\ Value(<<r>>) = r
    BY <1>10, OneDigit
  <2>2. Value(<<d>>) = d
    BY <1>1, OneDigit
  <2> QED BY <1>1, <2>1, <2>2, Zenon
<1>12. Value(u) = d * Q + r
  <2>1. Value(u) = ((d * 1) * Q + r * 1) + 0
    BY <1>8, <1>9, Zenon DEF ShortRemains
  <2>2. (d * 1) * Q = d * Q /\ r * 1 = r /\ d * Q \in Int
    BY <1>10
  <2>3. (d * Q + r) + 0 = d * Q + r
    BY <1>10, <2>2
  <2> QED BY <2>1, <2>2, <2>3, Zenon
<1>13. /\ ShortDivision(u, d).q = h[n].q
       /\ ShortDivision(u, d).r = <<r>>
  BY <1>3, <1>9
<1>14. DivisionOf(ShortDivision(u, d), u, v, n, 1)
  BY <1>8, <1>9, <1>10, <1>11, <1>12, <1>13, Zenon DEF DivisionOf
<1> QED BY <1>1, <1>14, Zenon

-----------------------------------------------------------------------------
(* divide *)

\* The digits of the words of a number, and the words of digits, stand for the same number.
LEMMA DigitsExact ==
  ASSUME NEW x \in Number
  PROVE  /\ Len(x) \in Nat /\ Digits(x) \in ApDigits(2 * Len(x))
         /\ Value(Digits(x)) = WordsValue(x)
<1>1. PICK n \in Nat : n = Len(x)
  BY WordsInNat
<1>2. PICK B \in Nat : B = Base /\ B > 0 /\ Word = B * B
  BY BasePositive DEF Word
<1>3. x \in [1 .. n -> 0 .. (B * B - 1)] /\ x \in [1 .. n -> Int]
  <2>1. x \in [1 .. n -> 0 .. (Word - 1)]
    BY <1>1, WordsInNat
  <2>2. PICK w \in Nat : w = B * B
    BY <1>2
  <2>3. x \in [1 .. n -> 0 .. (w - 1)]
    BY <1>2, <2>1, <2>2
  <2>4. x \in [1 .. n -> Int]
    BY <2>3
  <2> QED BY <2>2, <2>3, <2>4
<1>4. PICK e : e = Digits(x)
  OBVIOUS
<1>5. e = [k \in 1 .. 2 * n |-> IF k % 2 = 1 THEN Lo(x[(k + 1) \div 2]) ELSE Hi(x[k \div 2])]
  BY <1>1, <1>4, Zenon DEF Digits
<1>6. \A k \in 1 .. n : /\ Lo(x[k]) \in 0 .. (B - 1) /\ Hi(x[k]) \in 0 .. (B - 1)
                        /\ x[k] = B * Hi(x[k]) + Lo(x[k])
  <2> TAKE k \in 1 .. n
  <2>1. x[k] \in 0 .. (B * B - 1)
    BY <1>3
  <2> QED BY <1>2, <2>1, WordDigits
<1>7. e \in ApDigits(2 * n)
  <2>1. ASSUME NEW k \in 1 .. 2 * n
        PROVE  (IF k % 2 = 1 THEN Lo(x[(k + 1) \div 2]) ELSE Hi(x[k \div 2])) \in 0 .. (B - 1)
    <3>1. CASE k % 2 = 1
      <4>1. (k + 1) \div 2 \in 1 .. n
        BY <3>1
      <4> QED BY <1>6, <3>1, <4>1
    <3>2. CASE k % 2 # 1
      <4>1. k \div 2 \in 1 .. n
        BY <3>2
      <4> QED BY <1>6, <3>2, <4>1
    <3> QED BY <3>1, <3>2
  <2>2. e \in [1 .. 2 * n -> 0 .. (B - 1)]
    BY <1>5, <2>1
  <2> QED BY <1>2, <2>2 DEF ApDigits
<1>8. ASSUME NEW k \in 1 .. n PROVE x[k] = e[2 * k - 1] + Base * e[2 * k]
  <2>1. 2 * k - 1 \in 1 .. 2 * n /\ 2 * k \in 1 .. 2 * n
    OBVIOUS
  <2>2. (2 * k - 1) % 2 = 1 /\ ((2 * k - 1) + 1) \div 2 = k /\ (2 * k) % 2 = 0 /\ (2 * k) \div 2 = k
    OBVIOUS
  <2>3. e[2 * k - 1] = Lo(x[k])
    <3>1. e[2 * k - 1] = IF (2 * k - 1) % 2 = 1 THEN Lo(x[((2 * k - 1) + 1) \div 2]) ELSE Hi(x[(2 * k - 1) \div 2])
      BY <1>5, <2>1
    <3> QED BY <2>2, <3>1, Zenon
  <2>4. e[2 * k] = Hi(x[k])
    <3>1. e[2 * k] = IF (2 * k) % 2 = 1 THEN Lo(x[((2 * k) + 1) \div 2]) ELSE Hi(x[(2 * k) \div 2])
      BY <1>5, <2>1
    <3>2. (2 * k) % 2 # 1
      BY <2>2
    <3> QED BY <2>2, <3>1, <3>2, Zenon
  <2>5. PICK lo \in 0 .. (B - 1), hi \in 0 .. (B - 1) : lo = Lo(x[k]) /\ hi = Hi(x[k]) /\ x[k] = B * hi + lo
    BY <1>6, Zenon
  <2>6. B * hi + lo = lo + B * hi
    OBVIOUS
  <2> QED BY <1>2, <2>3, <2>4, <2>5, <2>6, Zenon
<1>9. WordsValue(x) = Value(e)
  BY <1>3, <1>7, <1>8, PairsValue
<1> QED BY <1>1, <1>4, <1>7, <1>9

LEMMA WordsExact ==
  ASSUME NEW n \in Nat, NEW e \in ApDigits(2 * n)
  PROVE  WordsValue(Words(e)) = Value(e)
<1>1. PICK B \in Nat : B = Base
  BY BasePositive
<1>2. e \in [1 .. 2 * n -> Int] /\ Len(e) = 2 * n
  <2>1. 2 * n \in Nat
    OBVIOUS
  <2> QED BY <2>1, ApDigitsType
<1>3. (2 * n) \div 2 = n
  OBVIOUS
<1>4. PICK w : w = Words(e)
  OBVIOUS
<1>5. w = [k \in 1 .. n |-> e[2 * k - 1] + B * e[2 * k]]
  BY <1>1, <1>2, <1>3, <1>4, Zenon DEF Words
<1>6. ASSUME NEW k \in 1 .. n PROVE e[2 * k - 1] + B * e[2 * k] \in Int
  <2>1. 2 * k - 1 \in 1 .. 2 * n /\ 2 * k \in 1 .. 2 * n
    OBVIOUS
  <2>2. PICK a \in Int, b \in Int : a = e[2 * k - 1] /\ b = e[2 * k]
    BY <1>2, <2>1
  <2>3. a + B * b \in Int
    OBVIOUS
  <2> QED BY <2>2, <2>3, Zenon
<1>7. w \in [1 .. n -> Int]
  BY <1>5, <1>6
<1>8. \A k \in 1 .. n : w[k] = e[2 * k - 1] + Base * e[2 * k]
  BY <1>1, <1>5
<1> QED BY <1>4, <1>7, <1>8, PairsValue

\* Digits that are 0 beyond the first k.
LEMMA SameValue ==
  ASSUME NEW n \in Nat, NEW m \in Nat, NEW d \in ApDigits(n), NEW e \in ApDigits(m), NEW k \in 0 .. n, k <= m,
         \A i \in 1 .. k : d[i] = e[i], \A i \in 1 .. n : i > k => d[i] = 0, \A i \in 1 .. m : i > k => e[i] = 0
  PROVE  Value(d) = Value(e)
<1>1. d \in [1 .. n -> Int] /\ e \in [1 .. m -> Int]
  BY ApDigitsType
<1>2. Value(d) = LowPart(d, k)
  BY <1>1, LowPartIdle
<1>3. Value(e) = LowPart(e, k)
  <2>1. k \in 0 .. m
    OBVIOUS
  <2> QED BY <1>1, <2>1, LowPartIdle
<1>4. LowPart(d, k) = LowPart(e, k)
  <2>1. k \in Nat /\ k <= n
    OBVIOUS
  <2> QED BY <1>1, <2>1, LowPartSame
<1> QED BY <1>2, <1>3, <1>4

\* A number without its leading zeros.
LEMMA TrimmedExact ==
  ASSUME NEW m \in Nat, NEW d \in ApDigits(m), Value(d) # 0
  PROVE  \E k \in 1 .. m : /\ Trimmed(d) \in ApDigits(k) /\ Trimmed(d)[k] # 0
                           /\ Value(Trimmed(d)) = Value(d)
<1>1. PICK T \in SUBSET (1 .. m) : T = {k \in 1 .. m : d[k] # 0}
  OBVIOUS
<1>2. T # {}
  <2>1. SUFFICES ASSUME T = {} PROVE FALSE
    OBVIOUS
  <2>2. \A i \in 1 .. m : d[i] = 0
    BY <1>1, <2>1
  <2>3. d \in [1 .. m -> Int] /\ 0 \in 0 .. m
    BY ApDigitsType
  <2>4. Value(d) = LowPart(d, 0) /\ LowPart(d, 0) = 0
    <3>1. Value(d) = LowPart(d, 0)
      <4>1. \A i \in 1 .. m : i > 0 => d[i] = 0
        BY <2>2
      <4> QED BY <2>3, <4>1, LowPartIdle
    <3>2. LowPart(d, 0) = 0
      BY <2>3, LowParts
    <3> QED BY <3>1, <3>2
  <2> QED BY <2>4
<1>3. PICK k \in T : \A j \in T : j <= k
  BY <1>2, Greatest
<1>4. k \in 1 .. m /\ d[k] # 0 /\ \A i \in 1 .. m : i > k => d[i] = 0
  <2>1. k \in 1 .. m /\ d[k] # 0
    BY <1>1
  <2>2. ASSUME NEW i \in 1 .. m, i > k PROVE d[i] = 0
    <3>1. i \notin T
      BY <1>3, <2>1, <2>2
    <3> QED BY <1>1, <3>1
  <2> QED BY <2>1, <2>2
<1>5. Max(T \cup {0}) = k
  <2>1. k \in T \cup {0} /\ \A j \in T \cup {0} : k >= j
    BY <1>3, <1>4
  <2>2. \A c \in T \cup {0} : (\A j \in T \cup {0} : c >= j) => c = k
    <3> TAKE c \in T \cup {0}
    <3> HAVE \A j \in T \cup {0} : c >= j
    <3>1. c >= k /\ k >= c /\ c \in Int /\ k \in Int
      BY <1>4, <2>1
    <3> QED BY <3>1
  <2>3. \E c \in T \cup {0} : \A j \in T \cup {0} : c >= j
    BY <2>1
  <2>4. PICK c : c = CHOOSE b \in T \cup {0} : \A j \in T \cup {0} : b >= j
    OBVIOUS
  <2>5. c \in T \cup {0} /\ \A j \in T \cup {0} : c >= j
    BY <2>3, <2>4
  <2> QED BY <2>2, <2>4, <2>5 DEF Max
<1>6. DOMAIN d = 1 .. m
  BY DEF ApDigits
<1>7. Trimmed(d) = SubSeq(d, 1, k)
  BY <1>1, <1>5, <1>6, Zenon DEF Trimmed
<1>8. PICK t : t = SubSeq(d, 1, k) /\ t = [i \in 1 .. k |-> d[i]]
  <2>1. d \in Seq(0 .. (Base - 1)) /\ Len(d) = m /\ k \in 1 .. Len(d) /\ 1 \in 1 .. Len(d)
    <3>1. d \in Seq(0 .. (Base - 1)) /\ Len(d) = m
      BY ApDigitsType
    <3> QED BY <1>4, <3>1
  <2>2. SubSeq(d, 1, k) = [i \in 1 .. k |-> d[i]]
    BY <2>1
  <2> QED BY <2>2
<1>9. t \in ApDigits(k) /\ t[k] # 0
  <2>1. \A i \in 1 .. k : i \in 1 .. m
    BY <1>4
  <2>2. k \in 1 .. k
    BY <1>4
  <2> QED BY <1>4, <1>8, <2>1, <2>2 DEF ApDigits
<1>10. Value(d) = Value(t)
  <2>1. k \in Nat /\ k \in 0 .. m /\ k <= k
    BY <1>4
  <2>2. \A i \in 1 .. k : d[i] = t[i]
    BY <1>8
  <2>3. \A i \in 1 .. k : i > k => t[i] = 0
    BY <1>4
  <2> QED BY <1>4, <1>9, <2>1, <2>2, <2>3, SameValue
<1> QED BY <1>4, <1>7, <1>8, <1>9, <1>10, Zenon

\* A number with more leading zeros.
LEMMA PaddedExact ==
  ASSUME NEW N \in Nat, NEW n \in Nat, N <= n, NEW q \in ApDigits(N)
  PROVE  Padded(q, n) \in ApDigits(n) /\ Value(Padded(q, n)) = Value(q)
<1>1. Len(q) = N
  BY ApDigitsType
<1>2. PICK B \in Nat : B = Base /\ B > 0
  BY BasePositive
<1>3. PICK e : e = Padded(q, n)
  OBVIOUS
<1>4. e = [k \in 1 .. n |-> IF k <= N THEN q[k] ELSE 0]
  BY <1>1, <1>3, Zenon DEF Padded
<1>5. q \in [1 .. N -> 0 .. (B - 1)]
  BY <1>2 DEF ApDigits
<1>6. e \in ApDigits(n)
  <2>1. e \in [1 .. n -> 0 .. (B - 1)]
    BY <1>2, <1>4, <1>5
  <2> QED BY <1>2, <2>1 DEF ApDigits
<1>7. Value(e) = Value(q)
  <2>1. N \in 0 .. n /\ N <= N
    OBVIOUS
  <2>2. \A i \in 1 .. N : e[i] = q[i]
    BY <1>4
  <2>3. \A i \in 1 .. n : i > N => e[i] = 0
    BY <1>4
  <2>4. \A i \in 1 .. N : i > N => q[i] = 0
    OBVIOUS
  <2> QED BY <1>6, <2>1, <2>2, <2>3, <2>4, SameValue
<1> QED BY <1>3, <1>6, <1>7

\* The digit that KnuthDiv wants before the dividend.
LEMMA ZeroAhead ==
  ASSUME NEW k \in Nat, NEW u \in ApDigits(k)
  PROVE  u \o <<0>> \in ApDigits(k + 1) /\ Value(u \o <<0>>) = Value(u)
<1>1. PICK B \in Nat : B = Base /\ B > 0
  BY BasePositive
<1>2. u \in Seq(0 .. (B - 1)) /\ Len(u) = k /\ u \in [1 .. k -> 0 .. (B - 1)] /\ k + 1 \in Nat
  BY <1>1, ApDigitsType DEF ApDigits
<1>3. PICK e : e = u \o <<0>>
  OBVIOUS
<1>4. e \in [1 .. (k + 1) -> 0 .. (B - 1)] /\ (\A i \in 1 .. k : e[i] = u[i]) /\ e[k + 1] = 0
  <2>1. 0 \in 0 .. (B - 1)
    BY <1>1
  <2>2. e \in Seq(0 .. (B - 1)) /\ Len(e) = k + 1
    BY <1>2, <1>3, <2>1
  <2>3. (\A i \in 1 .. k : e[i] = u[i]) /\ e[k + 1] = 0
    BY <1>2, <1>3
  <2> QED BY <2>2, <2>3
<1>5. e \in ApDigits(k + 1)
  BY <1>1, <1>4 DEF ApDigits
<1>6. Value(e) = Value(u)
  <2>1. k \in 0 .. (k + 1) /\ k <= k
    OBVIOUS
  <2>2. \A i \in 1 .. (k + 1) : i > k => e[i] = 0
    <3> TAKE i \in 1 .. (k + 1)
    <3> HAVE i > k
    <3>1. i = k + 1
      OBVIOUS
    <3> QED BY <1>4, <3>1
  <2>3. \A i \in 1 .. k : i > k => u[i] = 0
    OBVIOUS
  <2> QED BY <1>2, <1>4, <1>5, <2>1, <2>2, <2>3, SameValue
<1> QED BY <1>3, <1>5, <1>6

\* A dividend has as many digits as a divisor that is not greater, and is less than the
\* divisor times a power.
LEMMA DividendDigits ==
  ASSUME NEW k \in Nat, NEW u \in ApDigits(k), NEW n \in Nat, n >= 1, NEW v \in ApDigits(n), v[n] # 0,
         Value(v) <= Value(u)
  PROVE  n <= k /\ Value(u) < Value(v) * BasePower((k + 1) - n)
<1>1. PICK p \in Nat, l \in Nat :
        p = BasePower(n - 1) /\ l < p /\ Value(v) = l + p * v[n] /\ BasePower(n) = Base * p /\ v[n] \in Nat
  BY TopDigit
<1>2. PICK V \in Nat, U \in Nat, P \in Nat, d \in Nat :
        V = Value(v) /\ U = Value(u) /\ P = BasePower(k) /\ d = v[n] /\ U < P /\ V <= U
  <2>1. Value(v) \in Nat /\ Value(u) \in Nat /\ Value(u) < BasePower(k) /\ BasePower(k) \in Nat
    BY ValueBelow, BasePowers
  <2> QED BY <1>1, <2>1
<1>3. p <= V
  <2>1. p * 1 <= p * d
    <3>1. 1 <= d
      BY <1>2
    <3> QED BY <3>1, TimesAtMost
  <2>2. p * 1 = p /\ p * d \in Int
    OBVIOUS
  <2>3. V = l + p * d
    BY <1>1, <1>2
  <2> QED BY <2>1, <2>2, <2>3
<1>4. n <= k
  <2>1. SUFFICES ASSUME k <= n - 1 PROVE FALSE
    OBVIOUS
  <2>2. PICK c \in Nat : k + c = n - 1
    <3>1. (n - 1) - k \in Nat /\ k + ((n - 1) - k) = n - 1
      BY <2>1
    <3> QED BY <3>1
  <2>3. PICK x \in Nat : x = BasePower(c) /\ x >= 1
    BY BasePowers
  <2>4. p = P * x
    <3>1. BasePower(k + c) = BasePower(k) * BasePower(c)
      BY BasePowerSum
    <3> QED BY <1>1, <1>2, <2>2, <2>3, <3>1, Zenon
  <2>5. P * 1 <= P * x
    BY <2>3, TimesAtMost
  <2>6. P * 1 = P /\ P * x \in Int
    OBVIOUS
  <2> QED BY <1>2, <1>3, <2>4, <2>5, <2>6
<1>5. PICK N \in Nat, y \in Nat : N = (k + 1) - n /\ (n - 1) + N = k /\ n - 1 \in Nat /\ y = BasePower(N)
  <2>1. (k + 1) - n \in Nat /\ (n - 1) + ((k + 1) - n) = k /\ n - 1 \in Nat
    BY <1>4
  <2>2. BasePower((k + 1) - n) \in Nat
    BY <2>1, BasePowers
  <2> QED BY <2>1, <2>2
<1>6. P = p * y
  <2>1. BasePower((n - 1) + N) = BasePower(n - 1) * BasePower(N)
    BY <1>5, BasePowerSum
  <2> QED BY <1>1, <1>2, <1>5, <2>1, Zenon
<1>7. p * y <= V * y
  <2>1. y * p <= y * V
    BY <1>3, TimesAtMost
  <2>2. y * p = p * y /\ y * V = V * y
    OBVIOUS
  <2> QED BY <2>1, <2>2
<1>8. U < V * y
  <2>1. p * y \in Int /\ V * y \in Int
    OBVIOUS
  <2> QED BY <1>2, <1>6, <1>7, <2>1
<1> QED BY <1>2, <1>4, <1>5, <1>8, Zenon

\* divide: unless a digit is added back, its words are those of quotient and remainder.
LEMMA DivideExact ==
  ASSUME NEW x \in Number, NEW y \in Number, WordsValue(y) # 0, WordsValue(y) <= WordsValue(x)
  PROVE  \/ divide(x, y).back
         \/ /\ WordsValue(divide(x, y).quotient) = WordsValue(x) \div WordsValue(y)
            /\ WordsValue(divide(x, y).remainder) = WordsValue(x) % WordsValue(y)
<1>1. PICK a \in Nat, b \in Nat : a = Len(x) /\ b = Len(y)
  BY DigitsExact
<1>2. Digits(x) \in ApDigits(2 * a) /\ Value(Digits(x)) = WordsValue(x)
  BY <1>1, DigitsExact
<1>3. Digits(y) \in ApDigits(2 * b) /\ Value(Digits(y)) = WordsValue(y)
  BY <1>1, DigitsExact
<1>4. 2 * a \in Nat /\ 2 * b \in Nat
  OBVIOUS
<1>5. PICK U \in Nat, V \in Nat : U = WordsValue(x) /\ V = WordsValue(y) /\ V > 0 /\ V <= U
  <2>1. Value(Digits(x)) \in Nat /\ Value(Digits(y)) \in Nat
    BY <1>2, <1>3, <1>4, ValueBelow
  <2> QED BY <1>2, <1>3, <2>1
<1>6. PICK k \in 1 .. 2 * a :
        /\ Trimmed(Digits(x)) \in ApDigits(k) /\ Trimmed(Digits(x))[k] # 0
        /\ Value(Trimmed(Digits(x))) = Value(Digits(x))
  <2>1. Value(Digits(x)) # 0
    BY <1>2, <1>5
  <2> QED BY <1>2, <1>4, <2>1, TrimmedExact
<1>7. PICK n \in 1 .. 2 * b :
        /\ Trimmed(Digits(y)) \in ApDigits(n) /\ Trimmed(Digits(y))[n] # 0
        /\ Value(Trimmed(Digits(y))) = Value(Digits(y))
  <2>1. Value(Digits(y)) # 0
    BY <1>3, <1>5
  <2> QED BY <1>3, <1>4, <2>1, TrimmedExact
<1>8. PICK u \in ApDigits(k) : u = Trimmed(Digits(x)) /\ Value(u) = U
  BY <1>2, <1>5, <1>6, Zenon
<1>9. PICK v \in ApDigits(n) : v = Trimmed(Digits(y)) /\ Value(v) = V /\ v[n] # 0
  BY <1>3, <1>5, <1>7, Zenon
<1>10. k \in Nat /\ n \in Nat /\ n >= 1 /\ Len(v) = n
  <2>1. k \in Nat /\ n \in Nat /\ n >= 1
    OBVIOUS
  <2> QED BY <2>1, ApDigitsType
<1>11. n <= k /\ Value(u) < Value(v) * BasePower((k + 1) - n)
  <2>1. Value(v) <= Value(u)
    BY <1>5, <1>8, <1>9
  <2> QED BY <1>9, <1>10, <2>1, DividendDigits
<1>12. PICK s : s = IF Len(v) = 1 THEN ShortDivision(u, v[1]) ELSE KnuthDiv(u \o <<0>>, v)
  OBVIOUS
<1>13. divide(x, y) = [ quotient |-> Words(Padded(s.q, 2 * Len(x))),
                        remainder |-> Words(Padded(s.r, 2 * Len(y))),
                        back |-> s.back ]
  BY <1>8, <1>9, <1>12, Zenon DEF divide
<1>14. /\ divide(x, y).quotient = Words(Padded(s.q, 2 * a)) /\ divide(x, y).remainder = Words(Padded(s.r, 2 * b))
       /\ divide(x, y).back = s.back
  BY <1>1, <1>13
<1>15. s.back \/ \E N \in 0 .. 2 * a : DivisionOf(s, u, v, N, n)
  <2>1. CASE n = 1
    <3>1. DivisionOf(ShortDivision(u, v[1]), u, v, k, 1)
      BY <1>9, <1>10, <2>1, ShortDivisionExact
    <3>2. s = ShortDivision(u, v[1]) /\ k \in 0 .. 2 * a
      BY <1>10, <1>12, <2>1
    <3>3. DivisionOf(s, u, v, k, n)
      BY <2>1, <3>1, <3>2, Zenon
    <3> QED BY <3>2, <3>3
  <2>2. CASE n # 1
    <3>0. PICK m \in Nat : m = k + 1
      BY <1>10
    <3>1. PICK N \in Nat, e \in ApDigits(m) :
            N = (k + 1) - n /\ m = n + N /\ e = u \o <<0>> /\ Value(e) = U
      <4>1. (k + 1) - n \in Nat /\ n + ((k + 1) - n) = k + 1 /\ k + 1 \in Nat
        BY <1>10, <1>11
      <4>2. u \o <<0>> \in ApDigits(k + 1) /\ Value(u \o <<0>>) = Value(u)
        BY <1>10, ZeroAhead
      <4> QED BY <1>8, <3>0, <4>1, <4>2
    <3>2. n >= 2 /\ N \in 0 .. 2 * a
      BY <1>10, <1>11, <2>2, <3>1
    <3>3. Value(e) < Value(v) * BasePower(N)
      BY <1>8, <1>11, <3>1, Zenon
    <3>4. KnuthDiv(e, v).back \/ DivisionOf(KnuthDiv(e, v), e, v, N, n)
      BY <1>9, <1>10, <3>1, <3>2, <3>3, KnuthDivExact
    <3>5. s = KnuthDiv(e, v)
      BY <1>10, <1>12, <2>2, <3>1
    <3>6. ASSUME DivisionOf(s, e, v, N, n) PROVE DivisionOf(s, u, v, N, n)
      BY <1>8, <3>1, <3>6, Zenon DEF DivisionOf
    <3> QED BY <3>2, <3>4, <3>5, <3>6
  <2> QED BY <2>1, <2>2
<1>16. CASE s.back
  BY <1>14, <1>16, Zenon
<1>17. ASSUME NEW N \in 0 .. 2 * a, DivisionOf(s, u, v, N, n)
       PROVE  /\ WordsValue(divide(x, y).quotient) = U \div V
              /\ WordsValue(divide(x, y).remainder) = U % V
  <2>1. /\ s.q \in ApDigits(N) /\ s.r \in ApDigits(n)
        /\ U = V * Value(s.q) + Value(s.r) /\ Value(s.r) < V
    BY <1>8, <1>9, <1>17, Zenon DEF DivisionOf
  <2>2. N \in Nat /\ N <= 2 * a /\ n <= 2 * b
    OBVIOUS
  <2>3. PICK Q \in Nat, R \in Nat : Q = Value(s.q) /\ R = Value(s.r)
    BY <1>10, <2>1, <2>2, ValueBelow
  <2>4. Padded(s.q, 2 * a) \in ApDigits(2 * a) /\ Value(Padded(s.q, 2 * a)) = Q
    BY <1>4, <2>1, <2>2, <2>3, PaddedExact
  <2>5. Padded(s.r, 2 * b) \in ApDigits(2 * b) /\ Value(Padded(s.r, 2 * b)) = R
    BY <1>4, <1>10, <2>1, <2>2, <2>3, PaddedExact
  <2>6. WordsValue(Words(Padded(s.q, 2 * a))) = Q
    BY <2>4, WordsExact
  <2>7. WordsValue(Words(Padded(s.r, 2 * b))) = R
    BY <2>5, WordsExact
  <2>8. Divided(U, V, Q, R)
    <3>1. R \in 0 .. (V - 1) /\ Q \in Int /\ U = V * Q + R
      <4>1. U = V * Q + R
        BY <2>1, <2>3, Zenon
      <4>2. R < V
        BY <2>1, <2>3
      <4> QED BY <4>1, <4>2
    <3> QED BY <3>1, Zenon DEF Divided
  <2>9. U \div V = Q /\ U % V = R
    BY <1>5, <2>8, ByQuotient
  <2> QED BY <1>14, <2>6, <2>7, <2>9, Zenon
<1> QED BY <1>5, <1>15, <1>16, <1>17, Zenon

-----------------------------------------------------------------------------
(* The inputs *)

\* What holds of numbers holds of the ones that are chosen.
LEMMA ChosenSums == ChosenInput => SumsExact
<1> SUFFICES ASSUME ChosenInput, input.of = "words" PROVE SumsExact
  BY DEF SumsExact
<1>1. PICK pair \in Operands : input = [of |-> "words", x |-> pair.x, y |-> pair.y]
  BY DEF ChosenInput
<1>2. PICK x \in Number : x = pair.x /\ x = input.x
  BY <1>1, InputsAssumption
<1>3. PICK y \in Number : y = pair.y /\ y = input.y
  BY <1>1, InputsAssumption
<1>4. PICK y1 \in 0 .. (Word - 1) : y1 = y[1]
  <2>1. y \in [1 .. Len(y) -> 0 .. (Word - 1)] /\ Len(y) \in Nat /\ Len(y) > 0
    BY WordsInNat
  <2> QED BY <2>1
<1>5. WordsValue(Append(add_1(x, y[1]).dest, add_1(x, y[1]).carry)) = WordsValue(x) + y[1]
  BY <1>4, Add1Value
<1>6. WordsValue(Append(sub_1(x, y[1]).dest, -sub_1(x, y[1]).carry)) = WordsValue(x) - y[1]
  BY <1>4, Sub1Value
<1>7. ASSUME Len(x) = Len(y)
      PROVE  LET sum == add(x, y, Len(x), FALSE, FALSE)
             IN WordsValue(Append(sum.dest, sum.carry)) = WordsValue(x) + WordsValue(y)
  BY <1>7, AddValue
<1>8. ASSUME NEW destlen \in 1 .. Longer(Len(x), Len(y)), NEW signed \in BOOLEAN
      PROVE  LET difference == sub(x, y, destlen, signed, signed)
                 part(z) == WordsValue(Extended(z, destlen, signed))
             IN WordsValue(Append(difference.dest, -difference.carry)) = part(x) - part(y)
  <2>1. PICK s : s = signed
    OBVIOUS
  <2>2. destlen \in Nat
    <3>1. PICK l \in Nat, m \in Nat : l = Len(x) /\ m = Len(y)
      BY WordsInNat
    <3>2. destlen \in 1 .. (IF l < m THEN m ELSE l)
      BY <3>1 DEF Longer
    <3> QED BY <3>1, <3>2
  <2>3. LET difference == sub(x, y, destlen, s, s)
        IN WordsValue(Append(difference.dest, -difference.carry))
             = WordsValue(Extended(x, destlen, s)) - WordsValue(Extended(y, destlen, s))
    BY <2>2, SubValue
  <2> QED BY <2>1, <2>3
<1> QED BY <1>2, <1>3, <1>5, <1>6, <1>7, <1>8 DEF SumsExact

\* add_1, sub_1, add and sub give the sum and the difference of numbers of any lengths and
\* words of any width, with the carry or borrow that is left (APUtils.h).
THEOREM SumsAreExact == InputSpec => []SumsExact
BY AlwaysChosen, ChosenSums, PTL

\* What holds of numbers holds of the ones that are chosen.
LEMMA ChosenProducts == ChosenInput => MulExact
<1> SUFFICES ASSUME ChosenInput, input.of = "words", ~Overruns(input.x, input.y) PROVE MulExact
  BY DEF MulExact
<1>1. PICK pair \in Operands : input = [of |-> "words", x |-> pair.x, y |-> pair.y]
  BY DEF ChosenInput
<1>2. PICK x \in Number : x = pair.x /\ x = input.x
  BY <1>1, InputsAssumption
<1>3. PICK y \in Number : y = pair.y /\ y = input.y
  BY <1>1, InputsAssumption
<1>4. /\ WordsValue(mul(y \o x, x, y)) = WordsValue(x) * WordsValue(y)
      /\ WordsValue(mul_add(y \o x, x, y, FALSE))
           = (WordsValue(y \o x) + WordsValue(x) * WordsValue(y)) % 2 ^ (WordBits * (Len(x) + Len(y)))
  BY <1>2, <1>3, ProductOf
<1> QED BY <1>2, <1>3, <1>4, Zenon DEF MulExact

\* Where the middle digits of no two words overrun, mul gives the product of numbers of any
\* lengths and words of any width, and mul_add adds it to dest, modulo the width of dest
\* (APUtils.h).
THEOREM ProductsAreExact == InputSpec => []MulExact
BY AlwaysChosen, ChosenProducts, PTL

\* What holds of ranges of bits holds of the one that is chosen.
LEMMA ChosenRanges == ChosenInput => RangesExact
<1> SUFFICES ASSUME ChosenInput, input.of = "range" PROVE RangesExact
  BY DEF RangesExact
<1>1. PICK range \in Ranges :
        input = [of |-> "range", x |-> range.x, mark1 |-> range.mark1, mark2 |-> range.mark2]
  BY DEF ChosenInput
<1>2. PICK x \in Number : x = range.x /\ x = input.x
  BY <1>1, InputsAssumption
<1>3. PICK m1 \in Nat, m2 \in Nat : /\ m1 = range.mark1 /\ m1 = input.mark1
                                  /\ m2 = range.mark2 /\ m2 = input.mark2
  BY <1>1, InputsAssumption
<1>4. m2 <= m1
  BY <1>3, InputsAssumption
<1>5. ASSUME NEW index \in 0 .. (WordBits * Len(x) - 1)
      PROVE  /\ get(set(x, m1, m2), index) = (index \in m2 .. m1 \/ get(x, index))
             /\ get(clear(x, m1, m2), index) = (~(index \in m2 .. m1) /\ get(x, index))
  <2>1. /\ get(set(x, m1, m2), index) <=> (index \in m2 .. m1 \/ get(x, index))
        /\ get(clear(x, m1, m2), index) <=> (index \notin m2 .. m1 /\ get(x, index))
    BY <1>4, RangeBits
  <2> QED BY <2>1, Zenon DEF get
<1> QED BY <1>2, <1>3, <1>5, Zenon DEF RangesExact

\* A range of bits of a number of any length, in words of any width, is what set and clear
\* change, and the rest of the number stays (APUtils.h).
THEOREM RangesAreExact == InputSpec => []RangesExact
BY AlwaysChosen, ChosenRanges, PTL

\* What holds of numbers holds of the ones that are chosen.
LEMMA ChosenDivisions == ChosenInput => DivExact
<1> SUFFICES ASSUME ChosenInput, input.of = "words", Divisible PROVE DivExact
  BY DEF DivExact
<1>1. PICK pair \in Operands : input = [of |-> "words", x |-> pair.x, y |-> pair.y]
  BY DEF ChosenInput
<1>2. PICK x \in Number : x = pair.x /\ x = input.x
  BY <1>1, InputsAssumption
<1>3. PICK y \in Number : y = pair.y /\ y = input.y
  BY <1>1, InputsAssumption
<1>4. WordsValue(y) # 0 /\ WordsValue(y) <= WordsValue(x)
  BY <1>2, <1>3, Zenon DEF Divisible
<1>5. \/ divide(x, y).back
      \/ /\ WordsValue(divide(x, y).quotient) = WordsValue(x) \div WordsValue(y)
         /\ WordsValue(divide(x, y).remainder) = WordsValue(x) % WordsValue(y)
  BY <1>4, DivideExact
<1> QED BY <1>2, <1>3, <1>5, Zenon DEF DivExact, Quotient

\* Unless a digit of the quotient is added back (step D6), divide gives quotient and
\* remainder of numbers of any lengths and words of any width (APUtils.h).
THEOREM DivisionsAreExact == InputSpec => []DivExact
BY AlwaysChosen, ChosenDivisions, PTL
=============================================================================
