-------------------------- MODULE TargetSocket_proofs --------------------------
(***************************************************************************)
(* Proofs about TargetSocket, for any number of transactions, uses and     *)
(* delays: the phases of the base protocol exclude each other, nothing     *)
(* that is handed to a thread is forgotten, and the threads of             *)
(* nb_transport_fw are no more than the transactions.                      *)
(***************************************************************************)
EXTENDS TargetSocket, FiniteSetTheorems, SequenceTheorems, WellFoundedInduction, TLAPS

-----------------------------------------------------------------------------
(* Times, and the least element of a set *)

LEMMA LeastInside ==
  ASSUME NEW S \in SUBSET Nat, S # {}
  PROVE  \E m \in S : \A k \in S : m <= k
<1> DEFINE R == {ss \in Nat \X Nat : ss[1] < ss[2]}
<1>1. IsWellFoundedOn(R, Nat)
  <2>1. OpToRel(<, Nat) = R
    BY DEF OpToRel
  <2> QED BY <2>1, NatLessThanWellFounded
<1>2. PICK m \in S : \A k \in S : <<k, m>> \notin R
  <2> HIDE DEF R
  <2> QED BY <1>1, WFMin
<1>3. ASSUME NEW k \in S PROVE m <= k
  <2>1. m \in Nat /\ k \in Nat
    OBVIOUS
  <2>2. k < m => <<k, m>> \in R
    BY <2>1
  <2> QED BY <1>2, <2>1, <2>2
<1> QED BY <1>3

LEMMA GreatestInside ==
  ASSUME NEW n \in Nat, NEW S \in SUBSET (1 .. n), S # {}
  PROVE  \E m \in S : \A k \in S : k <= m
<1> DEFINE T == {n - k : k \in S}
<1>1. T \in SUBSET Nat /\ T # {}
  <2>1. \A k \in S : n - k \in Nat
    OBVIOUS
  <2>2. T # {}
    OBVIOUS
  <2> QED BY <2>1, <2>2
<1>2. PICK m \in T : \A k \in T : m <= k
  <2> HIDE DEF T
  <2> QED BY <1>1, LeastInside
<1>3. PICK l \in S : m = n - l
  BY <1>2
<1>4. ASSUME NEW k \in S PROVE k <= l
  <2>1. n - l <= n - k
    BY <1>2, <1>3
  <2>2. k \in Int /\ l \in Int
    OBVIOUS
  <2> QED BY <2>1, <2>2
<1> QED BY <1>4

LEMMA TimeFacts == MaxDelay \in Nat /\ Never = MaxDelay + 1 /\ Never \in Nat /\ Never \notin Delays
BY SocketAssumption DEF Delays

LEMMA NotifiedFacts ==
  ASSUME NEW e \in Times, NEW d \in Delays
  PROVE  /\ Notified(e, d) \in Times /\ Notified(e, d) # Never
         /\ Notified(e, d) <= d /\ Notified(e, d) <= e
BY TimeFacts DEF Notified, Times, Delays

LEMMA LaterFacts ==
  ASSUME NEW e \in Times, NEW d \in Delays, d <= e
  PROVE  /\ Later(e, d) \in Times
         /\ Later(e, d) = Never <=> e \in {d, Never}
BY TimeFacts DEF Later, Times, Delays

-----------------------------------------------------------------------------
(* The peq *)

Entry == [due : Delays, trans : Trans]
PeqOK(p) == p.scheduled \in Seq(Entry) /\ p.event \in Times /\ DOMAIN p = {"scheduled", "event"}

\* What is inside, once each.
Held(p) == {p.scheduled[i].trans : i \in DOMAIN p.scheduled}
Once(p) ==
  \A i, j \in DOMAIN p.scheduled : p.scheduled[i].trans = p.scheduled[j].trans => i = j

\* The event comes before what is due first.
InTime(p) == p.scheduled # <<>> => p.event <= Head(p.scheduled).due

LEMMA NotifyKeeps ==
  ASSUME NEW p, PeqOK(p), NEW t \in Trans, NEW d \in Delays
  PROVE  /\ PeqOK(notify(p, t, d)) /\ Held(notify(p, t, d)) = Held(p) \cup {t}
         /\ Once(p) /\ t \notin Held(p) => Once(notify(p, t, d))
         /\ InTime(p) => InTime(notify(p, t, d))
<1> DEFINE s == p.scheduled
           before == {i \in DOMAIN s : s[i].due <= d}
           n == IF before = {} THEN 0 ELSE CHOOSE i \in before : \A j \in before : j <= i
           x == [due |-> d, trans |-> t]
           r == SubSeq(s, 1, n) \o <<x>> \o SubSeq(s, n + 1, Len(s))
           q == notify(p, t, d)
<1>1. s \in Seq(Entry) /\ Len(s) \in Nat /\ DOMAIN s = 1 .. Len(s) /\ p.event \in Times
  BY DEF PeqOK
<1>2. q = [scheduled |-> r, event |-> Notified(p.event, d)]
  BY DEF notify
<1>3. n \in 0 .. Len(s) /\ (n = 0 => before = {})
  <2>1. CASE before = {}
    BY <1>1, <2>1
  <2>2. CASE before # {}
    <3>1. before \in SUBSET (1 .. Len(s))
      BY <1>1
    <3>2. \E i \in before : \A j \in before : j <= i
      <4> HIDE DEF before
      <4> QED BY <1>1, <2>2, <3>1, GreatestInside
    <3>3. n \in before
      <4> HIDE DEF before
      <4> QED BY <2>2, <3>2
    <3>4. n \in 1 .. Len(s)
      <4> HIDE DEF before, n
      <4> QED BY <3>1, <3>3
    <3> HIDE DEF n, before
    <3> QED BY <1>1, <2>2, <3>4
  <2> QED BY <2>1, <2>2
<1> HIDE DEF n
<1>4. x \in Entry
  BY DEF Entry
<1>5. /\ r \in Seq(Entry) /\ Len(r) = Len(s) + 1
      /\ \A i \in 1 .. (Len(s) + 1) :
           r[i] = IF i <= n THEN s[i] ELSE IF i = n + 1 THEN x ELSE s[i - 1]
  <2> DEFINE u == SubSeq(s, 1, n)
             w == SubSeq(s, n + 1, Len(s))
  <2>1. u \in Seq(Entry) /\ Len(u) = n /\ \A i \in 1 .. n : u[i] = s[i]
    BY <1>1, <1>3, SubSeqProperties, ElementOfSeq
  <2>2. /\ w \in Seq(Entry) /\ Len(w) = Len(s) - n
        /\ \A i \in 1 .. (Len(s) - n) : w[i] = s[n + i]
    BY <1>1, <1>3, SubSeqProperties, ElementOfSeq
  <2>3. <<x>> \in Seq(Entry) /\ Len(<<x>>) = 1 /\ <<x>>[1] = x
    BY <1>4
  <2> HIDE DEF u, w, x
  <2>4. /\ u \o <<x>> \in Seq(Entry) /\ Len(u \o <<x>>) = n + 1
        /\ \A i \in 1 .. (n + 1) : (u \o <<x>>)[i] = IF i <= n THEN s[i] ELSE x
    BY <1>3, <2>1, <2>3, ConcatProperties
  <2>5. r = (u \o <<x>>) \o w
    BY DEF u, w, x
  <2> HIDE DEF r
  <2> DEFINE v == u \o <<x>>
  <2>6. v \in Seq(Entry) /\ Len(v) = n + 1 /\ r = v \o w
    BY <2>4, <2>5
  <2> HIDE DEF v
  <2>7. /\ r \in Seq(Entry) /\ Len(r) = Len(v) + Len(w)
        /\ \A i \in 1 .. (Len(v) + Len(w)) : r[i] = IF i <= Len(v) THEN v[i] ELSE w[i - Len(v)]
    BY <2>2, <2>6, ConcatProperties
  <2>8. Len(v) = n + 1 /\ Len(v) + Len(w) = Len(s) + 1
    <3> HIDE DEF s
    <3> QED BY <1>1, <1>3, <2>2, <2>6
  <2>9. ASSUME NEW i \in 1 .. (Len(s) + 1)
        PROVE  r[i] = IF i <= n THEN s[i] ELSE IF i = n + 1 THEN x ELSE s[i - 1]
    <3>1. r[i] = IF i <= n + 1 THEN v[i] ELSE w[i - (n + 1)]
      BY <2>7, <2>8
    <3>2. CASE i <= n + 1
      <4>1. v[i] = IF i <= n THEN s[i] ELSE x
        BY <1>3, <2>4, <3>2 DEF v
      <4> QED BY <1>3, <3>1, <3>2, <4>1
    <3>3. CASE i > n + 1
      <4>1. i - (n + 1) \in 1 .. (Len(s) - n) /\ n + (i - (n + 1)) = i - 1
        BY <1>1, <1>3, <3>3
      <4>2. w[i - (n + 1)] = s[i - 1]
        BY <2>2, <4>1
      <4> QED BY <1>3, <3>1, <3>3, <4>2
    <3> QED BY <1>3, <3>2, <3>3
  <2> QED BY <2>7, <2>8, <2>9
<1>6. DOMAIN r = 1 .. (Len(s) + 1)
  BY <1>1, <1>5
<1> HIDE DEF r, before
<1>7. PeqOK(q)
  BY <1>1, <1>2, <1>5, NotifiedFacts DEF PeqOK
<1>8. Held(q) = Held(p) \cup {t}
  <2>1. ASSUME NEW i \in 1 .. (Len(s) + 1) PROVE r[i].trans \in Held(p) \cup {t}
    <3>1. i <= n \/ i = n + 1 \/ (i > n + 1 /\ i - 1 \in 1 .. Len(s))
      BY <1>1, <1>3
    <3>2. \A j \in 1 .. Len(s) : s[j].trans \in Held(p)
      BY <1>1 DEF Held
    <3>3. x.trans = t
      OBVIOUS
    <3> HIDE DEF s, x
    <3>4. r[i] = IF i <= n THEN s[i] ELSE IF i = n + 1 THEN x ELSE s[i - 1]
      BY <1>5
    <3>5. i <= n => i \in 1 .. Len(s)
      BY <1>1, <1>3
    <3> QED BY <1>3, <3>1, <3>2, <3>3, <3>4, <3>5
  <2>2. ASSUME NEW i \in 1 .. Len(s) PROVE s[i].trans \in Held(q)
    <3>1. CASE i <= n
      BY <1>1, <1>2, <1>3, <1>5, <1>6, <3>1 DEF Held
    <3>2. CASE i > n
      <4>1. r[i + 1] = s[i] /\ i + 1 \in 1 .. (Len(s) + 1)
        BY <1>1, <1>3, <1>5, <3>2
      <4> QED BY <1>2, <1>6, <4>1 DEF Held
    <3> QED BY <1>1, <1>3, <3>1, <3>2
  <2>3. t \in Held(q)
    <3>1. r[n + 1] = x /\ n + 1 \in 1 .. (Len(s) + 1)
      BY <1>1, <1>3, <1>5
    <3> QED BY <1>2, <1>6, <3>1 DEF Held
  <2>4. Held(q) \subseteq Held(p) \cup {t}
    BY <1>2, <1>6, <2>1 DEF Held
  <2>5. Held(p) \subseteq Held(q)
    BY <1>1, <2>2 DEF Held
  <2> QED BY <2>3, <2>4, <2>5
<1>9. Once(p) /\ t \notin Held(p) => Once(q)
  <2> SUFFICES ASSUME Once(p), t \notin Held(p),
                      NEW i \in 1 .. (Len(s) + 1), NEW j \in 1 .. (Len(s) + 1),
                      r[i].trans = r[j].trans, i # j
               PROVE  FALSE
    BY <1>2, <1>6 DEF Once
  <2> DEFINE old(k) == IF k <= n THEN k ELSE k - 1
  <2>1. ASSUME NEW k \in 1 .. (Len(s) + 1), k # n + 1
        PROVE  old(k) \in 1 .. Len(s) /\ r[k] = s[old(k)] /\ r[k].trans # t
    <3>1. old(k) \in 1 .. Len(s) /\ r[k] = s[old(k)]
      BY <1>1, <1>3, <1>5, <2>1, SMTT(30)
    <3> QED BY <1>1, <3>1 DEF Held
  <2>2. r[n + 1].trans = t
    BY <1>3, <1>5, <1>1
  <2>3. i # n + 1 /\ j # n + 1
    BY <2>1, <2>2
  <2>4. old(i) = old(j)
    BY <1>1, <2>1, <2>3, SMTT(30) DEF Once
  <2> QED BY <1>1, <1>3, <2>3, <2>4
<1>10. InTime(p) => InTime(q)
  <2> SUFFICES ASSUME InTime(p) PROVE q.event <= Head(r).due
    BY <1>2 DEF InTime
  <2>1. Head(r) = r[1]
    BY <1>1, <1>5
  <2>2. CASE n = 0
    BY <1>1, <1>2, <1>5, <2>1, <2>2, NotifiedFacts
  <2>3. CASE n > 0
    <3>1. s # <<>> /\ Head(r) = Head(s)
      BY <1>1, <1>3, <1>5, <2>1, <2>3
    <3>2. p.event <= Head(s).due /\ Head(s) \in Entry
      BY <1>1, <3>1, HeadTailProperties DEF InTime
    <3>3. Head(s).due \in Int
      BY <3>2, TimeFacts DEF Entry, Delays
    <3>4. q.event = Notified(p.event, d)
      BY <1>2
    <3>5. q.event <= p.event /\ q.event \in Times
      BY <1>1, <3>4, NotifiedFacts
    <3>6. q.event \in Int /\ p.event \in Int
      BY <1>1, <3>5, TimeFacts DEF Times
    <3> QED BY <3>1, <3>2, <3>3, <3>5, <3>6
  <2> QED BY <1>3, <2>2, <2>3
<1> QED BY <1>7, <1>8, <1>9, <1>10

LEMMA PoppedKeeps ==
  ASSUME NEW p, PeqOK(p), p.scheduled # <<>>, Once(p)
  PROVE  /\ PeqOK(Popped(p)) /\ Once(Popped(p)) /\ Head(p.scheduled).trans \in Held(p)
         /\ Held(Popped(p)) = Held(p) \ {Head(p.scheduled).trans}
<1> DEFINE s == p.scheduled
           r == Tail(s)
<1>1. /\ s \in Seq(Entry) /\ Len(s) \in Nat \ {0} /\ DOMAIN s = 1 .. Len(s) /\ Head(s) = s[1]
      /\ DOMAIN p = {"scheduled", "event"} /\ p.event \in Times
  BY DEF PeqOK
<1>2. /\ r \in Seq(Entry) /\ Len(r) = Len(s) - 1 /\ DOMAIN r = 1 .. (Len(s) - 1)
      /\ \A i \in 1 .. (Len(s) - 1) : r[i] = s[i + 1]
  <2>1. r \in Seq(Entry) /\ Len(r) = Len(s) - 1 /\ \A i \in 1 .. Len(r) : r[i] = s[i + 1]
    BY <1>1, HeadTailProperties
  <2> QED BY <1>1, <2>1, LenProperties
<1>3. Popped(p).scheduled = r /\ Popped(p).event = p.event /\ DOMAIN Popped(p) = DOMAIN p
  BY <1>1 DEF Popped
<1> HIDE DEF r
<1>4. PeqOK(Popped(p))
  BY <1>1, <1>2, <1>3 DEF PeqOK
<1>5. Once(Popped(p))
  <2> SUFFICES ASSUME NEW i \in 1 .. (Len(s) - 1), NEW j \in 1 .. (Len(s) - 1),
                      r[i].trans = r[j].trans
               PROVE  i = j
    BY <1>2, <1>3 DEF Once
  <2>1. /\ i + 1 \in 1 .. Len(s) /\ j + 1 \in 1 .. Len(s)
        /\ s[i + 1].trans = s[j + 1].trans
    BY <1>1, <1>2
  <2>2. i + 1 = j + 1
    BY <1>1, <2>1 DEF Once
  <2> QED BY <2>2
<1>6. Head(s).trans \in Held(p)
  BY <1>1 DEF Held
<1>7. ASSUME NEW u \in Held(p), u # Head(s).trans PROVE u \in Held(Popped(p))
  <2>1. PICK i \in 1 .. Len(s) : s[i].trans = u
    BY <1>1 DEF Held
  <2>2. i - 1 \in 1 .. (Len(s) - 1) /\ r[i - 1] = s[i]
    BY <1>1, <1>2, <1>7, <2>1
  <2> QED BY <1>2, <1>3, <2>1, <2>2 DEF Held
<1>8. ASSUME NEW u \in Held(Popped(p)) PROVE u \in Held(p) /\ u # Head(s).trans
  <2>1. PICK i \in 1 .. (Len(s) - 1) : r[i].trans = u
    BY <1>2, <1>3 DEF Held
  <2>2. i + 1 \in 1 .. Len(s) /\ r[i] = s[i + 1] /\ i + 1 # 1
    BY <1>1, <1>2
  <2> QED BY <1>1, <2>1, <2>2 DEF Held, Once
<1> QED BY <1>4, <1>5, <1>6, <1>7, <1>8

LEMMA ArmedKeeps ==
  ASSUME NEW p, PeqOK(p)
  PROVE  PeqOK(Armed(p)) /\ Armed(p).scheduled = p.scheduled /\ InTime(Armed(p))
<1>1. CASE p.scheduled = <<>>
  BY <1>1 DEF Armed, InTime
<1>2. CASE p.scheduled # <<>>
  <2> DEFINE d == Head(p.scheduled).due
  <2>1. d \in Delays
    <3>1. Head(p.scheduled) \in Entry
      BY <1>2, HeadTailProperties DEF PeqOK
    <3> QED BY <3>1 DEF Entry
  <2>2. p.event \in Times /\ DOMAIN p = {"scheduled", "event"}
    BY DEF PeqOK
  <2>3. /\ Armed(p).event = Notified(p.event, d) /\ Armed(p).scheduled = p.scheduled
        /\ DOMAIN Armed(p) = DOMAIN p
    BY <1>2, <2>2 DEF Armed
  <2> HIDE DEF d
  <2>4. Notified(p.event, d) \in Times /\ Notified(p.event, d) <= d
    BY <2>1, <2>2, NotifiedFacts
  <2> QED BY <2>3, <2>4 DEF PeqOK, InTime, d
<1> QED BY <1>1, <1>2

LEMMA PeqLaterKeeps ==
  ASSUME NEW p, PeqOK(p), NEW d \in Delays, d <= p.event
  PROVE  /\ PeqOK(PeqLater(p, d)) /\ Held(PeqLater(p, d)) = Held(p)
         /\ Once(p) => Once(PeqLater(p, d))
         /\ InTime(p) /\ p.event # d => InTime(PeqLater(p, d))
<1> DEFINE s == p.scheduled
           q == PeqLater(p, d)
           r == q.scheduled
           left(n) == IF n < d THEN 0 ELSE n - d
<1>1. s \in Seq(Entry) /\ Len(s) \in Nat /\ DOMAIN s = 1 .. Len(s) /\ p.event \in Times
  BY DEF PeqOK
<1>2. /\ q.event = Later(p.event, d) /\ DOMAIN q = {"scheduled", "event"}
      /\ r = [i \in 1 .. Len(s) |-> [s[i] EXCEPT !.due = left(@)]]
  BY <1>1 DEF PeqLater
<1>3. ASSUME NEW i \in 1 .. Len(s)
      PROVE  r[i] \in Entry /\ r[i].due = left(s[i].due) /\ r[i].trans = s[i].trans
  <2>1. s[i] \in Entry
    BY <1>1
  <2>2. left(s[i].due) \in Delays
    BY <2>1, TimeFacts DEF Entry, Delays
  <2> QED BY <1>2, <2>1, <2>2, SMTT(30) DEF Entry
<1> HIDE DEF r, q, left
<1>4. r \in Seq(Entry) /\ Len(r) = Len(s) /\ DOMAIN r = 1 .. Len(s)
  <2>1. r \in [1 .. Len(s) -> Entry]
    BY <1>2, <1>3
  <2> QED BY <1>1, <2>1, SeqDef, LenProperties
<1>5. PeqOK(q)
  BY <1>1, <1>2, <1>4, LaterFacts DEF PeqOK, r
<1>6. Held(q) = Held(p)
  BY <1>1, <1>3, <1>4 DEF Held, r
<1>7. Once(p) => Once(q)
  BY <1>1, <1>3, <1>4 DEF Once, r
<1>8. ASSUME InTime(p), p.event # d, s # <<>> PROVE q.event <= Head(r).due
  <2>1. 1 \in 1 .. Len(s) /\ Head(s) = s[1] /\ Head(r) = r[1] /\ s[1].due \in Delays
    <3>1. Len(s) > 0
      BY <1>1, <1>8
    <3>2. 1 \in 1 .. Len(s)
      BY <1>1, <3>1
    <3>3. Head(s) = s[1] /\ Head(r) = r[1]
      BY <1>1, <1>4, <3>2
    <3>4. s[1] \in Entry
      BY <1>1, <3>2, ElementOfSeq
    <3> QED BY <3>2, <3>3, <3>4 DEF Entry
  <2>2. p.event <= s[1].due
    BY <1>8, <2>1 DEF InTime
  <2>3. p.event # Never /\ p.event \in Int /\ d \in Int /\ s[1].due \in Int /\ d < p.event
    BY <1>1, <1>8, <2>1, <2>2, TimeFacts DEF Times, Delays
  <2>4. q.event = p.event - d /\ r[1].due = s[1].due - d
    BY <1>2, <1>3, <1>8, <2>1, <2>2, <2>3 DEF Later, left
  <2> QED BY <2>1, <2>2, <2>3, <2>4
<1>9. InTime(p) /\ p.event # d => InTime(q)
  <2>1. q.scheduled = r
    BY DEF r
  <2>2. CASE s = <<>>
    BY <1>1, <1>4, <2>1, <2>2 DEF InTime
  <2>3. CASE s # <<>>
    <3> HIDE DEF s
    <3> QED BY <1>8, <2>1, <2>3 DEF InTime
  <2> QED BY <2>2, <2>3
<1> QED BY <1>5, <1>6, <1>7, <1>9 DEF q

-----------------------------------------------------------------------------
(* The inductive invariant of the conversion of b_transport *)

Phases == {"none", "END_REQ", "BEGIN_RESP"}
Thread == [ pc : {"peq", "next", "request", "delay", "response"}, trans : Trans \cup {NoTrans},
            timer : Times, ready : BOOLEAN ]
BlockingTypes ==
  /\ PeqOK(peq) /\ pending \subseteq Trans /\ end_event \in [Trans -> Times]
  /\ m_end_request \in Times /\ m_current_transaction \in Trans \cup {NoTrans}
  /\ thread \in Thread
  /\ client \in [Trans -> [pc : {"idle", "end", "done"}, ready : BOOLEAN, mm_added : BOOLEAN]]
  /\ target \in [Trans -> [owes : Phases, holds : BOOLEAN]]
  /\ late \in BOOLEAN

\* A transaction that is not at its end is in one place: in the peq, with the target, or
\* with the thread, which waits for the delay of its response.
Responding(t) == thread.pc = "response" /\ thread.trans = t
Places ==
  /\ Once(peq) /\ Held(peq) \subseteq pending
  /\ \A t \in Trans : target[t].owes # "none" => t \in pending /\ t \notin Held(peq)
  /\ thread.pc = "response" => /\ thread.trans \in pending /\ thread.trans \notin Held(peq)
                               /\ target[thread.trans].owes = "none"

\* The thread waits for one transaction.
Waiting ==
  /\ thread.pc = "request" => m_current_transaction = thread.trans /\ thread.trans \in Trans
  /\ thread.timer # Never => thread.pc \in {"delay", "response"} /\ ~thread.ready
  /\ thread.pc = "peq" /\ ~thread.ready => InTime(peq)
  /\ thread.pc = "request" /\ ~thread.ready
       => m_end_request # Never \/ target[thread.trans].owes = "END_REQ"

\* While m_end_request is only notified for who waits for it, the request phase is that of
\* the transaction for which the thread waits.
Requests ==
  ~late =>
    /\ m_end_request # Never => thread.pc = "request" /\ ~thread.ready
    /\ \A t \in Trans : target[t].owes = "END_REQ" =>
         thread.pc = "request" /\ ~thread.ready /\ thread.trans = t /\ m_end_request = Never

BlockingInv == BlockingTypes /\ Places /\ EndNotified /\ Waiting /\ Requests

LEMMA InitBlocking == Init => BlockingInv
<1> SUFFICES ASSUME Init PROVE BlockingInv
  OBVIOUS
<1>1. peq = [scheduled |-> <<>>, event |-> Never]
  BY DEF Init, EmptyPeq
<1>2. Never \in Times
  BY TimeFacts DEF Times
<1>3. PeqOK(peq) /\ Once(peq) /\ Held(peq) = {} /\ InTime(peq)
  BY <1>1, <1>2 DEF PeqOK, Once, Held, InTime
<1>4. BlockingTypes
  BY <1>2, <1>3 DEF Init, BlockingTypes, Thread, Phases
<1>5. Places /\ EndNotified /\ Waiting /\ Requests
  BY <1>3 DEF Init, Places, EndNotified, Waiting, Requests
<1> QED BY <1>4, <1>5 DEF BlockingInv

\* What the steps that leave the thread and the peq alone have in common.
LEMMA b_transportKeeps ==
  ASSUME BlockingInv, NEW t \in Trans, b_transport(t)
  PROVE  BlockingInv'
<1> USE DEF BlockingInv
<1>1. PICK d \in Delays : peq' = notify(peq, t, d)
  BY DEF b_transport
<1>2. PICK b \in BOOLEAN :
        client' = [client EXCEPT ![t] = [pc |-> "end", ready |-> FALSE, mm_added |-> b]]
  BY DEF b_transport
<1>3. /\ client[t].pc = "idle" /\ pending' = pending \cup {t}
      /\ UNCHANGED <<end_event, m_end_request, m_current_transaction, thread, target, late>>
  BY DEF b_transport
<1>4. t \notin pending /\ end_event[t] = Never
  BY <1>3 DEF EndNotified
<1>5. t \notin Held(peq) /\ target[t].owes = "none"
  BY <1>4 DEF Places
<1>6. /\ PeqOK(peq') /\ Held(peq') = Held(peq) \cup {t} /\ Once(peq')
      /\ InTime(peq) => InTime(peq')
  BY <1>1, <1>5, NotifyKeeps DEF BlockingTypes, Places
<1>7. BlockingTypes'
  BY <1>2, <1>3, <1>6 DEF BlockingTypes
<1>8. Places'
  BY <1>3, <1>4, <1>5, <1>6 DEF Places
<1>9. EndNotified'
  BY <1>2, <1>3, <1>4 DEF EndNotified, BlockingTypes
<1>10. Waiting' /\ Requests'
  BY <1>3, <1>6 DEF Waiting, Requests
<1> QED BY <1>7, <1>8, <1>9, <1>10

LEMMA ClientKeeps ==
  ASSUME BlockingInv, NEW t \in Trans, Client(t)
  PROVE  BlockingInv'
<1> USE DEF BlockingInv
<1>1. /\ client[t].pc \in {"end", "done"} /\ client[t].ready
      /\ UNCHANGED <<peq, pending, end_event, m_end_request, m_current_transaction, thread,
                     target, late>>
  BY DEF Client, b_transport_end, b_transport_done
<1>2. PICK s \in {"done", "idle"} : client' = [client EXCEPT ![t].ready = FALSE, ![t].pc = s]
  BY DEF Client, b_transport_end, b_transport_done
<1>3. BlockingTypes'
  BY <1>1, <1>2 DEF BlockingTypes
<1>4. Places' /\ Waiting' /\ Requests'
  BY <1>1 DEF Places, Waiting, Requests
<1>5. EndNotified'
  BY <1>1, <1>2 DEF EndNotified, BlockingTypes
<1> QED BY <1>3, <1>4, <1>5

\* A pending transaction t ends.
LEMMA EndKeeps ==
  ASSUME BlockingTypes, EndNotified, NEW t \in pending, NEW d \in Delays, UNCHANGED client,
         end_event' = [end_event EXCEPT ![t] = Notified(@, d)], pending' = pending \ {t}
  PROVE  /\ EndNotified' /\ pending' \subseteq Trans /\ end_event' \in [Trans -> Times]
<1>1. t \in Trans /\ end_event[t] \in Times
  BY DEF BlockingTypes
<1>2. Notified(end_event[t], d) \in Times /\ Notified(end_event[t], d) # Never
  BY <1>1, NotifiedFacts
<1>3. client[t].pc = "end" /\ ~client[t].ready
  BY <1>1 DEF EndNotified
<1> QED BY <1>1, <1>2, <1>3 DEF EndNotified, BlockingTypes

LEMMA WakeKeeps ==
  ASSUME BlockingInv, b2nb_wake
  PROVE  BlockingInv'
<1> USE DEF BlockingInv
<1>1. /\ thread.ready
      /\ thread' = [thread EXCEPT !.pc = "next", !.ready = FALSE, !.trans = NoTrans]
      /\ m_current_transaction'
           = IF thread.pc = "request" THEN NoTrans ELSE m_current_transaction
      /\ UNCHANGED <<peq, m_end_request, client, target, late>>
  BY DEF b2nb_wake
<1>2. thread'.pc = "next" /\ ~thread'.ready /\ thread'.timer = Never /\ thread' \in Thread
  BY <1>1 DEF BlockingTypes, Thread, Waiting
<1>3. /\ EndNotified' /\ pending' \subseteq Trans /\ end_event' \in [Trans -> Times]
      /\ pending' = IF thread.pc = "response" THEN pending \ {thread.trans} ELSE pending
  <2>1. CASE thread.pc = "response"
    <3>1. PICK d \in Delays :
            end_event' = [end_event EXCEPT ![thread.trans] = Notified(@, d)]
      BY <2>1 DEF b2nb_wake
    <3>2. thread.trans \in pending /\ pending' = pending \ {thread.trans} /\ UNCHANGED client
      BY <1>1, <2>1 DEF b2nb_wake, Places
    <3> QED BY <2>1, <3>1, <3>2, EndKeeps
  <2>2. CASE thread.pc # "response"
    <3>1. UNCHANGED <<end_event, pending, client>>
      BY <1>1, <2>2 DEF b2nb_wake
    <3> QED BY <2>2, <3>1 DEF EndNotified, BlockingTypes
  <2> QED BY <2>1, <2>2
<1>4. BlockingTypes'
  BY <1>1, <1>2, <1>3 DEF BlockingTypes
<1>5. Places'
  BY <1>1, <1>2, <1>3 DEF Places
<1>6. Waiting' /\ Requests'
  BY <1>1, <1>2 DEF Waiting, Requests
<1> QED BY <1>3, <1>4, <1>5, <1>6

\* The answers of the target to the transaction t that was taken from the peq.
LEMMA CompletedKeeps ==
  ASSUME BlockingInv, thread.pc = "next", NEW t \in pending, peq' = Popped(peq), PeqOK(peq'),
         Once(peq'), t \in Held(peq), Held(peq') = Held(peq) \ {t}, Completed(t),
         UNCHANGED <<m_end_request, client, late>>
  PROVE  BlockingInv'
<1> USE DEF BlockingInv
<1>1. PICK d \in Delays : end_event' = [end_event EXCEPT ![t] = Notified(@, d)]
  BY DEF Completed
<1>2. PICK h \in BOOLEAN : target' = [target EXCEPT ![t] = [owes |-> "none", holds |-> h]]
  BY DEF Completed
<1>3. pending' = pending \ {t} /\ UNCHANGED <<thread, m_current_transaction>> /\ t \in Trans
  BY DEF Completed, BlockingTypes
<1>4. EndNotified' /\ pending' \subseteq Trans /\ end_event' \in [Trans -> Times]
  BY <1>1, <1>3, EndKeeps
<1>5. BlockingTypes'
  BY <1>2, <1>3, <1>4 DEF BlockingTypes, Phases
<1>6. /\ target'[t].owes = "none"
      /\ \A u \in Trans : u # t => target'[u] = target[u]
  BY <1>2, <1>3 DEF BlockingTypes
<1>7. Places'
  BY <1>3, <1>6 DEF Places
<1>8. Waiting'
  BY <1>3 DEF Waiting
<1>9. Requests'
  BY <1>3, <1>6 DEF Requests
<1> QED BY <1>4, <1>5, <1>7, <1>8, <1>9

\* The thread waits with t, which the target owes phase, until it has a timer or an event.
LEMMA HandedKeeps ==
  ASSUME BlockingInv, thread.pc = "next", NEW t \in pending, PeqOK(peq'),
         Once(peq'), t \in Held(peq), Held(peq') = Held(peq) \ {t},
         NEW phase \in Phases, NEW h \in BOOLEAN,
         target' = [target EXCEPT ![t] = [owes |-> phase, holds |-> h]],
         NEW s \in {"request", "delay", "response"}, NEW timer \in Times,
         ThreadWaits(s, t, timer), m_current_transaction' \in Trans \cup {NoTrans},
         phase = "END_REQ" <=> s = "request",
         s = "request" => timer = Never /\ m_current_transaction' = t,
         s = "response" => phase = "none",
         UNCHANGED <<pending, end_event, m_end_request, client, late>>
  PROVE  BlockingInv'
<1> USE DEF BlockingInv
<1>1. t \in Trans
  BY DEF BlockingTypes
<1>2. /\ thread' \in Thread /\ thread'.pc = s /\ thread'.trans = t /\ thread'.timer = timer
      /\ ~thread'.ready
  BY <1>1 DEF ThreadWaits, Thread
<1>3. target'[t].owes = phase /\ \A u \in Trans : u # t => target'[u] = target[u]
  BY <1>1 DEF BlockingTypes
<1>4. target' \in [Trans -> [owes : Phases, holds : BOOLEAN]]
  BY <1>1 DEF BlockingTypes
<1>5. BlockingTypes'
  BY <1>2, <1>4 DEF BlockingTypes
<1>6. Places'
  BY <1>1, <1>2, <1>3 DEF Places
<1>7. EndNotified'
  BY DEF EndNotified
<1>8. Waiting'
  BY <1>1, <1>2, <1>3 DEF Waiting
<1>9. Requests'
  BY <1>1, <1>2, <1>3 DEF Requests
<1> QED BY <1>5, <1>6, <1>7, <1>8, <1>9

LEMMA NextKeeps ==
  ASSUME BlockingInv, b2nb_next
  PROVE  BlockingInv'
<1> USE DEF BlockingInv
<1>1. thread.pc = "next" /\ UNCHANGED <<m_end_request, client, late>>
  BY DEF b2nb_next
<1>2. \A e \in Delays : e \in Times
  BY TimeFacts DEF Times, Delays
<1>3. CASE is_due(peq)
  <2> DEFINE t == Head(peq.scheduled).trans
  <2>1. peq' = Popped(peq) /\ (Completed(t) \/ Accepted(t) \/ UpdatedEndReq(t) \/ UpdatedBeginResp(t))
    BY <1>3 DEF b2nb_next
  <2>2. PeqOK(peq') /\ Once(peq') /\ t \in Held(peq) /\ Held(peq') = Held(peq) \ {t}
    BY <1>3, <2>1, PoppedKeeps DEF is_due, BlockingTypes, Places
  <2>3. t \in pending
    BY <2>2 DEF Places
  <2> HIDE DEF t
  <2>4. CASE Completed(t)
    BY <1>1, <2>1, <2>2, <2>3, <2>4, CompletedKeeps
  <2>5. CASE Accepted(t)
    <3>1. PICK h \in BOOLEAN : target' = [target EXCEPT ![t] = [owes |-> "END_REQ", holds |-> h]]
      BY <2>5 DEF Accepted
    <3>2. /\ m_current_transaction' = t /\ ThreadWaits("request", t, Never)
          /\ UNCHANGED <<end_event, pending>> /\ Never \in Times /\ t \in Trans
      BY <2>3, <2>5, TimeFacts DEF Accepted, BlockingTypes, Times
    <3> QED BY <1>1, <2>2, <2>3, <3>1, <3>2, HandedKeeps DEF Phases
  <2>6. CASE UpdatedEndReq(t)
    <3>1. PICK h \in BOOLEAN :
            target' = [target EXCEPT ![t] = [owes |-> "BEGIN_RESP", holds |-> h]]
      BY <2>6 DEF UpdatedEndReq
    <3>2. PICK d \in Delays : ThreadWaits("delay", t, d)
      BY <2>6 DEF UpdatedEndReq
    <3>3. UNCHANGED <<m_current_transaction, end_event, pending>>
      BY <2>6 DEF UpdatedEndReq
    <3>4. d \in Times /\ m_current_transaction' \in Trans \cup {NoTrans}
      BY <1>2, <3>3 DEF BlockingTypes
    <3> QED BY <1>1, <2>2, <2>3, <3>1, <3>2, <3>3, <3>4, HandedKeeps DEF Phases
  <2>7. CASE UpdatedBeginResp(t)
    <3>1. PICK h \in BOOLEAN : target' = [target EXCEPT ![t] = [owes |-> "none", holds |-> h]]
      BY <2>7 DEF UpdatedBeginResp
    <3>2. PICK d \in Delays : ThreadWaits("response", t, d)
      BY <2>7 DEF UpdatedBeginResp
    <3>3. UNCHANGED <<m_current_transaction, end_event, pending>>
      BY <2>7 DEF UpdatedBeginResp
    <3>4. d \in Times /\ m_current_transaction' \in Trans \cup {NoTrans}
      BY <1>2, <3>3 DEF BlockingTypes
    <3> QED BY <1>1, <2>2, <2>3, <3>1, <3>2, <3>3, <3>4, HandedKeeps DEF Phases
  <2> QED BY <2>1, <2>4, <2>5, <2>6, <2>7
<1>4. CASE ~is_due(peq)
  <2>1. /\ peq' = Armed(peq) /\ ThreadWaits("peq", NoTrans, Never)
        /\ UNCHANGED <<m_current_transaction, end_event, pending, target>>
    BY <1>4 DEF b2nb_next
  <2>2. PeqOK(peq') /\ peq'.scheduled = peq.scheduled /\ InTime(peq')
    BY <2>1, ArmedKeeps DEF BlockingTypes
  <2>3. Once(peq) => Once(peq') /\ Held(peq') = Held(peq)
    BY <2>2 DEF Once, Held
  <2>4. /\ thread' \in Thread /\ thread'.pc = "peq" /\ thread'.timer = Never /\ ~thread'.ready
    BY <2>1, TimeFacts DEF ThreadWaits, Thread, Times
  <2>5. BlockingTypes'
    BY <1>1, <2>1, <2>2, <2>4 DEF BlockingTypes
  <2>6. Places'
    BY <1>1, <2>1, <2>3, <2>4 DEF Places
  <2>7. EndNotified'
    BY <1>1, <2>1 DEF EndNotified
  <2>8. Waiting' /\ Requests'
    BY <1>1, <2>1, <2>2, <2>4 DEF Waiting, Requests
  <2> QED BY <2>5, <2>6, <2>7, <2>8
<1> QED BY <1>3, <1>4

LEMMA EndReqKeeps ==
  ASSUME BlockingInv, NEW t \in Trans, EndReq(t)
  PROVE  BlockingInv'
<1> USE DEF BlockingInv
<1>1. /\ target[t].owes = "END_REQ" /\ target' = [target EXCEPT ![t].owes = "BEGIN_RESP"]
      /\ m_end_request' = Notified(m_end_request, 0)
      /\ UNCHANGED <<peq, pending, end_event, m_current_transaction, thread, client, late>>
  BY DEF EndReq
<1>2. m_end_request' \in Times /\ m_end_request' # Never
  BY <1>1, NotifiedFacts, TimeFacts DEF BlockingTypes, Delays
<1>3. /\ target' \in [Trans -> [owes : Phases, holds : BOOLEAN]]
      /\ target'[t].owes = "BEGIN_RESP" /\ \A u \in Trans : u # t => target'[u] = target[u]
  BY <1>1 DEF BlockingTypes, Phases
<1>4. BlockingTypes'
  BY <1>1, <1>2, <1>3 DEF BlockingTypes
<1>5. Places'
  BY <1>1, <1>3 DEF Places, BlockingTypes
<1>6. EndNotified'
  BY <1>1 DEF EndNotified
<1>7. Waiting' /\ Requests'
  BY <1>1, <1>2, <1>3 DEF Waiting, Requests
<1> QED BY <1>4, <1>5, <1>6, <1>7

LEMMA BeginRespKeeps ==
  ASSUME BlockingInv, NEW t \in Trans, BeginResp(t)
  PROVE  BlockingInv'
<1> USE DEF BlockingInv
<1>1. /\ target[t].owes \in {"END_REQ", "BEGIN_RESP"}
      /\ target' = [target EXCEPT ![t].owes = "none"] /\ pending' = pending \ {t}
      /\ UNCHANGED <<peq, m_current_transaction, thread, client>>
  BY DEF BeginResp
<1>2. PICK d \in Delays : end_event' = [end_event EXCEPT ![t] = Notified(@, d)]
  BY DEF BeginResp
<1>3. t \in pending /\ t \notin Held(peq) /\ ~Responding(t)
  BY <1>1 DEF Places, Responding
<1>4. EndNotified' /\ pending' \subseteq Trans /\ end_event' \in [Trans -> Times]
  BY <1>1, <1>2, <1>3, EndKeeps
<1>5. /\ target' \in [Trans -> [owes : Phases, holds : BOOLEAN]]
      /\ target'[t].owes = "none" /\ \A u \in Trans : u # t => target'[u] = target[u]
  BY <1>1 DEF BlockingTypes, Phases
<1>6. CASE m_current_transaction = t
  <2>1. /\ m_end_request' = Notified(m_end_request, 0)
        /\ late' = (late \/ thread.pc # "request" \/ thread.ready)
    BY <1>6 DEF BeginResp
  <2>2. m_end_request' \in Times /\ m_end_request' # Never
    BY <2>1, NotifiedFacts, TimeFacts DEF BlockingTypes, Delays
  <2>3. BlockingTypes'
    BY <1>1, <1>4, <1>5, <2>1, <2>2 DEF BlockingTypes
  <2>4. Waiting'
    BY <1>1, <2>2 DEF Waiting
  <2>5. Requests'
    BY <1>1, <1>5, <1>6, <2>1 DEF Requests, Waiting
  <2>6. Places'
    BY <1>1, <1>3, <1>5 DEF Places, Responding
  <2> QED BY <1>4, <2>3, <2>4, <2>5, <2>6
<1>7. CASE m_current_transaction # t
  <2>1. UNCHANGED <<m_end_request, late>>
    BY <1>7 DEF BeginResp
  <2>2. BlockingTypes'
    BY <1>1, <1>4, <1>5, <2>1 DEF BlockingTypes
  <2>3. Waiting'
    BY <1>1, <1>5, <1>7, <2>1 DEF Waiting
  <2>4. Requests'
    BY <1>1, <1>5, <2>1 DEF Requests
  <2>5. Places'
    BY <1>1, <1>3, <1>5 DEF Places, Responding
  <2> QED BY <1>4, <2>2, <2>3, <2>4, <2>5
<1> QED BY <1>6, <1>7

LEMMA ReleaseKeeps ==
  ASSUME BlockingInv, NEW t \in Trans, Release(t)
  PROVE  BlockingInv'
<1> USE DEF BlockingInv
<1>1. /\ target' = [target EXCEPT ![t].holds = FALSE]
      /\ client' = [client EXCEPT ![t].ready = client[t].ready \/ client[t].pc = "done"]
      /\ UNCHANGED <<peq, pending, end_event, m_end_request, m_current_transaction, thread, late>>
  BY DEF Release
<1>2. /\ target' \in [Trans -> [owes : Phases, holds : BOOLEAN]]
      /\ \A u \in Trans : target'[u].owes = target[u].owes
  BY <1>1 DEF BlockingTypes
<1>3. (client[t].ready \/ client[t].pc = "done") \in BOOLEAN
  OBVIOUS
<1>4. /\ client' \in [Trans -> [pc : {"idle", "end", "done"}, ready : BOOLEAN, mm_added : BOOLEAN]]
      /\ \A u \in Trans : client'[u].pc = client[u].pc
      /\ \A u \in Trans : client[u].pc = "end" => client'[u].ready = client[u].ready
  BY <1>1, <1>3 DEF BlockingTypes
<1>5. BlockingTypes'
  BY <1>1, <1>2, <1>4 DEF BlockingTypes
<1>6. Places'
  BY <1>1, <1>2 DEF Places, BlockingTypes
<1>7. EndNotified'
  BY <1>1, <1>4 DEF EndNotified
<1>8. Waiting' /\ Requests'
  BY <1>1, <1>2 DEF Waiting, Requests
<1> QED BY <1>5, <1>6, <1>7, <1>8

-----------------------------------------------------------------------------
(* The inductive invariant of the conversion of nb_transport *)

Handle == [ trans : Trans, suspend : BOOLEAN, pc : {"rest", "call", "delay", "respond"},
            event : Times, ready : BOOLEAN ]
NonblockingTypes ==
  /\ handles \in Seq(Handle) /\ m_response_in_progress \in BOOLEAN /\ m_end_response \in Times
  /\ initiator \in [Trans -> {"idle", "asked", "answered"}]

\* A thread that is suspended waits for the event that nb_transport_fw will notify.
AtRest(h) == h.pc = "rest" /\ h.event = Never /\ ~h.ready

\* A thread that works has a request, of which it is the only one.
Threads ==
  /\ \A i \in DOMAIN handles :
       /\ handles[i].suspend => AtRest(handles[i])
       /\ handles[i].ready \/ handles[i].pc \in {"call", "respond"} => handles[i].event = Never
       /\ handles[i].pc = "call" => ~handles[i].ready
       /\ ~handles[i].suspend => initiator[handles[i].trans] = "asked"
  /\ \A i, j \in DOMAIN handles :
       ~handles[i].suspend /\ ~handles[j].suspend /\ handles[i].trans = handles[j].trans => i = j
  /\ \A t \in Trans : initiator[t] = "asked" =>
       \E i \in DOMAIN handles : handles[i].trans = t /\ ~handles[i].suspend
  /\ Len(handles) <= Cardinality(Trans)

Answers ==
  /\ m_response_in_progress <=> \E t \in Trans : initiator[t] = "answered"
  /\ \A t, u \in Trans : initiator[t] = "answered" /\ initiator[u] = "answered" => t = u

NonblockingInv == NonblockingTypes /\ Threads /\ Answers

LEMMA InitNonblocking == Init => NonblockingInv
<1> SUFFICES ASSUME Init PROVE NonblockingInv
  OBVIOUS
<1>1. handles = <<>> /\ Never \in Times /\ Cardinality(Trans) \in Nat
  BY TimeFacts, SocketAssumption, FS_CardinalityType DEF Init, Times
<1>2. NonblockingTypes
  <2>1. handles \in Seq(Handle) /\ m_end_response \in Times
    BY <1>1 DEF Init
  <2>2. m_response_in_progress \in BOOLEAN /\ initiator \in [Trans -> {"idle", "asked", "answered"}]
    BY DEF Init
  <2> QED BY <2>1, <2>2 DEF NonblockingTypes
<1>3. Answers
  <2>1. m_response_in_progress = FALSE /\ \A t \in Trans : initiator[t] # "answered"
    BY DEF Init
  <2> QED BY <2>1, Zenon DEF Answers
<1>4. Threads
  <2>1. DOMAIN handles = {} /\ Len(handles) = 0
    BY <1>1
  <2>2. \A t \in Trans : initiator[t] # "asked"
    BY DEF Init
  <2> QED BY <1>1, <2>1, <2>2 DEF Threads
<1> QED BY <1>2, <1>3, <1>4 DEF NonblockingInv

\* A step that leaves the requests of the threads alone, and who is suspended.
LEMMA SameThreads ==
  ASSUME NonblockingInv, NEW hs \in Seq(Handle), handles' = hs, Len(hs) = Len(handles),
         UNCHANGED initiator,
         \A i \in DOMAIN handles :
           /\ hs[i].suspend = handles[i].suspend /\ hs[i].trans = handles[i].trans
           /\ hs[i].suspend => AtRest(hs[i])
           /\ hs[i].ready \/ hs[i].pc \in {"call", "respond"} => hs[i].event = Never
           /\ hs[i].pc = "call" => ~hs[i].ready
  PROVE  Threads'
<1>1. DOMAIN hs = DOMAIN handles
  BY DEF NonblockingInv, NonblockingTypes
<1> QED BY <1>1 DEF NonblockingInv, Threads

LEMMA HandlesShape ==
  ASSUME NonblockingTypes
  PROVE  /\ Len(handles) \in Nat /\ DOMAIN handles = 1 .. Len(handles)
         /\ \A i \in DOMAIN handles : handles[i] \in Handle
BY DEF NonblockingTypes

\* When every thread works there is a transaction that none of them works on.
LEMMA RoomForThread ==
  ASSUME NonblockingInv, Suspended = {}, NEW t \in Trans, initiator[t] = "idle"
  PROVE  Len(handles) + 1 <= Cardinality(Trans)
<1> DEFINE n == Len(handles)
           f == [i \in 1 .. n |-> handles[i].trans]
           T == Trans \ {t}
<1>1. n \in Nat /\ DOMAIN handles = 1 .. n /\ \A i \in 1 .. n : handles[i] \in Handle
  BY HandlesShape DEF NonblockingInv
<1>2. \A i \in 1 .. n : ~handles[i].suspend /\ initiator[handles[i].trans] = "asked"
  BY <1>1 DEF Suspended, NonblockingInv, Threads
<1>3. f \in [1 .. n -> T]
  <2>1. \A i \in 1 .. n : handles[i].trans \in T
    BY <1>1, <1>2 DEF Handle
  <2> QED BY <2>1
<1>4. \A i, j \in 1 .. n : f[i] = f[j] => i = j
  BY <1>1, <1>2 DEF NonblockingInv, Threads
<1>5. f \in Injection(1 .. n, T)
  <2> HIDE DEF f, n, T
  <2> QED BY <1>3, <1>4 DEF Injection, IsInjective
<1>6. IsFiniteSet(Trans) /\ IsFiniteSet(T) /\ Cardinality(T) = Cardinality(Trans) - 1
  BY SocketAssumption, FS_RemoveElement
<1>7. Cardinality(1 .. n) = n
  <2> HIDE DEF n
  <2> QED BY <1>1, FS_Interval
<1>8. Cardinality(1 .. n) <= Cardinality(T)
  <2> HIDE DEF f, n, T
  <2> QED BY <1>5, <1>6, FS_Injection
<1>9. Cardinality(Trans) \in Nat
  BY <1>6, FS_CardinalityType
<1> HIDE DEF n, T
<1>10. n + 1 <= Cardinality(Trans)
  BY <1>1, <1>6, <1>7, <1>8, <1>9
<1> QED BY <1>10 DEF n

LEMMA FirstSuspendedFact ==
  ASSUME NonblockingTypes, Suspended # {}
  PROVE  FirstSuspended \in Suspended
<1>1. Suspended \in SUBSET Nat
  BY HandlesShape DEF Suspended
<1>2. \E i \in Suspended : \A j \in Suspended : i <= j
  BY <1>1, LeastInside
<1> QED BY <1>2 DEF FirstSuspended

\* Thread i begins to work on transaction t, and the others go on.
LEMMA NewWork ==
  ASSUME NonblockingInv, NEW t \in Trans, initiator[t] = "idle",
         initiator' = [initiator EXCEPT ![t] = "asked"],
         handles' \in Seq(Handle), NEW i \in DOMAIN handles', handles'[i].trans = t,
         ~handles'[i].suspend, handles'[i].pc = "rest", ~handles'[i].ready,
         DOMAIN handles \subseteq DOMAIN handles', DOMAIN handles' = DOMAIN handles \cup {i},
         i \in DOMAIN handles => handles[i].suspend,
         \A j \in DOMAIN handles : j # i => handles'[j] = handles[j],
         Len(handles') <= Cardinality(Trans), UNCHANGED m_response_in_progress
  PROVE  Threads' /\ Answers'
<1>1. /\ initiator'[t] = "asked" /\ \A u \in Trans : u # t => initiator'[u] = initiator[u]
  BY DEF NonblockingInv, NonblockingTypes
<1>2. \A j \in DOMAIN handles : handles[j].trans \in Trans
  BY HandlesShape DEF NonblockingInv, Handle
<1>3. \A j \in DOMAIN handles : ~handles[j].suspend => handles[j].trans # t
  BY DEF NonblockingInv, Threads
<1>4. ASSUME NEW j \in DOMAIN handles'
      PROVE  /\ handles'[j].suspend => AtRest(handles'[j])
             /\ handles'[j].ready \/ handles'[j].pc \in {"call", "respond"} => handles'[j].event = Never
             /\ handles'[j].pc = "call" => ~handles'[j].ready
             /\ ~handles'[j].suspend => initiator'[handles'[j].trans] = "asked"
  <2>1. CASE j = i
    BY <1>1, <2>1
  <2>2. CASE j # i
    BY <1>1, <1>2, <1>3, <2>2 DEF NonblockingInv, Threads
  <2> QED BY <2>1, <2>2
<1>5. ASSUME NEW j \in DOMAIN handles', NEW k \in DOMAIN handles', ~handles'[j].suspend,
             ~handles'[k].suspend, handles'[j].trans = handles'[k].trans
      PROVE  j = k
  <2>1. CASE j # i /\ k # i
    BY <1>5, <2>1 DEF NonblockingInv, Threads
  <2>2. CASE j = i \/ k = i
    BY <1>3, <1>5, <2>2
  <2> QED BY <2>1, <2>2
<1>6. ASSUME NEW u \in Trans, initiator'[u] = "asked"
      PROVE  \E j \in DOMAIN handles' : handles'[j].trans = u /\ ~handles'[j].suspend
  <2>1. CASE u = t
    BY <2>1
  <2>2. CASE u # t
    <3>1. PICK j \in DOMAIN handles : handles[j].trans = u /\ ~handles[j].suspend
      BY <1>1, <1>6, <2>2 DEF NonblockingInv, Threads
    <3>2. j # i /\ j \in DOMAIN handles'
      BY <3>1
    <3> QED BY <3>1, <3>2
  <2> QED BY <2>1, <2>2
<1>7. Threads'
  BY <1>4, <1>5, <1>6 DEF Threads
<1>8. Answers'
  BY <1>1 DEF NonblockingInv, Answers
<1> QED BY <1>7, <1>8

LEMMA BeginReqKeeps ==
  ASSUME NonblockingInv, NEW t \in Trans, BeginReq(t)
  PROVE  NonblockingInv'
<1> USE DEF NonblockingInv
<1>1. /\ initiator[t] = "idle" /\ initiator' = [initiator EXCEPT ![t] = "asked"]
      /\ UNCHANGED <<m_response_in_progress, m_end_response>>
  BY DEF BeginReq
<1>2. /\ Len(handles) \in Nat /\ DOMAIN handles = 1 .. Len(handles) /\ handles \in Seq(Handle)
      /\ \A i \in DOMAIN handles : handles[i] \in Handle
  BY HandlesShape DEF NonblockingTypes
<1>3. initiator' \in [Trans -> {"idle", "asked", "answered"}]
  BY <1>1 DEF NonblockingTypes
<1>4. CASE Suspended = {}
  <2> DEFINE i == Len(handles) + 1
             h == [trans |-> t, suspend |-> FALSE, pc |-> "rest", event |-> Never, ready |-> FALSE]
  <2>1. PICK d \in Delays :
          handles' = [Append(handles, h) EXCEPT ![i].event = Notified(@, d)]
    BY <1>4 DEF BeginReq, put_handle
  <2>2. Notified(Never, d) \in Times /\ Never \in Times
    BY NotifiedFacts, TimeFacts DEF Times
  <2> DEFINE g == [h EXCEPT !.event = Notified(@, d)]
             hs == Append(handles, h)
  <2>3. h \in Handle /\ g \in Handle
    <3>1. h \in Handle
      BY <2>2 DEF Handle
    <3> QED BY <2>2, <3>1 DEF Handle
  <2>4. /\ hs \in Seq(Handle) /\ Len(hs) = i /\ DOMAIN hs = 1 .. i /\ hs[i] = h
        /\ \A j \in 1 .. Len(handles) : hs[j] = handles[j]
    <3> HIDE DEF h, g
    <3> QED BY <1>2, <2>3, AppendProperties, LenProperties
  <2>5. handles' = [hs EXCEPT ![i] = g]
    BY <1>2, <2>1, <2>4
  <2>6. /\ handles' \in Seq(Handle) /\ Len(handles') = i /\ DOMAIN handles' = 1 .. i
        /\ handles'[i] = g /\ \A j \in 1 .. Len(handles) : handles'[j] = handles[j]
    <3> HIDE DEF h, g, hs
    <3> QED BY <1>2, <2>3, <2>4, <2>5, ExceptSeq, LenProperties
  <2>7. Len(handles') <= Cardinality(Trans)
    BY <1>1, <1>4, <2>6, RoomForThread
  <2>8. /\ i \in DOMAIN handles' /\ i \notin DOMAIN handles
        /\ DOMAIN handles' = DOMAIN handles \cup {i}
    BY <1>2, <2>6
  <2>9. g.trans = t /\ ~g.suspend /\ g.pc = "rest" /\ ~g.ready
    OBVIOUS
  <2>10. Threads' /\ Answers'
    <3> HIDE DEF i, g
    <3> QED BY <1>1, <1>2, <2>6, <2>7, <2>8, <2>9, NewWork
  <2> QED BY <1>1, <1>3, <2>6, <2>10 DEF NonblockingTypes
<1>5. CASE Suspended # {}
  <2> DEFINE i == FirstSuspended
  <2>1. PICK d \in Delays :
          handles' = [[handles EXCEPT ![i].trans = t, ![i].suspend = FALSE]
                        EXCEPT ![i].event = Notified(@, d)]
    BY <1>5 DEF BeginReq, get_handle
  <2>2. i \in DOMAIN handles /\ handles[i].suspend
    BY <1>5, FirstSuspendedFact DEF Suspended
  <2> HIDE DEF i
  <2>3. AtRest(handles[i]) /\ handles[i] \in Handle
    BY <1>2, <2>2 DEF Threads
  <2>4. Notified(Never, d) \in Times
    BY NotifiedFacts, TimeFacts DEF Times
  <2> DEFINE g == [[handles[i] EXCEPT !.trans = t, !.suspend = FALSE]
                    EXCEPT !.event = Notified(@, d)]
  <2>5. g \in Handle /\ g.trans = t /\ ~g.suspend /\ g.pc = "rest" /\ ~g.ready
    BY <2>3, <2>4 DEF Handle, AtRest
  <2>6. handles' = [handles EXCEPT ![i] = g]
    BY <1>2, <2>1, <2>2
  <2>7. /\ handles' \in Seq(Handle) /\ Len(handles') = Len(handles)
        /\ DOMAIN handles' = DOMAIN handles /\ handles'[i] = g
        /\ \A j \in DOMAIN handles : j # i => handles'[j] = handles[j]
    <3> HIDE DEF g
    <3> QED BY <1>2, <2>2, <2>5, <2>6, ExceptSeq, LenProperties
  <2>8. Len(handles') <= Cardinality(Trans)
    BY <2>7 DEF Threads
  <2>9. i \in DOMAIN handles' /\ DOMAIN handles' = DOMAIN handles \cup {i}
    BY <2>2, <2>7
  <2>10. Threads' /\ Answers'
    <3> HIDE DEF g
    <3> QED BY <1>1, <2>2, <2>5, <2>7, <2>8, <2>9, NewWork
  <2> QED BY <1>1, <1>3, <2>7, <2>10 DEF NonblockingTypes
<1> QED BY <1>4, <1>5

LEMMA EndRespKeeps ==
  ASSUME NonblockingInv, NEW t \in Trans, EndResp(t)
  PROVE  NonblockingInv'
<1> USE DEF NonblockingInv
<1>1. /\ initiator[t] = "answered" /\ initiator' = [initiator EXCEPT ![t] = "idle"]
      /\ m_response_in_progress' = FALSE /\ UNCHANGED handles
  BY DEF EndResp
<1>2. PICK d \in Delays : m_end_response' = Notified(m_end_response, d)
  BY DEF EndResp
<1>3. /\ initiator' \in [Trans -> {"idle", "asked", "answered"}]
      /\ initiator'[t] = "idle" /\ \A u \in Trans : u # t => initiator'[u] = initiator[u]
  BY <1>1 DEF NonblockingTypes
<1>4. NonblockingTypes'
  BY <1>1, <1>2, <1>3, NotifiedFacts DEF NonblockingTypes
<1>5. Threads'
  <2>1. \A u \in Trans : initiator'[u] = "asked" <=> initiator[u] = "asked"
    BY <1>1, <1>3
  <2>2. \A j \in DOMAIN handles : handles[j].trans \in Trans
    BY HandlesShape DEF Handle
  <2> QED BY <1>1, <2>1, <2>2 DEF Threads
<1>6. Answers'
  <2>1. \A u \in Trans : initiator'[u] # "answered"
    BY <1>1, <1>3 DEF Answers
  <2>2. ~m_response_in_progress'
    BY <1>1
  <2> QED BY <2>1, <2>2, Zenon DEF Answers
<1> QED BY <1>4, <1>5, <1>6

LEMMA CallKeeps ==
  ASSUME NonblockingInv, NEW i \in DOMAIN handles, nb2b_call(i)
  PROVE  NonblockingInv'
<1> USE DEF NonblockingInv
<1> DEFINE h == [handles[i] EXCEPT !.pc = "call", !.ready = FALSE]
<1>1. /\ handles[i].pc = "rest" /\ handles[i].ready
      /\ UNCHANGED <<m_response_in_progress, m_end_response, initiator>>
  BY DEF nb2b_call
<1>2. /\ Len(handles) \in Nat /\ DOMAIN handles = 1 .. Len(handles) /\ handles \in Seq(Handle)
      /\ handles[i] \in Handle
  BY HandlesShape DEF NonblockingTypes
<1>3. handles' = [handles EXCEPT ![i] = h]
  BY <1>2 DEF nb2b_call
<1>4. /\ h \in Handle /\ h.suspend = handles[i].suspend /\ h.trans = handles[i].trans
      /\ h.pc = "call" /\ ~h.ready /\ h.event = handles[i].event
  BY <1>2 DEF Handle
<1> HIDE DEF h
<1>5. /\ handles' \in Seq(Handle) /\ Len(handles') = Len(handles)
      /\ \A j \in DOMAIN handles : handles'[j] = IF j = i THEN h ELSE handles[j]
  BY <1>2, <1>3, <1>4, ExceptSeq
<1>6. NonblockingTypes'
  BY <1>1, <1>5 DEF NonblockingTypes
<1>7. Threads'
  <2>1. ~h.suspend /\ h.event = Never
    BY <1>1, <1>4 DEF Threads, AtRest
  <2> QED BY <1>1, <1>4, <1>5, <2>1, SameThreads DEF Threads
<1>8. Answers'
  BY <1>1 DEF Answers
<1> QED BY <1>6, <1>7, <1>8

LEMMA ReturnedKeeps ==
  ASSUME NonblockingInv, NEW i \in DOMAIN handles, nb2b_returned(i)
  PROVE  NonblockingInv'
<1> USE DEF NonblockingInv
<1>1. handles[i].pc = "call" /\ UNCHANGED <<m_response_in_progress, m_end_response, initiator>>
  BY DEF nb2b_returned
<1>2. PICK d \in Delays : handles' = [handles EXCEPT ![i].pc = "delay", ![i].event = d]
  BY DEF nb2b_returned
<1> DEFINE h == [handles[i] EXCEPT !.pc = "delay", !.event = d]
<1>3. /\ Len(handles) \in Nat /\ DOMAIN handles = 1 .. Len(handles) /\ handles \in Seq(Handle)
      /\ handles[i] \in Handle
  BY HandlesShape DEF NonblockingTypes
<1>4. handles' = [handles EXCEPT ![i] = h]
  BY <1>2, <1>3
<1>5. d \in Times
  BY TimeFacts DEF Times, Delays
<1>6. /\ h \in Handle /\ h.suspend = handles[i].suspend /\ h.trans = handles[i].trans
      /\ h.pc = "delay" /\ (h.ready <=> handles[i].ready)
  BY <1>3, <1>5 DEF Handle
<1> HIDE DEF h
<1>7. /\ handles' \in Seq(Handle) /\ Len(handles') = Len(handles)
      /\ \A j \in DOMAIN handles : handles'[j] = IF j = i THEN h ELSE handles[j]
  BY <1>3, <1>4, <1>6, ExceptSeq
<1>8. NonblockingTypes'
  BY <1>1, <1>7 DEF NonblockingTypes
<1>9. Threads'
  <2>1. ~h.suspend /\ ~h.ready
    BY <1>1, <1>6 DEF Threads, AtRest
  <2> QED BY <1>1, <1>6, <1>7, <2>1, SameThreads DEF Threads
<1>10. Answers'
  BY <1>1 DEF Answers
<1> QED BY <1>8, <1>9, <1>10

LEMMA RespondKeeps ==
  ASSUME NonblockingInv, NEW i \in DOMAIN handles, nb2b_respond(i)
  PROVE  NonblockingInv'
<1> USE DEF NonblockingInv
<1>1. handles[i].pc \in {"delay", "respond"} /\ handles[i].ready /\ UNCHANGED m_end_response
  BY DEF nb2b_respond
<1>2. /\ Len(handles) \in Nat /\ DOMAIN handles = 1 .. Len(handles) /\ handles \in Seq(Handle)
      /\ handles[i] \in Handle /\ \A j \in DOMAIN handles : handles[j] \in Handle
  BY HandlesShape DEF NonblockingTypes
<1>3. ~handles[i].suspend /\ handles[i].event = Never /\ initiator[handles[i].trans] = "asked"
  BY <1>1 DEF Threads, AtRest
<1>4. CASE m_response_in_progress
  <2> DEFINE h == [handles[i] EXCEPT !.pc = "respond", !.ready = FALSE]
  <2>1. handles' = [handles EXCEPT ![i] = h] /\ UNCHANGED <<m_response_in_progress, initiator>>
    BY <1>2, <1>4 DEF nb2b_respond
  <2>2. /\ h \in Handle /\ h.suspend = handles[i].suspend /\ h.trans = handles[i].trans
        /\ h.pc = "respond" /\ ~h.ready /\ h.event = Never
    BY <1>2, <1>3 DEF Handle
  <2> HIDE DEF h
  <2>3. /\ handles' \in Seq(Handle) /\ Len(handles') = Len(handles)
        /\ \A j \in DOMAIN handles : handles'[j] = IF j = i THEN h ELSE handles[j]
    BY <1>2, <2>1, <2>2, ExceptSeq
  <2>4. NonblockingTypes'
    BY <1>1, <2>1, <2>3 DEF NonblockingTypes
  <2>5. Threads'
    BY <1>3, <2>1, <2>2, <2>3, SameThreads DEF Threads
  <2>6. Answers'
    BY <2>1 DEF Answers
  <2> QED BY <2>4, <2>5, <2>6
<1>5. CASE ~m_response_in_progress
  <2> DEFINE h == [handles[i] EXCEPT !.pc = "rest", !.ready = FALSE, !.suspend = TRUE]
             t == handles[i].trans
  <2>1. PICK b \in BOOLEAN :
          /\ m_response_in_progress' = b
          /\ initiator' = [initiator EXCEPT ![t] = IF b THEN "answered" ELSE "idle"]
    BY <1>5 DEF nb2b_respond
  <2>2. handles' = [handles EXCEPT ![i] = h]
    BY <1>2, <1>5 DEF nb2b_respond
  <2>3. h \in Handle /\ h.suspend /\ AtRest(h) /\ h.event = Never /\ h.pc = "rest"
    BY <1>2, <1>3 DEF Handle, AtRest
  <2>4. t \in Trans
    BY <1>2 DEF Handle
  <2> HIDE DEF h, t
  <2>5. /\ handles' \in Seq(Handle) /\ Len(handles') = Len(handles) /\ DOMAIN handles' = DOMAIN handles
        /\ \A j \in DOMAIN handles : handles'[j] = IF j = i THEN h ELSE handles[j]
    BY <1>2, <2>2, <2>3, ExceptSeq, LenProperties
  <2>6. /\ initiator' \in [Trans -> {"idle", "asked", "answered"}]
        /\ initiator'[t] = IF b THEN "answered" ELSE "idle"
        /\ \A u \in Trans : u # t => initiator'[u] = initiator[u]
    BY <2>1, <2>4 DEF NonblockingTypes
  <2>7. NonblockingTypes'
    BY <1>1, <2>1, <2>5, <2>6 DEF NonblockingTypes
  <2>8. Threads'
    <3>1. ASSUME NEW j \in DOMAIN handles, ~handles'[j].suspend
          PROVE  handles'[j] = handles[j] /\ handles[j].trans # t /\ handles[j].trans \in Trans
      <4>1. j # i /\ handles'[j] = handles[j]
        BY <2>3, <2>5, <3>1
      <4>2. handles[j].trans # handles[i].trans
        BY <1>3, <3>1, <4>1 DEF Threads
      <4> QED BY <1>2, <4>1, <4>2 DEF t, Handle
    <3>2. ASSUME NEW j \in DOMAIN handles
          PROVE  /\ handles'[j].suspend => AtRest(handles'[j])
                 /\ handles'[j].ready \/ handles'[j].pc \in {"call", "respond"}
                      => handles'[j].event = Never
                 /\ handles'[j].pc = "call" => ~handles'[j].ready
                 /\ ~handles'[j].suspend => initiator'[handles'[j].trans] = "asked"
      BY <2>3, <2>5, <2>6, <3>1 DEF Threads
    <3>3. ASSUME NEW u \in Trans, initiator'[u] = "asked"
          PROVE  \E j \in DOMAIN handles : handles'[j].trans = u /\ ~handles'[j].suspend
      <4>1. u # t /\ initiator[u] = "asked"
        BY <2>6, <3>3
      <4>2. PICK j \in DOMAIN handles : handles[j].trans = u /\ ~handles[j].suspend
        BY <4>1 DEF Threads
      <4>3. j # i
        BY <4>1, <4>2 DEF t
      <4> QED BY <2>5, <4>2, <4>3
    <3>4. \A j, k \in DOMAIN handles : ~handles'[j].suspend /\ ~handles'[k].suspend
            /\ handles'[j].trans = handles'[k].trans => j = k
      BY <3>1 DEF Threads
    <3>5. Len(handles') <= Cardinality(Trans)
      BY <2>5 DEF Threads
    <3> QED BY <2>5, <3>2, <3>3, <3>4, <3>5 DEF Threads
  <2>9. Answers'
    <3>1. \A u \in Trans : initiator[u] # "answered"
      BY <1>5 DEF Answers
    <3>2. \A u \in Trans : initiator'[u] = "answered" <=> u = t /\ b
      BY <2>6, <3>1
    <3>3. m_response_in_progress' <=> b
      BY <2>1
    <3> QED BY <2>4, <3>2, <3>3, Zenon DEF Answers
  <2> QED BY <2>7, <2>8, <2>9
<1> QED BY <1>4, <1>5

-----------------------------------------------------------------------------
(* Time passes *)

IInv == BlockingInv /\ NonblockingInv

\* What Advance does when d is what is due next.
AdvanceBy(d) ==
  /\ peq' = PeqLater(peq, d)
  /\ m_end_request' = Later(m_end_request, d)
  /\ end_event' = [t \in Trans |-> Later(end_event[t], d)]
  /\ m_end_response' = Later(m_end_response, d)
  /\ thread' = [thread EXCEPT !.timer = Later(@, d),
                              !.ready = \/ thread.pc = "peq" /\ peq.event = d
                                        \/ thread.pc = "request" /\ m_end_request = d
                                        \/ thread.timer = d]
  /\ client' = [t \in Trans |->
                 [client[t] EXCEPT !.ready = client[t].pc = "end" /\ end_event[t] = d]]
  /\ handles' = [i \in DOMAIN handles |->
                  [handles[i] EXCEPT !.event = Later(@, d),
                                     !.ready = \/ handles[i].event = d
                                               \/ /\ handles[i].pc = "respond"
                                                  /\ m_end_response = d]]
  /\ UNCHANGED <<pending, m_current_transaction, target, late, m_response_in_progress, initiator>>

LEMMA NotificationTimes ==
  ASSUME IInv
  PROVE  Notifications \subseteq Times
<1>1. peq.event \in Times /\ m_end_request \in Times /\ thread.timer \in Times
  BY DEF IInv, BlockingInv, BlockingTypes, PeqOK, Thread
<1>2. m_end_response \in Times /\ \A t \in Trans : end_event[t] \in Times
  BY DEF IInv, BlockingInv, BlockingTypes, NonblockingInv, NonblockingTypes
<1>3. \A i \in DOMAIN handles : handles[i].event \in Times
  BY HandlesShape DEF IInv, NonblockingInv, Handle
<1> QED BY <1>1, <1>2, <1>3 DEF Notifications

LEMMA AdvanceFacts ==
  ASSUME IInv, Advance
  PROVE  \E d \in Delays :
           /\ AdvanceBy(d) /\ \A e \in Notifications : d <= e
           /\ ~thread.ready /\ \A t \in Trans : ~client[t].ready
<1>1. PICK d \in Notifications \ {Never} : AdvanceBy(d) /\ \A e \in Notifications : d <= e
  BY DEF Advance, AdvanceBy
<1>2. d \in Delays
  BY NotificationTimes, TimeFacts DEF Times, Delays
<1>3. ~thread.ready /\ \A t \in Trans : ~client[t].ready
  BY DEF Advance
<1> QED BY <1>1, <1>2, <1>3

LEMMA AdvanceBlocking ==
  ASSUME IInv, NEW d \in Delays, AdvanceBy(d), \A e \in Notifications : d <= e,
         ~thread.ready, \A t \in Trans : ~client[t].ready
  PROVE  BlockingInv'
<1> USE DEF IInv, BlockingInv
<1>1. UNCHANGED <<pending, m_current_transaction, target, late>>
  BY DEF AdvanceBy
<1>2. /\ d <= peq.event /\ d <= m_end_request /\ d <= thread.timer
      /\ \A t \in Trans : d <= end_event[t]
  BY DEF Notifications
<1>3. /\ PeqOK(peq') /\ Held(peq') = Held(peq) /\ Once(peq')
      /\ InTime(peq) /\ peq.event # d => InTime(peq')
  BY <1>2, PeqLaterKeeps DEF AdvanceBy, BlockingTypes, Places
<1>4. m_end_request' \in Times /\ (m_end_request' = Never <=> m_end_request \in {d, Never})
  BY <1>2, LaterFacts DEF AdvanceBy, BlockingTypes
<1>5. /\ end_event' \in [Trans -> Times]
      /\ \A t \in Trans : end_event'[t] = Never <=> end_event[t] \in {d, Never}
  <2>1. end_event' = [t \in Trans |-> Later(end_event[t], d)]
    BY DEF AdvanceBy
  <2>2. \A t \in Trans : /\ Later(end_event[t], d) \in Times
                         /\ Later(end_event[t], d) = Never <=> end_event[t] \in {d, Never}
    BY <1>2, LaterFacts DEF BlockingTypes
  <2> QED BY <2>1, <2>2
<1>6. /\ thread' \in Thread /\ thread'.pc = thread.pc /\ thread'.trans = thread.trans
      /\ thread'.ready <=> \/ thread.pc = "peq" /\ peq.event = d
                           \/ thread.pc = "request" /\ m_end_request = d
                           \/ thread.timer = d
      /\ thread'.timer = Never <=> thread.timer \in {d, Never}
  <2> DEFINE woken == \/ thread.pc = "peq" /\ peq.event = d
                      \/ thread.pc = "request" /\ m_end_request = d
                      \/ thread.timer = d
  <2>1. thread \in Thread /\ thread.timer \in Times
    BY DEF BlockingTypes, Thread
  <2>2. Later(thread.timer, d) \in Times /\ (Later(thread.timer, d) = Never <=> thread.timer \in {d, Never})
    BY <1>2, <2>1, LaterFacts
  <2>3. thread' = [thread EXCEPT !.timer = Later(@, d), !.ready = woken] /\ woken \in BOOLEAN
    BY DEF AdvanceBy
  <2> HIDE DEF woken
  <2>4. /\ thread' \in Thread /\ thread'.pc = thread.pc /\ thread'.trans = thread.trans
        /\ thread'.ready = woken /\ thread'.timer = Later(thread.timer, d)
    BY <2>1, <2>2, <2>3 DEF Thread
  <2> QED BY <2>2, <2>4 DEF woken
<1>7. /\ client' \in [Trans -> [pc : {"idle", "end", "done"}, ready : BOOLEAN, mm_added : BOOLEAN]]
      /\ \A t \in Trans : /\ client'[t].pc = client[t].pc
                          /\ client'[t].ready <=> client[t].pc = "end" /\ end_event[t] = d
  <2> DEFINE woken(t) == client[t].pc = "end" /\ end_event[t] = d
  <2>1. /\ client' = [t \in Trans |-> [client[t] EXCEPT !.ready = woken(t)]]
        /\ \A t \in Trans : woken(t) \in BOOLEAN
    BY DEF AdvanceBy
  <2> HIDE DEF woken
  <2>2. ASSUME NEW t \in Trans
        PROVE  /\ client'[t] \in [pc : {"idle", "end", "done"}, ready : BOOLEAN, mm_added : BOOLEAN]
               /\ client'[t].pc = client[t].pc /\ client'[t].ready = woken(t)
    BY <2>1 DEF BlockingTypes
  <2> QED BY <2>1, <2>2 DEF woken
<1>8. BlockingTypes'
  BY <1>1, <1>3, <1>4, <1>5, <1>6, <1>7 DEF BlockingTypes
<1>9. Places'
  BY <1>1, <1>3, <1>6 DEF Places
<1>10. EndNotified'
  BY <1>1, <1>5, <1>7, TimeFacts DEF EndNotified
<1>11. Waiting'
  <2>1. d # Never
    BY TimeFacts
  <2> QED BY <1>1, <1>3, <1>4, <1>6, <2>1 DEF Waiting
<1>12. Requests'
  <2>1. d # Never
    BY TimeFacts
  <2> QED BY <1>1, <1>4, <1>6, <2>1 DEF Requests, Waiting
<1> QED BY <1>8, <1>9, <1>10, <1>11, <1>12

LEMMA AdvanceNonblocking ==
  ASSUME IInv, NEW d \in Delays, AdvanceBy(d), \A e \in Notifications : d <= e
  PROVE  NonblockingInv'
<1> USE DEF IInv, NonblockingInv
<1>1. UNCHANGED <<m_response_in_progress, initiator>>
  BY DEF AdvanceBy
<1>2. /\ Len(handles) \in Nat /\ DOMAIN handles = 1 .. Len(handles) /\ handles \in Seq(Handle)
      /\ \A i \in DOMAIN handles : handles[i] \in Handle
  BY HandlesShape DEF NonblockingTypes
<1>3. d <= m_end_response /\ \A i \in DOMAIN handles : d <= handles[i].event
  BY DEF Notifications
<1>4. m_end_response' \in Times
  BY <1>3, LaterFacts DEF AdvanceBy, NonblockingTypes
<1> DEFINE woken(i) == handles[i].event = d \/ (handles[i].pc = "respond" /\ m_end_response = d)
           h(i) == [handles[i] EXCEPT !.event = Later(@, d), !.ready = woken(i)]
           hs == [i \in 1 .. Len(handles) |-> h(i)]
<1>5. handles' = hs /\ \A i \in DOMAIN handles : woken(i) \in BOOLEAN
  BY <1>2 DEF AdvanceBy
<1>6. ASSUME NEW i \in DOMAIN handles
      PROVE  /\ h(i) \in Handle /\ h(i).suspend = handles[i].suspend
             /\ h(i).trans = handles[i].trans /\ h(i).pc = handles[i].pc /\ h(i).ready = woken(i)
             /\ h(i).event = Never <=> handles[i].event \in {d, Never}
  <2>1. handles[i] \in Handle /\ handles[i].event \in Times
    BY <1>2 DEF Handle
  <2>2. /\ Later(handles[i].event, d) \in Times
        /\ Later(handles[i].event, d) = Never <=> handles[i].event \in {d, Never}
    BY <1>3, <2>1, LaterFacts
  <2> HIDE DEF woken
  <2> QED BY <1>5, <2>1, <2>2 DEF Handle
<1>7. /\ hs \in Seq(Handle) /\ Len(hs) = Len(handles)
      /\ \A i \in DOMAIN handles : hs[i] = h(i)
  <2> HIDE DEF h
  <2>1. hs \in [1 .. Len(handles) -> Handle]
    BY <1>2, <1>6
  <2> QED BY <1>2, <2>1, SeqDef, LenProperties
<1>8. NonblockingTypes'
  BY <1>1, <1>4, <1>5, <1>7 DEF NonblockingTypes
<1>9. d # Never
  BY TimeFacts
<1>10. ASSUME NEW i \in DOMAIN handles
       PROVE  /\ hs[i].suspend = handles[i].suspend /\ hs[i].trans = handles[i].trans
              /\ hs[i].suspend => AtRest(hs[i])
              /\ hs[i].ready \/ hs[i].pc \in {"call", "respond"} => hs[i].event = Never
              /\ hs[i].pc = "call" => ~hs[i].ready
  <2>1. /\ handles[i].suspend => AtRest(handles[i])
        /\ handles[i].pc \in {"call", "respond"} => handles[i].event = Never
    BY DEF Threads
  <2>2. /\ hs[i].suspend = handles[i].suspend /\ hs[i].trans = handles[i].trans
        /\ hs[i].pc = handles[i].pc
        /\ hs[i].ready = woken(i) /\ (hs[i].event = Never <=> handles[i].event \in {d, Never})
    <3> HIDE DEF hs, h, woken
    <3> QED BY <1>6, <1>7
  <2> HIDE DEF hs, h
  <2> QED BY <1>9, <2>1, <2>2 DEF AtRest
<1>11. Threads'
  <2> HIDE DEF hs
  <2> QED BY <1>1, <1>5, <1>7, <1>10, SameThreads
<1>12. Answers'
  BY <1>1 DEF Answers
<1> QED BY <1>8, <1>11, <1>12

-----------------------------------------------------------------------------
(* The properties *)

LEMMA BlockingSame == BlockingInv /\ UNCHANGED b2nb => BlockingInv'
BY DEF b2nb, BlockingInv, BlockingTypes, Places, EndNotified, Waiting, Requests

LEMMA NonblockingSame == NonblockingInv /\ UNCHANGED nb2b => NonblockingInv'
BY DEF nb2b, NonblockingInv, NonblockingTypes, Threads, Answers

LEMMA Invariance == Spec => []IInv
<1>1. Init => IInv
  BY InitBlocking, InitNonblocking DEF IInv
<1>2. ASSUME IInv, [Next]_vars PROVE IInv'
  <2> USE DEF IInv
  <2>1. ASSUME NEW t \in Trans, b_transport(t) \/ Client(t) PROVE IInv'
    <3>1. UNCHANGED nb2b
      BY <2>1 DEF b_transport, Client, b_transport_end, b_transport_done
    <3> QED BY <1>2, <2>1, <3>1, b_transportKeeps, ClientKeeps, NonblockingSame
  <2>2. ASSUME B2nbThread PROVE IInv'
    <3>1. UNCHANGED nb2b
      BY <2>2 DEF B2nbThread, b2nb_wake, b2nb_next, nb2b
    <3> QED BY <1>2, <2>2, <3>1, WakeKeeps, NextKeeps, NonblockingSame DEF B2nbThread
  <2>3. ASSUME NEW t \in Trans, EndReq(t) \/ BeginResp(t) \/ Release(t) PROVE IInv'
    <3>1. UNCHANGED nb2b
      BY <2>3 DEF EndReq, BeginResp, Release
    <3> QED BY <1>2, <2>3, <3>1, EndReqKeeps, BeginRespKeeps, ReleaseKeeps, NonblockingSame
  <2>4. ASSUME NEW t \in Trans, BeginReq(t) \/ EndResp(t) PROVE IInv'
    <3>1. UNCHANGED b2nb
      BY <2>4 DEF BeginReq, EndResp
    <3> QED BY <1>2, <2>4, <3>1, BeginReqKeeps, EndRespKeeps, BlockingSame
  <2>5. ASSUME NEW i \in DOMAIN handles, Nb2bThread(i) PROVE IInv'
    <3>1. UNCHANGED b2nb
      BY <2>5 DEF Nb2bThread, nb2b_call, nb2b_returned, nb2b_respond
    <3> QED BY <1>2, <2>5, <3>1, CallKeeps, ReturnedKeeps, RespondKeeps, BlockingSame DEF Nb2bThread
  <2>6. ASSUME Advance PROVE IInv'
    <3>1. PICK d \in Delays :
            /\ AdvanceBy(d) /\ \A e \in Notifications : d <= e
            /\ ~thread.ready /\ \A t \in Trans : ~client[t].ready
      BY <1>2, <2>6, AdvanceFacts
    <3> QED BY <1>2, <3>1, AdvanceBlocking, AdvanceNonblocking
  <2>7. ASSUME UNCHANGED vars PROVE IInv'
    <3>1. UNCHANGED b2nb /\ UNCHANGED nb2b
      BY <2>7 DEF vars
    <3> QED BY <1>2, <3>1, BlockingSame, NonblockingSame
  <2> HIDE DEF IInv
  <2> QED BY <1>2, <2>1, <2>2, <2>3, <2>4, <2>5, <2>6, <2>7 DEF Next
<1> QED BY <1>1, <1>2, PTL DEF Spec

\* A set whose elements are all the same has one at most.
LEMMA OneAtMost ==
  ASSUME NEW S, \A x, y \in S : x = y
  PROVE  Cardinality(S) <= 1
<1>1. CASE S = {}
  BY <1>1, FS_EmptySet
<1>2. CASE S # {}
  <2>1. PICK x \in S : S = {x}
    BY <1>2
  <2> QED BY <2>1, FS_Singleton
<1> QED BY <1>1, <1>2

\* The request phases do not overlap, unless a BEGIN_RESP came late.
THEOREM RequestsExclude == Spec => []RequestExclusion
<1>1. ASSUME IInv PROVE RequestExclusion
  <2> DEFINE S == {t \in Trans : target[t].owes = "END_REQ"}
  <2>1. ~late => \A t, u \in S : t = u
    BY <1>1 DEF IInv, BlockingInv, Requests
  <2> HIDE DEF S
  <2>2. late \/ Cardinality(S) <= 1
    BY <2>1, OneAtMost
  <2> QED BY <2>2 DEF RequestExclusion, S
<1> QED BY <1>1, Invariance, PTL

\* b2nb_thread is woken for whatever it is handed.
THEOREM WakesThread == Spec => []ThreadWoken
<1>1. IInv => ThreadWoken
  BY DEF IInv, BlockingInv, Waiting, ThreadWoken, InTime
<1> QED BY <1>1, Invariance, PTL

\* Every call of b_transport has its end_event notified once.
THEOREM NotifiesEnd == Spec => []EndNotified
<1>1. IInv => EndNotified
  BY DEF IInv, BlockingInv
<1> QED BY <1>1, Invariance, PTL

\* The response phases do not overlap.
THEOREM ResponsesExclude == Spec => []ResponseExclusion
<1>1. ASSUME IInv PROVE ResponseExclusion
  <2> DEFINE S == {t \in Trans : initiator[t] = "answered"}
  <2>1. \A t, u \in S : t = u
    BY <1>1 DEF IInv, NonblockingInv, Answers
  <2>2. m_response_in_progress <=> \E t \in Trans : initiator[t] = "answered"
    BY <1>1 DEF IInv, NonblockingInv, Answers
  <2> HIDE DEF S
  <2>3. Cardinality(S) <= 1
    BY <2>1, OneAtMost
  <2> QED BY <2>2, <2>3 DEF ResponseExclusion, S
<1> QED BY <1>1, Invariance, PTL

\* Every request has one thread, and there are no more threads than transactions.
THEOREM HasOneThreadEach == Spec => []OneThreadEach
<1>1. ASSUME IInv PROVE OneThreadEach
  <2>1. ASSUME NEW t \in Trans
        PROVE  Cardinality({i \in DOMAIN handles : handles[i].trans = t /\ ~handles[i].suspend})
                 = IF initiator[t] = "asked" THEN 1 ELSE 0
    <3> DEFINE S == {i \in DOMAIN handles : handles[i].trans = t /\ ~handles[i].suspend}
    <3>1. CASE initiator[t] = "asked"
      <4>1. PICK i \in S : S = {i}
        BY <1>1, <3>1 DEF IInv, NonblockingInv, Threads
      <4> QED BY <3>1, <4>1, FS_Singleton
    <3>2. CASE initiator[t] # "asked"
      <4>1. S = {}
        BY <1>1, <3>2 DEF IInv, NonblockingInv, Threads
      <4> QED BY <3>2, <4>1, FS_EmptySet
    <3> QED BY <3>1, <3>2
  <2>2. Len(handles) <= Cardinality(Trans)
    BY <1>1 DEF IInv, NonblockingInv, Threads
  <2> QED BY <2>1, <2>2 DEF OneThreadEach
<1> QED BY <1>1, Invariance, PTL
=============================================================================
