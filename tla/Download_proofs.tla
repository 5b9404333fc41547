---------------------------- MODULE Download_proofs ----------------------------
(***************************************************************************)
(* Theorems about the download transaction, for every window, chunk size,  *)
(* and set of jobs: replies and counts; the image in memory; the first     *)
(* error; the stopped target; and the request window, which the download   *)
(* implements (ReqWindow).                                                 *)
(***************************************************************************)
EXTENDS Download, FiniteSetTheorems, TLAPS

-----------------------------------------------------------------------------
(***************************************************************************)
(* Facts about the operators of the model.                                 *)
(***************************************************************************)

\* A request as the debugger sends it is a request, unanswered.
LEMMA RequestType ==
  ASSUME NEW op \in {"suspend", "copy", "clear", "profile", "setpc"},
         NEW a \in Nat, NEW p \in Nat, NEW s \in Nat
  PROVE  /\ Request(op, a, p, s) \in Requests
         /\ Request(op, a, p, s).op = op
         /\ Request(op, a, p, s).act = a
         /\ Request(op, a, p, s).pos = p
         /\ Request(op, a, p, s).size = s
         /\ Request(op, a, p, s).st = "sent"
BY DEF Request, Requests

\* Adding one request: the set stays finite and grows by at most one.
LEMMA AddOne ==
  ASSUME NEW S, IsFiniteSet(S), NEW x
  PROVE  /\ IsFiniteSet(S \cup {x})
         /\ Cardinality(S \cup {x}) \in Nat
         /\ Cardinality(S) \in Nat
         /\ Cardinality(S \cup {x}) <= Cardinality(S) + 1
         /\ Cardinality({x}) = 1
<1>1. Cardinality({x}) = 1 BY FS_Singleton
<1>2. Cardinality(S) \in Nat BY FS_CardinalityType
<1>3. IsFiniteSet(S \cup {x}) /\ (Cardinality(S \cup {x}) = Cardinality(S)
                                  \/ Cardinality(S \cup {x}) = Cardinality(S) + 1)
  BY FS_AddElement
<1> QED BY <1>1, <1>2, <1>3

\* Removing one of the requests leaves one less.
LEMMA RemoveOne ==
  ASSUME NEW S, IsFiniteSet(S), NEW x \in S
  PROVE  /\ IsFiniteSet(S \ {x})
         /\ Cardinality(S \ {x}) = Cardinality(S) - 1
         /\ Cardinality(S) \in Nat
         /\ Cardinality(S) >= 1
<1>1. IsFiniteSet(S \ {x}) /\ Cardinality(S \ {x}) = Cardinality(S) - 1
  BY FS_RemoveElement
<1>2. Cardinality(S) \in Nat /\ Cardinality(S \ {x}) \in Nat
  BY <1>1, FS_CardinalityType
<1> QED BY <1>1, <1>2

\* A finite set of at most no element is empty.
LEMMA NoneLeft ==
  ASSUME NEW S, IsFiniteSet(S), Cardinality(S) <= 0
  PROVE  S = {}
<1>1. Cardinality(S) \in Nat BY FS_CardinalityType
<1>2. Cardinality(S) = 0 BY <1>1
<1> QED BY <1>2, FS_EmptySet

\* Answering a request does not make the set of them larger.
LEMMA ReplaceOne ==
  ASSUME NEW S, IsFiniteSet(S), NEW x \in S, NEW y
  PROVE  /\ IsFiniteSet((S \ {x}) \cup {y})
         /\ Cardinality((S \ {x}) \cup {y}) <= Cardinality(S)
         /\ Cardinality((S \ {x}) \cup {y}) \in Nat
<1>1. IsFiniteSet(S \ {x}) /\ Cardinality(S \ {x}) = Cardinality(S) - 1
      /\ Cardinality(S) \in Nat
  BY RemoveOne
<1> DEFINE R == S \ {x}
<1>2. IsFiniteSet(R \cup {y}) /\ Cardinality(R \cup {y}) <= Cardinality(R) + 1
      /\ Cardinality(R \cup {y}) \in Nat /\ Cardinality(R) \in Nat
  <2> HIDE DEF R
  <2>1. IsFiniteSet(R) BY <1>1 DEF R
  <2> QED BY <2>1, AddOne
<1> QED BY <1>1, <1>2

\* Adding several requests: the set grows by at most their number.
LEMMA AddMany ==
  ASSUME NEW S, IsFiniteSet(S), NEW T, IsFiniteSet(T)
  PROVE  /\ IsFiniteSet(S \cup T)
         /\ Cardinality(S \cup T) <= Cardinality(S) + Cardinality(T)
         /\ Cardinality(S \cup T) \in Nat
         /\ Cardinality(S) \in Nat
         /\ Cardinality(T) \in Nat
<1>1. IsFiniteSet(S \cup T)
      /\ Cardinality(S \cup T) = Cardinality(S) + Cardinality(T) - Cardinality(S \cap T)
  BY FS_Union
<1>2. IsFiniteSet(S \cap T) BY FS_Intersection
<1>3. Cardinality(S) \in Nat /\ Cardinality(T) \in Nat /\ Cardinality(S \cap T) \in Nat
      /\ Cardinality(S \cup T) \in Nat
  BY <1>1, <1>2, FS_CardinalityType
<1> QED BY <1>1, <1>3

\* The requests of a profile action are finitely many.
LEMMA ProfileRequests ==
  ASSUME NEW a \in Nat, NEW n \in Int
  PROVE  LET S == {Request("profile", a, i, 0) : i \in 0 .. n}
         IN  /\ IsFiniteSet(S)
             /\ S \subseteq Requests
             /\ \A r \in S : r.op = "profile" /\ r.act = a /\ r.size = 0 /\ r.st = "sent"
<1> DEFINE f == [i \in 0 .. n |-> Request("profile", a, i, 0)]
           S == {Request("profile", a, i, 0) : i \in 0 .. n}
<1>1. IsFiniteSet(0 .. n) BY FS_Interval
<1>2. f \in Surjection(0 .. n, S) BY DEF Surjection
<1>3. IsFiniteSet(S)
  <2> HIDE DEF f, S
  <2> QED BY <1>1, <1>2, FS_Surjection
<1>4. S \subseteq Requests
      /\ \A r \in S : r.op = "profile" /\ r.act = a /\ r.size = 0 /\ r.st = "sent"
  BY DEF Request, Requests
<1> QED BY <1>3, <1>4

-----------------------------------------------------------------------------
(***************************************************************************)
(* Type correctness.                                                       *)
(***************************************************************************)

\* The position in the current action never passes the bytes that the action
\* has: the chunk taken from there is never of a negative size.
PosOK ==
  /\ curaction \in {1, 2} => curpos = 0
  /\ curaction >= 3 /\ curaction < NumActions =>
       /\ BodyCur.op = "copy" => curpos <= BodyCur.size /\ curpos <= BodyCur.avail
       /\ BodyCur.op = "clear" => curpos <= BodyCur.size
       /\ BodyCur.op \notin {"copy", "clear"} => curpos = 0

\* numreq counts every outstanding request, and none is outstanding when no
\* command is active.
CountOK ==
  /\ Cardinality(inflight) <= numreq
  /\ ~Active => inflight = {}

TypeInv == TypeOK /\ PosOK /\ CountOK

\* The current body action is one of the job's.
LEMMA BodyCurType ==
  ASSUME TypeOK, curaction >= 3, curaction < NumActions
  PROVE  /\ BodyCur \in BodyAction
         /\ curaction - 2 \in DOMAIN job.body
         /\ curaction \in Nat
         /\ Len(job.body) \in Nat
         /\ NumActions \in Nat
<1>1. job.body \in Seq(BodyAction)
  BY JobsAssumption DEF TypeOK, Job
<1>2. Len(job.body) \in Nat /\ DOMAIN job.body = 1 .. Len(job.body)
  BY <1>1
<1>3. curaction \in Int /\ curaction - 2 \in 1 .. Len(job.body)
  BY <1>2 DEF TypeOK, NumActions
<1> QED BY <1>1, <1>2, <1>3 DEF BodyCur, NumActions

LEMMA NumActionsType ==
  ASSUME TypeOK
  PROVE  NumActions \in Nat /\ NumActions >= 3 /\ curaction \in Nat
<1>1. job.body \in Seq(BodyAction)
  BY JobsAssumption DEF TypeOK, Job
<1>2. Len(job.body) \in Nat
  BY <1>1
<1> QED BY <1>2 DEF NumActions, TypeOK

\* Sending one request keeps the set of requests and the count well typed.
LEMMA SendOne ==
  ASSUME TypeOK, NEW r \in Requests, Send({r})
  PROVE  /\ numreq' \in Nat
         /\ numreq' = numreq + 1
         /\ inflight' = inflight \cup {r}
         /\ inflight' \subseteq Requests
         /\ IsFiniteSet(inflight')
         /\ Cardinality(inflight') <= Cardinality(inflight) + 1
         /\ Cardinality(inflight') \in Nat
         /\ Cardinality(inflight) \in Nat
<1>1. inflight' = inflight \cup {r} /\ numreq' = numreq + Cardinality({r})
  BY DEF Send
<1>2. IsFiniteSet(inflight) /\ inflight \subseteq Requests /\ numreq \in Nat
  BY DEF TypeOK
<1>3. /\ IsFiniteSet(inflight \cup {r})
      /\ Cardinality(inflight \cup {r}) \in Nat
      /\ Cardinality(inflight) \in Nat
      /\ Cardinality(inflight \cup {r}) <= Cardinality(inflight) + 1
      /\ Cardinality({r}) = 1
  BY <1>2, AddOne
<1> QED BY <1>1, <1>2, <1>3

LEMMA TypeInit == Init => TypeInv
<1> SUFFICES ASSUME Init PROVE TypeInv
  OBVIOUS
<1>1. job.body \in Seq(BodyAction)
  BY JobsAssumption DEF Init, Job
<1>2. NumActions \in Nat /\ NumActions >= 3
  BY <1>1 DEF NumActions
<1>3. IsFiniteSet({}) /\ {} \subseteq Requests BY FS_EmptySet
<1>4. inflight \subseteq Requests /\ IsFiniteSet(inflight)
  BY <1>3 DEF Init
<1> curaction = 0
  BY DEF Init
<1>5. curaction \in 0 .. NumActions
  BY <1>2
<1>6. mem \subseteq Nat \X Nat
  BY DEF Init
<1>7. view \in {"unknown", "running", "stopped", "error"}
  BY DEF Init
<1>8. TypeOK
  BY <1>4, <1>5, <1>6, <1>7 DEF Init, TypeOK, Phases, Errors
<1>9. PosOK BY DEF PosOK
<1>10. CountOK
  <2>1. inflight = {} /\ numreq = 0 BY DEF Init
  <2> QED BY <2>1, FS_EmptySet DEF CountOK
<1> QED BY <1>8, <1>9, <1>10 DEF TypeInv

\* The job and the position are what PosOK speaks of.
LEMMA PosFrame ==
  ASSUME PosOK, UNCHANGED <<job, curaction, curpos>>
  PROVE  PosOK'
BY DEF PosOK, BodyCur, NumActions

\* Moving on to the next action leaves the position in range.
LEMMA PosNext ==
  ASSUME TypeOK, curaction < NumActions, UNCHANGED job,
         curaction' = curaction + 1, curpos' = 0
  PROVE  PosOK' /\ curaction' \in (0 .. NumActions)' /\ curpos' \in Nat
<1>1. curaction \in Nat /\ NumActions \in Nat /\ NumActions' = NumActions
  BY NumActionsType DEF NumActions
<1>2. curaction' \in (0 .. NumActions)' /\ curpos' \in Nat
  BY <1>1
<1>3. ASSUME curaction' >= 3, curaction' < NumActions'
      PROVE  /\ BodyCur'.size \in Nat
             /\ BodyCur'.avail \in Nat
  <2>1. job.body \in Seq(BodyAction)
    BY JobsAssumption DEF TypeOK, Job
  <2>2. Len(job.body) \in Nat /\ NumActions = 3 + Len(job.body)
    BY <2>1 DEF NumActions
  <2>3. curaction' - 2 \in 1 .. Len(job.body)
    BY <1>1, <1>3, <2>2
  <2>4. job.body[curaction' - 2] \in BodyAction
    BY <2>1, <2>3
  <2>5. BodyCur' = job.body[curaction' - 2]
    BY DEF BodyCur
  <2> QED BY <2>4, <2>5 DEF BodyAction
<1>4. PosOK' BY <1>1, <1>3 DEF PosOK
<1> QED BY <1>2, <1>4

LEMMA TypeStep == TypeInv /\ [Next]_vars => TypeOK' /\ PosOK'
<1> SUFFICES ASSUME TypeOK, PosOK, CountOK, [Next]_vars PROVE TypeOK' /\ PosOK'
  BY DEF TypeInv
<1> USE DEF transaction, command, target, agent, Drained, Halted, Verdict, Acknowledged
<1>t. /\ curaction \in Nat /\ NumActions \in Nat /\ NumActions >= 3
      /\ numreq \in Nat /\ curpos \in Nat /\ curbytes \in Nat
      /\ Window \in Nat \ {0}
  BY NumActionsType, WindowAssumption DEF TypeOK
<1>n. job' = job => NumActions' = NumActions
  BY DEF NumActions
<1>1. ASSUME NEW j \in Jobs, Dow(j) PROVE TypeOK' /\ PosOK'
  <2>1. j.body \in Seq(BodyAction)
    BY JobsAssumption DEF Job
  <2>a. job' = j
    BY <1>1 DEF Dow
  <2>b. Len(j.body) \in Nat
    BY <2>1
  <2>2. NumActions' \in Nat
    BY <2>a, <2>b DEF NumActions
  <2>3. curaction' = 0 /\ curpos' = 0 /\ mem' = {}
    BY <1>1 DEF Dow
  <2>4. curaction' \in (0 .. NumActions)'
    BY <2>2, <2>3
  <2>5. mem' \subseteq Nat \X Nat
    BY <2>3
  <2>6. PosOK'
    BY <2>3 DEF PosOK
  <2> QED BY <1>1, <2>4, <2>5, <2>6 DEF Dow, TypeOK, Phases, Errors
<1>2. CASE InitMiss
  <2>1. PosOK'
    BY <1>2, <1>t DEF InitMiss, PosOK
  <2> QED BY <1>2, <1>n, <2>1 DEF InitMiss, TypeOK, Phases
<1>3. CASE InitSuspend
  <2>1. PosOK'
    BY <1>3, <1>t DEF InitSuspend, PosOK
  <2>2. Request("suspend", 0, 0, 0) \in Requests
    BY RequestType
  <2>3. numreq' \in Nat /\ inflight' \subseteq Requests /\ IsFiniteSet(inflight')
    BY <1>3, <2>2, SendOne DEF InitSuspend
  <2> QED BY <1>3, <1>n, <2>1, <2>3 DEF InitSuspend, TypeOK, Phases
<1>4. CASE InitFail
  <2>1. PosOK'
    BY <1>4, PosFrame DEF InitFail, Fail
  <2> QED BY <1>4, <1>n, <2>1, ZenonT(30) DEF InitFail, Fail, TypeOK, Errors
<1>5. CASE InitDone
  <2>1. PosOK' /\ curaction' \in (0 .. NumActions)' /\ curpos' \in Nat
    BY <1>5, PosNext DEF InitDone, NextAction, LoopGuard
  <2> QED BY <1>5, <2>1 DEF InitDone, TypeOK
<1>6. CASE Open
  <2>1. PosOK' /\ curaction' \in (0 .. NumActions)' /\ curpos' \in Nat
    <3>1. CASE NextAction
      BY <1>6, <3>1, PosNext DEF Open, NextAction, LoopGuard
    <3>2. CASE Fail("open")
      BY <1>6, <3>2, <1>n, PosFrame DEF Open, Fail, TypeOK
    <3> QED BY <1>6, <3>1, <3>2 DEF Open
  <2>2. UNCHANGED <<job, phase, numreq, curbytes, result, inflight, mem, pcset,
                    run, view, stopEvent, opening, argset, message>>
    BY <1>6 DEF Open, Fail
  <2>3. err' \in Errors /\ fopen' \in BOOLEAN
    BY <1>6, <1>t DEF Open, Fail, Errors, TypeOK
  <2> QED BY <2>1, <2>2, <2>3, <1>t DEF TypeOK
<1>7. CASE Progress
  <2>1. PosOK' /\ curaction' \in (0 .. NumActions)' /\ curpos' \in Nat
    <3>1. curpos = 0 /\ curpos' = curpos /\ curaction < NumActions /\ job' = job
      BY <1>7, <1>t DEF Progress, PosOK, LoopGuard
    <3>2. CASE curaction' = curaction + 1
      BY <3>1, <3>2, PosNext
    <3>3. CASE curaction' = curaction
      BY <3>1, <3>3, <1>n, <1>t, PosFrame DEF TypeOK
    <3> QED BY <1>7, <3>2, <3>3 DEF Progress
  <2> QED BY <1>7, <2>1 DEF Progress, TypeOK, Phases
<1>8. CASE Copy
  <2> DEFINE want == Min2(Chunk, BodyCur.size - curpos)
             got == Min2(want, BodyCur.avail - curpos)
  <2>1. /\ curaction >= 3 /\ curaction < NumActions /\ BodyCur.op = "copy"
        /\ BodyCur.size \in Nat /\ BodyCur.avail \in Nat
        /\ curpos <= BodyCur.size /\ curpos <= BodyCur.avail /\ job' = job
    BY <1>8, <1>t, BodyCurType DEF Copy, InBody, LoopGuard, PosOK, BodyAction
  <2>2. /\ got \in Nat /\ curpos + got <= BodyCur.size /\ curpos + got <= BodyCur.avail
        /\ curpos + got \in Nat
    BY <2>1, <1>t, WindowAssumption DEF Min2
  <2>a. CASE Fail("read")
    <3>1. PosOK'
      BY <2>1, <2>a, PosFrame DEF Fail
    <3> QED BY <1>8, <1>n, <2>1, <2>a, <3>1, ZenonT(30) DEF Copy, Fail, TypeOK, Errors
  <2>3. CASE err' = "read" /\ NextAction /\ UNCHANGED <<numreq, inflight>>
    <3>1. PosOK' /\ curaction' \in (0 .. NumActions)' /\ curpos' \in Nat
      BY <2>1, <2>3, PosNext DEF NextAction
    <3> QED BY <1>8, <2>3, <3>1, ZenonT(30) DEF Copy, TypeOK, Errors
  <2>4. CASE /\ Send({Request("copy", curaction, curpos, got)})
             /\ IF curpos + got = BodyCur.size THEN NextAction
                ELSE curpos' = curpos + got /\ UNCHANGED curaction
             /\ UNCHANGED err
    <3>1. Request("copy", curaction, curpos, got) \in Requests
      BY <1>t, <2>2, RequestType
    <3>2. numreq' \in Nat /\ inflight' \subseteq Requests /\ IsFiniteSet(inflight')
      BY <2>4, <3>1, SendOne
    <3>3. PosOK' /\ curaction' \in (0 .. NumActions)' /\ curpos' \in Nat
      <4>1. CASE NextAction
        BY <2>1, <4>1, PosNext DEF NextAction
      <4>2. CASE curpos' = curpos + got /\ UNCHANGED curaction
        <5>1. BodyCur' = BodyCur /\ NumActions' = NumActions
          BY <2>1, <4>2, <1>n DEF BodyCur
        <5>2. PosOK'
          <6> HIDE DEF got, want
          <6> QED BY <2>1, <2>2, <4>2, <5>1 DEF PosOK
        <5> QED BY <2>2, <4>2, <5>1, <5>2 DEF TypeOK
      <4> QED BY <2>4, <4>1, <4>2
    <3> QED BY <1>8, <2>4, <3>2, <3>3 DEF Copy, TypeOK
  <2> QED BY <1>8, <2>a, <2>3, <2>4 DEF Copy
<1>9. CASE Clear
  <2> DEFINE rest == BodyCur.size - curpos
             size == Min2(rest, Chunk)
  <2>1. /\ curaction >= 3 /\ curaction < NumActions /\ BodyCur.op = "clear"
        /\ BodyCur.size \in Nat /\ curpos <= BodyCur.size /\ job' = job
    BY <1>9, <1>t, BodyCurType DEF Clear, InBody, LoopGuard, PosOK, BodyAction
  <2>2. size \in Nat /\ curpos + size <= BodyCur.size /\ curpos + size \in Nat
    BY <2>1, <1>t, WindowAssumption DEF Min2
  <2>3. /\ Send({Request("clear", curaction, curpos, size)})
        /\ IF rest = 0 THEN NextAction
           ELSE curpos' = curpos + size /\ UNCHANGED curaction
    BY <1>9 DEF Clear
  <2>4. Request("clear", curaction, curpos, size) \in Requests
    BY <1>t, <2>2, RequestType
  <2>5. numreq' \in Nat /\ inflight' \subseteq Requests /\ IsFiniteSet(inflight')
    BY <2>3, <2>4, SendOne
  <2>6. PosOK' /\ curaction' \in (0 .. NumActions)' /\ curpos' \in Nat
    <3>1. CASE NextAction
      BY <2>1, <3>1, PosNext DEF NextAction
    <3>2. CASE curpos' = curpos + size /\ UNCHANGED curaction
      <4>1. BodyCur' = BodyCur /\ NumActions' = NumActions
        BY <2>1, <3>2, <1>n DEF BodyCur
      <4>2. PosOK'
        <5> HIDE DEF size, rest
        <5> QED BY <2>1, <2>2, <3>2, <4>1 DEF PosOK
      <4> QED BY <2>2, <3>2, <4>1, <4>2 DEF TypeOK
    <3> QED BY <2>3, <3>1, <3>2
  <2> QED BY <1>9, <2>5, <2>6 DEF Clear, TypeOK
<1>10. CASE Profile
  <2>1. /\ curaction >= 3 /\ curaction < NumActions /\ BodyCur.op = "profile"
        /\ BodyCur.size \in Nat /\ job' = job
    BY <1>10, <1>t, BodyCurType DEF Profile, InBody, LoopGuard, BodyAction
  <2>r. CASE Fail("rc")
    <3>1. PosOK'
      BY <2>1, <2>r, PosFrame DEF Fail
    <3> QED BY <1>10, <1>n, <2>1, <2>r, <3>1, ZenonT(30) DEF Profile, Fail, TypeOK, Errors
  <2> SUFFICES ASSUME NEW k \in 0 .. (BodyCur.size * ProfWrites),
                      Send({Request("profile", curaction, i, 0) : i \in 0 .. (k - 1)}),
                      \/ NextAction /\ UNCHANGED err
                      \/ err' = "profile" /\ UNCHANGED <<curaction, curpos>>
               PROVE  TypeOK' /\ PosOK'
    BY <1>10, <2>r DEF Profile
  <2> DEFINE n == k - 1
             S == {Request("profile", curaction, i, 0) : i \in 0 .. n}
  <2>3. n \in Int
    OBVIOUS
  <2>4. IsFiniteSet(S) /\ S \subseteq Requests
    <3> HIDE DEF n
    <3> QED BY <1>t, <2>3, ProfileRequests
  <2>5. numreq' \in Nat /\ inflight' \subseteq Requests /\ IsFiniteSet(inflight')
    <3>1. IsFiniteSet(inflight) /\ inflight \subseteq Requests
      BY DEF TypeOK
    <3>2. inflight' = inflight \cup S /\ numreq' = numreq + Cardinality(S)
      BY DEF Send
    <3> HIDE DEF S
    <3>3. IsFiniteSet(inflight \cup S) /\ Cardinality(S) \in Nat
      BY <2>4, <3>1, AddMany
    <3> QED BY <1>t, <2>4, <3>1, <3>2, <3>3
  <2>6. PosOK' /\ curaction' \in (0 .. NumActions)' /\ curpos' \in Nat
    <3>1. CASE NextAction
      BY <2>1, <3>1, PosNext DEF NextAction
    <3>2. CASE UNCHANGED <<curaction, curpos>>
      BY <2>1, <3>2, <1>n, PosFrame DEF TypeOK
    <3> QED BY <3>1, <3>2
  <2>7. err' \in Errors
    BY DEF TypeOK, Errors
  <2> QED BY <1>10, <2>5, <2>6, <2>7 DEF Profile, TypeOK
<1>11. CASE SetPcLater \/ Drain \/ Finish \/ Rerun \/ DowRefused
  <2>1. UNCHANGED <<job, curaction, curpos>>
    BY <1>11 DEF SetPcLater, Drain, Finish, Rerun, DowRefused
  <2>2. PosOK'
    BY <2>1, PosFrame
  <2> QED BY <1>11, <1>n, <2>1, <2>2
       DEF SetPcLater, Drain, Finish, Rerun, DowRefused, ShListMissing, TypeOK, Phases
<1>12. CASE SetPc
  <2>1. /\ curaction >= 3 /\ curaction < NumActions /\ BodyCur.op = "setpc"
        /\ curaction - 2 \in DOMAIN job.body /\ Len(job.body) \in Nat
        /\ job' = job /\ curaction' \in {curaction, curaction + 1} /\ curpos' = curpos
    BY <1>12, <1>t, BodyCurType DEF SetPc, InBody, LoopGuard
  <2>2. curaction - 2 = Len(job.body)
    BY <2>1, JobsAssumption DEF TypeOK, BodyCur
  <2>3. NumActions' = NumActions
        /\ (curaction' = curaction + 1 => curaction' = NumActions)
    BY <2>1, <2>2, <1>n, <1>t DEF NumActions
  <2>4. PosOK' /\ curaction' \in (0 .. NumActions)'
    <3>1. CASE curaction' = curaction + 1
      BY <2>1, <2>3, <3>1, <1>t DEF PosOK
    <3>2. CASE curaction' = curaction
      BY <2>1, <2>3, <3>2, PosFrame DEF TypeOK
    <3> QED BY <2>1, <3>1, <3>2
  <2>5. numreq' \in Nat /\ inflight' \subseteq Requests /\ IsFiniteSet(inflight')
    <3>1. CASE Send({Request("setpc", curaction, 0, 0)})
      <4>1. Request("setpc", curaction, 0, 0) \in Requests
        BY <1>t, RequestType
      <4> QED BY <3>1, <4>1, SendOne
    <3>2. CASE UNCHANGED <<numreq, inflight>>
      BY <3>2 DEF TypeOK
    <3> QED BY <1>12, <3>1, <3>2 DEF SetPc
  <2>6. err' \in Errors
    BY <1>12 DEF SetPc, TypeOK, Errors
  <2>7. UNCHANGED <<phase, curbytes, command, result, agent, target>>
    BY <1>12 DEF SetPc
  <2> QED BY <2>1, <2>4, <2>5, <2>6, <2>7 DEF TypeOK
<1>13. ASSUME NEW r \in inflight, Callback(r) PROVE TypeOK' /\ PosOK'
  <2>1. UNCHANGED <<job, curaction, curpos>> /\ inflight' = inflight \ {r}
    BY <1>13 DEF Callback, ReplyError, ReplyOk, DataReplyOk, DataReplyDivides, Answered
  <2>2. PosOK'
    BY <2>1, PosFrame
  <2>3. inflight' \subseteq Requests /\ IsFiniteSet(inflight')
    BY <1>13, <2>1, RemoveOne DEF TypeOK
  <2>4. r.size \in Nat
    BY <1>13 DEF TypeOK, Requests
  <2>5. numreq' \in Nat /\ phase' \in Phases
    <3>1. numreq - 1 \in Nat
      <4>1. Cardinality(inflight) \in Nat /\ Cardinality(inflight) >= 1
        BY <1>13, RemoveOne DEF TypeOK
      <4> QED BY <1>t, <4>1 DEF CountOK
    <3> QED BY <1>t, <1>13, <3>1
         DEF Callback, ReplyError, ReplyOk, DataReplyOk, DataReplyDivides, Settle,
             TypeOK, Phases
  <2>6. curbytes' \in Nat
    BY <1>t, <1>13, <2>4
       DEF Callback, ReplyError, ReplyOk, DataReplyOk, DataReplyDivides
  <2>8. err' \in Errors
    BY <1>13
       DEF Callback, ReplyError, ReplyOk, DataReplyOk, DataReplyDivides, NoteError,
           TypeOK, Errors
  <2>7. UNCHANGED <<result, agent, target, command>>
    BY <1>13 DEF Callback, ReplyError, ReplyOk, DataReplyOk, DataReplyDivides
  <2> QED BY <1>n, <2>1, <2>2, <2>3, <2>5, <2>6, <2>7, <2>8 DEF TypeOK
<1>14. ASSUME NEW r \in inflight, Agent(r) PROVE TypeOK' /\ PosOK'
  <2>1. UNCHANGED <<job, curaction, curpos>>
    BY <1>14 DEF Agent, AgentMemory, AgentSetPc, AgentSuspend
  <2>2. PosOK'
    BY <2>1, PosFrame
  <2>3. r \in Requests
    BY <1>14 DEF TypeOK
  <2>4. PICK st \in {"ok", "fail"} : inflight' = (inflight \ {r}) \cup {[r EXCEPT !.st = st]}
    BY <1>14 DEF Agent, AgentMemory, AgentSetPc, AgentSuspend
  <2>5. [r EXCEPT !.st = st] \in Requests
    BY <2>3 DEF Requests
  <2>6. inflight' \subseteq Requests /\ IsFiniteSet(inflight')
    BY <1>14, <2>4, <2>5, ReplaceOne DEF TypeOK
  <2>7. mem' \subseteq Nat \X Nat
    <3>1. BytesOf(r) \subseteq Nat \X Nat
      BY <2>3 DEF BytesOf, Requests
    <3> QED BY <1>14, <3>1 DEF Agent, AgentMemory, AgentSetPc, AgentSuspend, TypeOK
  <2> QED BY <1>n, <1>14, <2>1, <2>2, <2>6, <2>7
       DEF Agent, AgentMemory, AgentSetPc, AgentSuspend, TypeOK
<1>15. CASE TargetStops \/ DeliverStop \/ LoadState
  <2>1. UNCHANGED <<job, curaction, curpos>>
    BY <1>15 DEF TargetStops, DeliverStop, LoadState
  <2>2. PosOK'
    BY <2>1, PosFrame
  <2> QED BY <1>n, <1>15, <2>1, <2>2, ZenonT(30)
       DEF TargetStops, DeliverStop, LoadState, TypeOK, Phases
<1>16. CASE UNCHANGED vars
  <2>1. PosOK'
    BY <1>16, PosFrame DEF vars
  <2> QED BY <1>n, <1>16, <2>1 DEF vars, TypeOK
<1> QED
  BY <1>1, <1>2, <1>3, <1>4, <1>5, <1>6, <1>7, <1>8, <1>9, <1>10, <1>11, <1>12,
     <1>13, <1>14, <1>15, <1>16 DEF Next, Loop

-----------------------------------------------------------------------------
(***************************************************************************)
(* The count of requests.                                                  *)
(***************************************************************************)

\* No step loses count of a request, and the command becomes inactive only with
\* every request answered.
LEMMA CountStep == TypeInv /\ [Next]_vars => CountOK'
<1> SUFFICES ASSUME TypeOK, CountOK, TypeInv, [Next]_vars PROVE CountOK'
  BY DEF TypeInv
<1> USE DEF transaction, command, target, agent, Drained, Halted, Verdict, Acknowledged
<1>t. /\ IsFiniteSet(inflight) /\ inflight \subseteq Requests
      /\ numreq \in Nat /\ Cardinality(inflight) \in Nat
      /\ Cardinality(inflight) <= numreq
      /\ curaction \in Nat /\ curpos \in Nat
  BY NumActionsType, FS_CardinalityType DEF TypeOK, CountOK
<1>1. ASSUME NEW j \in Jobs, Dow(j) PROVE CountOK'
  <2>1. inflight' = inflight /\ inflight = {} /\ numreq' = 0
    BY <1>1 DEF Dow, CountOK, Active
  <2> QED BY <2>1, FS_EmptySet DEF CountOK
<1>2. ASSUME NEW r \in Requests, Send({r}), Active' PROVE CountOK'
  BY <1>t, <1>2, SendOne DEF CountOK
<1>3. CASE UNCHANGED <<numreq, inflight>> /\ Active'
  BY <1>3 DEF CountOK
<1>4. CASE InitMiss \/ InitFail \/ InitDone \/ Open \/ Progress \/ SetPcLater \/ Drain \/ Rerun
  <2>1. UNCHANGED <<numreq, inflight>> /\ Active'
    BY <1>4 DEF InitMiss, InitFail, InitDone, Open, Progress, SetPcLater, Drain, Rerun,
                Fail, LoopLeft, Active
  <2> QED BY <1>3, <2>1
<1>r. CASE DowRefused
  BY <1>t, <1>r DEF DowRefused, CountOK, Active
<1>5. CASE InitSuspend
  <2>1. Request("suspend", 0, 0, 0) \in Requests
    BY RequestType
  <2> QED BY <1>2, <1>5, <2>1 DEF InitSuspend, Active
<1>6. CASE Copy
  <2>1. Active'
    BY <1>6 DEF Copy, InBody, Active
  <2>2. CASE UNCHANGED <<numreq, inflight>>
    BY <1>3, <2>1, <2>2
  <2> DEFINE got == Min2(Min2(Chunk, BodyCur.size - curpos), BodyCur.avail - curpos)
  <2>3. CASE Send({Request("copy", curaction, curpos, got)})
    <3>a. /\ curpos <= BodyCur.size /\ curpos <= BodyCur.avail
          /\ BodyCur.size \in Nat /\ BodyCur.avail \in Nat
      BY <1>6, <1>t, BodyCurType DEF Copy, InBody, LoopGuard, TypeInv, PosOK, BodyAction
    <3>1. got \in Nat
      BY <1>t, <3>a, WindowAssumption DEF Min2
    <3>2. Request("copy", curaction, curpos, got) \in Requests
      BY <1>t, <3>1, RequestType
    <3> QED BY <1>2, <2>1, <2>3, <3>2
  <2> QED BY <1>6, <2>2, <2>3 DEF Copy, Fail
<1>7. CASE Clear
  <2> DEFINE size == Min2(BodyCur.size - curpos, Chunk)
  <2>a. curpos <= BodyCur.size /\ BodyCur.size \in Nat
    BY <1>7, <1>t, BodyCurType DEF Clear, InBody, LoopGuard, TypeInv, PosOK, BodyAction
  <2>1. size \in Nat
    BY <1>t, <2>a, WindowAssumption DEF Min2
  <2>2. Request("clear", curaction, curpos, size) \in Requests
    BY <1>t, <2>1, RequestType
  <2> QED BY <1>2, <1>7, <2>2 DEF Clear, InBody, Active
<1>8. CASE Profile
  <2>a. Active'
    BY <1>8 DEF Profile, InBody, Active
  <2>r. CASE Fail("rc")
    BY <1>3, <2>a, <2>r DEF Fail
  <2>1. CASE ~Fail("rc")
   <3>1. PICK k \in 0 .. (BodyCur.size * ProfWrites) :
           Send({Request("profile", curaction, i, 0) : i \in 0 .. (k - 1)})
     BY <1>8, <2>1 DEF Profile
   <3> DEFINE S == {Request("profile", curaction, i, 0) : i \in 0 .. (k - 1)}
   <3>3. IsFiniteSet(S)
     BY <1>t, ProfileRequests
   <3>4. inflight' = inflight \cup S /\ numreq' = numreq + Cardinality(S)
     BY <3>1 DEF Send
   <3>5. Cardinality(inflight') <= numreq'
     <4> HIDE DEF S
     <4>1. /\ Cardinality(inflight \cup S) <= Cardinality(inflight) + Cardinality(S)
           /\ Cardinality(inflight \cup S) \in Nat /\ Cardinality(S) \in Nat
       BY <1>t, <3>3, AddMany
     <4> QED BY <1>t, <3>4, <4>1
   <3> QED BY <2>a, <3>5 DEF CountOK
  <2> QED BY <2>r, <2>1
<1>9. CASE SetPc
  <2>1. Active'
    BY <1>9 DEF SetPc, InBody, Active
  <2>2. Request("setpc", curaction, 0, 0) \in Requests
    BY <1>t, RequestType
  <2> QED BY <1>2, <1>3, <1>9, <2>1, <2>2 DEF SetPc
<1>10. CASE Finish
  <2>a. numreq = 0
    BY <1>10 DEF Finish
  <2>2. inflight = {}
    BY <1>t, <2>a, NoneLeft
  <2>3. inflight' = {} /\ numreq' = numreq /\ Cardinality(inflight') = 0
    BY <1>10, <2>2, FS_EmptySet DEF Finish
  <2> QED BY <1>t, <2>3 DEF CountOK
<1>11. ASSUME NEW r \in inflight, Callback(r) PROVE CountOK'
  <2>1. inflight' = inflight \ {r} /\ numreq' \in {numreq, numreq - 1} /\ Active'
    BY <1>11 DEF Callback, ReplyError, ReplyOk, DataReplyOk, DataReplyDivides, Answered,
                 Settle, Active
  <2>2. Cardinality(inflight') = Cardinality(inflight) - 1
    BY <1>11, <1>t, <2>1, RemoveOne
  <2> QED BY <1>t, <2>1, <2>2 DEF CountOK
<1>12. ASSUME NEW r \in inflight, Agent(r) PROVE CountOK'
  <2>1. PICK st \in {"ok", "fail"} : inflight' = (inflight \ {r}) \cup {[r EXCEPT !.st = st]}
    BY <1>12 DEF Agent, AgentMemory, AgentSetPc, AgentSuspend
  <2>2. Cardinality(inflight') <= Cardinality(inflight) /\ Cardinality(inflight') \in Nat
    BY <1>12, <1>t, <2>1, ReplaceOne
  <2>3. numreq' = numreq /\ phase' = phase
    BY <1>12 DEF Agent, AgentMemory, AgentSetPc, AgentSuspend
  <2>4. Active'
    BY <1>12, <2>3 DEF CountOK, Active
  <2> QED BY <1>t, <2>2, <2>3, <2>4 DEF CountOK
<1>13. CASE TargetStops \/ DeliverStop \/ LoadState \/ UNCHANGED vars
  <2>1. UNCHANGED <<numreq, inflight>> /\ (Active => Active')
    BY <1>13 DEF TargetStops, DeliverStop, LoadState, vars, Active
  <2>2. ~Active => inflight = {}
    BY DEF CountOK
  <2> QED BY <1>t, <2>1, <2>2 DEF CountOK
<1> QED
  BY <1>1, <1>r, <1>4, <1>5, <1>6, <1>7, <1>8, <1>9, <1>10, <1>11, <1>12, <1>13
     DEF Next, Loop

LEMMA TypeInvariant == Spec => []TypeInv
<1>1. TypeInv /\ [Next]_vars => TypeInv'
  BY TypeStep, CountStep DEF TypeInv
<1> QED BY <1>1, TypeInit, PTL DEF Spec

\* The variables keep their types: in particular numreq never becomes negative,
\* no chunk has a negative size and no action index leaves the list.
THEOREM TypeCorrect == Spec => []TypeOK
<1>1. TypeInv => TypeOK BY DEF TypeInv
<1> QED BY <1>1, TypeInvariant, PTL

\* When dow returns and unsets arg (line 776), the callback of every request it
\* sent has run, whatever failed and in whatever order the agent answered.
THEOREM NoReplyOutlivesArg == Spec => []NoDanglingReply
<1>1. TypeInv => NoDanglingReply BY DEF TypeInv, CountOK, NoDanglingReply
<1> QED BY <1>1, TypeInvariant, PTL

\* The assertion of the callbacks, numreq > 0, never fails.
THEOREM CallbackAssertions == Spec => []NumReqAssertion
<1>1. ASSUME TypeInv, inflight # {} PROVE numreq > 0
  <2>1. IsFiniteSet(inflight) /\ numreq \in Nat /\ Cardinality(inflight) <= numreq
    BY <1>1 DEF TypeInv, TypeOK, CountOK
  <2>2. Cardinality(inflight) \in Nat /\ Cardinality(inflight) # 0
    BY <1>1, <2>1, FS_EmptySet, FS_CardinalityType
  <2> QED BY <2>1, <2>2
<1>2. TypeInv => NumReqAssertion BY <1>1 DEF NumReqAssertion
<1> QED BY <1>2, TypeInvariant, PTL

-----------------------------------------------------------------------------
(***************************************************************************)
(* What has been requested reaches the target: the PC is set over a loaded *)
(* memory and success is reported for one.                                 *)
(***************************************************************************)

\* Byte b of body action i has been requested by the loop.
Requested(i, b) ==
  \/ i + 2 < curaction
  \/ i + 2 = curaction /\ b < curpos

\* A request that is not a copy or a clear carries no bytes and one that the
\* agent has carried out has written its bytes.
AckOK ==
  \A r \in inflight :
    /\ r.op \notin {"copy", "clear"} => r.size = 0
    /\ r.st = "ok" => BytesOf(r) \subseteq mem

\* While there is no error, every byte requested is written or is still the
\* business of an unanswered request.
CoverOK ==
  Active /\ err = "" =>
    \A i \in DOMAIN job.body : \A b \in Nat :
      <<i + 2, b>> \in BytesOfAction(i) /\ Requested(i, b) =>
        <<i + 2, b>> \in mem \/ \E r \in inflight : <<i + 2, b>> \in BytesOf(r)

\* The run that opens the file is the one in which "init" was done, and nothing is
\* outstanding in it before the body.
OpeningOK ==
  /\ Active /\ curaction = 0 =>
       \/ numreq = 0
       \/ phase = "waiting" /\ view # "unknown" /\ numreq = 1
  /\ Active /\ curaction \in {1, 2} =>
       opening /\ phase \in {"running", "leaving"} /\ numreq = 0

\* The loop is left by break with a request outstanding, or by the abort in "progress".
EndOK == phase = "leaving" => err = "" /\ (numreq = 0 => curaction = 2)

LoadInv ==
  TypeInv /\ AckOK /\ CoverOK /\ OpeningOK /\ EndOK /\ PcAfterLoad /\ SuccessMeansLoaded

\* The bytes of an action of the body.
LEMMA BytesType ==
  ASSUME TypeOK, NEW i \in DOMAIN job.body, NEW c \in BytesOfAction(i)
  PROVE  /\ i \in Nat
         /\ job.body[i] \in BodyAction
         /\ job.body[i].op \in {"copy", "clear"}
         /\ c[2] \in Nat /\ c[2] < job.body[i].size
         /\ c = <<i + 2, c[2]>>
<1>1. job.body \in Seq(BodyAction)
  BY JobsAssumption DEF TypeOK, Job
<1>2. i \in Nat /\ job.body[i] \in BodyAction
  BY <1>1
<1>3. job.body[i].size \in Nat
  BY <1>2 DEF BodyAction
<1>4. job.body[i].op \in {"copy", "clear"}
      /\ c \in {<<i + 2, b>> : b \in 0 .. (job.body[i].size - 1)}
  BY DEF BytesOfAction
<1>5. PICK b \in 0 .. (job.body[i].size - 1) : c = <<i + 2, b>>
  BY <1>4
<1> QED BY <1>2, <1>3, <1>4, <1>5

\* With every body action requested and every request answered, all is loaded.
LEMMA CoverLoaded ==
  ASSUME TypeInv, CoverOK, Active, err = "", numreq = 0,
         \A i \in DOMAIN job.body : BytesOfAction(i) # {} => i + 2 < curaction
  PROVE  Loaded /\ inflight = {}
<1>1. IsFiniteSet(inflight) /\ Cardinality(inflight) <= 0
  BY DEF TypeInv, TypeOK, CountOK
<1>3. inflight = {}
  BY <1>1, NoneLeft
<1>4. ASSUME NEW i \in DOMAIN job.body, NEW c \in BytesOfAction(i) PROVE c \in mem
  <2>1. c = <<i + 2, c[2]>> /\ c[2] \in Nat
    BY BytesType DEF TypeInv
  <2>2. Requested(i, c[2])
    BY DEF Requested
  <2> QED BY <1>3, <2>1, <2>2 DEF CoverOK
<1> QED BY <1>3, <1>4 DEF Loaded

\* A step that requests nothing of the body, loses no written byte and drops
\* only requests whose bytes are written, keeps CoverOK.
LEMMA CoverFrame ==
  ASSUME CoverOK, AckOK, Active, UNCHANGED <<job, curaction, curpos>>,
         err' = "" => err = "",
         mem \subseteq mem',
         err' = "" => \A r \in inflight : \/ BytesOf(r) \subseteq mem'
                                          \/ \E q \in inflight' : BytesOf(q) = BytesOf(r)
  PROVE  CoverOK'
<1> SUFFICES ASSUME err' = "", NEW i \in DOMAIN job.body, NEW b \in Nat,
                    <<i + 2, b>> \in BytesOfAction(i), Requested(i, b)
             PROVE  <<i + 2, b>> \in mem' \/ \E r \in inflight' : <<i + 2, b>> \in BytesOf(r)
  BY DEF CoverOK, BytesOfAction, Requested, BytesOf
<1>1. <<i + 2, b>> \in mem \/ \E r \in inflight : <<i + 2, b>> \in BytesOf(r)
  BY DEF CoverOK
<1> QED BY <1>1

\* Bytes that a step adds to the requested ones belong to the current action.
LEMMA RequestedNext ==
  ASSUME curaction \in Nat, curpos \in Nat, NEW i \in Nat, NEW b \in Nat,
         curaction' = curaction \/ (curaction' = curaction + 1 /\ curpos' = 0),
         Requested(i, b)', ~Requested(i, b)
  PROVE  /\ i = curaction - 2 /\ i + 2 = curaction
         /\ ~(b < curpos)
         /\ curaction' > curaction \/ b < curpos'
<1>1. \/ i + 2 < curaction'
      \/ i + 2 = curaction' /\ b < curpos'
  BY DEF Requested
<1>2. ~(i + 2 < curaction) /\ ~(i + 2 = curaction /\ b < curpos)
  BY DEF Requested
<1>3. CASE curaction' = curaction
  BY <1>1, <1>2, <1>3
<1>4. CASE curaction' = curaction + 1 /\ curpos' = 0
  BY <1>1, <1>2, <1>4
<1> QED BY <1>3, <1>4

\* The bytes of the current action that the step requests are in flight after it.
NewBytesInFlight ==
  \A b \in Nat :
    /\ <<curaction, b>> \in BytesOfAction(curaction - 2)
    /\ curaction' > curaction \/ b < curpos'
    => b < curpos \/ \E r \in inflight' : <<curaction, b>> \in BytesOf(r)

\* A step of the loop that requests the bytes of one more chunk, or completes
\* an action whose bytes have all been requested, keeps CoverOK.
LEMMA CoverAdvance ==
  ASSUME TypeInv, CoverOK, Active, err = "", UNCHANGED <<job, mem>>,
         inflight \subseteq inflight',
         curaction >= 3, curaction < NumActions,
         NewBytesInFlight,
         \/ curaction' = curaction
         \/ curaction' = curaction + 1 /\ curpos' = 0
  PROVE  CoverOK'
<1> SUFFICES ASSUME NEW i \in DOMAIN job.body, NEW b \in Nat,
                    <<i + 2, b>> \in BytesOfAction(i), Requested(i, b)'
             PROVE  <<i + 2, b>> \in mem \/ \E r \in inflight' : <<i + 2, b>> \in BytesOf(r)
  BY DEF CoverOK, BytesOfAction, BytesOf
<1>1. curaction \in Nat /\ curpos \in Nat /\ i \in Nat
  BY BytesType, NumActionsType DEF TypeInv, TypeOK
<1>2. CASE Requested(i, b)
  BY <1>2 DEF CoverOK
<1>3. CASE ~Requested(i, b)
  <2>1. /\ i = curaction - 2 /\ i + 2 = curaction
        /\ ~(b < curpos)
        /\ curaction' > curaction \/ b < curpos'
    BY <1>1, <1>3, RequestedNext
  <2> QED BY <2>1 DEF NewBytesInFlight
<1> QED BY <1>2, <1>3

LEMMA LoadInit == Init => LoadInv
<1> SUFFICES ASSUME Init PROVE LoadInv
  OBVIOUS
<1>1. inflight = {} /\ phase = "idle" /\ result = "none" /\ pcset = FALSE
  BY DEF Init
<1> QED BY <1>1, TypeInit
        DEF LoadInv, AckOK, CoverOK, OpeningOK, EndOK, PcAfterLoad, SuccessMeansLoaded, Active

\* What the requests of a step must satisfy to keep AckOK.
LEMMA AckFrame ==
  ASSUME AckOK, mem \subseteq mem',
         \A r \in inflight' :
           r \in inflight \/ (r.st = "sent" /\ (r.op \notin {"copy", "clear"} => r.size = 0))
  PROVE  AckOK'
BY DEF AckOK, BytesOf

\* The actions of the loop keep AckOK.
LEMMA AckLoop == ASSUME TypeInv, AckOK, Loop PROVE AckOK'
<1> USE DEF transaction, command, target, agent, Drained, Halted, Verdict, Acknowledged
<1>t. curaction \in Nat /\ curpos \in Nat
  BY NumActionsType DEF TypeInv, TypeOK
<1>1. mem' = mem
  BY DEF Loop, InitMiss, InitSuspend, InitFail, InitDone, Open, Progress, Copy, Clear,
         Profile, SetPcLater, SetPc
<1>2. CASE InitMiss \/ InitFail \/ InitDone \/ Open \/ Progress \/ SetPcLater
  BY <1>1, <1>2, AckFrame DEF InitMiss, InitFail, InitDone, Open, Progress, SetPcLater, Fail
<1>3. CASE InitSuspend
  BY <1>1, <1>3, AckFrame DEF InitSuspend, Send, Request
<1>4. CASE Copy
  <2>1. \/ inflight' = inflight
        \/ \E n : inflight' = inflight \cup {Request("copy", curaction, curpos, n)}
    BY <1>4 DEF Copy, Send, Fail
  <2> QED BY <1>1, <2>1, AckFrame DEF Request
<1>5. CASE Clear
  BY <1>1, <1>5, AckFrame DEF Clear, Send, Request
<1>6. CASE Profile
  <2>1. \/ inflight' = inflight
        \/ \E n : inflight' = inflight \cup {Request("profile", curaction, i, 0) : i \in 0 .. (n - 1)}
    BY <1>6 DEF Profile, Send, Fail
  <2> QED BY <1>1, <2>1, AckFrame DEF Request
<1>7. CASE SetPc
  BY <1>1, <1>7, AckFrame DEF SetPc, Send, Request
<1> QED BY <1>2, <1>3, <1>4, <1>5, <1>6, <1>7 DEF Loop

\* The chunk that copy takes from a position in range.
LEMMA CopyChunk ==
  ASSUME NEW p \in Nat, NEW size \in Nat, NEW avail \in Nat, p <= size, p <= avail
  PROVE  Min2(Min2(Chunk, size - p), avail - p) \in Nat
BY WindowAssumption DEF Min2

LEMMA EqualBounds == ASSUME NEW x \in Nat, NEW y, y = x PROVE x <= y
OBVIOUS

\* The chunk that clear takes, and when the range is used up.
LEMMA ClearChunk ==
  ASSUME NEW p \in Nat, NEW size \in Nat, p <= size
  PROVE  /\ Min2(size - p, Chunk) \in Nat
         /\ size - p = 0 => size <= p + Min2(size - p, Chunk)
BY WindowAssumption DEF Min2

\* A step that sends one chunk and moves the position past it.
LEMMA ChunkCover ==
  ASSUME NEW req \in inflight', NEW n \in Nat,
         TypeOK, curaction >= 3, curaction < NumActions,
         req.act = curaction, req.pos = curpos, req.size = n,
         \/ curaction' = curaction /\ curpos' = curpos + n
         \/ curaction' = curaction + 1 /\ BodyCur.size <= curpos + n
  PROVE  NewBytesInFlight
<1> SUFFICES ASSUME NEW b \in Nat, <<curaction, b>> \in BytesOfAction(curaction - 2),
                    curaction' > curaction \/ b < curpos', ~(b < curpos)
             PROVE  <<curaction, b>> \in BytesOf(req)
  BY DEF NewBytesInFlight
<1>1. curaction \in Nat /\ curpos \in Nat /\ BodyCur.size \in Nat
      /\ curaction - 2 \in DOMAIN job.body
  BY NumActionsType, BodyCurType DEF BodyAction, TypeOK
<1>2. b < BodyCur.size
  <2>1. PICK d \in 0 .. (BodyCur.size - 1) : <<curaction, b>> = <<curaction - 2 + 2, d>>
    BY DEF BytesOfAction, BodyCur
  <2> QED BY <1>1, <2>1
<1>3. b \in curpos .. (curpos + n - 1)
  <2>1. CASE curaction' = curaction /\ curpos' = curpos + n
    BY <1>1, <2>1
  <2>2. CASE curaction' = curaction + 1 /\ BodyCur.size <= curpos + n
    BY <1>1, <1>2, <2>2
  <2> QED BY <2>1, <2>2
<1> QED BY <1>3 DEF BytesOf

LEMMA AckStep == LoadInv /\ [Next]_vars => AckOK'
<1> SUFFICES ASSUME TypeInv, AckOK, [Next]_vars PROVE AckOK'
  BY DEF LoadInv
<1> USE DEF transaction, command, target, agent, Drained, Halted, Verdict, Acknowledged
<1>1. ASSUME NEW j \in Jobs, Dow(j) PROVE AckOK'
  <2>1. inflight' = {}
    BY <1>1 DEF Dow, TypeInv, CountOK, Active
  <2> QED BY <2>1 DEF AckOK
<1>2. CASE Loop
  BY <1>2, AckLoop
<1>3. CASE DowRefused \/ Drain \/ Finish \/ Rerun \/ TargetStops \/ DeliverStop \/ LoadState \/ UNCHANGED vars
  <2>1. inflight' = inflight /\ mem' = mem
    BY <1>3 DEF DowRefused, Drain, Finish, Rerun, TargetStops, DeliverStop, LoadState, vars
  <2> QED BY <2>1, AckFrame
<1>4. ASSUME NEW r \in inflight, Callback(r) PROVE AckOK'
  <2>1. inflight' \subseteq inflight /\ mem' = mem
    BY <1>4 DEF Callback, ReplyError, ReplyOk, DataReplyOk, DataReplyDivides, Answered
  <2> QED BY <2>1, AckFrame
<1>5. ASSUME NEW r \in inflight, Agent(r) PROVE AckOK'
  <2>1. r \in Requests
    BY <1>5 DEF TypeInv, TypeOK
  <2>2. PICK st \in {"ok", "fail"} :
          /\ inflight' = (inflight \ {r}) \cup {[r EXCEPT !.st = st]}
          /\ mem \subseteq mem'
          /\ st = "ok" => BytesOf(r) \subseteq mem'
    <3>1. CASE AgentMemory(r)
      BY <3>1 DEF AgentMemory
    <3>2. BytesOf(r) = {} \/ r.op \in {"copy", "clear", "profile"}
      BY <2>1, <1>5 DEF BytesOf, Requests, AckOK
    <3>3. CASE AgentSetPc(r)
      BY <3>2, <3>3 DEF AgentSetPc
    <3>4. CASE AgentSuspend(r)
      BY <3>2, <3>4 DEF AgentSuspend
    <3> QED BY <1>5, <3>1, <3>3, <3>4 DEF Agent
  <2> DEFINE q == [r EXCEPT !.st = st]
  <2>3. /\ q.op = r.op /\ q.act = r.act /\ q.pos = r.pos /\ q.size = r.size /\ q.st = st
        /\ BytesOf(q) = BytesOf(r)
    BY <2>1 DEF Requests, BytesOf
  <2>4. q.op \notin {"copy", "clear"} => q.size = 0
    BY <1>5, <2>3 DEF AckOK
  <2>5. q.st = "ok" => BytesOf(q) \subseteq mem'
    BY <2>2, <2>3
  <2>6. \A s \in inflight : BytesOf(s)' = BytesOf(s)
    BY DEF BytesOf
  <2>7. BytesOf(q)' = BytesOf(q)
    BY DEF BytesOf
  <2> HIDE DEF q
  <2>8. \A s \in inflight \ {r} :
          /\ s.op \notin {"copy", "clear"} => s.size = 0
          /\ s.st = "ok" => BytesOf(s) \subseteq mem'
    BY <2>2 DEF AckOK
  <2> QED BY <2>2, <2>4, <2>5, <2>8 DEF AckOK, BytesOf, q
<1> QED BY <1>1, <1>2, <1>3, <1>4, <1>5 DEF Next

LEMMA EndStep == LoadInv /\ [Next]_vars => EndOK'
<1> SUFFICES ASSUME TypeInv, EndOK, [Next]_vars PROVE EndOK'
  BY DEF LoadInv
<1> USE DEF transaction, command, target, agent, Drained, Halted, Verdict, Acknowledged
<1>1. CASE \E j \in Jobs : Dow(j)
  BY <1>1 DEF Dow, EndOK
<1>2. CASE Loop
  <2>1. CASE Progress
    BY <2>1 DEF Progress, EndOK, LoopGuard
  <2>2. CASE SetPcLater
    <3>1. numreq' = numreq /\ numreq # 0
      BY <2>2 DEF SetPcLater, TypeInv, TypeOK
    <3> QED BY <2>2, <3>1 DEF SetPcLater, InBody, EndOK, LoopGuard
  <2>3. CASE InitMiss \/ InitSuspend \/ InitFail \/ InitDone \/ Open
    BY <2>3 DEF InitMiss, InitSuspend, InitFail, InitDone, Open, EndOK
  <2>4. CASE Copy \/ Clear \/ Profile \/ SetPc
    BY <2>4 DEF Copy, Clear, Profile, SetPc, InBody, EndOK
  <2> QED BY <1>2, <2>1, <2>2, <2>3, <2>4 DEF Loop
<1>3. CASE DowRefused \/ Drain \/ Finish \/ Rerun \/ TargetStops \/ DeliverStop \/ LoadState \/ UNCHANGED vars
  BY <1>3 DEF DowRefused, Drain, Finish, Rerun, TargetStops, DeliverStop, LoadState, vars, EndOK, LoopLeft
<1>4. CASE \E r \in inflight : Callback(r)
  BY <1>4 DEF Callback, ReplyError, ReplyOk, DataReplyOk, DataReplyDivides, Answered, Settle,
              EndOK
<1>5. ASSUME NEW r \in inflight, Agent(r) PROVE EndOK'
  <2>1. UNCHANGED <<transaction, phase>>
    BY <1>5 DEF Agent, AgentMemory, AgentSetPc, AgentSuspend
  <2> QED BY <2>1 DEF EndOK
<1> QED BY <1>1, <1>2, <1>3, <1>4, <1>5 DEF Next

LEMMA OpeningStep == LoadInv /\ [Next]_vars => OpeningOK'
<1> SUFFICES ASSUME TypeInv, OpeningOK, [Next]_vars PROVE OpeningOK'
  BY DEF LoadInv
<1> USE DEF transaction, command, target, agent, Drained, Halted, Verdict, Acknowledged
<1>t. curaction \in Nat /\ numreq \in Nat
  BY NumActionsType DEF TypeInv, TypeOK
<1>1. CASE \/ \E j \in Jobs : Dow(j)
           \/ DowRefused
  <2>1. (curaction' = 0 /\ numreq' = 0) \/ ~Active'
    BY <1>1 DEF Dow, DowRefused, Active
  <2> QED BY <2>1 DEF OpeningOK
<1>2. CASE InitMiss \/ InitFail \/ InitDone
  <2>1. curaction = 0 /\ numreq = 0 /\ numreq' = numreq /\ phase = "running"
    BY <1>2 DEF InitMiss, InitFail, InitDone, Fail, OpeningOK, Active
  <2>2. curaction' = 0 \/ (curaction' = 1 /\ opening' /\ phase' = "running")
    BY <1>2, <2>1 DEF InitMiss, InitFail, InitDone, Fail, NextAction
  <2> QED BY <2>1, <2>2 DEF OpeningOK
<1>3. CASE InitSuspend
  <2>1. Request("suspend", 0, 0, 0) \in Requests
    BY RequestType
  <2>2. numreq' = numreq + 1
    BY <1>3, <2>1, SendOne DEF InitSuspend, TypeInv
  <2>3. numreq = 0
    BY <1>3 DEF InitSuspend, OpeningOK, Active
  <2> QED BY <1>3, <2>2, <2>3 DEF InitSuspend, OpeningOK, Active
<1>4. CASE Open \/ Progress
  BY <1>4, <1>t DEF Open, Progress, Fail, NextAction, OpeningOK, Active
<1>5. CASE Copy \/ Clear \/ Profile \/ SetPc \/ SetPcLater
  <2>1. curaction >= 3 /\ curaction' \in {curaction, curaction + 1}
    BY <1>5 DEF Copy, Clear, Profile, SetPc, SetPcLater, InBody, NextAction, Fail
  <2>2. curaction' \notin {0, 1, 2}
    BY <1>t, <2>1
  <2> QED BY <2>2 DEF OpeningOK
<1>6. CASE Drain \/ Rerun
  <2>1. UNCHANGED <<curaction, numreq, view>> /\ Active
    BY <1>6 DEF Drain, Rerun, LoopLeft, Active
  <2>2. phase # "waiting"
    BY <1>6 DEF Drain, Rerun, LoopLeft
  <2>3. curaction \notin {1, 2}
    BY <1>6, <1>t, <2>1 DEF Drain, Rerun, OpeningOK
  <2> QED BY <2>1, <2>2, <2>3 DEF OpeningOK
<1>10. CASE Finish
  BY <1>10 DEF Finish, OpeningOK, Active
<1>7. ASSUME NEW r \in inflight, Callback(r) PROVE OpeningOK'
  <2>1. numreq > 0
    <3>1. IsFiniteSet(inflight) /\ Cardinality(inflight) <= numreq
      BY DEF TypeInv, TypeOK, CountOK
    <3>2. Cardinality(inflight) \in Nat /\ Cardinality(inflight) >= 1
      BY <3>1, <1>7, RemoveOne
    <3> QED BY <1>t, <3>1, <3>2
  <2>2. CASE DataReplyDivides(r)
    BY <1>7, <2>2 DEF DataReplyDivides, Answered, OpeningOK, Active
  <2>3. CASE ReplyError(r) \/ ReplyOk(r) \/ DataReplyOk(r)
    <3>1. /\ phase \in {"waiting", "notified"} /\ numreq' = numreq - 1 /\ phase' = "notified"
          /\ UNCHANGED <<curaction, view>>
      BY <2>3 DEF ReplyError, ReplyOk, DataReplyOk, Answered, Settle
    <3> QED BY <1>t, <2>1, <3>1 DEF OpeningOK, Active
  <2> QED BY <1>7, <2>2, <2>3 DEF Callback
<1>8. ASSUME NEW r \in inflight, Agent(r) PROVE OpeningOK'
  <2>1. UNCHANGED <<transaction, phase, view, opening>>
    BY <1>8 DEF Agent, AgentMemory, AgentSetPc, AgentSuspend
  <2> QED BY <2>1 DEF OpeningOK, Active
<1>9. CASE TargetStops \/ DeliverStop \/ LoadState \/ UNCHANGED vars
  BY <1>9, <1>t DEF TargetStops, DeliverStop, LoadState, vars, OpeningOK, Active
<1> QED
  BY <1>1, <1>2, <1>3, <1>4, <1>5, <1>6, <1>7, <1>8, <1>9, <1>10 DEF Next, Loop

LEMMA CoverStep == LoadInv /\ [Next]_vars => CoverOK'
<1> SUFFICES ASSUME TypeInv, AckOK, CoverOK, [Next]_vars PROVE CoverOK'
  BY DEF LoadInv
<1> USE DEF transaction, command, target, agent, Drained, Halted, Verdict, Acknowledged
<1>t. curaction \in Nat /\ curpos \in Nat /\ TypeOK
  BY NumActionsType DEF TypeInv, TypeOK
\* A step that makes the command fail, or ends it, has nothing to show.
<1>f. err' # "" \/ ~Active' => CoverOK'
  BY DEF CoverOK
\* A step that requests nothing and loses no request.
<1>k. ASSUME Active, UNCHANGED <<job, curaction, curpos, err, mem>>, inflight \subseteq inflight'
      PROVE  CoverOK'
  BY <1>k, CoverFrame
\* Before the body nothing is requested.
<1>b. ASSUME curaction' \in Nat, curaction' <= 3, curpos' = 0 \/ curaction' < 3 PROVE CoverOK'
  <2>1. ASSUME NEW i \in DOMAIN job'.body, NEW b \in Nat PROVE ~Requested(i, b)'
    <3>1. i \in Nat /\ i >= 1
      <4>1. job'.body \in Seq(BodyAction)
        BY TypeStep, JobsAssumption DEF LoadInv, TypeInv, TypeOK, Job
      <4> QED BY <4>1
    <3> QED BY <1>b, <3>1 DEF Requested
  <2> QED BY <2>1 DEF CoverOK
<1>1. CASE \E j \in Jobs : Dow(j)
  <2>1. curaction' = 0
    BY <1>1 DEF Dow
  <2> QED BY <1>b, <2>1
<1>2. CASE InitMiss \/ InitSuspend \/ InitFail \/ InitDone
  BY <1>2, <1>b, <1>t DEF InitMiss, InitSuspend, InitFail, InitDone, Fail, NextAction
<1>3. CASE Open
  <2>1. curaction = 1 /\ curaction' \in {1, 2}
    BY <1>3 DEF Open, Fail, NextAction
  <2> QED BY <1>b, <2>1
<1>4. CASE Progress
  <2>1. curaction = 2 /\ curpos' = 0 /\ curaction' \in {2, 3}
    BY <1>4 DEF Progress, TypeInv, PosOK
  <2> QED BY <1>b, <2>1
<1>5. CASE Copy
  <2> DEFINE got == Min2(Min2(Chunk, BodyCur.size - curpos), BodyCur.avail - curpos)
             req == Request("copy", curaction, curpos, got)
  <2>1. CASE err' = "read"
    BY <1>f, <2>1
  <2>2. CASE /\ Send({req})
             /\ IF curpos + got = BodyCur.size THEN NextAction
                ELSE curpos' = curpos + got /\ UNCHANGED curaction
             /\ UNCHANGED err
    <3>1. /\ curaction >= 3 /\ curaction < NumActions /\ err = "" /\ Active
          /\ curpos <= BodyCur.size /\ curpos <= BodyCur.avail
          /\ BodyCur.size \in Nat /\ BodyCur.avail \in Nat
      BY <1>5, <1>t, BodyCurType
         DEF Copy, InBody, LoopGuard, TypeInv, PosOK, BodyAction, Active
    <3>2. got \in Nat
      BY <1>t, <3>1, CopyChunk
    <3>3. req \in inflight' /\ inflight \subseteq inflight'
      BY <2>2 DEF Send
    <3>4. req.act = curaction /\ req.pos = curpos /\ req.size = got
      BY DEF Request
    <3> HIDE DEF got, req
    <3>5. \/ curaction' = curaction /\ curpos' = curpos + got
          \/ curaction' = curaction + 1 /\ curpos' = 0 /\ BodyCur.size <= curpos + got
      <4>1. CASE curpos + got = BodyCur.size
        <5>1. BodyCur.size <= curpos + got
          BY <3>1, <4>1, EqualBounds
        <5> QED BY <2>2, <4>1, <5>1 DEF NextAction
      <4>2. CASE curpos + got # BodyCur.size
        BY <2>2, <4>2
      <4> QED BY <4>1, <4>2
    <3>6. NewBytesInFlight
      BY <1>t, <3>1, <3>2, <3>3, <3>4, <3>5, ChunkCover
    <3>7. UNCHANGED <<job, mem>>
      BY <1>5 DEF Copy
    <3> QED BY <3>1, <3>3, <3>5, <3>6, <3>7, CoverAdvance
  <2> QED BY <1>5, <2>1, <2>2 DEF Copy, Fail
<1>6. CASE Clear
  <2> DEFINE rest == BodyCur.size - curpos
             size == Min2(rest, Chunk)
             req == Request("clear", curaction, curpos, size)
  <2>1. /\ curaction >= 3 /\ curaction < NumActions /\ err = "" /\ Active
        /\ curpos <= BodyCur.size /\ BodyCur.size \in Nat
    BY <1>6, <1>t, BodyCurType
       DEF Clear, InBody, LoopGuard, TypeInv, PosOK, BodyAction, Active
  <2>2. /\ Send({req})
        /\ IF rest = 0 THEN NextAction
           ELSE curpos' = curpos + size /\ UNCHANGED curaction
        /\ UNCHANGED <<job, mem, err>>
    BY <1>6 DEF Clear
  <2>3. size \in Nat /\ (rest = 0 => BodyCur.size <= curpos + size)
    BY <1>t, <2>1, ClearChunk
  <2>5. req \in inflight' /\ inflight \subseteq inflight'
    BY <2>2 DEF Send
  <2>6. req.act = curaction /\ req.pos = curpos /\ req.size = size
    BY DEF Request
  <2> HIDE DEF size, req, rest
  <2>7. \/ curaction' = curaction /\ curpos' = curpos + size
        \/ curaction' = curaction + 1 /\ curpos' = 0 /\ BodyCur.size <= curpos + size
    <3>1. CASE rest = 0
      BY <2>2, <2>3, <3>1 DEF NextAction
    <3>2. CASE rest # 0
      BY <2>2, <3>2
    <3> QED BY <3>1, <3>2
  <2>8. NewBytesInFlight
    BY <1>t, <2>1, <2>3, <2>5, <2>6, <2>7, ChunkCover
  <2> QED BY <2>1, <2>2, <2>5, <2>7, <2>8, CoverAdvance
<1>7. CASE Profile \/ SetPc
  <2>1. /\ curaction >= 3 /\ curaction < NumActions /\ err = "" /\ Active
        /\ BodyCur.op \notin {"copy", "clear"} /\ curpos = 0
    <3>1. /\ curaction >= 3 /\ curaction < NumActions /\ err = "" /\ Active
          /\ BodyCur.op \in {"profile", "setpc"}
      BY <1>7 DEF Profile, SetPc, InBody, LoopGuard, Active
    <3> QED BY <3>1 DEF TypeInv, PosOK
  <2>2. NewBytesInFlight
    BY <2>1 DEF NewBytesInFlight, BytesOfAction, BodyCur
  <2>3. inflight \subseteq inflight' /\ UNCHANGED <<job, mem>>
    BY <1>7 DEF Profile, SetPc, Send, Fail
  <2>4. \/ err' # ""
        \/ curaction' = curaction + 1 /\ curpos' = 0
    BY <1>7, <2>1 DEF Profile, SetPc, NextAction, Fail
  <2> QED BY <1>f, <2>1, <2>2, <2>3, <2>4, CoverAdvance
<1>8. CASE SetPcLater \/ Drain \/ Rerun
  BY <1>8, <1>k DEF SetPcLater, Drain, Rerun, InBody, LoopLeft, Active
<1>9. CASE Finish \/ DowRefused
  BY <1>9, <1>f DEF Finish, DowRefused, Active
<1>10. CASE TargetStops \/ DeliverStop \/ LoadState \/ UNCHANGED vars
  <2>1. /\ UNCHANGED <<job, curaction, curpos, err, mem>> /\ inflight \subseteq inflight'
        /\ Active' => Active
    BY <1>10 DEF TargetStops, DeliverStop, LoadState, vars, Active
  <2> QED BY <1>f, <1>k, <2>1
<1>11. ASSUME NEW r \in inflight, Callback(r) PROVE CoverOK'
  <2>1. CASE ReplyError(r)
    BY <1>f, <2>1 DEF ReplyError, NoteError
  <2>2. CASE ReplyOk(r) \/ DataReplyOk(r) \/ DataReplyDivides(r)
    <3>1. /\ Active /\ UNCHANGED <<job, curaction, curpos, mem>> /\ inflight' = inflight \ {r}
          /\ err' \in {err, "abort"} /\ r.st = "ok"
      BY <2>2 DEF ReplyOk, DataReplyOk, DataReplyDivides, Answered, Active
    <3>2. BytesOf(r) \subseteq mem
      BY <1>11, <3>1 DEF AckOK
    <3>3. \A s \in inflight : \/ BytesOf(s) \subseteq mem'
                              \/ \E q \in inflight' : BytesOf(q) = BytesOf(s)
      BY <3>1, <3>2
    <3> QED BY <3>1, <3>3, CoverFrame
  <2> QED BY <1>11, <2>1, <2>2 DEF Callback
<1>12. ASSUME NEW r \in inflight, Agent(r) PROVE CoverOK'
  <2>1. UNCHANGED <<transaction, phase>> /\ mem \subseteq mem'
    BY <1>12 DEF Agent, AgentMemory, AgentSetPc, AgentSuspend
  <2>2. Active
    BY <1>12 DEF TypeInv, CountOK
  <2>3. r \in Requests
    BY <1>12 DEF TypeInv, TypeOK
  <2>4. PICK st \in {"ok", "fail"} : inflight' = (inflight \ {r}) \cup {[r EXCEPT !.st = st]}
    BY <1>12 DEF Agent, AgentMemory, AgentSetPc, AgentSuspend
  <2>5. BytesOf([r EXCEPT !.st = st]) = BytesOf(r)
    BY <2>3 DEF Requests, BytesOf
  <2>6. \A s \in inflight : \E q \in inflight' : BytesOf(q) = BytesOf(s)
    BY <2>4, <2>5
  <2> QED BY <2>1, <2>2, <2>6, CoverFrame
<1> QED
  BY <1>1, <1>2, <1>3, <1>4, <1>5, <1>6, <1>7, <1>8, <1>9, <1>10, <1>11, <1>12
     DEF Next, Loop

\* Written bytes stay written, so a loaded target stays loaded.
LEMMA LoadedStable == ASSUME Loaded, job' = job, mem \subseteq mem' PROVE Loaded'
BY DEF Loaded, BytesOfAction

\* Every action before the last, where setpc is, has been left when setpc is reached.
LEMMA SetPcLast ==
  ASSUME TypeOK, curaction >= 3, curaction < NumActions, BodyCur.op = "setpc",
         NEW i \in DOMAIN job.body, job.body[i].op # "setpc"
  PROVE  i + 2 < curaction
<1>1. /\ curaction \in Nat /\ NumActions = 3 + Len(job.body)
      /\ job \in Jobs /\ job.body \in Seq(BodyAction)
  BY NumActionsType, JobsAssumption DEF TypeOK, Job, NumActions
<1>2. Len(job.body) \in Nat /\ DOMAIN job.body = 1 .. Len(job.body)
  BY <1>1
<1>3. curaction - 2 \in DOMAIN job.body
  BY <1>1, <1>2
<1>4. curaction - 2 = Len(job.body)
  BY <1>1, <1>3, JobsAssumption DEF BodyCur
<1>5. i # curaction - 2
  BY DEF BodyCur
<1> QED BY <1>1, <1>2, <1>4, <1>5

LEMMA PcStep == LoadInv /\ [Next]_vars => PcAfterLoad' /\ SuccessMeansLoaded'
<1> SUFFICES ASSUME LoadInv, [Next]_vars PROVE PcAfterLoad' /\ SuccessMeansLoaded'
  OBVIOUS
<1> USE DEF transaction, command, target, agent, Drained, Halted, Verdict, Acknowledged
<1>t. TypeInv /\ TypeOK /\ CoverOK /\ OpeningOK /\ EndOK /\ PcAfterLoad /\ SuccessMeansLoaded
  BY DEF LoadInv, TypeInv
<1>e. ~Active => inflight = {}
  BY <1>t DEF TypeInv, CountOK
\* Steps that send no setpc, return no result and write only more.
<1>k. ASSUME job' = job, mem \subseteq mem',
             pcset' => pcset \/ \E r \in inflight : r.op = "setpc",
             \A q \in inflight' : q.op = "setpc" => \E r \in inflight : r.op = "setpc",
             result' \in {result, "error"}
      PROVE  PcAfterLoad' /\ SuccessMeansLoaded'
  BY <1>k, <1>t, LoadedStable DEF PcAfterLoad, SuccessMeansLoaded
\* A step that neither asks to set the PC nor writes memory, and does not end the command.
<1>q. ASSUME UNCHANGED <<job, mem, pcset>>, result' \in {result, "error"},
             \A q \in inflight' : q \in inflight \/ q.op # "setpc"
      PROVE  PcAfterLoad' /\ SuccessMeansLoaded'
  BY <1>k, <1>q
<1>1. CASE \E j \in Jobs : Dow(j)
  <2>1. ~Active /\ inflight' = inflight /\ pcset' = FALSE /\ result' = "none"
    BY <1>1 DEF Dow, Active
  <2> QED BY <1>e, <2>1 DEF PcAfterLoad, SuccessMeansLoaded
<1>2. CASE InitMiss \/ InitSuspend \/ InitFail \/ InitDone \/ Open \/ Progress \/ SetPcLater
  BY <1>2, <1>q DEF InitMiss, InitSuspend, InitFail, InitDone, Open, Progress, SetPcLater,
                    Send, Fail, Request
<1>3. CASE Copy \/ Clear \/ Profile
  <2>1. UNCHANGED <<job, mem, pcset, result>>
    BY <1>3 DEF Copy, Clear, Profile
  <2>2. CASE Copy
    BY <1>q, <2>1, <2>2 DEF Copy, Send, Request, Fail
  <2>3. CASE Clear
    BY <1>q, <2>1, <2>3 DEF Clear, Send, Request
  <2>4. CASE Profile
    <3>1. \/ inflight' = inflight
          \/ \E n : inflight' = inflight \cup {Request("profile", curaction, i, 0) : i \in 0 .. (n - 1)}
      BY <2>4 DEF Profile, Send, Fail
    <3> QED BY <1>q, <2>1, <3>1 DEF Request
  <2> QED BY <1>3, <2>2, <2>3, <2>4
<1>4. CASE SetPc
  \* Every other body action is behind the loop, which has drained the window.
  <2>1. /\ Active /\ err = "" /\ numreq = 0 /\ BodyCur.op = "setpc"
        /\ curaction >= 3 /\ curaction < NumActions
        /\ result' = result /\ job' = job /\ mem' = mem /\ phase = "running"
    BY <1>4 DEF SetPc, InBody, LoopGuard, Active
  <2>2. ASSUME NEW i \in DOMAIN job.body, BytesOfAction(i) # {} PROVE i + 2 < curaction
    <3>1. PICK c : c \in BytesOfAction(i)
      BY <2>2
    <3>2. job.body[i].op \in {"copy", "clear"}
      BY <1>t, <3>1, BytesType
    <3> QED BY <1>t, <2>1, <3>2, SetPcLast
  <2>3. Loaded
    BY <1>t, <2>1, <2>2, CoverLoaded
  <2>4. Loaded'
    BY <2>1, <2>3, LoadedStable
  <2> QED BY <2>4 DEF PcAfterLoad, SuccessMeansLoaded
<1>5. CASE Finish
  <2>1. UNCHANGED <<job, mem, pcset, inflight>> /\ Active /\ numreq = 0 /\ LoopLeft
        /\ result' = IF err = "" /\ ~ShListMissing THEN "ok" ELSE "error"
    BY <1>5 DEF Finish, LoopLeft, Active
  <2>2. Loaded' = Loaded
    BY <2>1 DEF Loaded, BytesOfAction
  <2>3. PcAfterLoad'
    BY <1>t, <2>1, <2>2 DEF PcAfterLoad
  <2>4. CASE err # ""
    BY <2>1, <2>3, <2>4 DEF SuccessMeansLoaded
  <2>5. CASE phase = "leaving"
    <3>1. curaction = 2 /\ opening
      BY <1>t, <2>1, <2>5 DEF EndOK, OpeningOK
    <3>2. ShListMissing
      BY <3>1 DEF ShListMissing
    <3> QED BY <2>1, <2>3, <3>2 DEF SuccessMeansLoaded
  <2>6. CASE phase = "running" /\ err = ""
    <3>1. ~(curaction < NumActions)
      <4>1. 0 < Window
        BY WindowAssumption
      <4> QED BY <2>1, <2>6, <4>1 DEF LoopLeft, LoopGuard
    <3>2. \A i \in DOMAIN job.body : i + 2 < curaction
      <4>1. job.body \in Seq(BodyAction)
        BY <1>t, JobsAssumption DEF TypeOK, Job
      <4>2. curaction \in Nat /\ NumActions = 3 + Len(job.body) /\ Len(job.body) \in Nat
            /\ DOMAIN job.body = 1 .. Len(job.body)
        BY <1>t, <4>1, NumActionsType DEF TypeOK, NumActions
      <4> QED BY <3>1, <4>2
    <3>3. Loaded
      BY <1>t, <2>1, <2>6, <3>2, CoverLoaded
    <3> QED BY <2>2, <2>3, <3>3 DEF SuccessMeansLoaded
  <2> QED BY <2>1, <2>4, <2>5, <2>6 DEF LoopLeft
<1>6. CASE DowRefused \/ Drain \/ Rerun \/ TargetStops \/ DeliverStop \/ LoadState \/ UNCHANGED vars
  BY <1>6, <1>q DEF DowRefused, Drain, Rerun, TargetStops, DeliverStop, LoadState, vars
<1>7. ASSUME NEW r \in inflight, Callback(r) PROVE PcAfterLoad' /\ SuccessMeansLoaded'
  BY <1>7, <1>q DEF Callback, ReplyError, ReplyOk, DataReplyOk, DataReplyDivides, Answered
<1>8. ASSUME NEW r \in inflight, Agent(r) PROVE PcAfterLoad' /\ SuccessMeansLoaded'
  <2>1. UNCHANGED <<job, result>> /\ mem \subseteq mem'
        /\ (pcset' => pcset \/ r.op = "setpc")
    BY <1>8 DEF Agent, AgentMemory, AgentSetPc, AgentSuspend
  <2>2. PICK st \in {"ok", "fail"} : inflight' = (inflight \ {r}) \cup {[r EXCEPT !.st = st]}
    BY <1>8 DEF Agent, AgentMemory, AgentSetPc, AgentSuspend
  <2>3. [r EXCEPT !.st = st].op = r.op
    <3>1. r \in Requests
      BY <1>8, <1>t DEF TypeOK
    <3> QED BY <3>1 DEF Requests
  <2> QED BY <1>8, <1>k, <2>1, <2>2, <2>3
<1> QED
  BY <1>1, <1>2, <1>3, <1>4, <1>5, <1>6, <1>7, <1>8 DEF Next, Loop

LEMMA LoadInvariant == Spec => []LoadInv
<1>1. LoadInv /\ [Next]_vars => LoadInv'
  BY TypeStep, CountStep, AckStep, CoverStep, OpeningStep, EndStep, PcStep DEF LoadInv, TypeInv
<1> QED BY <1>1, LoadInit, PTL DEF Spec

\* The PC is only set over a fully loaded memory: the break of action "setpc" (line
\* 711) and the loop's test of err together exclude every other order of the replies.
THEOREM PcIsSetAfterLoad == Spec => []PcAfterLoad
<1>1. LoadInv => PcAfterLoad BY DEF LoadInv
<1> QED BY <1>1, LoadInvariant, PTL

\* A dow that returns normally has loaded the memory.
THEOREM SuccessIsALoad == Spec => []SuccessMeansLoaded
<1>1. LoadInv => SuccessMeansLoaded BY DEF LoadInv
<1> QED BY <1>1, LoadInvariant, PTL

-----------------------------------------------------------------------------
(***************************************************************************)
(* The first error.                                                        *)
(***************************************************************************)

\* A recorded error is only ever replaced by the user's abort.
THEOREM ErrorIsKept == Spec => FirstErrorKept
<1>1. [Next]_vars => (err # "" /\ Active => err' \in {err, "abort"}) \/ UNCHANGED vars
  <2> SUFFICES ASSUME Next, err # "", Active PROVE err' \in {err, "abort"}
    BY Zenon
  <2>1. ASSUME NEW j \in Jobs, Dow(j) PROVE FALSE
    BY <2>1 DEF Dow, Active
  <2>2. CASE Loop
    BY <2>2 DEF Loop, InitMiss, InitSuspend, InitFail, InitDone, Open, Progress, Copy, Clear,
                Profile, SetPcLater, SetPc, InBody, LoopGuard
  <2>3. CASE DowRefused \/ Drain \/ Finish \/ Rerun
    BY <2>3 DEF DowRefused, Drain, Finish, Rerun, transaction
  <2>4. ASSUME NEW r \in inflight, Callback(r) PROVE err' \in {err, "abort"}
    BY <2>4 DEF Callback, ReplyError, NoteError, ReplyOk, DataReplyOk, DataReplyDivides
  <2>5. ASSUME NEW r \in inflight, Agent(r) PROVE err' = err
    BY <2>5 DEF Agent, AgentMemory, AgentSetPc, AgentSuspend, transaction
  <2>6. CASE TargetStops \/ DeliverStop \/ LoadState
    BY <2>6 DEF TargetStops, DeliverStop, LoadState, transaction
  <2> QED BY <2>1, <2>2, <2>3, <2>4, <2>5, <2>6 DEF Next
<1> QED BY <1>1, PTL DEF Spec, FirstErrorKept

-----------------------------------------------------------------------------
(***************************************************************************)
(* The target has stopped.                                                 *)
(***************************************************************************)

\* What the debugger takes for stopped is stopped, and a command with auto-stop is past
\* "init" only when the target is.
HaltOK ==
  /\ view = "stopped" \/ stopEvent => run = "stopped"
  /\ Active /\ job.autostop /\ curaction >= 1 => run = "stopped"

StopInv == HaltOK /\ StoppedWhileLoading

\* The loop, and what else leaves the target alone, is past "init" only when it was.
LEMMA HaltFrame ==
  ASSUME HaltOK, UNCHANGED <<job, target>>,
         Active' /\ curaction' >= 1 => Active /\ curaction >= 1
  PROVE  HaltOK'
BY DEF HaltOK, target, Active

\* The body actions are past "init", and leave the job and the target alone.
LEMMA BodyPastInit ==
  ASSUME TypeInv, Copy \/ Clear \/ Profile \/ SetPcLater \/ SetPc
  PROVE  Active /\ curaction >= 1 /\ UNCHANGED <<job, target>>
<1>1. curaction \in Nat
  BY NumActionsType DEF TypeInv
<1>2. phase = "running" /\ curaction >= 3
  BY DEF Copy, Clear, Profile, SetPcLater, SetPc, InBody
<1>3. UNCHANGED <<job, target>>
  BY DEF Copy, Clear, Profile, SetPcLater, SetPc, transaction
<1> QED BY <1>1, <1>2, <1>3 DEF Active

LEMMA HaltStep == TypeInv /\ StopInv /\ [Next]_vars => HaltOK'
<1> SUFFICES ASSUME TypeInv, StopInv, [Next]_vars PROVE HaltOK'
  OBVIOUS
<1> USE DEF transaction, command, agent
<1>t. curaction \in Nat /\ HaltOK /\ run \in {"running", "stopped"}
  BY NumActionsType DEF TypeInv, TypeOK, StopInv
<1>1. ASSUME NEW j \in Jobs, Dow(j) PROVE HaltOK'
  <2>1. curaction' = 0 /\ UNCHANGED target
    BY <1>1 DEF Dow
  <2> QED BY <2>1, <1>t DEF HaltOK, target
<1>2. CASE InitDone
  <2>1. job' = job /\ UNCHANGED target /\ (job.autostop => view = "stopped")
    BY <1>2 DEF InitDone, Halted
  <2> QED BY <2>1, <1>t DEF HaltOK, target
<1>3. CASE InitMiss \/ InitSuspend \/ InitFail
  <2>1. UNCHANGED <<job, target>> /\ curaction' = 0
    BY <1>3 DEF InitMiss, InitSuspend, InitFail, Fail
  <2> QED BY <2>1, <1>t, HaltFrame
<1>4. CASE Open \/ Progress
  <2>1. UNCHANGED <<job, target>> /\ Active /\ curaction >= 1
    BY <1>4 DEF Open, Progress, Active
  <2> QED BY <2>1, <1>t, HaltFrame
<1>5. CASE Copy \/ Clear \/ Profile \/ SetPcLater \/ SetPc
  BY <1>5, <1>t, BodyPastInit, HaltFrame
<1>7. CASE DowRefused \/ Drain \/ Rerun \/ Finish
  <2>1. UNCHANGED <<job, target, curaction>> /\ (Active' => Active)
    BY <1>7 DEF DowRefused, Drain, Rerun, Finish, LoopLeft, Active
  <2> QED BY <2>1, <1>t, HaltFrame
<1>9. ASSUME NEW r \in inflight, Callback(r) PROVE HaltOK'
  <2>1. UNCHANGED <<job, target, curaction>> /\ Active
    BY <1>9 DEF Callback, ReplyError, ReplyOk, DataReplyOk, DataReplyDivides, Answered, Active
  <2> QED BY <2>1, <1>t, HaltFrame
<1>10. ASSUME NEW r \in inflight, AgentMemory(r) \/ AgentSetPc(r) PROVE HaltOK'
  <2>1. UNCHANGED <<job, target, curaction, phase>>
    BY <1>10 DEF AgentMemory, AgentSetPc
  <2> QED BY <2>1, <1>t, HaltFrame DEF Active
<1>11. ASSUME NEW r \in inflight, AgentSuspend(r) PROVE HaltOK'
  <2>1. UNCHANGED <<job, view, curaction, phase>>
    BY <1>11 DEF AgentSuspend
  <2>2. run' = "stopped" \/ UNCHANGED <<run, stopEvent>>
    BY <1>11 DEF AgentSuspend
  <2> QED BY <2>1, <2>2, <1>t DEF HaltOK, Active
<1>12. CASE TargetStops
  <2>1. run' = "stopped"
    BY <1>12 DEF TargetStops
  <2> QED BY <2>1 DEF HaltOK
<1>13. CASE DeliverStop \/ LoadState
  <2>1. UNCHANGED <<job, curaction, run>> /\ (Active' => Active)
    BY <1>13 DEF DeliverStop, LoadState, Active
  <2>2. view' = "stopped" \/ stopEvent' => run = "stopped"
    BY <1>13, <1>t DEF DeliverStop, LoadState, HaltOK
  <2> QED BY <2>1, <2>2, <1>t DEF HaltOK
<1>14. CASE UNCHANGED vars
  BY <1>14, <1>t, HaltFrame DEF vars, Active
<1> QED
  BY <1>1, <1>2, <1>3, <1>4, <1>5, <1>7, <1>9, <1>10, <1>11, <1>12, <1>13, <1>14
  DEF Next, Loop, Agent

\* Only a suspend is sent before "init" is over.
LEMMA StopStep == TypeInv /\ StopInv /\ [Next]_vars => StoppedWhileLoading'
<1> SUFFICES ASSUME TypeInv, StopInv, [Next]_vars PROVE StoppedWhileLoading'
  OBVIOUS
<1> USE DEF transaction, command, target, agent
<1>t. curaction \in Nat /\ HaltOK /\ StoppedWhileLoading
  BY NumActionsType DEF TypeInv, StopInv
<1>1. ASSUME NEW j \in Jobs, Dow(j) PROVE StoppedWhileLoading'
  <2>1. inflight' = {}
    BY <1>1 DEF Dow, TypeInv, CountOK, Active
  <2> QED BY <2>1 DEF StoppedWhileLoading
<1>2. CASE InitSuspend
  <2>1. UNCHANGED <<job, run>> /\ inflight' = inflight \cup {Request("suspend", 0, 0, 0)}
    BY <1>2 DEF InitSuspend, Send
  <2> QED BY <2>1, <1>t, RequestType DEF StoppedWhileLoading
<1>3. CASE InitMiss \/ InitFail \/ InitDone \/ Open \/ Progress
  <2>1. UNCHANGED <<job, run, inflight>>
    BY <1>3 DEF InitMiss, InitFail, InitDone, Open, Progress, Fail
  <2> QED BY <2>1, <1>t DEF StoppedWhileLoading
<1>4. CASE Copy \/ Clear \/ Profile \/ SetPcLater \/ SetPc
  <2>1. job.autostop => run = "stopped"
    BY <1>4, <1>t, BodyPastInit DEF HaltOK
  <2> QED BY <2>1, <1>4, BodyPastInit DEF StoppedWhileLoading
<1>5. CASE DowRefused \/ Drain \/ Rerun \/ Finish
  <2>1. UNCHANGED <<job, run, inflight>>
    BY <1>5 DEF DowRefused, Drain, Rerun, Finish
  <2> QED BY <2>1, <1>t DEF StoppedWhileLoading
<1>6. ASSUME NEW r \in inflight, Callback(r) PROVE StoppedWhileLoading'
  <2>1. UNCHANGED <<job, run>> /\ inflight' \subseteq inflight
    BY <1>6 DEF Callback, ReplyError, ReplyOk, DataReplyOk, DataReplyDivides, Answered
  <2> QED BY <2>1, <1>t DEF StoppedWhileLoading
<1>7. ASSUME NEW r \in inflight, Agent(r) PROVE StoppedWhileLoading'
  <2>1. UNCHANGED job /\ (run' = run \/ run' = "stopped")
    BY <1>7 DEF Agent, AgentMemory, AgentSetPc, AgentSuspend
  <2>2. PICK st : inflight' = (inflight \ {r}) \cup {[r EXCEPT !.st = st]}
    BY <1>7 DEF Agent, AgentMemory, AgentSetPc, AgentSuspend
  <2>3. [r EXCEPT !.st = st].op = r.op
    BY DEF TypeInv, TypeOK, Requests
  <2> QED BY <2>1, <2>2, <2>3, <1>t DEF StoppedWhileLoading
<1>8. CASE TargetStops
  BY <1>8 DEF TargetStops, StoppedWhileLoading
<1>9. CASE DeliverStop \/ LoadState \/ UNCHANGED vars
  <2>1. UNCHANGED <<job, run, inflight>>
    BY <1>9 DEF DeliverStop, LoadState, vars
  <2> QED BY <2>1, <1>t DEF StoppedWhileLoading
<1> QED
  BY <1>1, <1>2, <1>3, <1>4, <1>5, <1>6, <1>7, <1>8, <1>9 DEF Next, Loop

\* With auto-stop no write to memory is outstanding while the target runs.
THEOREM LoadsIntoStopped == Spec => []StoppedWhileLoading
<1>1. Init => StopInv
  BY DEF Init, StopInv, HaltOK, StoppedWhileLoading, Active
<1>2. TypeInv /\ StopInv /\ [Next]_vars => StopInv'
  BY HaltStep, StopStep DEF StopInv
<1>3. StopInv => StoppedWhileLoading
  BY DEF StopInv
<1> QED BY <1>1, <1>2, <1>3, TypeInvariant, PTL DEF Spec

-----------------------------------------------------------------------------
(***************************************************************************)
(* The names of the requests.  A request is sent at the position of the    *)
(* loop and the position then moves on, so that no two requests that are   *)
(* outstanding have the same action and place.                             *)
(***************************************************************************)

\* (The empty string is kept out of sight of the arithmetic prover, which does not read it.)
NoError == err = ""

Distinct == \A r, s \in inflight : Key(r) = Key(s) => r = s

\* Request r is behind position pos of action act.
Before(r, act, pos) == r.act < act \/ (r.act = act /\ r.pos < pos)

Behind == NoError /\ Active => \A r \in inflight : Before(r, curaction, curpos)

\* In "init" a suspend may be sent again and again, but not while one is outstanding.
Quiet ==
  curaction = 0 =>
    /\ phase # "waiting" => inflight = {}
    /\ inflight # {} => view # "unknown"
    /\ \A r \in inflight : Key(r) = <<"suspend", 0, 0>>

UniqueInv == Distinct /\ Behind /\ Quiet

\* The same requests, or some of them, at the same or a later position.
LEMMA UniqueFrame ==
  ASSUME TypeInv, UniqueInv, inflight' \subseteq inflight,
         NoError' /\ Active' => NoError /\ Active,
         \/ curaction' = curaction /\ curpos' = curpos
         \/ curaction' = curaction + 1
  PROVE  Distinct' /\ Behind'
<1>1. curaction \in Nat /\ curpos \in Nat /\ inflight \subseteq Requests
  BY NumActionsType DEF TypeInv, TypeOK
<1>2. Distinct'
  BY DEF UniqueInv, Distinct, Key
<1>3. ASSUME NoError', Active', NEW r \in inflight' PROVE Before(r, curaction', curpos')
  <2>1. Before(r, curaction, curpos) /\ r.act \in Nat /\ r.pos \in Nat
    BY <1>1, <1>3 DEF UniqueInv, Behind, Requests
  <2> QED BY <2>1, <1>1 DEF Before
<1> QED BY <1>2, <1>3 DEF Behind

\* Requests that are sent from the position on are new.
LEMMA SentDistinct ==
  ASSUME TypeInv, UniqueInv, NoError, Active, NEW S \in SUBSET Requests,
         inflight' = inflight \cup S,
         \A s \in S : s.act = curaction /\ s.pos >= curpos,
         \A s, t \in S : s.pos = t.pos => s = t
  PROVE  Distinct'
<1>1. curaction \in Nat /\ curpos \in Nat /\ inflight \subseteq Requests
  BY NumActionsType DEF TypeInv, TypeOK
<1>2. \A r \in inflight, s \in S : Key(r) # Key(s)
  <2> SUFFICES ASSUME NEW r \in inflight, NEW s \in S, r.act = s.act, r.pos = s.pos PROVE FALSE
    BY DEF Key
  <2>1. Before(r, curaction, curpos)
    BY DEF UniqueInv, Behind
  <2>2. r.act \in Nat /\ r.pos \in Nat /\ s.pos \in Nat
    BY <1>1 DEF Requests
  <2>3. r.pos >= curpos /\ r.act = curaction
    OBVIOUS
  <2> QED BY <2>1, <2>2, <2>3, <1>1 DEF Before
<1>3. \A s, t \in S : Key(s) = Key(t) => s = t
  BY DEF Key
<1> QED BY <1>2, <1>3 DEF UniqueInv, Distinct

\* They are behind the position after them.
LEMMA SentBehind ==
  ASSUME TypeInv, UniqueInv, NoError, Active, NEW S \in SUBSET Requests,
         inflight' = inflight \cup S, curpos' \in Nat,
         \A s \in S : s.act = curaction,
         NoError' => \/ curaction' = curaction + 1
                      \/ /\ curaction' = curaction /\ curpos <= curpos'
                         /\ \A s \in S : s.pos < curpos'
  PROVE  Behind'
<1>1. curaction \in Nat /\ curpos \in Nat /\ inflight \subseteq Requests
  BY NumActionsType DEF TypeInv, TypeOK
<1>2. ASSUME NoError', NEW r \in inflight' PROVE Before(r, curaction', curpos')
  <2>1. CASE r \in inflight
    <3>1. Before(r, curaction, curpos) /\ r.act \in Nat /\ r.pos \in Nat
      BY <1>1, <2>1 DEF UniqueInv, Behind, Requests
    <3> QED BY <3>1, <1>1, <1>2 DEF Before
  <2>2. CASE r \in S
    BY <2>2, <1>1, <1>2 DEF Before
  <2> QED BY <2>1, <2>2
<1> QED BY <1>2 DEF Behind

\* One request, sent at the position of a body action.
LEMMA SentOne ==
  ASSUME TypeInv, UniqueInv, NoError, Active, curaction >= 1, curpos' \in Nat,
         NEW op \in {"copy", "clear", "setpc"}, NEW n \in Nat,
         inflight' = inflight \cup {Request(op, curaction, curpos, n)},
         NoError' => curaction' = curaction + 1 \/ (curaction' = curaction /\ curpos < curpos'),
         curaction' # 0
  PROVE  UniqueInv'
<1> DEFINE S == {Request(op, curaction, curpos, n)}
<1>1. curaction \in Nat /\ curpos \in Nat
  BY NumActionsType DEF TypeInv, TypeOK
<1>2. S \in SUBSET Requests /\ \A s \in S : s.act = curaction /\ s.pos = curpos
  <2>1. op \in {"suspend", "copy", "clear", "profile", "setpc"}
    OBVIOUS
  <2> QED BY <1>1, <2>1 DEF Request, Requests
<1>3. \A s, t \in S : s = t
  OBVIOUS
<1>4. inflight' = inflight \cup S
  OBVIOUS
<1> HIDE DEF S
<1>5. \A s \in S : s.pos >= curpos
  BY <1>1, <1>2
<1>6. Distinct'
  BY <1>2, <1>3, <1>4, <1>5, SentDistinct
<1>7. NoError' /\ curaction' = curaction => curpos <= curpos' /\ \A s \in S : s.pos < curpos'
  BY <1>1, <1>2
<1>8. Behind'
  BY <1>2, <1>4, <1>7, SentBehind
<1> QED BY <1>6, <1>8 DEF UniqueInv, Quiet

LEMMA UniqueCopy == ASSUME TypeInv, UniqueInv, Copy, TypeOK' PROVE UniqueInv'
<1> DEFINE want == Min2(Chunk, BodyCur.size - curpos)
           got == Min2(want, BodyCur.avail - curpos)
<1>1. /\ NoError /\ Active /\ Active' /\ curaction >= 3 /\ curaction < NumActions
      /\ BodyCur.op = "copy"
  BY DEF Copy, InBody, LoopGuard, Active, NoError
<1>2. /\ curaction \in Nat /\ curpos \in Nat /\ BodyCur \in BodyAction
      /\ curpos <= BodyCur.size /\ curpos <= BodyCur.avail /\ curpos' \in Nat
  BY <1>1, BodyCurType DEF TypeInv, TypeOK, PosOK
<1>3. /\ got \in Nat /\ (want = 0 => curpos = BodyCur.size)
      /\ want \in Nat /\ (got = want /\ want > 0 => got > 0)
  BY <1>2, WindowAssumption DEF Min2, BodyAction
<1>4. CASE Fail("read") \/ (err' = "read" /\ NextAction /\ UNCHANGED inflight)
  <2>1. inflight' = inflight /\ ~NoError'
    BY <1>4 DEF Fail, NoError
  <2>2. curaction' = curaction \/ curaction' = curaction + 1
    BY <1>4 DEF Fail, NextAction
  <2>3. Distinct' /\ Behind'
    BY <2>1 DEF UniqueInv, Distinct, Behind
  <2>4. curaction' # 0
    BY <2>2, <1>1, <1>2
  <2> QED BY <2>3, <2>4 DEF UniqueInv, Quiet
<1>5. CASE /\ got = want \/ got > 0
           /\ Send({Request("copy", curaction, curpos, got)})
           /\ IF curpos + got = BodyCur.size THEN NextAction
              ELSE curpos' = curpos + got /\ UNCHANGED curaction
  <2>1. inflight' = inflight \cup {Request("copy", curaction, curpos, got)}
    BY <1>5 DEF Send
  <2>2. curpos + got # BodyCur.size => got > 0
    BY <1>5, <1>2, <1>3 DEF BodyAction
  <2>3. curaction' = curaction + 1 \/ (curaction' = curaction /\ curpos < curpos')
    <3> HIDE DEF got, want
    <3> QED BY <2>2, <1>2, <1>3, <1>5 DEF NextAction
  <2>4. curaction' # 0 /\ curaction >= 1
    BY <2>3, <1>1, <1>2
  <2> HIDE DEF got, want
  <2> QED BY <2>1, <2>3, <2>4, <1>1, <1>2, <1>3, SentOne
<1> QED BY <1>4, <1>5 DEF Copy

LEMMA UniqueClear == ASSUME TypeInv, UniqueInv, Clear, TypeOK' PROVE UniqueInv'
<1> DEFINE rest == BodyCur.size - curpos
           size == Min2(rest, Chunk)
<1>1. /\ NoError /\ Active /\ curaction >= 3 /\ curaction < NumActions
      /\ BodyCur.op = "clear"
  BY DEF Clear, InBody, LoopGuard, Active, NoError
<1>2. /\ curaction \in Nat /\ curpos \in Nat /\ BodyCur \in BodyAction
      /\ curpos <= BodyCur.size /\ curpos' \in Nat
  BY <1>1, BodyCurType DEF TypeInv, TypeOK, PosOK
<1>3. size \in Nat /\ (rest # 0 => size > 0)
  BY <1>2, WindowAssumption DEF Min2, BodyAction
<1>4. /\ inflight' = inflight \cup {Request("clear", curaction, curpos, size)}
      /\ IF rest = 0 THEN NextAction ELSE curpos' = curpos + size /\ UNCHANGED curaction
  BY DEF Clear, Send
<1> HIDE DEF size, rest
<1>5. curaction' = curaction + 1 \/ (curaction' = curaction /\ curpos < curpos')
  BY <1>2, <1>3, <1>4 DEF NextAction
<1>6. curaction' # 0 /\ curaction >= 1
  BY <1>5, <1>1, <1>2
<1> QED BY <1>1, <1>2, <1>3, <1>4, <1>5, <1>6, SentOne

LEMMA UniqueProfile == ASSUME TypeInv, UniqueInv, Profile, TypeOK' PROVE UniqueInv'
<1>1. /\ NoError /\ Active /\ curaction >= 3 /\ curaction < NumActions
      /\ BodyCur.op = "profile"
  BY DEF Profile, InBody, LoopGuard, Active, NoError
<1>2. /\ curaction \in Nat /\ curpos = 0 /\ BodyCur \in BodyAction
      /\ curpos' \in Nat
  BY <1>1, BodyCurType DEF TypeInv, TypeOK, PosOK
<1>3. CASE Fail("rc")
  <2>1. inflight' = inflight /\ ~NoError' /\ curaction' = curaction
    BY <1>3 DEF Fail, NoError
  <2> QED BY <2>1, <1>1, <1>2 DEF UniqueInv, Distinct, Behind, Quiet
<1>4. ASSUME NEW n \in 0 .. (BodyCur.size * ProfWrites),
             Send({Request("profile", curaction, i, 0) : i \in 0 .. (n - 1)}),
             NextAction \/ (err' = "profile" /\ UNCHANGED <<curaction, curpos>>)
      PROVE  UniqueInv'
  <2> DEFINE S == {Request("profile", curaction, i, 0) : i \in 0 .. (n - 1)}
  <2>1. S \in SUBSET Requests /\ \A s \in S : s.act = curaction /\ s.pos >= curpos
    BY <1>2 DEF Request, Requests
  <2>2. \A s, t \in S : s.pos = t.pos => s = t
    BY DEF Request
  <2>3. inflight' = inflight \cup S
    BY <1>4 DEF Send
  <2> HIDE DEF S
  <2>4. Distinct'
    BY <1>1, <2>1, <2>2, <2>3, SentDistinct
  <2>5. (NoError' => curaction' = curaction + 1) /\ curaction' # 0
    <3>1. curaction' = curaction + 1 \/ (~NoError' /\ curaction' = curaction)
      BY <1>4 DEF NextAction, NoError
    <3> QED BY <3>1, <1>1, <1>2
  <2>6. Behind'
    BY <1>1, <1>2, <2>1, <2>3, <2>5, SentBehind
  <2> QED BY <2>4, <2>5, <2>6 DEF UniqueInv, Quiet
<1> QED BY <1>3, <1>4 DEF Profile

LEMMA UniqueSetPc == ASSUME TypeInv, UniqueInv, SetPc, TypeOK' PROVE UniqueInv'
<1>1. /\ NoError /\ Active /\ Active' /\ curaction >= 3 /\ curaction < NumActions
      /\ BodyCur.op = "setpc"
  BY DEF SetPc, InBody, LoopGuard, Active, NoError
<1>2. /\ curaction \in Nat /\ curpos = 0 /\ curpos' \in Nat
  BY <1>1, BodyCurType DEF TypeInv, TypeOK, PosOK
<1>3. CASE Send({Request("setpc", curaction, 0, 0)}) /\ curaction' = curaction + 1
  <2>1. inflight' = inflight \cup {Request("setpc", curaction, curpos, 0)}
    BY <1>2, <1>3 DEF Send
  <2> QED BY <1>1, <1>2, <1>3, <2>1, SentOne
<1>4. CASE inflight' = inflight /\ (curaction' = curaction + 1 \/ curaction' = curaction)
           /\ curpos' = curpos
  <2>1. curaction' # 0
    BY <1>1, <1>2, <1>4
  <2> QED BY <2>1, <1>1, <1>4, UniqueFrame DEF UniqueInv, Quiet
<1> QED BY <1>3, <1>4 DEF SetPc

\* The reply to the only suspend that is outstanding leaves none.
LEMMA QuietReply ==
  ASSUME TypeInv, UniqueInv, NEW r \in inflight, inflight' = inflight \ {r},
         UNCHANGED <<curaction, view>>
  PROVE  Quiet'
<1>1. SUFFICES ASSUME curaction = 0 PROVE inflight' = {}
  BY DEF Quiet
<1> QED BY <1>1 DEF UniqueInv, Quiet, Distinct

\* The agent's answer does not change what a request is.
LEMMA UniqueAnswer ==
  ASSUME TypeInv, UniqueInv, NEW r \in inflight, NEW st,
         inflight' = (inflight \ {r}) \cup {[r EXCEPT !.st = st]},
         UNCHANGED <<curaction, curpos, err, phase, view>>
  PROVE  UniqueInv' /\ {Key(q) : q \in inflight'} = {Key(q) : q \in inflight}
<1> DEFINE a == [r EXCEPT !.st = st]
<1>1. Key(a) = Key(r) /\ a.act = r.act /\ a.pos = r.pos
  BY DEF Key, TypeInv, TypeOK, Requests
<1>2. inflight' = (inflight \ {r}) \cup {a}
  OBVIOUS
<1> HIDE DEF a
<1>3. Distinct'
  BY <1>1, <1>2 DEF UniqueInv, Distinct, Key
<1>4. Behind'
  BY <1>1, <1>2 DEF UniqueInv, Behind, Before, NoError, Active
<1>5. Quiet'
  BY <1>1, <1>2 DEF UniqueInv, Quiet, Key
<1>6. {Key(q) : q \in inflight'} = {Key(q) : q \in inflight}
  BY <1>1, <1>2 DEF Key
<1> QED BY <1>3, <1>4, <1>5, <1>6 DEF UniqueInv

LEMMA UniqueInit ==
  ASSUME TypeInv, UniqueInv, InitMiss \/ InitSuspend \/ InitFail \/ InitDone
  PROVE  UniqueInv'
<1>1. curaction = 0 /\ inflight = {} /\ NoError /\ Active /\ phase = "running"
  BY DEF InitMiss, InitSuspend, InitFail, InitDone, LoopGuard, NoError, Active, UniqueInv, Quiet
<1>2. CASE InitSuspend
  <2>1. /\ inflight' = {Request("suspend", 0, 0, 0)} /\ curaction' = 0 /\ curpos' = 1
        /\ phase' = "waiting" /\ view' = view /\ view = "running"
    BY <1>1, <1>2 DEF InitSuspend, Send, target
  <2>2. \A r \in inflight' : Before(r, 0, 1) /\ Key(r) = <<"suspend", 0, 0>>
    BY <2>1 DEF Request, Before, Key
  <2>3. Distinct'
    BY <2>1 DEF Distinct
  <2>4. Behind'
    BY <2>1, <2>2 DEF Behind
  <2>5. Quiet'
    BY <2>1, <2>2 DEF Quiet, Key
  <2> QED BY <2>3, <2>4, <2>5 DEF UniqueInv
<1>3. CASE InitMiss \/ InitFail \/ InitDone
  <2>1. inflight' = {}
    BY <1>1, <1>3 DEF InitMiss, InitFail, InitDone, Fail
  <2> QED BY <2>1 DEF UniqueInv, Distinct, Behind, Quiet
<1> QED BY <1>2, <1>3

LEMMA UniqueOpen ==
  ASSUME TypeInv, UniqueInv, Open \/ Progress \/ SetPcLater
  PROVE  UniqueInv'
<1>1. /\ curaction \in Nat /\ curaction # 0 /\ inflight' = inflight /\ NoError /\ Active
  <2>1. curaction \in Nat
    BY NumActionsType DEF TypeInv
  <2>2. curaction = 1 \/ curaction = 2 \/ curaction >= 3
    BY DEF Open, Progress, SetPcLater, InBody
  <2>3. inflight' = inflight /\ NoError /\ Active
    BY DEF Open, Progress, SetPcLater, InBody, Fail, LoopGuard, NoError, Active
  <2> QED BY <2>1, <2>2, <2>3
<1>2. \/ curaction' = curaction /\ curpos' = curpos
      \/ curaction' = curaction + 1
  BY DEF Open, Progress, SetPcLater, NextAction, Fail, transaction
<1>3. curaction' # 0
  BY <1>1, <1>2
<1>4. inflight' \subseteq inflight /\ (NoError' /\ Active' => NoError /\ Active)
  BY <1>1
<1> QED BY <1>2, <1>3, <1>4, UniqueFrame DEF UniqueInv, Quiet

LEMMA UniqueCallback ==
  ASSUME TypeInv, UniqueInv, NEW r \in inflight, Callback(r)
  PROVE  UniqueInv' /\ inflight' = inflight \ {r} /\ Active /\ Active' /\ (NoError' => NoError)
<1>1. inflight' = inflight \ {r} /\ UNCHANGED <<curaction, curpos, view>> /\ Active
  BY DEF Callback, ReplyError, ReplyOk, DataReplyOk, DataReplyDivides, Answered, target, Active
<1>2. Active'
  BY DEF Callback, ReplyError, ReplyOk, DataReplyOk, DataReplyDivides, Answered, Settle, Active
<1>3. NoError' => NoError
  BY DEF Callback, ReplyError, NoteError, ReplyOk, DataReplyOk, DataReplyDivides, NoError
<1>4. Quiet'
  BY <1>1, QuietReply
<1>5. inflight' \subseteq inflight
  BY <1>1
<1> QED BY <1>1, <1>2, <1>3, <1>4, <1>5, UniqueFrame DEF UniqueInv

LEMMA UniqueAgent ==
  ASSUME TypeInv, UniqueInv, NEW r \in inflight, Agent(r)
  PROVE  /\ UniqueInv' /\ {Key(q) : q \in inflight'} = {Key(q) : q \in inflight}
         /\ UNCHANGED <<err, phase, result>>
<1>1. UNCHANGED <<curaction, curpos, err, phase, view, result>>
  BY DEF Agent, AgentMemory, AgentSetPc, AgentSuspend, transaction, target
<1>2. PICK st : inflight' = (inflight \ {r}) \cup {[r EXCEPT !.st = st]}
  BY DEF Agent, AgentMemory, AgentSetPc, AgentSuspend
<1> QED BY <1>1, <1>2, UniqueAnswer

LEMMA UniqueStep == TypeInv /\ UniqueInv /\ [Next]_vars => UniqueInv'
<1> SUFFICES ASSUME TypeInv, UniqueInv, [Next]_vars PROVE UniqueInv'
  OBVIOUS
<1>t. TypeOK'
  BY TypeStep
<1>1. ASSUME NEW j \in Jobs, Dow(j) PROVE UniqueInv'
  <2>1. inflight' = {}
    BY <1>1 DEF Dow, TypeInv, CountOK, Active
  <2> QED BY <2>1 DEF UniqueInv, Distinct, Behind, Quiet
<1>2. CASE Loop
  BY <1>2, <1>t, UniqueInit, UniqueOpen, UniqueCopy, UniqueClear, UniqueProfile, UniqueSetPc
  DEF Loop
<1>3. CASE DowRefused \/ Drain \/ Finish \/ Rerun
  <2>1. UNCHANGED <<curaction, curpos, err, inflight, view>> /\ (Active' => Active)
    BY <1>3 DEF DowRefused, Drain, Finish, Rerun, LoopLeft, transaction, target, Active
  <2>2. phase' # "waiting" => phase # "waiting"
    BY <1>3 DEF DowRefused, Drain, Finish, Rerun, LoopLeft
  <2> QED BY <2>1, <2>2, UniqueFrame DEF UniqueInv, Quiet, NoError
<1>4. ASSUME NEW r \in inflight, Callback(r) PROVE UniqueInv'
  BY <1>4, UniqueCallback
<1>5. ASSUME NEW r \in inflight, Agent(r) PROVE UniqueInv'
  BY <1>5, UniqueAgent
<1>6. CASE TargetStops \/ DeliverStop \/ UNCHANGED vars
  <2>1. UNCHANGED <<curaction, curpos, err, inflight, phase>>
        /\ (view' = "unknown" => view = "unknown")
    <3>1. CASE TargetStops
      BY <3>1 DEF TargetStops, transaction
    <3>2. CASE DeliverStop
      BY <3>2 DEF DeliverStop, transaction
    <3>3. CASE UNCHANGED vars
      BY <3>3 DEF vars, transaction, target
    <3> QED BY <1>6, <3>1, <3>2, <3>3
  <2> QED BY <2>1, UniqueFrame DEF UniqueInv, Quiet, NoError, Active
<1>7. CASE LoadState
  <2>1. /\ UNCHANGED <<curaction, curpos, err, inflight>> /\ Active /\ Active'
        /\ view = "unknown"
    BY <1>7 DEF LoadState, transaction, Active
  <2>2. Quiet'
    BY <2>1 DEF UniqueInv, Quiet
  <2> QED BY <2>1, <2>2, UniqueFrame DEF UniqueInv, NoError
<1> QED BY <1>1, <1>2, <1>3, <1>4, <1>5, <1>6, <1>7 DEF Next

LEMMA UniqueInvariant == Spec => []UniqueInv
<1>1. Init => UniqueInv
  BY DEF Init, UniqueInv, Distinct, Behind, Quiet
<1> QED BY <1>1, UniqueStep, TypeInvariant, PTL DEF Spec

-----------------------------------------------------------------------------
(***************************************************************************)
(* Every step is one of the request window, or a stutter.                  *)
(***************************************************************************)

LEMMA KeyType == ASSUME NEW S \in SUBSET Requests PROVE {Key(r) : r \in S} \subseteq ReqName
BY DEF Key, Requests, ReqName

\* The loop issues requests while there is no error.
LEMMA LoopIssues == ASSUME TypeInv, TypeOK', Loop PROVE RW!Issue
<1>1. Active /\ err = ""
  BY DEF Loop, InitMiss, InitSuspend, InitFail, InitDone, Open, Progress, Copy, Clear, Profile,
         SetPcLater, SetPc, InBody, LoopGuard, Active
<1>2. Active' /\ result' = result
  BY DEF Loop, InitMiss, InitSuspend, InitFail, InitDone, Open, Progress, Copy, Clear, Profile,
         SetPcLater, SetPc, InBody, Active
<1>3. inflight \subseteq inflight'
  BY DEF Loop, InitMiss, InitSuspend, InitFail, InitDone, Open, Progress, Copy, Clear, Profile,
         SetPcLater, SetPc, Send, Fail
<1>4. {Key(r) : r \in inflight'} \subseteq ReqName
  BY KeyType DEF TypeOK
<1>5. {Key(r) : r \in inflight} \subseteq {Key(r) : r \in inflight'}
  BY <1>3
<1> QED BY <1>1, <1>2, <1>4, <1>5 DEF RW!Issue, Key

LEMMA StepImplements ==
  TypeInv /\ UniqueInv /\ [Next]_vars => [RW!RWNext]_(RW!rwvars)
<1> SUFFICES ASSUME TypeInv, UniqueInv, [Next]_vars PROVE RW!RWNext \/ UNCHANGED RW!rwvars
  OBVIOUS
<1>t. TypeOK'
  BY TypeStep
<1>1. ASSUME NEW j \in Jobs, Dow(j) PROVE RW!Begin
  <2>1. ~Active /\ Active' /\ inflight = {} /\ inflight' = {} /\ err' = "" /\ result' = "none"
    BY <1>1 DEF Dow, TypeInv, CountOK, Active
  <2> QED BY <2>1 DEF RW!Begin
<1>2. CASE Loop
  BY <1>2, <1>t, LoopIssues DEF RW!RWNext
<1>3. CASE DowRefused
  BY <1>3 DEF DowRefused, transaction, Active, RW!Refuse, RW!RWNext
<1>4. CASE Drain \/ Rerun \/ TargetStops \/ DeliverStop \/ LoadState \/ UNCHANGED vars
  <2>1. UNCHANGED <<inflight, err, result>> /\ (Active' <=> Active)
    BY <1>4 DEF Drain, Rerun, TargetStops, DeliverStop, LoadState, LoopLeft, vars, transaction,
                Active
  <2> QED BY <2>1 DEF RW!rwvars
<1>5. CASE Finish
  <2>1. inflight = {}
    <3>1. numreq = 0 /\ IsFiniteSet(inflight) /\ Cardinality(inflight) <= numreq
      BY <1>5 DEF Finish, Drained, TypeInv, TypeOK, CountOK
    <3> QED BY <3>1, NoneLeft
  <2>2. Active /\ ~Active' /\ inflight' = inflight /\ err' = err
    BY <1>5 DEF Finish, LoopLeft, Active, transaction
  <2>3. result' \in {"ok", "error"} /\ (err # "" => result' = "error")
    BY <1>5 DEF Finish, Verdict
  <2>4. {Key(r) : r \in inflight} = {} /\ {Key(r) : r \in inflight'} = {}
    BY <2>1, <2>2
  <2>5. Active' = FALSE
    <3>1. phase' = "done"
      BY <1>5 DEF Finish
    <3> QED BY <3>1 DEF Active
  <2>6. UNCHANGED <<{Key(r) : r \in inflight}, err # "">>
    BY <2>2, <2>4
  <2> QED BY <2>2, <2>3, <2>4, <2>5, <2>6 DEF RW!End, RW!RWNext
<1>6. ASSUME NEW r \in inflight, Callback(r) PROVE RW!Answer
  <2>1. inflight' = inflight \ {r} /\ Active /\ Active' /\ (err # "" => err' # "")
    BY <1>6, UniqueCallback DEF NoError
  <2>2. result' = result
    BY <1>6 DEF Callback, ReplyError, ReplyOk, DataReplyOk, DataReplyDivides
  <2>3. {Key(q) : q \in inflight'} = {Key(q) : q \in inflight} \ {Key(r)}
    BY <2>1 DEF UniqueInv, Distinct
  <2> QED BY <2>1, <2>2, <2>3 DEF RW!Answer
<1>7. ASSUME NEW r \in inflight, Agent(r) PROVE UNCHANGED RW!rwvars
  BY <1>7, UniqueAgent DEF RW!rwvars, Active
<1> QED BY <1>1, <1>2, <1>3, <1>4, <1>5, <1>6, <1>7 DEF Next, RW!RWNext

\* Every behaviour of the download, its callbacks and the agent is one of the request
\* window: nothing is sent after an error, arg is not given up while a reply may
\* come, and a recorded error is reported.
THEOREM KeepsRequestWindow == Spec => ImplementsReqWindow
<1>1. Init => RW!RWInit
  <2> SUFFICES ASSUME Init PROVE RW!RWInit
    OBVIOUS
  <2>1. ~Active /\ err = "" /\ result = "none"
    BY DEF Init, Active
  <2>2. {Key(r) : r \in inflight} = {}
    BY DEF Init
  <2>3. Active = FALSE
    <3>1. phase = "idle"
      BY DEF Init
    <3> QED BY <3>1 DEF Active
  <2>4. (err # "") = FALSE
    BY <2>1
  <2> QED BY <2>1, <2>2, <2>3, <2>4 DEF RW!RWInit
<1> QED BY <1>1, StepImplements, TypeInvariant, UniqueInvariant, PTL
        DEF Spec, ImplementsReqWindow, RW!RWSpec
=============================================================================
