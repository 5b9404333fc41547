------------------------------- MODULE Download -------------------------------
(***************************************************************************)
(* The "dow" command of XSDB: download_cache_client in xsdb.tcl and the    *)
(* reply callbacks of the requests it sends.                               *)
(*                                                                         *)
(* The command runs as a cache transaction in the TCF event thread.  Each  *)
(* run of the transaction is a while loop over the command's actions that  *)
(* sends requests while fewer than Window of them are unanswered; the run  *)
(* ends by waiting (cache wait) while replies are outstanding, and the     *)
(* callback of every reply starts it again (cache notify).  The state that *)
(* survives from one run to the next is the dictionary "arg": curaction,   *)
(* curpos, numreq, err, current_bytes.  The loop is modelled one turn at a *)
(* time; the callbacks run in the same thread, so only between runs.       *)
(*                                                                         *)
(* Bytes of the file are counted from 0 in each action; ElfPlan.tla says   *)
(* how "open" turns a file into the actions.                               *)
(***************************************************************************)
EXTENDS Integers, Sequences, FiniteSets

CONSTANTS
  Window,        \* requests that may be unanswered at once (16 in the code)
  Chunk,         \* bytes sent by one Memory set or fill (-chunksize)
  ProfWrites,    \* Memory set requests sent for one gmon section (7)
  Jobs           \* the downloads a user may ask for, see Job below

\* An action that "open" appends: copy <avail> of <size> file bytes to memory
\* (avail < size: the file is shorter than its headers say), clear <size> bytes,
\* configure the profile of <size> gmon sections, or set the PC.
BodyAction ==
  [op : {"copy", "clear", "profile", "setpc"}, size : Nat, avail : Nat]

\* The part of a job's description that the transaction reads; data is set for a
\* raw data file (dow -data) and not for an ELF file.
Job == [body : Seq(BodyAction), total : Nat, autostop : BOOLEAN, data : BOOLEAN]

ASSUME WindowAssumption ==
  /\ Window \in Nat \ {0}
  /\ Chunk \in Nat \ {0}
  /\ ProfWrites \in Nat \ {0}

\* "open" appends the setpc action last, and at most once.
ASSUME JobsAssumption ==
  /\ Jobs \subseteq Job
  /\ \A j \in Jobs : \A i \in DOMAIN j.body :
       j.body[i].op = "setpc" => i = Len(j.body)

VARIABLES
  job,           \* the arguments of the command
  phase,         \* where the transaction is, see Phases
  curaction,     \* index of the current action: 0 init, 1 open, 2 progress, 3.. body
  curpos,        \* bytes of the current action already requested
  numreq,        \* the command's count of unanswered requests
  err,           \* the first error, "" while there is none
  curbytes,      \* current_bytes: bytes acknowledged so far
  opening,       \* the run in which "init" and "open" were done has not ended
  argset,        \* the interpreter's variable arg exists
  fopen,         \* the file of the command is open
  message,       \* the message printed when the transaction is over
  result,        \* what the command returned
  inflight,      \* requests sent whose callback has not run
  mem,           \* the <<action, byte>> pairs the agent has written
  pcset,         \* the agent has set the PC register
  run,           \* whether the target runs, as the agent knows
  view,          \* RunControl:state of the target in the debugger's cache
  stopEvent      \* a contextSuspended event is on its way to the debugger

transaction == <<job, curaction, curpos, numreq, err, curbytes>>
command == <<opening, argset, fopen, message>>
target == <<run, view, stopEvent>>
agent == <<mem, pcset>>
vars == <<transaction, command, phase, result, inflight, agent, target>>

\* running: inside a run of the transaction.  leaving: the loop was left by
\* break.  waiting: the run ended by cache wait.  notified: cache notify has
\* been called and the next run is due.
Phases == {"idle", "running", "leaving", "waiting", "notified", "done"}
Errors == {"", "init", "open", "read", "rc", "profile", "reply", "abort"}
-----------------------------------------------------------------------------
Active == phase \in {"running", "leaving", "waiting", "notified"}

Min2(a, b) == IF a < b THEN a ELSE b

NumActions == 3 + Len(job.body)

\* The condition of the transaction's while loop.
LoopGuard == err = "" /\ numreq < Window /\ curaction < NumActions

BodyCur == job.body[curaction - 2]

\* A request of action act at byte pos, as the debugger sends it.
Request(op, act, pos, size) ==
  [op |-> op, act |-> act, pos |-> pos, size |-> size, st |-> "sent"]

Key(r) == <<r.op, r.act, r.pos>>

\* The bytes a memory request writes.
BytesOf(r) == {<<r.act, b>> : b \in r.pos .. (r.pos + r.size - 1)}

\* The bytes that the body's action i must bring to the target.
BytesOfAction(i) ==
  IF job.body[i].op \in {"copy", "clear"}
  THEN {<<i + 2, b>> : b \in 0 .. (job.body[i].size - 1)}
  ELSE {}

Loaded == \A i \in DOMAIN job.body : BytesOfAction(i) \subseteq mem

NextAction == curaction' = curaction + 1 /\ curpos' = 0

\* Tcl code in the loop raised an error: the loop ends with it recorded.
Fail(e) == err' = e /\ UNCHANGED <<curaction, curpos, numreq, inflight>>

\* Faulty Send: several requests are counted once.
SendCountsOnce(S) ==
  /\ inflight' = inflight \cup S
  /\ numreq' = numreq + 1

Send(S) ==
  /\ inflight' = inflight \cup S
  /\ numreq' = numreq + Cardinality(S)

\* Faulty Drained: the last reply is not awaited.
DrainedEarly == numreq <= 1

\* Every reply has come: "setpc" and the end of the command wait for it.
Drained == numreq = 0

-----------------------------------------------------------------------------
Init ==
  /\ job \in Jobs
  /\ phase = "idle"
  /\ curaction = 0 /\ curpos = 0 /\ numreq = 0
  /\ err = "" /\ curbytes = 0
  /\ result = "none"
  /\ inflight = {}
  /\ mem = {} /\ pcset = FALSE
  /\ run \in {"running", "stopped"}
  /\ view \in {"unknown", run}
  /\ stopEvent = FALSE
  /\ opening = FALSE /\ argset = FALSE /\ fopen = FALSE
  /\ message = "none"

\* dow: the arguments are stored with set_arg and the transaction is entered.
Dow(j) ==
  /\ phase \in {"idle", "done"}
  /\ ~argset
  /\ phase' = "running"
  /\ job' = j
  /\ curaction' = 0 /\ curpos' = 0 /\ numreq' = 0
  /\ err' = "" /\ curbytes' = 0
  /\ result' = "none"
  /\ opening' = FALSE /\ argset' = TRUE /\ fopen' = FALSE /\ message' = "none"
  /\ mem' = {} /\ pcset' = FALSE
  /\ UNCHANGED <<inflight, target>>

\* The assertion of set_arg fails: an earlier command has left its arg behind.
DowRefused ==
  /\ phase \in {"idle", "done"}
  /\ argset
  /\ result' = "error"
  /\ UNCHANGED <<transaction, command, phase, inflight, agent, target>>

-----------------------------------------------------------------------------
\* Action "init".

\* The state of the target, or its registers, are not cached: wait for the cache
\* to load them.
InitMiss ==
  /\ phase = "running" /\ LoopGuard /\ curaction = 0
  /\ view = "unknown"
  /\ phase' = "waiting"
  /\ curpos' = 1
  /\ UNCHANGED <<job, curaction, numreq, err, curbytes, result, inflight,
                 agent, target, command>>

\* A running target is suspended first, and the run ends at once.
InitSuspend ==
  /\ phase = "running" /\ LoopGuard /\ curaction = 0
  /\ job.autostop /\ view = "running"
  /\ Send({Request("suspend", 0, 0, 0)})
  /\ phase' = "waiting"
  /\ curpos' = 1
  /\ UNCHANGED <<job, curaction, err, curbytes, result, agent, target, command>>

\* The cached state is an error, or no program counter register is found.
InitFail ==
  /\ phase = "running" /\ LoopGuard /\ curaction = 0
  /\ view \notin {"unknown"}
  /\ \/ job.autostop /\ view = "error"
     \/ \E i \in DOMAIN job.body : job.body[i].op = "setpc"
  /\ (job.autostop => view # "running")
  /\ Fail("init")
  /\ UNCHANGED <<job, phase, curbytes, result, agent, target, command>>

\* Faulty Halted: the cached state is not looked at.
HaltedAssumed == TRUE

Halted == job.autostop => view = "stopped"

InitDone ==
  /\ phase = "running" /\ LoopGuard /\ curaction = 0
  /\ view # "unknown"
  /\ Halted
  /\ NextAction
  /\ opening' = TRUE
  /\ UNCHANGED <<job, phase, numreq, err, curbytes, result, inflight, agent,
                 target, argset, fopen, message>>

\* Action "open": the file is opened and the body actions are appended; opening
\* or reading it fails, or the user aborts while the sections are listed.
Open ==
  /\ phase = "running" /\ LoopGuard /\ curaction = 1
  /\ \/ NextAction /\ fopen' = TRUE /\ UNCHANGED <<err, numreq, inflight>>
     \/ Fail("open") /\ fopen' \in BOOLEAN
  /\ UNCHANGED <<job, phase, curbytes, result, agent, target, opening, argset, message>>

\* Action "progress", entered with numreq = 0 since "init" waits for its reply.
\* An abort raised by eval_progress is stored in arg while "dict with" holds a
\* copy of err, which overwrites it: the loop is left with err unchanged.
Progress ==
  /\ phase = "running" /\ LoopGuard /\ curaction = 2
  /\ numreq = 0
  /\ \/ curaction' = curaction + 1 /\ UNCHANGED phase
     \/ phase' = "leaving" /\ UNCHANGED curaction
  /\ UNCHANGED <<job, curpos, numreq, err, curbytes, command, result, inflight,
                 agent, target>>

-----------------------------------------------------------------------------
\* The body actions.

InBody(op) == phase = "running" /\ LoopGuard /\ curaction >= 3 /\ BodyCur.op = op

\* Action "copy": one chunk is read and sent.  Reading fails, for an ELF file also
\* when the file is too short; of a data file a short read is sent as it is and an
\* empty one is an error, unless nothing was asked for.
Copy ==
  LET want == Min2(Chunk, BodyCur.size - curpos)
      got == Min2(want, BodyCur.avail - curpos)
  IN /\ InBody("copy")
     /\ \/ Fail("read")
        \/ /\ job.data /\ got = 0 /\ want > 0
           /\ err' = "read"
           /\ NextAction
           /\ UNCHANGED <<numreq, inflight>>
        \/ /\ got = want \/ (job.data /\ got > 0)
           /\ Send({Request("copy", curaction, curpos, got)})
           /\ IF curpos + got = BodyCur.size THEN NextAction
              ELSE curpos' = curpos + got /\ UNCHANGED curaction
           /\ UNCHANGED err
     /\ UNCHANGED <<job, phase, curbytes, result, agent, target, command>>

\* Action "clear": one chunk is filled.  At the end of the range the action is
\* left, after one more fill, of no byte.
Clear ==
  LET rest == BodyCur.size - curpos
      size == Min2(rest, Chunk)
  IN /\ InBody("clear")
     /\ Send({Request("clear", curaction, curpos, size)})
     /\ IF rest = 0 THEN NextAction
        ELSE curpos' = curpos + size /\ UNCHANGED curaction
     /\ UNCHANGED <<job, phase, err, curbytes, result, agent, target, command>>

\* Action "profile": the requests of all gmon sections are sent in one turn,
\* without a look at numreq; an error of the profiler library, or in the data it
\* returned, ends it anywhere.  The variable rc is set by "init" and is not kept
\* in arg: in a later run it does not exist.
Profile ==
  /\ InBody("profile")
  /\ \/ ~opening /\ Fail("rc")
     \/ /\ opening
        /\ \E n \in 0 .. (BodyCur.size * ProfWrites) :
             /\ Send({Request("profile", curaction, i, 0) : i \in 0 .. (n - 1)})
             /\ \/ n = BodyCur.size * ProfWrites /\ NextAction /\ UNCHANGED err
                \/ err' = "profile" /\ UNCHANGED <<curaction, curpos>>
  /\ UNCHANGED <<job, phase, curbytes, result, agent, target, command>>

\* Action "setpc" leaves the loop while a request is unanswered.
SetPcLater ==
  /\ InBody("setpc")
  /\ ~Drained
  /\ phase' = "leaving"
  /\ UNCHANGED <<transaction, result, inflight, agent, target, command>>

\* The user may abort at the message that is printed.  A PC register of an
\* unsupported size is not written: a warning is printed.
SetPc ==
  /\ InBody("setpc")
  /\ Drained
  /\ \/ /\ Send({Request("setpc", curaction, 0, 0)})
        /\ curaction' = curaction + 1 /\ UNCHANGED err
     \/ /\ UNCHANGED <<numreq, inflight, err>>
        /\ curaction' = curaction + 1
     \/ /\ err' = "abort"
        /\ UNCHANGED <<numreq, inflight, curaction>>
  /\ UNCHANGED <<job, phase, curpos, curbytes, command, result, agent, target>>

-----------------------------------------------------------------------------
\* After the loop.

LoopLeft == phase = "leaving" \/ (phase = "running" /\ ~LoopGuard)

\* Replies are outstanding: cache wait ends the run.
Drain ==
  /\ LoopLeft
  /\ ~Drained
  /\ phase' = "waiting"
  /\ UNCHANGED <<transaction, result, inflight, agent, target, command>>

\* The tail of the transaction reads the variable sh_list, which "open" stores in
\* arg only: the run that opened the file does not have it.
ShListMissing == opening /\ curaction >= 2

\* Faulty Verdict: the recorded error is not raised.
VerdictSilent == IF ShListMissing THEN "error" ELSE "ok"

Verdict == IF err = "" /\ ~ShListMissing THEN "ok" ELSE "error"

\* cache_exit and the final message; then the file is closed, arg unset and the
\* error raised, unless reading sh_list fails before any of it.
Finish ==
  /\ LoopLeft
  /\ Drained
  /\ phase' = "done"
  /\ message' = IF err = "" THEN "success" ELSE "failure"
  /\ result' = Verdict
  /\ opening' = FALSE
  /\ argset' = ShListMissing
  /\ fopen' = (fopen /\ ShListMissing)
  /\ UNCHANGED <<transaction, inflight, agent, target>>

\* The next run of a notified transaction starts with the entries of arg only.
Rerun ==
  /\ phase = "notified"
  /\ phase' = "running"
  /\ opening' = FALSE
  /\ UNCHANGED <<transaction, argset, fopen, message, result, inflight, agent, target>>

-----------------------------------------------------------------------------
\* The callbacks.  They run between runs of the transaction, in any order that
\* the agent answers in, also while the next run is already due.

Answered(r) ==
  /\ phase \in {"waiting", "notified"}
  /\ r \in inflight
  /\ inflight' = inflight \ {r}

\* Faulty Settle: the transaction is not notified.
SettleQuietly == numreq' = numreq - 1 /\ UNCHANGED phase

Settle == numreq' = numreq - 1 /\ phase' = "notified"

\* Faulty NoteError: the error is dropped.
NoteNoError == UNCHANGED err

NoteError == err' = IF err = "" THEN "reply" ELSE err

\* The reply is an error, or cannot be read: the first error is kept.
ReplyError(r) ==
  /\ Answered(r) /\ r.st = "fail"
  /\ NoteError
  /\ Settle
  /\ UNCHANGED <<job, curaction, curpos, curbytes, result, agent, target, command>>

\* download_suspend_callback (which takes "Already stopped" for a success),
\* download_reg_set_callback and gprof_data_callback.
ReplyOk(r) ==
  /\ Answered(r) /\ r.st = "ok"
  /\ r.op \in {"suspend", "setpc", "profile"}
  /\ Settle
  /\ UNCHANGED <<job, curaction, curpos, err, curbytes, result, agent, target, command>>

Acknowledged(r) == curbytes + r.size

\* download_data_callback: the progress display may raise the user's abort, which
\* replaces an earlier error.
DataReplyOk(r) ==
  /\ Answered(r) /\ r.st = "ok"
  /\ r.op \in {"copy", "clear"}
  /\ job.total > 0
  /\ curbytes' = Acknowledged(r)
  /\ err' \in {err, "abort"}
  /\ Settle
  /\ UNCHANGED <<job, curaction, curpos, result, agent, target, command>>

\* download_data_callback divides by total_bytes before it counts the reply.
DataReplyDivides(r) ==
  /\ Answered(r) /\ r.st = "ok"
  /\ r.op \in {"copy", "clear"}
  /\ job.total = 0
  /\ curbytes' = Acknowledged(r)
  /\ UNCHANGED <<job, curaction, curpos, numreq, err, phase, result, agent,
                 target, command>>

-----------------------------------------------------------------------------
\* The agent and the target (external).

\* A memory request is carried out, or fails having written anything or nothing.
AgentMemory(r) ==
  /\ r \in inflight /\ r.st = "sent" /\ r.op \in {"copy", "clear", "profile"}
  /\ \E st \in {"ok", "fail"} :
       /\ inflight' = (inflight \ {r}) \cup {[r EXCEPT !.st = st]}
       /\ mem' \in {mem \cup BytesOf(r)} \cup (IF st = "fail" THEN {mem} ELSE {})
  /\ UNCHANGED <<transaction, phase, result, pcset, target, command>>

AgentSetPc(r) ==
  /\ r \in inflight /\ r.st = "sent" /\ r.op = "setpc"
  /\ \E st \in {"ok", "fail"} :
       /\ inflight' = (inflight \ {r}) \cup {[r EXCEPT !.st = st]}
       /\ pcset' = (st = "ok")
  /\ UNCHANGED <<transaction, phase, result, mem, target, command>>

\* Suspending a running target stops it and raises an event; a stopped one is
\* "Already stopped", which the callback takes for a success.
AgentSuspend(r) ==
  /\ r \in inflight /\ r.st = "sent" /\ r.op = "suspend"
  /\ \/ /\ inflight' = (inflight \ {r}) \cup {[r EXCEPT !.st = "ok"]}
        /\ run' = "stopped"
        /\ stopEvent' = (stopEvent \/ run = "running")
     \/ /\ inflight' = (inflight \ {r}) \cup {[r EXCEPT !.st = "fail"]}
        /\ UNCHANGED <<run, stopEvent>>
  /\ UNCHANGED <<transaction, phase, result, agent, view, command>>

\* The target stops by itself, at a breakpoint.
TargetStops ==
  /\ run = "running"
  /\ run' = "stopped"
  /\ stopEvent' = TRUE
  /\ UNCHANGED <<transaction, phase, result, inflight, agent, view, command>>

\* The contextSuspended event stores the state in the cache, whether or not there was one.
\* While the transaction waits for the state it missed, the reply stores it again
\* before anyone looks: it stays unknown until then.
DeliverStop ==
  /\ stopEvent
  /\ stopEvent' = FALSE
  /\ view' = IF phase = "waiting" /\ view = "unknown" THEN view ELSE "stopped"
  /\ UNCHANGED <<transaction, phase, result, inflight, agent, run, command>>

\* The cache loads the state the transaction missed, and runs it again.
LoadState ==
  /\ phase = "waiting" /\ view = "unknown"
  /\ ~stopEvent
  /\ view' \in {run, "error"}
  /\ phase' = "notified"
  /\ UNCHANGED <<transaction, result, inflight, agent, run, stopEvent, command>>

-----------------------------------------------------------------------------
Loop ==
  \/ InitMiss \/ InitSuspend \/ InitFail \/ InitDone
  \/ Open \/ Progress
  \/ Copy \/ Clear \/ Profile \/ SetPcLater \/ SetPc

Callback(r) == ReplyError(r) \/ ReplyOk(r) \/ DataReplyOk(r) \/ DataReplyDivides(r)

Agent(r) == AgentMemory(r) \/ AgentSetPc(r) \/ AgentSuspend(r)

Next ==
  \/ DowRefused \/ \E j \in Jobs : Dow(j)
  \/ Loop \/ Drain \/ Finish \/ Rerun
  \/ \E r \in inflight : Callback(r) \/ Agent(r)
  \/ TargetStops \/ DeliverStop \/ LoadState

Spec == Init /\ [][Next]_vars

\* The event thread keeps dispatching, the agent answers every request and the
\* channel delivers its events.  The user need not type another command, and
\* the target need not stop by itself.
Fairness ==
  /\ WF_vars(Loop \/ Drain \/ Finish \/ Rerun)
  /\ WF_vars(\E r \in inflight : Callback(r))
  /\ WF_vars(\E r \in inflight : Agent(r))
  /\ WF_vars(DeliverStop)
  /\ WF_vars(LoadState)

FairSpec == Spec /\ Fairness

-----------------------------------------------------------------------------
(***************************************************************************)
(* Properties                                                              *)
(***************************************************************************)

Requests ==
  [ op : {"suspend", "copy", "clear", "profile", "setpc"},
    act : Nat, pos : Nat, size : Nat, st : {"sent", "ok", "fail"} ]

\* The types of the variables.
TypeOK ==
  /\ job \in Jobs
  /\ phase \in Phases
  /\ curaction \in 0 .. NumActions
  /\ curpos \in Nat
  /\ numreq \in Nat
  /\ err \in Errors
  /\ curbytes \in Nat
  /\ result \in {"none", "ok", "error"}
  /\ inflight \subseteq Requests /\ IsFiniteSet(inflight)
  /\ mem \subseteq Nat \X Nat
  /\ pcset \in BOOLEAN
  /\ run \in {"running", "stopped"}
  /\ view \in {"unknown", "running", "stopped", "error"}
  /\ stopEvent \in BOOLEAN
  /\ opening \in BOOLEAN /\ argset \in BOOLEAN /\ fopen \in BOOLEAN
  /\ message \in {"none", "success", "failure"}

\* The transaction is over, and its arg no longer used, only when the callback of every request
\* it sent has run (the drain at lines 744-756): no reply, whatever the order of
\* the answers and wherever the loop failed, comes back to a missing arg or to
\* the arg of the next command.
NoDanglingReply == ~Active => inflight = {}

\* The callbacks decrement numreq only while it is positive: the assertions at
\* lines 294, 315, 331 and 797.
NumReqAssertion == inflight # {} => numreq > 0

\* The PC is written only when the agent has carried out every copy and clear of
\* the file (the break of "setpc" while numreq > 0, and the loop's err test): the
\* program cannot be started over memory that is not loaded yet.
PcAfterLoad == (pcset \/ \E r \in inflight : r.op = "setpc") => Loaded

\* A download that returns normally has brought every byte to the target, whatever
\* was aborted, failed or came short on the way.
SuccessMeansLoaded == result = "ok" => Loaded

\* What the assertion of set_arg (line 43) says: when a command stores its
\* arguments, no earlier command has left its own behind.
ArgFree == ~Active => ~argset

\* With auto-stop no request to write memory is outstanding while the target
\* runs, although the transaction only sees the cached state, which the event of
\* the suspension reaches before or after the reply of the suspend request.
StoppedWhileLoading ==
  job.autostop => \A r \in inflight : r.op # "suspend" => run = "stopped"

\* The first error is the one reported: a later reply never replaces it (only the
\* user's abort, which the progress display raises, does).
FirstErrorKept ==
  [][err # "" /\ Active => err' \in {err, "abort"}]_vars

\* A download ends, whatever fails, once the agent answers what it is asked: every path
\* of every callback comes to its notify.  That of an empty data file does not: the
\* callback divides by total_bytes before it counts the reply (line 275).
EmptyDataFile == job.data /\ job.total = 0

Terminates == (Active /\ ~EmptyDataFile) ~> ~Active

\* The download implements the request-window discipline.
ReqName == {"suspend", "copy", "clear", "profile", "setpc"} \X Nat \X Nat

RW == INSTANCE ReqWindow WITH
        Req <- ReqName,
        open <- Active,
        pending <- {Key(r) : r \in inflight},
        failed <- err # "",
        verdict <- result

\* Every behaviour of the transaction, its callbacks and the agent is one of
\* ReqWindow: arg lives exactly as long as replies may still need it.
ImplementsReqWindow == RW!RWSpec
=============================================================================
