------------------------------ MODULE TargetSocket ------------------------------
(***************************************************************************)
(* A simple_target_socket (tlm_utils/simple_target_socket.h) with one of   *)
(* its two transport callbacks registered, between initiators and a        *)
(* target that keep to the base protocol (both external).                  *)
(*                                                                         *)
(* With the non-blocking callback, b_transport hands its transaction to    *)
(* b2nb_thread and waits; with the blocking one, nb_transport_fw hands it  *)
(* to a thread of its own (nb2b_thread), and reuses the threads.  The      *)
(* threads do not preempt each other: each runs until it waits (the        *)
(* scheduler of SystemC, external).                                        *)
(***************************************************************************)
EXTENDS PeqWithGet, FiniteSets

CONSTANTS
  Trans,        \* the transactions, each used by an initiator of its own
  NoTrans,      \* a null pointer
  MaxDelay,     \* bound: the delays of the calls
  MaxCalls      \* bound: how often a transaction is used

ASSUME SocketAssumption ==
  /\ NoTrans \notin Trans /\ IsFiniteSet(Trans)
  /\ MaxDelay \in Nat /\ Never = MaxDelay + 1 /\ MaxCalls \in Nat

Delays == 0 .. MaxDelay

VARIABLES
  registered,   \* which callback is: "nb" or "b"
  calls,        \* calls[t]: how often t has been used
  \* b_transport to nb_transport
  peq,          \* m_peq
  pending,      \* the keys of m_pending_trans
  end_event,    \* end_event[t]: when that of t is due
  m_end_request, \* when it is due
  m_current_transaction,
  thread,       \* b2nb_thread: [pc, trans, timer, ready]
  client,       \* client[t]: [pc, ready, mm_added] of the call of b_transport with t
  target,       \* target[t]: [owes, holds]: the phase the target owes, and whether it
                \*   holds a reference to t
  late,         \* BEGIN_RESP has notified m_end_request when the thread did not wait for it
  \* nb_transport to b_transport
  handles,      \* m_process_handle: [trans, suspend, pc, event, ready] of the threads
  m_response_in_progress,
  m_end_response, \* when it is due
  initiator     \* initiator[t]: "idle", "asked", or "answered" when it owes END_RESP

b2nb == <<peq, pending, end_event, m_end_request, m_current_transaction, thread, client, target,
          late>>
nb2b == <<handles, m_response_in_progress, m_end_response, initiator>>
vars == <<registered, calls, b2nb, nb2b>>

\* m_current_transaction is not initialised by the constructor.
Init ==
  /\ registered \in {"nb", "b"}
  /\ calls = [t \in Trans |-> 0]
  /\ peq = EmptyPeq /\ pending = {}
  /\ end_event = [t \in Trans |-> Never] /\ m_end_request = Never
  /\ m_current_transaction \in IF registered = "nb" THEN Trans \cup {NoTrans} ELSE {NoTrans}
  /\ thread = [pc |-> "peq", trans |-> NoTrans, timer |-> Never, ready |-> FALSE]
  /\ client = [t \in Trans |-> [pc |-> "idle", ready |-> FALSE, mm_added |-> FALSE]]
  /\ target = [t \in Trans |-> [owes |-> "none", holds |-> FALSE]]
  /\ late = FALSE
  /\ handles = <<>> /\ m_response_in_progress = FALSE /\ m_end_response = Never
  /\ initiator = [t \in Trans |-> "idle"]

\* No thread has the processor.
Free == thread.pc # "next"

-----------------------------------------------------------------------------
(* b_transport, when the target is non-blocking *)

b_transport(t) ==
  /\ registered = "nb" /\ Free
  /\ client[t].pc = "idle" /\ ~target[t].holds /\ calls[t] < MaxCalls
  /\ calls' = [calls EXCEPT ![t] = calls[t] + 1]
  /\ \E d \in Delays : peq' = notify(peq, t, d)
  /\ \E mm_added \in BOOLEAN :
       client' = [client EXCEPT ![t] = [pc |-> "end", ready |-> FALSE, mm_added |-> mm_added]]
  /\ pending' = pending \cup {t}
  /\ UNCHANGED <<registered, end_event, m_end_request, m_current_transaction, thread, target, late,
                 nb2b>>

\* Faulty b_transport_end: free is waited for although it may have been called.
b_transport_endWaits(t) ==
  /\ Free /\ client[t].pc = "end" /\ client[t].ready
  /\ client' = [client EXCEPT ![t].ready = FALSE,
                              ![t].pc = IF client[t].mm_added THEN "done" ELSE "idle"]
  /\ UNCHANGED <<registered, calls, peq, pending, end_event, m_end_request, m_current_transaction,
                 thread, target, late, nb2b>>

\* After wait(end_event): if the target still holds a reference, free is waited for.
b_transport_end(t) ==
  /\ Free /\ client[t].pc = "end" /\ client[t].ready
  /\ client' = [client EXCEPT ![t].ready = FALSE,
                              ![t].pc = IF client[t].mm_added /\ target[t].holds THEN "done"
                                        ELSE "idle"]
  /\ UNCHANGED <<registered, calls, peq, pending, end_event, m_end_request, m_current_transaction,
                 thread, target, late, nb2b>>

\* After wait(mm_ext.done).
b_transport_done(t) ==
  /\ Free /\ client[t].pc = "done" /\ client[t].ready
  /\ client' = [client EXCEPT ![t].ready = FALSE, ![t].pc = "idle"]
  /\ UNCHANGED <<registered, calls, peq, pending, end_event, m_end_request, m_current_transaction,
                 thread, target, late, nb2b>>

\* b2nb_thread goes on with its loop after a wait; END_RESP ends the transaction for
\* which it waited before sending it.
b2nb_wake ==
  /\ Free /\ thread.ready
  /\ thread' = [thread EXCEPT !.pc = "next", !.ready = FALSE, !.trans = NoTrans]
  /\ m_current_transaction' = IF thread.pc = "request" THEN NoTrans ELSE m_current_transaction
  /\ IF thread.pc = "response"
     THEN /\ \E d \in Delays :
               end_event' = [end_event EXCEPT ![thread.trans] = Notified(@, d)]
          /\ pending' = pending \ {thread.trans}
     ELSE UNCHANGED <<end_event, pending>>
  /\ UNCHANGED <<registered, calls, peq, m_end_request, client, target, late, nb2b>>

\* The thread waits: for m_end_request, or for the delay of an END_REQ or a BEGIN_RESP.
ThreadWaits(pc, t, timer) ==
  thread' = [pc |-> pc, trans |-> t, timer |-> timer, ready |-> FALSE]

\* Faulty Completed: the transaction stays in the map.
CompletedKept(t) ==
  /\ \E d \in Delays : end_event' = [end_event EXCEPT ![t] = Notified(@, d)]
  /\ \E h \in BOOLEAN : target' = [target EXCEPT ![t] = [owes |-> "none", holds |-> h]]
  /\ UNCHANGED <<thread, m_current_transaction, pending>>

\* The target's answers to BEGIN_REQ with t; it may keep a reference to t.
Completed(t) ==
  /\ \E d \in Delays : end_event' = [end_event EXCEPT ![t] = Notified(@, d)]
  /\ pending' = pending \ {t}
  /\ \E h \in BOOLEAN : target' = [target EXCEPT ![t] = [owes |-> "none", holds |-> h]]
  /\ UNCHANGED <<thread, m_current_transaction>>

\* Faulty Accepted: the thread goes on with the next transaction.
AcceptedAtOnce(t) ==
  /\ \E h \in BOOLEAN : target' = [target EXCEPT ![t] = [owes |-> "END_REQ", holds |-> h]]
  /\ UNCHANGED <<thread, m_current_transaction, end_event, pending>>

Accepted(t) ==
  /\ m_current_transaction' = t
  /\ ThreadWaits("request", t, Never)
  /\ \E h \in BOOLEAN : target' = [target EXCEPT ![t] = [owes |-> "END_REQ", holds |-> h]]
  /\ UNCHANGED <<end_event, pending>>

UpdatedEndReq(t) ==
  /\ \E d \in Delays : ThreadWaits("delay", t, d)
  /\ \E h \in BOOLEAN : target' = [target EXCEPT ![t] = [owes |-> "BEGIN_RESP", holds |-> h]]
  /\ UNCHANGED <<m_current_transaction, end_event, pending>>

UpdatedBeginResp(t) ==
  /\ \E d \in Delays : ThreadWaits("response", t, d)
  /\ \E h \in BOOLEAN : target' = [target EXCEPT ![t] = [owes |-> "none", holds |-> h]]
  /\ UNCHANGED <<m_current_transaction, end_event, pending>>

b2nb_next ==
  /\ thread.pc = "next"
  /\ IF is_due(peq)
     THEN LET t == Head(peq.scheduled).trans
          IN /\ peq' = Popped(peq)
             /\ Completed(t) \/ Accepted(t) \/ UpdatedEndReq(t) \/ UpdatedBeginResp(t)
     ELSE /\ peq' = Armed(peq)
          /\ ThreadWaits("peq", NoTrans, Never)
          /\ UNCHANGED <<m_current_transaction, end_event, pending, target>>
  /\ UNCHANGED <<registered, calls, m_end_request, client, late, nb2b>>

\* nb_transport_bw with END_REQ, called by the target.
EndReq(t) ==
  /\ Free /\ target[t].owes = "END_REQ"
  /\ target' = [target EXCEPT ![t].owes = "BEGIN_RESP"]
  /\ m_end_request' = Notified(m_end_request, 0)
  /\ UNCHANGED <<registered, calls, peq, pending, end_event, m_current_transaction, thread, client,
                 late, nb2b>>

\* nb_transport_bw with BEGIN_RESP: it ends the transaction, and the request phase too if
\* the thread seems to wait for that.
BeginResp(t) ==
  /\ Free /\ target[t].owes \in {"END_REQ", "BEGIN_RESP"}
  /\ target' = [target EXCEPT ![t].owes = "none"]
  /\ IF m_current_transaction = t
     THEN /\ m_end_request' = Notified(m_end_request, 0)
          /\ late' = (late \/ thread.pc # "request" \/ thread.ready)
     ELSE UNCHANGED <<m_end_request, late>>
  /\ \E d \in Delays : end_event' = [end_event EXCEPT ![t] = Notified(@, d)]
  /\ pending' = pending \ {t}
  /\ UNCHANGED <<registered, calls, peq, m_current_transaction, thread, client, nb2b>>

\* The target releases its reference: the last one calls free, which notifies mm_ext.done.
Release(t) ==
  /\ Free /\ target[t].holds /\ target[t].owes = "none"
  /\ target' = [target EXCEPT ![t].holds = FALSE]
  /\ client' = [client EXCEPT ![t].ready = client[t].ready \/ client[t].pc = "done"]
  /\ UNCHANGED <<registered, calls, peq, pending, end_event, m_end_request, m_current_transaction,
                 thread, late, nb2b>>

-----------------------------------------------------------------------------
(* nb_transport_fw, when the target is blocking *)

Suspended == {i \in DOMAIN handles : handles[i].suspend}
FirstSuspended == CHOOSE i \in Suspended : \A j \in Suspended : i <= j

\* Faulty get_handle: the handle stays marked as suspended.
get_handleMarked(t) == [handles EXCEPT ![FirstSuspended].trans = t]

\* get_handle: a suspended handle is used again.
get_handle(t) == [handles EXCEPT ![FirstSuspended].trans = t, ![FirstSuspended].suspend = FALSE]

\* put_handle, of a new thread that does not run before its event.
put_handle(t) ==
  Append(handles, [trans |-> t, suspend |-> FALSE, pc |-> "rest", event |-> Never, ready |-> FALSE])

\* nb_transport_fw with BEGIN_REQ.
BeginReq(t) ==
  /\ registered = "b" /\ initiator[t] = "idle" /\ calls[t] < MaxCalls
  /\ calls' = [calls EXCEPT ![t] = calls[t] + 1]
  /\ initiator' = [initiator EXCEPT ![t] = "asked"]
  /\ LET i == IF Suspended = {} THEN Len(handles) + 1 ELSE FirstSuspended
         hs == IF Suspended = {} THEN put_handle(t) ELSE get_handle(t)
     IN \E d \in Delays : handles' = [hs EXCEPT ![i].event = Notified(@, d)]
  /\ UNCHANGED <<registered, m_response_in_progress, m_end_response, b2nb>>

\* nb_transport_fw with END_RESP: the response is over at once, who waits for that is
\* woken after the delay.
EndResp(t) ==
  /\ initiator[t] = "answered"
  /\ initiator' = [initiator EXCEPT ![t] = "idle"]
  /\ m_response_in_progress' = FALSE
  /\ \E d \in Delays : m_end_response' = Notified(m_end_response, d)
  /\ UNCHANGED <<registered, calls, handles, b2nb>>

\* nb2b_thread calls the b_transport of the target, which may wait.
nb2b_call(i) ==
  /\ handles[i].pc = "rest" /\ handles[i].ready
  /\ handles' = [handles EXCEPT ![i].pc = "call", ![i].ready = FALSE]
  /\ UNCHANGED <<registered, calls, m_response_in_progress, m_end_response, initiator, b2nb>>

\* It returns, and the thread waits for the delay it gives.
nb2b_returned(i) ==
  /\ handles[i].pc = "call"
  /\ \E d \in Delays : handles' = [handles EXCEPT ![i].pc = "delay", ![i].event = d]
  /\ UNCHANGED <<registered, calls, m_response_in_progress, m_end_response, initiator, b2nb>>

\* Faulty nb2b_respond: woken by m_end_response, the thread does not look again.
nb2b_respondOnce(i) ==
  /\ handles[i].pc \in {"delay", "respond"} /\ handles[i].ready
  /\ IF m_response_in_progress /\ handles[i].pc = "delay"
     THEN /\ handles' = [handles EXCEPT ![i].pc = "respond", ![i].ready = FALSE]
          /\ UNCHANGED <<m_response_in_progress, initiator>>
     ELSE /\ handles' = [handles EXCEPT ![i].pc = "rest", ![i].ready = FALSE, ![i].suspend = TRUE]
          /\ \E accepted \in BOOLEAN :
               /\ m_response_in_progress' = (m_response_in_progress \/ accepted)
               /\ initiator' = [initiator EXCEPT ![handles[i].trans] =
                                 IF accepted THEN "answered" ELSE "idle"]
  /\ UNCHANGED <<registered, calls, m_end_response, b2nb>>

\* The return path: one response at a time.  The initiator completes it at once, or
\* accepts it and owes END_RESP.
nb2b_respond(i) ==
  /\ handles[i].pc \in {"delay", "respond"} /\ handles[i].ready
  /\ IF m_response_in_progress
     THEN /\ handles' = [handles EXCEPT ![i].pc = "respond", ![i].ready = FALSE]
          /\ UNCHANGED <<m_response_in_progress, initiator>>
     ELSE /\ handles' = [handles EXCEPT ![i].pc = "rest", ![i].ready = FALSE, ![i].suspend = TRUE]
          /\ \E accepted \in BOOLEAN :
               /\ m_response_in_progress' = accepted
               /\ initiator' = [initiator EXCEPT ![handles[i].trans] =
                                 IF accepted THEN "answered" ELSE "idle"]
  /\ UNCHANGED <<registered, calls, m_end_response, b2nb>>

-----------------------------------------------------------------------------
(* The scheduler *)

Notifications ==
  {peq.event, m_end_request, thread.timer, m_end_response}
  \cup {end_event[t] : t \in Trans} \cup {handles[i].event : i \in DOMAIN handles}

\* When every thread waits, the notifications that are due next happen: those of the
\* delta cycle, or else the earliest.
Advance ==
  /\ Free /\ ~thread.ready
  /\ \A t \in Trans : ~client[t].ready
  /\ \A i \in DOMAIN handles : ~handles[i].ready
  /\ \E d \in Notifications \ {Never} :
       /\ \A e \in Notifications : d <= e
       /\ peq' = PeqLater(peq, d)
       /\ m_end_request' = Later(m_end_request, d)
       /\ end_event' = [t \in Trans |-> Later(end_event[t], d)]
       /\ m_end_response' = Later(m_end_response, d)
       /\ thread' = [thread EXCEPT !.timer = Later(@, d),
                                   !.ready = \/ thread.pc = "peq" /\ peq.event = d
                                             \/ thread.pc = "request" /\ m_end_request = d
                                             \/ thread.timer = d]
       /\ client' = [t \in Trans |->
                      [client[t] EXCEPT !.ready = client[t].pc = "end" /\ end_event[t] = d]]
       /\ handles' = [i \in DOMAIN handles |->
                       [handles[i] EXCEPT !.event = Later(@, d),
                                          !.ready = \/ handles[i].event = d
                                                    \/ /\ handles[i].pc = "respond"
                                                       /\ m_end_response = d]]
  /\ UNCHANGED <<registered, calls, pending, m_current_transaction, target, late,
                 m_response_in_progress, initiator>>

B2nbThread == b2nb_wake \/ b2nb_next
Nb2bThread(i) == nb2b_call(i) \/ nb2b_returned(i) \/ nb2b_respond(i)
Client(t) == b_transport_end(t) \/ b_transport_done(t)

Next ==
  \/ \E t \in Trans : b_transport(t) \/ Client(t)
  \/ B2nbThread
  \/ \E t \in Trans : EndReq(t) \/ BeginResp(t) \/ Release(t)
  \/ \E t \in Trans : BeginReq(t) \/ EndResp(t)
  \/ \E i \in DOMAIN handles : Nb2bThread(i)
  \/ Advance

\* The scheduler runs whoever can run; the target answers what it has accepted and
\* releases what it holds; the initiator ends the responses it has accepted.
Fairness ==
  /\ WF_vars(B2nbThread) /\ WF_vars(Advance)
  /\ \A t \in Trans : WF_vars(Client(t)) /\ WF_vars(BeginResp(t)) /\ WF_vars(Release(t))
                      /\ WF_vars(EndResp(t))
  /\ \A i \in 1 .. Cardinality(Trans) : WF_vars(i \in DOMAIN handles /\ Nb2bThread(i))

Spec == Init /\ [][Next]_vars /\ Fairness

-----------------------------------------------------------------------------
(***************************************************************************)
(* Properties                                                              *)
(***************************************************************************)

\* The types of the variables.
Times == 0 .. Never

TypeOK ==
  /\ registered \in {"nb", "b"} /\ calls \in [Trans -> 0 .. MaxCalls]
  /\ peq.event \in Times
  /\ pending \subseteq Trans /\ end_event \in [Trans -> Times]
  /\ {m_end_request, m_end_response, thread.timer} \subseteq Times
  /\ m_current_transaction \in Trans \cup {NoTrans}
  /\ thread.pc \in {"peq", "next", "request", "delay", "response"}
  /\ client \in [Trans -> [pc : {"idle", "end", "done"}, ready : BOOLEAN, mm_added : BOOLEAN]]
  /\ target \in [Trans -> [owes : {"none", "END_REQ", "BEGIN_RESP"}, holds : BOOLEAN]]
  /\ late \in BOOLEAN /\ m_response_in_progress \in BOOLEAN
  /\ handles \in Seq([trans : Trans, suspend : BOOLEAN, pc : {"rest", "call", "delay", "respond"},
                      event : Times, ready : BOOLEAN])
  /\ initiator \in [Trans -> {"idle", "asked", "answered"}]

\* The request phases do not overlap: the target is sent a BEGIN_REQ only after END_REQ or
\* BEGIN_RESP for the one before.  (Not so once a BEGIN_RESP has notified m_end_request
\* when the thread had been woken already: then the next request is taken for ended.)
RequestExclusion ==
  late \/ Cardinality({t \in Trans : target[t].owes = "END_REQ"}) <= 1

\* Nothing that is handed to b2nb_thread is forgotten: it is woken in time for what is in
\* the peq, and when it waits for the end of a request, that is still to come.
ThreadWoken ==
  /\ thread.pc = "peq" /\ ~thread.ready /\ peq.scheduled # <<>>
       => peq.event <= Head(peq.scheduled).due
  /\ thread.pc = "request" /\ ~thread.ready
       => m_end_request # Never \/ target[thread.trans].owes = "END_REQ"

\* A call of b_transport has its end_event notified once: who waits for it is in
\* m_pending_trans, or the notification is under way.
EndNotified ==
  \A t \in Trans :
    IF client[t].pc = "end" /\ ~client[t].ready
    THEN t \in pending <=> end_event[t] = Never
    ELSE t \notin pending /\ end_event[t] = Never

\* The response phases do not overlap, however the threads are woken.
ResponseExclusion ==
  /\ Cardinality({t \in Trans : initiator[t] = "answered"}) <= 1
  /\ m_response_in_progress <=> \E t \in Trans : initiator[t] = "answered"

\* Every request has one thread, and every thread that is not suspended a request; there
\* are never more threads than transactions, since the suspended are used again.
OneThreadEach ==
  /\ Len(handles) <= Cardinality(Trans)
  /\ \A t \in Trans :
       Cardinality({i \in DOMAIN handles : handles[i].trans = t /\ ~handles[i].suspend})
         = IF initiator[t] = "asked" THEN 1 ELSE 0

\* Every call of b_transport returns, and every request gets its response.
Returns ==
  \A t \in Trans :
    /\ client[t].pc # "idle" ~> client[t].pc = "idle"
    /\ initiator[t] # "idle" ~> initiator[t] = "idle"
=============================================================================
