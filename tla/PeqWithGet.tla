------------------------------- MODULE PeqWithGet -------------------------------
(***************************************************************************)
(* A peq_with_get (tlm_utils/peq_with_get.h): transactions ordered by the  *)
(* time at which they are due, those due together by their arrival, and    *)
(* one event.  A peq is a record [scheduled, event]; times are counted     *)
(* from now, and an event that is not notified comes at Never.             *)
(***************************************************************************)
EXTENDS Integers, Sequences

CONSTANT Never     \* a time later than all others

\* Of two notifications of an event the earlier one is kept (sc_event, external).
Notified(event, t) == IF t < event THEN t ELSE event

EmptyPeq == [scheduled |-> <<>>, event |-> Never]

\* notify: into the multimap, behind what is due at the same time.
notify(peq, trans, t) ==
  LET s == peq.scheduled
      before == {i \in DOMAIN s : s[i].due <= t}
      n == IF before = {} THEN 0 ELSE CHOOSE i \in before : \A j \in before : j <= i
  IN [ scheduled |-> SubSeq(s, 1, n) \o <<[due |-> t, trans |-> trans]>> \o SubSeq(s, n + 1, Len(s)),
       event |-> Notified(peq.event, t) ]

is_due(peq) == peq.scheduled # <<>> /\ Head(peq.scheduled).due = 0

\* get_next_transaction, when there is one ...
Popped(peq) == [peq EXCEPT !.scheduled = Tail(peq.scheduled)]

\* Faulty Armed: the event of a transaction that is due later is left to its notify.
ArmedOnce(peq) == peq

\* ... and when there is none.
Armed(peq) ==
  IF peq.scheduled = <<>> THEN peq
  ELSE [peq EXCEPT !.event = Notified(peq.event, Head(peq.scheduled).due)]

\* How time passes for an event: what is due at the end of it happens.
Later(event, t) == IF event = Never \/ event = t THEN Never ELSE event - t

PeqLater(peq, t) ==
  [ scheduled |-> [i \in DOMAIN peq.scheduled |->
                    [peq.scheduled[i] EXCEPT !.due = IF @ < t THEN 0 ELSE @ - t]],
    event |-> Later(peq.event, t) ]
=============================================================================
