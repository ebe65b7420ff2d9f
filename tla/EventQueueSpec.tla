---------------------------- MODULE EventQueueSpec ----------------------------
(***************************************************************************)
(* What quant_event_queue.h and the comments of quant_event_queue.c promise  *)
(* of an event queue: an event is in it at most once, for a second push      *)
(* answers EDUPLICATE; pop and peek answer the earliest event, the first one *)
(* pushed among events of equal time; a removal finds every event that is in *)
(* the queue, and nothing else but pop and clear takes one from it.          *)
(***************************************************************************)
EXTENDS EventQueue

CONSTANTS Events, Ids, NULL

VARIABLES
  q,      \* the nodes and the counter
  last    \* the last call and its answer

specVars == <<q, last>>

Called(call, arg, answer) == last' = [call |-> call, arg |-> arg, answer |-> answer]

Init == q = EmptyQueue /\ last = [call |-> "new", arg |-> NULL, answer |-> NULL]

\* A push that finds no memory leaves the queue as it is; one of an event that is
\* in the queue spends a number but adds no node.
PushEvent(e) ==
  \/ e \notin EventsOf(q) /\ q' = Push(q, e) /\ Called("push", e, [id |-> q.counter])
  \/ /\ e \in EventsOf(q)
     /\ q' = [q EXCEPT !.counter = @ + 1]
     /\ Called("push", e, [id |-> EDUPLICATE])
  \/ UNCHANGED q /\ Called("push", e, [id |-> ENOMEM])

PushNothing == UNCHANGED q /\ Called("push", NULL, [id |-> EPARAM])

PopEvent ==
  \/ IsEmpty(q) /\ UNCHANGED q /\ Called("pop", NULL, NULL)
  \/ ~IsEmpty(q) /\ q' = Rest(q) /\ Called("pop", NULL, First(q))

PeekEvent == UNCHANGED q /\ Called("peek", NULL, IF IsEmpty(q) THEN NULL ELSE First(q))

AskEmpty == UNCHANGED q /\ Called("is_empty", NULL, [empty |-> IsEmpty(q)])

ClearEvents == q' = [q EXCEPT !.nodes = {}] /\ Called("clear", NULL, NULL)

\* A removal takes out one of the nodes asked for and answers 0, or -1 if there is
\* none.
RemoveNode(call, arg, nodes) ==
  \/ nodes = {} /\ UNCHANGED q /\ Called(call, arg, [status |-> -1])
  \/ \E n \in nodes :
       /\ q' = [q EXCEPT !.nodes = @ \ {n}]
       /\ Called(call, arg, [status |-> 0])

Next ==
  \/ \E e \in Events : PushEvent(e) \/ RemoveNode("remove", e, {n \in q.nodes : n.event = e})
  \/ \E i \in Ids :
       RemoveNode("remove_by_id", [id |-> i], {n \in q.nodes : n.id = i})
  \/ PushNothing \/ PopEvent \/ PeekEvent \/ AskEmpty \/ ClearEvents

Spec == Init /\ [][Next]_specVars
=============================================================================
