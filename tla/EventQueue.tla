----------------------------- MODULE EventQueue -----------------------------
(***************************************************************************)
(* A QuantEventQueue as a value: the nodes it holds and the counter that     *)
(* numbers them.  The red-black tree that finds the least node is modelled   *)
(* in RBTree; here a queue answers by the order of event_node_compare.       *)
(***************************************************************************)
EXTENDS Integers, FiniteSets

\* What push answers when there is no memory for a node, when the event is in the
\* queue, and for a NULL event; as the guint64 that each is converted to, a number
\* that no counter reaches.
ENOMEM == -1
EDUPLICATE == -2
EPARAM == -3

EmptyQueue == [nodes |-> {}, counter |-> 1]

\* Variant: the counter is incremented first.
NodeAfter(e, id) == [event |-> e, id |-> id + 1]

Node(e, id) == [event |-> e, id |-> id]

\* Variant: among equal timestamps, the last one inserted comes first.
BeforeLifo(m, n) ==
  \/ m.event.time < n.event.time
  \/ m.event.time = n.event.time /\ m.id > n.id

\* event_node_compare(m, n) < 0: by timestamp, then in the order of insertion.
Before(m, n) ==
  \/ m.event.time < n.event.time
  \/ m.event.time = n.event.time /\ m.id < n.id

IsEmpty(q) == q.nodes = {}

\* RB_MIN
FirstNode(q) == CHOOSE n \in q.nodes : \A m \in q.nodes \ {n} : Before(n, m)

\* quant_event_queue_peek of a queue that is not empty
First(q) == FirstNode(q).event

\* Variant: the counter stays as it is.
PushSameId(q, e) == [q EXCEPT !.nodes = @ \cup {Node(e, q.counter)}]

\* quant_event_queue_push: every call makes a node with a new id, so the
\* insertion never finds an equal node.
Push(q, e) ==
  [nodes |-> q.nodes \cup {Node(e, q.counter)}, counter |-> q.counter + 1]

\* What quant_event_queue_pop leaves.
Rest(q) == [q EXCEPT !.nodes = @ \ {FirstNode(q)}]

EventsOf(q) == {n.event : n \in q.nodes}
=============================================================================
