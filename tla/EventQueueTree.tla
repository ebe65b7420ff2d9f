---------------------------- MODULE EventQueueTree ----------------------------
(***************************************************************************)
(* quant_event_queue.c on its red-black tree: every call of the interface,   *)
(* made by the one thread that may use a queue.                             *)
(***************************************************************************)
EXTENDS EventQueue, Sequences

CONSTANTS
  Events,       \* the events pushed, records with a time
  MaxPushes,    \* bound on the calls of push
  NULL

ASSUME QueueAssumption ==
  /\ MaxPushes \in Nat /\ NULL \notin Events
  /\ \A e \in Events : e.time \in Int
  /\ NULL \notin [event : Events, id : Nat]

Tree == INSTANCE RBTree WITH Less <- Before, Nil <- NULL

VARIABLES
  refcount,   \* queue->refcount
  tree,       \* queue->tree
  counter,    \* queue->counter
  crashed,    \* a NULL event has been dereferenced
  last        \* history: the last call and its answer

vars == <<refcount, tree, counter, crashed, last>>

Called(call, arg, answer) == last' = [call |-> call, arg |-> arg, answer |-> answer]

-----------------------------------------------------------------------------
\* quant_event_queue_new
Init ==
  /\ refcount = 1
  /\ tree = Tree!EmptyTree
  /\ counter = 1
  /\ crashed = FALSE
  /\ last = [call |-> "new", arg |-> NULL, answer |-> NULL]

Callable == refcount > 0 /\ ~crashed

\* rbtree_min
Least == Tree!Extreme(tree, "left")

\* quant_event_queue_push: RB_INSERT leaves the tree as it is if it finds a node equal
\* to the new one, which is then freed, its number spent.
PushEvent(e) ==
  /\ Callable
  /\ counter <= MaxPushes                                     \* bound
  /\ LET node == Node(e, counter)
         found == Tree!Find(tree, node)
     IN /\ tree' = Tree!Insert(tree, node)
        /\ Called("push", e, [id |-> IF found = NULL THEN counter ELSE EDUPLICATE])
  /\ counter' = counter + 1
  /\ UNCHANGED <<refcount, crashed>>

\* calloc answers NULL: no id is spent.
PushNoMemory(e) ==
  /\ Callable
  /\ Called("push", e, [id |-> ENOMEM])
  /\ UNCHANGED <<refcount, tree, counter, crashed>>

\* g_return_val_if_fail (e != NULL, EPARAM)
PushNothing ==
  /\ Callable
  /\ Called("push", NULL, [id |-> EPARAM])
  /\ UNCHANGED <<refcount, tree, counter, crashed>>

\* quant_event_queue_pop
PopEvent ==
  /\ Callable
  /\ IF Least = NULL THEN UNCHANGED tree /\ Called("pop", NULL, NULL)
     ELSE tree' = Tree!Remove(tree, Least) /\ Called("pop", NULL, Least.event)
  /\ UNCHANGED <<refcount, counter, crashed>>

\* quant_event_queue_peek
PeekEvent ==
  /\ Callable
  /\ Called("peek", NULL, IF Least = NULL THEN NULL ELSE Least.event)
  /\ UNCHANGED <<refcount, tree, counter, crashed>>

\* quant_event_queue_is_empty
AskEmpty ==
  /\ Callable
  /\ Called("is_empty", NULL, [empty |-> tree.root = NULL])
  /\ UNCHANGED <<refcount, tree, counter, crashed>>

\* quant_event_queue_clear
ClearEvents ==
  /\ Callable
  /\ tree' = Tree!Clear(tree)
  /\ Called("clear", NULL, NULL)
  /\ UNCHANGED <<refcount, counter, crashed>>

\* quant_event_queue_remove looks for a node with the id 0.
Wanted(e) == Node(e, 0)

RemoveEvent(e) ==
  /\ Callable
  /\ LET found == Tree!Find(tree, Wanted(e))
     IN IF found = NULL THEN UNCHANGED tree /\ Called("remove", e, [status |-> -1])
        ELSE tree' = Tree!Remove(tree, found) /\ Called("remove", e, [status |-> 0])
  /\ UNCHANGED <<refcount, counter, crashed>>

\* quant_event_queue_remove_by_id looks for a node without an event, whose time
\* the comparison with the root reads.
RemoveById(i) ==
  /\ Callable
  /\ IF tree.root = NULL THEN Called("remove_by_id", [id |-> i], [status |-> -1]) /\ UNCHANGED crashed
     ELSE Called("remove_by_id", [id |-> i], NULL) /\ crashed' = TRUE
  /\ UNCHANGED <<refcount, tree, counter>>

\* quant_event_queue_ref and quant_event_queue_unref, with quant_event_queue_free
\* when the count falls to zero.
Ref ==
  /\ Callable
  /\ refcount < 2                                             \* bound
  /\ refcount' = refcount + 1
  /\ UNCHANGED <<tree, counter, crashed, last>>

Unref ==
  /\ Callable
  /\ refcount' = refcount - 1
  /\ IF refcount = 1 THEN tree' = Tree!Clear(tree) /\ Called("clear", NULL, NULL)
                     ELSE UNCHANGED <<tree, last>>
  /\ UNCHANGED <<counter, crashed>>

Done == ~Callable /\ UNCHANGED vars

Next ==
  \/ \E e \in Events : PushEvent(e) \/ PushNoMemory(e) \/ RemoveEvent(e)
  \/ \E i \in 1 .. MaxPushes : RemoveById(i)
  \/ PushNothing \/ PopEvent \/ PeekEvent \/ AskEmpty \/ ClearEvents
  \/ Ref \/ Unref
  \/ Done

Spec == Init /\ [][Next]_vars

-----------------------------------------------------------------------------
\* The fields have their types and the nodes of the tree bear ids given out.
TypeOK ==
  /\ refcount \in 0 .. 2 /\ counter \in 1 .. MaxPushes + 1 /\ crashed \in BOOLEAN
  /\ \A n \in Tree!Nodes(tree) : n.event \in Events /\ n.id \in 1 .. counter - 1

queue == [nodes |-> Tree!Nodes(tree), counter |-> counter]

Abstract == INSTANCE EventQueueSpec WITH Ids <- 1 .. MaxPushes, q <- queue

\* The three departures from what is promised: an event that is in the queue is
\* queued again under a number of its own (no node of the tree has that number, so
\* EDUPLICATE is never answered), a removal does not find it, and a removal by
\* number never returns unless the queue is empty.
PushedAgain(e) ==
  /\ e \in EventsOf(queue)
  /\ queue' = Push(queue, e)
  /\ Called("push", e, [id |-> counter])

NotFound(e) ==
  /\ e \in EventsOf(queue)
  /\ UNCHANGED queue
  /\ Called("remove", e, [status |-> -1])

NeverReturns(i) ==
  /\ ~IsEmpty(queue)
  /\ UNCHANGED queue
  /\ Called("remove_by_id", [id |-> i], NULL)

Departure ==
  \/ \E e \in Events : PushedAgain(e) \/ NotFound(e)
  \/ \E i \in 1 .. MaxPushes : NeverReturns(i)

\* The tree, through every rebalancing, answers as the ordered set of its nodes:
\* every call does what is promised of it, or departs in one of the three ways.
RefinesQueue == Abstract!Init /\ [][Abstract!Next \/ Departure]_(Abstract!specVars)

\* remove answers "not found" only for an event that is not in the queue.
RemoveFinds ==
  [][last'.call = "remove" /\ last'.answer = [status |-> -1]
       => last'.arg \notin {n.event : n \in Tree!Nodes(tree)}]_vars
=============================================================================
