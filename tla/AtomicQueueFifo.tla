--------------------------- MODULE AtomicQueueFifo ---------------------------
(***************************************************************************)
(* AtomicQueue with the history that maps it to FifoQueue.  The history      *)
(* variables are only written: the steps are those of AtomicQueue.  A push   *)
(* takes effect when its position is published by the compare-and-exchange   *)
(* on tail_read, a pop when its compare-and-exchange on head succeeds.  The  *)
(* history ends when the queue grows, from where on elements may be lost.    *)
(***************************************************************************)
EXTENDS AtomicQueue, Sequences

VARIABLES
  items,    \* the published elements that no pop has taken, in order
  window,   \* per consumer: the fronts of items since its call began
  result    \* per consumer: what its last call returned, NULL during the next

historyVars == <<items, window, result>>

Front(q) == IF q = <<>> THEN NULL ELSE Head(q)

Watch(q) ==
  [c \in Consumers |-> IF op[c] = "none" THEN {} ELSE window[c] \cup {Front(q)}]

HistoryInit ==
  /\ Init
  /\ items = <<>>
  /\ window = [c \in Consumers |-> {}]
  /\ result = [c \in Consumers |-> NULL]

Publish(t) ==
  /\ PushPublish(t)
  /\ items' = Append(items, Data(t))
  /\ window' = Watch(items')
  /\ UNCHANGED result

BeginCall(t) ==
  /\ PopBegin(t)
  /\ window' = [window EXCEPT ![t] = {Front(items)}]
  /\ result' = [result EXCEPT ![t] = NULL]
  /\ UNCHANGED items

\* q without its element e, wherever it stands.
Without(q, e) ==
  IF \E i \in DOMAIN q : q[i] = e
  THEN LET i == CHOOSE j \in DOMAIN q : q[j] = e
       IN SubSeq(q, 1, i - 1) \o SubSeq(q, i + 1, Len(q))
  ELSE q

\* The element taken leaves the sequence.
Take(t) ==
  /\ PopTake(t)
  /\ items' = Without(items, ret[t])
  /\ window' = [Watch(items') EXCEPT ![t] = {}]
  /\ result' = [result EXCEPT ![t] = ret[t]]

\* The call answers without taking an element: NULL from pop_next, the slot that
\* a peek has read from pop_load.
Answer(t) ==
  /\ pc[t] \in {"pop_next", "pop_load"}
  /\ PopStep(t) /\ pc'[t] = "idle"
  /\ window' = [window EXCEPT ![t] = {}]
  /\ result' = [result EXCEPT ![t] = IF pc[t] = "pop_next" THEN NULL ELSE LoadedSlot(t)]
  /\ UNCHANGED items

Quiet(t) ==
  /\ \/ Ref(t) \/ Unref(t)
     \/ t \in Producers /\ (PushBegin(t) \/ (PushStep(t) /\ pc'[t] # "idle"))
     \/ t \in Consumers /\ (PopStep(t) /\ pc'[t] # "idle")
     \/ t \in Consumers /\ (LengthBegin(t) \/ LengthStep(t))
  /\ UNCHANGED historyVars

\* A step of a queue that has not grown and does not grow.
KeepHistory ==
  /\ tailMem = 1
  /\ \/ \E t \in Threads : Quiet(t)
     \/ \E t \in Producers : Publish(t)
     \/ \E t \in Consumers : BeginCall(t) \/ Take(t) \/ Answer(t)
     \/ Done /\ UNCHANGED historyVars
  /\ tailMem' = 1

\* The step that grows the queue, and every later one: the history is reset.
EndHistory ==
  /\ tailMem # 1 \/ \E t \in Producers : pc[t] = "push_grow"
  /\ Next
  /\ tailMem' # 1
  /\ items' = <<>>
  /\ window' = [c \in Consumers |-> {}]
  /\ result' = [c \in Consumers |-> NULL]

HistoryNext == KeepHistory \/ EndHistory

HistorySpec == HistoryInit /\ [][HistoryNext]_<<vars, historyVars>>

-----------------------------------------------------------------------------
Fifo == INSTANCE FifoQueue
  WITH Callers <- Consumers, Values <- Element, call <- [c \in Consumers |-> op[c]]

\* As long as the queue has not grown it behaves as a linearizable FIFO queue:
\* pops return elements in the order in which pushes were published and NULL only
\* when the queue was empty during the call, and a peek returns an element that
\* was the head during it.
LinearizableFifo == Fifo!Init /\ [][tailMem' = 1 => Fifo!Next]_(Fifo!fifoVars)
=============================================================================
