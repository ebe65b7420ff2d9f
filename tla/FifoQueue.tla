------------------------------ MODULE FifoQueue ------------------------------
(***************************************************************************)
(* What the comments of quant_mpmc_queue.c promise of the queue, as one     *)
(* sequence: push appends to the tail, pop removes the head element or      *)
(* returns NULL when the queue is empty, peek returns the head element      *)
(* without removing it.  A push is one step.  A call of pop or peek takes   *)
(* time; while it lasts, `window' collects the fronts the queue has had,    *)
(* and the call may answer with any of them, NULL standing for an empty     *)
(* queue.  A pop that answers an element removes it in the same step.       *)
(***************************************************************************)
EXTENDS Sequences

CONSTANTS Callers, Values, NULL

VARIABLES
  items,    \* the elements in the queue, head first
  call,     \* per caller: "none", "pop" or "peek"
  window,   \* per caller: the fronts of the queue since its call began
  result    \* per caller: what its last call returned, NULL during the next

fifoVars == <<items, call, window, result>>

Front(q) == IF q = <<>> THEN NULL ELSE Head(q)

\* The calls in progress see the queue become q.
Watch(q) ==
  [c \in Callers |-> IF call[c] = "none" THEN {} ELSE window[c] \cup {Front(q)}]

Init ==
  /\ items = <<>>
  /\ call = [c \in Callers |-> "none"]
  /\ window = [c \in Callers |-> {}]
  /\ result = [c \in Callers |-> NULL]

Enqueue(v) ==
  /\ items' = Append(items, v)
  /\ window' = Watch(items')
  /\ UNCHANGED <<call, result>>

Begin(c, o) ==
  /\ call[c] = "none"
  /\ call' = [call EXCEPT ![c] = o]
  /\ window' = [window EXCEPT ![c] = {Front(items)}]
  /\ result' = [result EXCEPT ![c] = NULL]
  /\ UNCHANGED items

\* pop removes the head of the queue and returns it.
Dequeue(c) ==
  /\ call[c] = "pop"
  /\ items # <<>>
  /\ items' = Tail(items)
  /\ call' = [call EXCEPT ![c] = "none"]
  /\ window' = [Watch(items') EXCEPT ![c] = {}]
  /\ result' = [result EXCEPT ![c] = Head(items)]

\* peek returns an element that was the head, or either call NULL because the
\* queue was empty, at some moment of the call.
Answer(c, v) ==
  /\ v \in window[c]
  /\ call[c] = "peek" \/ (call[c] = "pop" /\ v = NULL)
  /\ call' = [call EXCEPT ![c] = "none"]
  /\ window' = [window EXCEPT ![c] = {}]
  /\ result' = [result EXCEPT ![c] = v]
  /\ UNCHANGED items

Next ==
  \/ \E v \in Values : Enqueue(v)
  \/ \E c \in Callers :
       \/ \E o \in {"pop", "peek"} : Begin(c, o)
       \/ Dequeue(c)
       \/ \E v \in Values \cup {NULL} : Answer(c, v)

Spec == Init /\ [][Next]_fifoVars
=============================================================================
