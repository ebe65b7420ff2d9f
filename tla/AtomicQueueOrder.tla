-------------------------- MODULE AtomicQueueOrder --------------------------
(***************************************************************************)
(* AtomicQueue with the history that its ordering properties relate: what    *)
(* had been pushed when a push began, and what a consumer has peeked.  The   *)
(* history variables are only written.                                      *)
(***************************************************************************)
EXTENDS AtomicQueue

VARIABLES
  before,   \* per element: the pushes that had returned when its push began
  peeked    \* per consumer: the last answer of peek since its last pop

orderVars == <<before, peeked>>

OrderInit ==
  /\ Init
  /\ before = [e \in Element |-> {}]
  /\ peeked = [t \in Consumers |-> NULL]

BeginPush(t) ==
  /\ PushBegin(t)
  /\ before' = [before EXCEPT ![<<t, pushed'[t]>>] = Completed]
  /\ UNCHANGED peeked

Peek(t) ==
  /\ PeekLoad(t)
  /\ peeked' = [peeked EXCEPT ![t] = LoadedSlot(t)]
  /\ UNCHANGED before

Take(t) ==
  /\ PopTake(t)
  /\ peeked' = [peeked EXCEPT ![t] = NULL]
  /\ UNCHANGED before

Other(t) ==
  /\ \/ Ref(t) \/ Unref(t)
     \/ t \in Producers /\ PushStep(t)
     \/ t \in Consumers /\ (PopBegin(t) \/ (PopStep(t) /\ ~PeekLoad(t) /\ ~PopTake(t)))
  /\ UNCHANGED orderVars

OrderNext ==
  \/ \E t \in Threads : Other(t)
  \/ \E t \in Producers : BeginPush(t)
  \/ \E t \in Consumers : Peek(t) \/ Take(t)
  \/ Done /\ UNCHANGED orderVars

OrderSpec == OrderInit /\ [][OrderNext]_<<vars, orderVars>> /\ Fairness

-----------------------------------------------------------------------------
\* With one consumer, delivery respects real time: an element is not returned
\* by pop after an element whose push began when its own push had returned,
\* also when the queue has grown in between.
RealTimeFifo ==
  [][\A t \in Consumers :
       pc[t] = "pop_take" /\ pc'[t] = "idle" => \A e \in consumed : ret[t] \notin before[e]]_vars

\* With one consumer, the element that peek returned is the one the next
\* successful pop returns, whatever the writers do in between.
PeekStable ==
  [][\A t \in Consumers :
       pc[t] = "pop_take" /\ pc'[t] = "idle" => peeked[t] \in {NULL, ret[t]}]_<<vars, orderVars>>
=============================================================================
