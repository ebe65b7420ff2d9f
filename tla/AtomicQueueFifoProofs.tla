----------------------- MODULE AtomicQueueFifoProofs -----------------------
(***************************************************************************)
(* Proof that a queue that has not grown is a linearizable FIFO queue if its *)
(* readers only pop, or if only one thread reads, which may then peek:       *)
(* AtomicQueueFifo implements FifoQueue for every number of producers,       *)
(* consumers and pushes.                                                     *)
(***************************************************************************)
EXTENDS AtomicQueueFifo, AtomicQueueProofs, SequenceTheorems

-----------------------------------------------------------------------------
(* The invariants, while tail_mem is the first block. *)

\* The abstract queue is what is published in the block.
ItemsInBlock ==
  /\ items \in Seq(Element)
  /\ Len(items) = tailRead[1] - head[1]
  /\ \A i \in 1 .. Len(items) : items[i] = Item(1, head[1] + i - 1)

\* Nobody else moves head while a consumer peeks.
QuietPeeks == Peekers = {} \/ \E c \in Consumers : Consumers = {c}

LengthLabels == {"len_head_mem", "len_head", "len_tail_mem", "len_tail"}

\* A consumer is in a pop or a peek exactly when it is neither idle nor in a call
\* of length, takes only in a pop, and peeks only if it is the only one.
Calls ==
  \A c \in Consumers :
    /\ op[c] = "none" <=> pc[c] \in {"idle"} \cup LengthLabels
    /\ pc[c] = "pop_take" => op[c] = "pop"
    /\ op[c] = "peek" => Consumers = {c}

\* The head that a peek has read is still the head.
Peeks ==
  \A c \in Consumers :
    op[c] = "peek" /\ pc[c] \in {"pop_tail", "pop_load"} => lhead[c] = head[1]

\* A call has seen the current front, and NULL when it is about to return NULL.
Windows ==
  /\ window \in [Consumers -> SUBSET (Element \cup {NULL})]
  /\ \A c \in Consumers : op[c] # "none" => Front(items) \in window[c]
  /\ \A c \in Consumers : pc[c] = "pop_next" => NULL \in window[c]

FifoInv == ItemsInBlock /\ Calls /\ Peeks /\ Windows

-----------------------------------------------------------------------------
(* Sequences. *)

\* Taking the first of the elements leaves the tail.
LEMMA WithoutHead ==
  ASSUME NEW S, NEW q \in Seq(S), q # <<>>,
         \A i \in 1 .. Len(q) : q[i] = q[1] => i = 1
  PROVE Without(q, q[1]) = Tail(q)
<1>1. Len(q) \in Nat \ {0} /\ DOMAIN q = 1 .. Len(q)
  BY EmptySeq, LenProperties
<1>2. (CHOOSE j \in DOMAIN q : q[j] = q[1]) = 1
  BY <1>1
<1>3. Without(q, q[1]) = SubSeq(q, 1, 0) \o SubSeq(q, 2, Len(q))
  <2> DEFINE i == CHOOSE j \in DOMAIN q : q[j] = q[1]
  <2>1. \E j \in DOMAIN q : q[j] = q[1]
    BY <1>1
  <2>2. Without(q, q[1]) = SubSeq(q, 1, i - 1) \o SubSeq(q, i + 1, Len(q))
    BY <2>1, Zenon DEF Without
  <2>3. i - 1 = 0 /\ i + 1 = 2
    BY <1>2
  <2> HIDE DEF i
  <2> QED BY <2>2, <2>3
<1>4. SubSeq(q, 1, 0) = <<>> /\ SubSeq(q, 2, Len(q)) = Tail(q) /\ Tail(q) \in Seq(S)
  BY <1>1, SubSeqEmpty, TailIsSubSeq, HeadTailProperties
<1> QED BY <1>3, <1>4, ConcatEmptySeq

-----------------------------------------------------------------------------
(* The steps. *)

HistoryStep(t) ==
  \/ Quiet(t)
  \/ t \in Producers /\ Publish(t)
  \/ t \in Consumers /\ (BeginCall(t) \/ Take(t) \/ Answer(t))

\* A step that stays in the first block.
LEMMA HistoryStepKinds ==
  ASSUME [HistoryNext]_<<vars, historyVars>>, tailMem' = 1
  PROVE \/ UNCHANGED <<vars, historyVars>>
        \/ \E t \in Threads : HistoryStep(t)
BY DEF HistoryNext, KeepHistory, EndHistory, HistoryStep, Done, Threads

\* The history variables are only written: such a step is one of Next.
LEMMA HistoryStepIsStep ==
  ASSUME NEW t \in Threads, HistoryStep(t)
  PROVE (LocalStep(t) \/ SharedStep(t)) /\ [Next]_vars
<1>1. CASE Quiet(t)
  <2>1. CASE Ref(t) \/ Unref(t)
    BY <2>1 DEF LocalStep, Next
  <2>2. CASE t \in Producers /\ (PushBegin(t) \/ PushStep(t))
    BY <2>2 DEF PushStep, LocalStep, SharedStep, Next
  <2>3. CASE t \in Consumers /\ PopStep(t)
    BY <2>3 DEF PopStep, LocalStep, SharedStep, Next
  <2>4. CASE t \in Consumers /\ (LengthBegin(t) \/ LengthStep(t))
    BY <2>4 DEF LengthStep, LocalStep, Next
  <2> QED BY <1>1, <2>1, <2>2, <2>3, <2>4 DEF Quiet
<1>2. CASE t \in Producers /\ Publish(t)
  BY <1>2 DEF Publish, SharedStep, Next, PushStep
<1>3. CASE t \in Consumers /\ BeginCall(t)
  BY <1>3 DEF BeginCall, LocalStep, Next
<1>4. CASE t \in Consumers /\ Take(t)
  BY <1>4 DEF Take, SharedStep, Next, PopStep
<1>5. CASE t \in Consumers /\ Answer(t)
  BY <1>5 DEF Answer, LocalStep, SharedStep, Next, PopStep
<1> QED BY <1>1, <1>2, <1>3, <1>4, <1>5 DEF HistoryStep

\* The history specification implements the queue's.
LEMMA HistorySpecIsSpec == HistorySpec => Spec
<1>1. HistoryInit => Init
  BY DEF HistoryInit
<1>2. [HistoryNext]_<<vars, historyVars>> => [Next]_vars
  <2> SUFFICES ASSUME [HistoryNext]_<<vars, historyVars>> PROVE [Next]_vars
    OBVIOUS
  <2>1. CASE EndHistory
    BY <2>1 DEF EndHistory
  <2>2. CASE KeepHistory
    <3>1. [HistoryNext]_<<vars, historyVars>> /\ tailMem' = 1
      BY <2>2 DEF KeepHistory
    <3> QED BY <3>1, HistoryStepKinds, HistoryStepIsStep DEF vars, historyVars
  <2>3. CASE UNCHANGED <<vars, historyVars>>
    BY <2>3 DEF vars, historyVars
  <2> QED BY <2>1, <2>2, <2>3 DEF HistoryNext
<1> QED BY <1>1, <1>2, PTL DEF HistorySpec, Spec

\* A call answers because the queue is empty, or it is a peek.
LEMMA AnswerKinds ==
  ASSUME LocalType, NEW t \in Consumers, Answer(t)
  PROVE /\ window' = [window EXCEPT ![t] = {}]
        /\ items' = items
        /\ \/ PopEmpty(t) /\ result' = [result EXCEPT ![t] = NULL]
           \/ PeekLoad(t) /\ result' = [result EXCEPT ![t] = LoadedSlot(t)]
<1>1. t \in Threads
  BY DEF Threads
<1>2. PopEmpty(t) \/ PeekLoad(t)
  BY <1>1 DEF Answer, PopStep, PopReadMem, PopReadHead, PopReadTail, PopReadNext, PopSwing,
     PopSwingLost, PopRetire, PopLoad, PopTake, PopTakeLost, Goto, LocalType
<1> QED BY <1>2 DEF Answer, PopEmpty, PeekLoad

\* A quiet step neither publishes nor takes nor returns from a call of pop.
LEMMA QuietSteps ==
  ASSUME LocalType, Calls, NEW t \in Threads, Quiet(t)
  PROVE /\ ~(t \in Producers /\ PushPublish(t)) /\ ~(t \in Consumers /\ PopTake(t))
        /\ op' = op
        /\ t \in Consumers =>
             (pc'[t] \in {"idle"} \cup LengthLabels <=> pc[t] \in {"idle"} \cup LengthLabels)
        /\ t \in Consumers /\ pc'[t] \in {"pop_next", "pop_load"} => PopReadTail(t)
        /\ t \in Consumers /\ pc'[t] = "pop_tail" => PopReadHead(t)
        /\ t \in Consumers /\ pc'[t] = "pop_take" => PopLoad(t)
<1> USE DEF Quiet, LocalType, LengthLabels
<1>1. CASE Ref(t) \/ Unref(t)
  BY <1>1, ThreadAssumption DEF Ref, Unref, localVars, PushPublish, PopTake, Return, Discard
<1>2. CASE t \in Producers /\ PushBegin(t)
  BY <1>2, ThreadAssumption DEF PushBegin, localVars, PushPublish
<1>3. CASE t \in Producers /\ PushStep(t) /\ pc'[t] # "idle"
  <2>1. ~PushPublish(t) /\ t \notin Consumers
    BY <1>3, ThreadAssumption DEF PushPublish, Return, Discard
  <2>2. op' = op
    BY <1>3, <2>1 DEF PushStep, PushReadMem, PushReadHead, PushReadTail, PushGrow, PushGrowLost,
       PushLink, PushClaim, PushClaimLost, PushStore, Retry, localVars
  <2> QED BY <2>1, <2>2
<1>4. CASE t \in Consumers /\ PopStep(t) /\ pc'[t] # "idle"
  <2>1. ~PopEmpty(t) /\ ~PeekLoad(t) /\ ~PopTake(t) /\ t \notin Producers
    BY <1>4, ThreadAssumption DEF PopEmpty, PeekLoad, PopTake, Return, Discard
  <2>2. /\ op' = op /\ pc[t] \notin {"idle"} \cup LengthLabels
        /\ pc'[t] \notin {"idle"} \cup LengthLabels
    BY <1>4, <2>1 DEF Discard, Goto, PopStep, PopReadMem, PopReadHead, PopReadTail, PopReadNext, PopSwing,
       PopSwingLost, PopRetire, PopLoad, PopTakeLost, Retry, localVars
  <2>3. /\ pc'[t] \in {"pop_next", "pop_load"} => PopReadTail(t)
        /\ pc'[t] = "pop_tail" => PopReadHead(t)
        /\ pc'[t] = "pop_take" => PopLoad(t)
    BY <1>4, <2>1 DEF PopStep, PopReadMem, PopReadHead, PopReadTail, PopReadNext, PopSwing,
       PopSwingLost, PopRetire, PopLoad, PopTakeLost, Retry, Discard, Goto
  <2> QED BY <1>4, <2>1, <2>2, <2>3
<1>5. CASE t \in Consumers /\ (LengthBegin(t) \/ LengthStep(t))
  <2>1. /\ pc[t] \in {"idle"} \cup LengthLabels /\ pc' = [pc EXCEPT ![t] = pc'[t]]
        /\ pc'[t] \in {"idle"} \cup LengthLabels /\ t \notin Producers
    BY <1>5, ThreadAssumption DEF LengthBegin, LengthStep, LengthReadHeadMem, LengthReadHead,
       LengthReadTailMem, LengthReturn, Return, Discard, Goto
  <2>2. op[t] = "none" /\ (op' = op \/ op' = [op EXCEPT ![t] = "none"])
    BY <1>5, <2>1 DEF Calls, LengthBegin, LengthStep, LengthReadHeadMem, LengthReadHead,
       LengthReadTailMem, LengthReturn, Return, localVars
  <2> QED BY <2>1, <2>2 DEF PopTake
<1> QED BY <1>1, <1>2, <1>3, <1>4, <1>5

-----------------------------------------------------------------------------
(* The elements of the block. *)

\* The only block, its positions, and that threads work on it.
LEMMA OneBlock ==
  ASSUME IInv, tailMem = 1
  PROVE /\ 1 \in Blocks /\ headMem = 1
        /\ head[1] \in Nat /\ tailRead[1] \in Nat /\ head[1] <= tailRead[1]
        /\ \A t \in Threads : pc[t] \in MemLabels => mem[t] = 1
<1>1. 1 \in Blocks
  BY SizeAssumption DEF Blocks
<1>2. headMem = 1
  BY ChainBlocks DEF IInv, TypeOK, Chain
<1> QED BY <1>1, <1>2 DEF IInv, TypeOK, BlockType, BlockBounds, Locals, LocalsOf

\* The other steps keep the positions of the block.
LEMMA PositionsKept ==
  ASSUME IInv, tailMem = 1, tailMem' = 1, NEW t \in Threads, LocalStep(t) \/ SharedStep(t),
         ~(t \in Producers /\ PushPublish(t)), ~(t \in Consumers /\ PopTake(t))
  PROVE head'[1] = head[1] /\ tailRead'[1] = tailRead[1]
<1>1. ~PushGrow(t)
  BY DEF PushGrow
<1> QED
  BY <1>1, LocalStepFrame DEF sharedVars, SharedStep, PushLink, PushClaim, PushStore, PopSwing,
     blockVars

\* The other steps keep the elements.
LEMMA ItemsKept ==
  ASSUME IInv, ItemsInBlock, tailMem = 1, tailMem' = 1,
         NEW t \in Threads, LocalStep(t) \/ SharedStep(t), items' = items,
         ~(t \in Producers /\ PushPublish(t)), ~(t \in Consumers /\ PopTake(t))
  PROVE ItemsInBlock'
<1>1. head'[1] = head[1] /\ tailRead'[1] = tailRead[1]
  BY PositionsKept
<1>2. ASSUME NEW i \in 1 .. Len(items)
      PROVE  Item(1, head[1] + i - 1)' = Item(1, head[1] + i - 1)
  <2> DEFINE p == head[1] + i - 1
  <2>1. p \in Published(1)
    BY OneBlock DEF ItemsInBlock, Published
  <2>2. p' = p /\ p \in Published(1)'
    BY <1>1, <2>1 DEF Published
  <2> HIDE DEF p
  <2>3. Item(1, p)' = Item(1, p)
    BY <2>2, OneBlock, PublishedAfter
  <2> QED BY <2>3 DEF p
<1> QED BY <1>1, <1>2 DEF ItemsInBlock

\* What is published is appended.
LEMMA PublishAppends ==
  ASSUME IInv, ItemsInBlock, tailMem = 1, NEW t \in Producers, Publish(t)
  PROVE ItemsInBlock' /\ Data(t) \in Element /\ op' = [op EXCEPT ![t] = "none"]
<1> USE DEF IInv
<1> DEFINE n == Len(items)
           h == head[1]
<1>1. /\ PushPublish(t) /\ t \in Threads /\ Claiming(t) /\ pc[t] = "push_publish"
      /\ items' = Append(items, Data(t))
  BY DEF Publish, PushPublish, Claiming, Threads
<1>2. mem[t] = 1 /\ tailRead[1] = ltail[t] /\ 1 \in Blocks /\ h \in Nat /\ tailRead[1] \in Nat
  BY <1>1, OneBlock DEF MemLabels, PushPublish, MayPublish
<1>3. Data(t) \in Element
  BY <1>1, DataElement DEF TypeOK, PushLabels
<1>4. head' = head /\ array' = array /\ size' = size /\ tailRead'[1] = tailRead[1] + 1
  BY <1>1, <1>2 DEF PushPublish, TypeOK, BlockType
<1>5. Item(1, tailRead[1]) = Data(t)
  BY <1>1, <1>2, ClaimsOf DEF Item
<1>6. items \in Seq(Element) /\ n = tailRead[1] - h /\ n \in Nat
  BY <1>2, LenProperties DEF ItemsInBlock
<1>7. /\ items' \in Seq(Element) /\ Len(items') = n + 1
      /\ \A i \in 1 .. n : items'[i] = items[i]
      /\ items'[n + 1] = Data(t)
  BY <1>1, <1>3, <1>6, AppendProperties
<1>8. ASSUME NEW i \in 1 .. n + 1 PROVE items'[i] = Item(1, h + i - 1)
  <2>1. CASE i \in 1 .. n
    BY <1>7, <2>1 DEF ItemsInBlock
  <2>2. CASE i = n + 1
    <3>1. h + i - 1 = tailRead[1]
      BY <1>2, <1>6, <2>2
    <3> QED BY <1>5, <1>7, <2>2, <3>1
  <2> QED BY <1>6, <2>1, <2>2
<1>9. ASSUME NEW i \in 1 .. n + 1 PROVE items'[i] = Item(1, h + i - 1)'
  BY <1>4, <1>8 DEF Item, Slot
<1>10. n + 1 = (tailRead[1] - h) + 1 /\ (tailRead[1] - h) + 1 = (tailRead[1] + 1) - h
  BY <1>2, <1>6
<1>11. Len(items') = tailRead'[1] - head'[1]
  BY <1>4, <1>7, <1>10
<1>12. \A i \in 1 .. Len(items') : items'[i] = Item(1, head[1] + i - 1)'
  BY <1>4, <1>7, <1>9
<1> QED BY <1>1, <1>3, <1>7, <1>11, <1>12 DEF ItemsInBlock, PushPublish, Return

\* What a pop takes is the first element, and the others remain.
LEMMA TakeRemovesHead ==
  ASSUME IInv, ItemsInBlock, tailMem = 1, NEW t \in Consumers, Take(t)
  PROVE /\ items # <<>> /\ ret[t] = Head(items) /\ items' = Tail(items)
        /\ ItemsInBlock'
<1> USE DEF IInv
<1> DEFINE n == Len(items)
           h == head[1]
<1>1. PopTake(t) /\ t \in Threads /\ pc[t] = "pop_take" /\ items' = Without(items, ret[t])
  BY DEF Take, PopTake, Threads
<1>2. mem[t] = 1 /\ 1 \in Blocks /\ h \in Nat /\ tailRead[1] \in Nat
  BY <1>1, OneBlock DEF MemLabels
<1>3. lhead[t] = h /\ h \in Published(1) /\ ret[t] = Item(1, h)
  BY <1>1, <1>2, TakeFresh DEF Item
<1>4. items \in Seq(Element) /\ n = tailRead[1] - h /\ n \in Nat /\ n >= 1
  BY <1>2, <1>3, LenProperties DEF ItemsInBlock, Published
<1>5. items # <<>> /\ items[1] = ret[t]
  <2>1. h + 1 - 1 = h
    BY <1>2
  <2> QED BY <1>3, <1>4, <2>1, EmptySeq DEF ItemsInBlock
<1>6. ASSUME NEW i \in 1 .. n, items[i] = items[1] PROVE i = 1
  <2>1. items[i] = Item(1, h + i - 1) /\ h + i - 1 \in Published(1)
    BY <1>2, <1>4 DEF ItemsInBlock, Published
  <2>2. PICK p \in Published(1) : p = h + i - 1
    BY <2>1
  <2>3. Item(1, p) = Item(1, h)
    BY <1>3, <1>5, <1>6, <2>1, <2>2
  <2>4. p = h
    BY <1>2, <1>3, <2>3 DEF LiveDistinct, Item
  <2> QED BY <1>2, <2>2, <2>4
<1>7. items' = Tail(items)
  BY <1>1, <1>4, <1>5, <1>6, WithoutHead
<1>8. /\ items' \in Seq(Element) /\ Len(items') = n - 1
      /\ \A i \in 1 .. n - 1 : items'[i] = items[i + 1]
  BY <1>4, <1>5, <1>7, HeadTailProperties
<1>9. tailRead' = tailRead /\ array' = array /\ size' = size /\ head'[1] = h + 1
  BY <1>1, <1>2 DEF PopTake, TypeOK, BlockType
<1>10. ASSUME NEW i \in 1 .. n - 1 PROVE items'[i] = Item(1, (h + 1) + i - 1)
  <2>1. i + 1 \in 1 .. n /\ h + (i + 1) - 1 = (h + 1) + i - 1
    BY <1>2, <1>4
  <2>2. items[i + 1] = Item(1, h + (i + 1) - 1)
    BY <2>1 DEF ItemsInBlock
  <2> QED BY <1>8, <2>1, <2>2
<1>11. n - 1 = tailRead[1] - (h + 1)
  BY <1>2, <1>4
<1>12. Len(items') = tailRead'[1] - head'[1]
  BY <1>8, <1>9, <1>11
<1>13. \A i \in 1 .. Len(items') : items'[i] = Item(1, head[1] + i - 1)'
  BY <1>8, <1>9, <1>10 DEF Item, Slot
<1>14. Head(items) = items[1]
  BY <1>4, <1>5
<1> QED BY <1>5, <1>7, <1>8, <1>12, <1>13, <1>14 DEF ItemsInBlock

-----------------------------------------------------------------------------
(* Calls and windows. *)

\* The calls in progress see the queue become items'.
LEMMA WatchWindows ==
  ASSUME Windows, items' \in Seq(Element), NEW w, w = Watch(items')
  PROVE /\ w \in [Consumers -> SUBSET (Element \cup {NULL})]
        /\ \A c \in Consumers : op[c] # "none" =>
             Front(items)' \in w[c] /\ window[c] \subseteq w[c]
<1>1. Front(items)' \in Element \cup {NULL}
  BY EmptySeq, HeadTailProperties DEF Front
<1>2. Watch(items') = [c \in Consumers |-> IF op[c] = "none" THEN {}
                                           ELSE window[c] \cup {Front(items)'}]
  BY DEF Watch, Front
<1> QED BY <1>1, <1>2 DEF Windows

\* A pop that finds the positions of the block equal finds the queue empty.
LEMMA EmptyWhenRead ==
  ASSUME IInv, ItemsInBlock, tailMem = 1, NEW t \in Consumers, PopReadTail(t),
         pc'[t] = "pop_next"
  PROVE Front(items) = NULL
<1> USE DEF IInv
<1>1. t \in Threads /\ pc[t] = "pop_tail"
  BY DEF PopReadTail, Threads
<1>2. mem[t] = 1 /\ lhead[t] <= head[1] /\ lhead[t] \in Nat
  BY <1>1, OneBlock DEF MemLabels, Locals, LocalsOf, TypeOK, LocalType
<1>3. lhead[t] = tailRead[1]
  BY <1>1, <1>2 DEF PopReadTail, Goto, TypeOK, LocalType
<1>4. Len(items) = 0
  BY <1>2, <1>3, OneBlock DEF ItemsInBlock
<1> QED BY <1>4, EmptySeq DEF ItemsInBlock, Front

\* What a peek reads is the front of the queue.
LEMMA PeekReadsFront ==
  ASSUME IInv, FifoInv, tailMem = 1, NEW t \in Consumers, PeekLoad(t)
  PROVE LoadedSlot(t) = Front(items) /\ Front(items) \in Element
<1> USE DEF IInv
<1> DEFINE h == head[1]
<1>1. t \in Threads /\ pc[t] = "pop_load" /\ op[t] = "peek"
  BY DEF PeekLoad, Threads
<1>2. mem[t] = 1 /\ h \in Nat /\ tailRead[1] \in Nat
  BY <1>1, OneBlock DEF MemLabels
<1>3. lhead[t] = h /\ h < tailRead[1]
  BY <1>1, <1>2 DEF FifoInv, Peeks, Locals, LocalsOf
<1>4. items \in Seq(Element) /\ Len(items) \in Nat /\ Len(items) >= 1
  BY <1>2, <1>3, LenProperties DEF FifoInv, ItemsInBlock
<1>5. items # <<>> /\ Head(items) = items[1] /\ items[1] \in Element
  BY <1>4, EmptySeq, ElementOfSeq
<1>6. items[1] = Item(1, h)
  <2>1. h + 1 - 1 = h
    BY <1>2
  <2> QED BY <1>4, <2>1 DEF FifoInv, ItemsInBlock
<1>7. LoadedSlot(t) = Item(1, h)
  BY <1>2, <1>3 DEF LoadedSlot, Item
<1> QED BY <1>5, <1>6, <1>7 DEF Front

\* Only a pop moves the head of the block.
LEMMA HeadKept ==
  ASSUME IInv, tailMem = 1, tailMem' = 1, NEW t \in Threads, LocalStep(t) \/ SharedStep(t),
         ~(t \in Consumers /\ PopTake(t))
  PROVE head'[1] = head[1]
<1>1. ~PushGrow(t)
  BY DEF PushGrow
<1> QED
  BY <1>1, LocalStepFrame DEF sharedVars, SharedStep, PushLink, PushClaim, PushStore,
     PushPublish, PopSwing, blockVars

\* Every step of a call in progress keeps what a peek has read.
LEMMA PeeksStep ==
  ASSUME IInv, FifoInv, tailMem = 1, tailMem' = 1,
         NEW t \in Threads, HistoryStep(t), NEW c \in Consumers,
         op'[c] = "peek", pc'[c] \in {"pop_tail", "pop_load"}
  PROVE lhead'[c] = head'[1]
<1> USE DEF IInv, TypeOK, LocalType, Threads
<1>c. Calls
  BY DEF FifoInv
<1>0. LocalStep(t) \/ SharedStep(t)
  BY HistoryStepIsStep
<1>1. CASE c = t
  <2>1. Quiet(t)
    BY <1>1, ThreadAssumption DEF HistoryStep, Publish, BeginCall, PopBegin, Goto, Take, PopTake,
       Return, Discard, Answer
  <2>2. op' = op /\ ~PopTake(t) /\ (PopReadHead(t) \/ PopReadTail(t))
    BY <1>1, <1>c, <2>1, QuietSteps
  <2>3. head'[1] = head[1]
    BY <1>0, <2>2, HeadKept
  <2>4. CASE PopReadHead(t)
    <3>1. mem[t] = 1
      BY <2>4, OneBlock DEF PopReadHead, MemLabels
    <3> QED BY <1>1, <2>3, <2>4, <3>1 DEF PopReadHead
  <2>5. CASE PopReadTail(t)
    BY <1>1, <2>2, <2>3, <2>5 DEF PopReadTail, localVars, FifoInv, Peeks
  <2> QED BY <2>2, <2>4, <2>5
<1>2. CASE c # t
  <2>1. pc'[c] = pc[c] /\ lhead'[c] = lhead[c]
    BY <1>0, <1>2, OthersKeepLocals DEF KeepsLocals
  <2>2. op[c] = "peek"
    <3>1. CASE Quiet(t)
      BY <1>c, <3>1, QuietSteps
    <3>2. CASE Publish(t) \/ BeginCall(t) \/ Take(t)
      BY <1>2, <3>2 DEF Publish, PushPublish, BeginCall, PopBegin, Take, PopTake, Return
    <3>3. CASE t \in Consumers /\ Answer(t)
      BY <1>2, <3>3, AnswerKinds DEF PopEmpty, PeekLoad, Return
    <3> QED BY <3>1, <3>2, <3>3 DEF HistoryStep
  <2>3. t \notin Consumers
    BY <1>2, <2>2 DEF FifoInv, Calls
  <2>4. head'[1] = head[1]
    BY <1>0, <2>3, HeadKept
  <2> QED BY <2>1, <2>2, <2>4 DEF FifoInv, Peeks
<1> QED BY <1>1, <1>2

\* Every step keeps the invariants.
LEMMA FifoInvStep ==
  ASSUME IInv, FifoInv, tailMem = 1, tailMem' = 1, QuietPeeks,
         NEW t \in Threads, HistoryStep(t)
  PROVE FifoInv'
<1> USE DEF IInv, TypeOK, LocalType, Threads, LengthLabels
<1>c. Calls
  BY DEF FifoInv
<1>0. LocalStep(t) \/ SharedStep(t)
  BY HistoryStepIsStep
<1>1. ASSUME NEW c \in Consumers, c # t PROVE pc'[c] = pc[c]
  BY <1>0, <1>1, OthersKeepLocals DEF KeepsLocals
<1>p. Peeks'
  BY PeeksStep DEF Peeks
<1>2. CASE Quiet(t)
  <2>1. /\ ~(t \in Producers /\ PushPublish(t)) /\ ~(t \in Consumers /\ PopTake(t))
        /\ op' = op /\ items' = items /\ window' = window
    BY <1>2, <1>c, QuietSteps DEF Quiet, historyVars
  <2>2. ItemsInBlock'
    BY <1>0, <2>1, ItemsKept DEF FifoInv
  <2>3. Calls'
    BY <1>1, <1>2, <2>1, QuietSteps DEF FifoInv, Calls, PopLoad
  <2>4. ASSUME NEW c \in Consumers, pc'[c] = "pop_next" PROVE NULL \in window[c]
    <3>1. CASE pc[c] = "pop_next"
      BY <3>1 DEF FifoInv, Windows
    <3>2. CASE pc[c] # "pop_next"
      <4>1. c = t /\ PopReadTail(c)
        BY <1>1, <1>2, <1>c, <2>4, <3>2, QuietSteps
      <4>2. Front(items) = NULL
        BY <2>4, <4>1, EmptyWhenRead DEF FifoInv
      <4>3. op[c] # "none"
        BY <4>1 DEF PopReadTail, FifoInv, Calls
      <4> QED BY <4>2, <4>3 DEF FifoInv, Windows
    <3> QED BY <3>1, <3>2
  <2>5. Windows'
    BY <2>1, <2>4 DEF FifoInv, Windows, Front
  <2> QED BY <1>p, <2>2, <2>3, <2>5 DEF FifoInv
<1>3. CASE t \in Producers /\ Publish(t)
  <2>1. ItemsInBlock' /\ op' = [op EXCEPT ![t] = "none"]
    BY <1>3, PublishAppends DEF FifoInv
  <2>2. \A c \in Consumers : c # t /\ op'[c] = op[c] /\ pc'[c] = pc[c]
    BY <1>1, <1>3, <2>1, ThreadAssumption
  <2>3. /\ window' \in [Consumers -> SUBSET (Element \cup {NULL})]
        /\ \A c \in Consumers : op[c] # "none" =>
             Front(items)' \in window'[c] /\ window[c] \subseteq window'[c]
    BY <1>3, <2>1, WatchWindows DEF Publish, FifoInv, ItemsInBlock
  <2>4. Calls'
    BY <2>2 DEF FifoInv, Calls
  <2>5. Windows'
    BY <2>2, <2>3 DEF FifoInv, Windows, Calls
  <2> QED BY <1>p, <2>1, <2>4, <2>5 DEF FifoInv
<1>4. CASE t \in Consumers /\ BeginCall(t)
  <2>1. /\ pc[t] = "idle" /\ pc' = [pc EXCEPT ![t] = "pop_mem"]
        /\ window' = [window EXCEPT ![t] = {Front(items)}] /\ items' = items
        /\ \E o \in {"pop", "peek"} :
             (o = "peek" => t \in Peekers) /\ op' = [op EXCEPT ![t] = o]
    BY <1>4 DEF BeginCall, PopBegin, Goto
  <2>2. ~(t \in Producers /\ PushPublish(t)) /\ ~(t \in Consumers /\ PopTake(t))
    BY <2>1 DEF PushPublish, PopTake
  <2>3. ItemsInBlock'
    BY <1>0, <2>1, <2>2, ItemsKept DEF FifoInv
  <2>4. Calls'
    BY <1>4, <2>1 DEF FifoInv, Calls, QuietPeeks
  <2>5. Front(items) \in Element \cup {NULL} /\ Front(items)' = Front(items)
    BY <2>1, EmptySeq, HeadTailProperties DEF FifoInv, ItemsInBlock, Front
  <2>6. Windows'
    BY <1>4, <2>1, <2>5 DEF FifoInv, Windows
  <2> QED BY <1>p, <2>3, <2>4, <2>6 DEF FifoInv
<1>5. CASE t \in Consumers /\ Take(t)
  <2>1. ItemsInBlock'
    BY <1>5, TakeRemovesHead DEF FifoInv
  <2>2. pc' = [pc EXCEPT ![t] = "idle"] /\ op' = [op EXCEPT ![t] = "none"]
    BY <1>5 DEF Take, PopTake, Return, Discard
  <2>3. /\ Watch(items') \in [Consumers -> SUBSET (Element \cup {NULL})]
        /\ \A c \in Consumers : op[c] # "none" =>
             Front(items)' \in Watch(items')[c] /\ window[c] \subseteq Watch(items')[c]
    BY <2>1, WatchWindows DEF FifoInv, ItemsInBlock
  <2>4. window' = [Watch(items') EXCEPT ![t] = {}]
    BY <1>5 DEF Take
  <2>5. Calls'
    BY <1>5, <2>2 DEF FifoInv, Calls
  <2>6. Windows'
    BY <1>5, <2>2, <2>3, <2>4 DEF FifoInv, Windows, Calls
  <2> QED BY <1>p, <2>1, <2>5, <2>6 DEF FifoInv
<1>6. CASE t \in Consumers /\ Answer(t)
  <2>1. (PopEmpty(t) \/ PeekLoad(t)) /\ window' = [window EXCEPT ![t] = {}] /\ items' = items
    BY <1>6, AnswerKinds
  <2>2. /\ pc' = [pc EXCEPT ![t] = "idle"] /\ op' = [op EXCEPT ![t] = "none"]
        /\ pc[t] \in {"pop_next", "pop_load"}
    BY <2>1 DEF PopEmpty, PeekLoad, Return, Discard
  <2>3. ~(t \in Producers /\ PushPublish(t)) /\ ~(t \in Consumers /\ PopTake(t))
    BY <2>2 DEF PushPublish, PopTake
  <2>4. ItemsInBlock'
    BY <1>0, <2>1, <2>3, ItemsKept DEF FifoInv
  <2>5. Calls'
    BY <1>6, <2>2 DEF FifoInv, Calls
  <2>6. Windows'
    BY <1>6, <2>1, <2>2 DEF FifoInv, Windows, Front
  <2> QED BY <1>p, <2>4, <2>5, <2>6 DEF FifoInv
<1> QED BY <1>2, <1>3, <1>4, <1>5, <1>6 DEF HistoryStep

-----------------------------------------------------------------------------
(* The refinement. *)

LEMMA InitFifoInv == HistoryInit => FifoInv
<1> SUFFICES ASSUME HistoryInit PROVE FifoInv
  OBVIOUS
<1> USE DEF HistoryInit, Init
<1>1. ItemsInBlock
  <2>1. head[1] = 0 /\ tailRead[1] = 0
    BY SizeAssumption DEF Blocks
  <2> QED BY <2>1, EmptySeq DEF ItemsInBlock
<1>2. Calls
  BY DEF Calls, Threads
<1>3. Peeks /\ Windows
  BY DEF Peeks, Windows, Threads
<1> QED BY <1>1, <1>2, <1>3 DEF FifoInv

\* A step that ends in the first block begins there.
LEMMA FirstBlockBefore ==
  ASSUME [HistoryNext]_<<vars, historyVars>>, tailMem' = 1
  PROVE tailMem = 1
BY DEF HistoryNext, KeepHistory, EndHistory, vars, queueVars

LEMMA NextFifoInv ==
  ASSUME IInv, FifoInv, tailMem = 1, tailMem' = 1, QuietPeeks,
         [HistoryNext]_<<vars, historyVars>>
  PROVE FifoInv'
<1>1. CASE UNCHANGED <<vars, historyVars>>
  BY <1>1 DEF FifoInv, ItemsInBlock, Calls, Peeks, Windows, Item, Slot, Front, vars, historyVars,
     blockVars, localVars
<1> QED BY <1>1, HistoryStepKinds, FifoInvStep

\* The abstract calls of the consumers.
call == [c \in Consumers |-> op[c]]

\* A new queue is an empty FIFO queue.
LEMMA InitRefines == HistoryInit => Fifo!Init
BY DEF HistoryInit, Init, Fifo!Init, Threads

\* The abstract and the concrete calls see the same fronts.
LEMMA SameWatch ==
  ASSUME NEW q
  PROVE Fifo!Watch(q) = Watch(q)
BY DEF Fifo!Watch, Fifo!Front, Watch, Front

\* Every step is a step of the FIFO queue or a stutter.
LEMMA StepRefines ==
  ASSUME IInv, FifoInv, tailMem = 1, NEW t \in Threads, HistoryStep(t)
  PROVE [Fifo!Next]_(Fifo!fifoVars)
<1> USE DEF IInv, TypeOK, LocalType, Threads, LengthLabels
<1>c. Calls
  BY DEF FifoInv
<1>1. CASE Quiet(t)
  BY <1>1, <1>c, QuietSteps DEF Quiet, historyVars, Fifo!fifoVars
<1>2. CASE t \in Producers /\ Publish(t)
  <2>1. Data(t) \in Element /\ op' = [op EXCEPT ![t] = "none"]
    BY <1>2, PublishAppends DEF FifoInv
  <2>2. call' = call
    BY <1>2, <2>1, ThreadAssumption DEF call
  <2>3. Fifo!Enqueue(Data(t))
    BY <1>2, <2>2, SameWatch DEF Publish, Fifo!Enqueue, call
  <2> QED BY <2>1, <2>3 DEF Fifo!Next
<1>3. CASE t \in Consumers /\ BeginCall(t)
  <2>1. PICK o \in {"pop", "peek"} : op' = [op EXCEPT ![t] = o]
    BY <1>3 DEF BeginCall, PopBegin
  <2>2. op[t] = "none"
    BY <1>3 DEF BeginCall, PopBegin, FifoInv, Calls
  <2>3. call[t] = "none" /\ call' = [call EXCEPT ![t] = o]
    BY <1>3, <2>1, <2>2 DEF call
  <2>4. Fifo!Begin(t, o)
    BY <1>3, <2>3 DEF BeginCall, Fifo!Begin, Front, Fifo!Front, call
  <2> QED BY <1>3, <2>4 DEF Fifo!Next
<1>4. CASE t \in Consumers /\ Take(t)
  <2>1. items # <<>> /\ ret[t] = Head(items) /\ items' = Tail(items)
    BY <1>4, TakeRemovesHead DEF FifoInv
  <2>2. op[t] = "pop" /\ op' = [op EXCEPT ![t] = "none"]
    BY <1>4 DEF Take, PopTake, Return, FifoInv, Calls
  <2>3. call[t] = "pop" /\ call' = [call EXCEPT ![t] = "none"]
    BY <1>4, <2>2 DEF call
  <2>4. Fifo!Dequeue(t)
    BY <1>4, <2>1, <2>3, SameWatch DEF Take, Fifo!Dequeue, call
  <2> QED BY <1>4, <2>4 DEF Fifo!Next
<1>5. CASE t \in Consumers /\ Answer(t)
  <2>1. window' = [window EXCEPT ![t] = {}] /\ items' = items
    BY <1>5, AnswerKinds
  <2>2. op[t] # "none" /\ op' = [op EXCEPT ![t] = "none"]
    BY <1>5, AnswerKinds DEF PopEmpty, PeekLoad, Return, FifoInv, Calls
  <2>3. call[t] = op[t] /\ call' = [call EXCEPT ![t] = "none"]
    BY <1>5, <2>2 DEF call
  <2>4. CASE PopEmpty(t) /\ result' = [result EXCEPT ![t] = NULL]
    <3>1. NULL \in window[t]
      BY <1>5, <2>4 DEF PopEmpty, FifoInv, Windows
    <3>2. Fifo!Answer(t, NULL)
      BY <1>5, <2>1, <2>2, <2>3, <2>4, <3>1 DEF Fifo!Answer, call
    <3> QED BY <1>5, <3>2 DEF Fifo!Next
  <2>5. CASE PeekLoad(t) /\ result' = [result EXCEPT ![t] = LoadedSlot(t)]
    <3>1. LoadedSlot(t) \in Element /\ LoadedSlot(t) \in window[t]
      BY <1>5, <2>2, <2>5, PeekReadsFront DEF FifoInv, Windows
    <3>2. call[t] = "peek"
      BY <2>3, <2>5 DEF PeekLoad
    <3>3. PICK v \in Element : v = LoadedSlot(t)
      BY <3>1
    <3>4. Fifo!Answer(t, v)
      BY <1>5, <2>1, <2>3, <2>5, <3>1, <3>2, <3>3 DEF Fifo!Answer, call
    <3> QED BY <1>5, <3>4 DEF Fifo!Next
  <2> QED BY <1>5, <2>4, <2>5, AnswerKinds
<1> QED BY <1>1, <1>2, <1>3, <1>4, <1>5 DEF HistoryStep

\* For any number of threads and pushes: as long as the queue has not grown, push,
\* pop and peek behave as on one sequence, pop returning its head, peek an element
\* that was its head, and both NULL when it was empty at some moment of the call,
\* while others ask for the length; readers only pop, or a single thread reads.
THEOREM LinearizableFifoHolds ==
  ASSUME QuietPeeks
  PROVE HistorySpec => LinearizableFifo
<1> DEFINE Inv == tailMem = 1 => FifoInv
<1>1. HistoryInit => Inv
  BY InitFifoInv
<1>2. ASSUME IInv, Inv, [HistoryNext]_<<vars, historyVars>> PROVE Inv'
  <2>1. CASE tailMem' # 1
    BY <2>1
  <2>2. CASE tailMem' = 1
    BY <1>2, <2>2, FirstBlockBefore, NextFifoInv
  <2> QED BY <2>1, <2>2
<1>3. HistoryInit => Fifo!Init
  BY InitRefines
<1>4. ASSUME IInv, Inv, [HistoryNext]_<<vars, historyVars>>
      PROVE  [tailMem' = 1 => Fifo!Next]_(Fifo!fifoVars)
  <2>1. CASE UNCHANGED <<vars, historyVars>>
    BY <2>1 DEF vars, localVars, historyVars, Fifo!fifoVars
  <2>2. CASE tailMem' # 1
    BY <2>2
  <2>3. CASE tailMem' = 1 /\ HistoryNext
    <3>1. tailMem = 1
      BY <1>4, <2>3, FirstBlockBefore
    <3> QED BY <1>4, <2>1, <2>3, <3>1, HistoryStepKinds, StepRefines
  <2> QED BY <1>4, <2>1, <2>2, <2>3
<1>5. IInv /\ Inv /\ [HistoryNext]_<<vars, historyVars>> => Inv'
  BY <1>2
<1>6. IInv /\ Inv /\ [HistoryNext]_<<vars, historyVars>>
        => [tailMem' = 1 => Fifo!Next]_(Fifo!fifoVars)
  BY <1>4
<1> HIDE DEF Inv
<1> QED
  BY <1>1, <1>3, <1>5, <1>6, HistorySpecIsSpec, InductiveInvariant, PTL
  DEF HistorySpec, LinearizableFifo
=============================================================================
