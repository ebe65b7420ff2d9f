----------------------- MODULE AtomicQueueOrderProofs -----------------------
(***************************************************************************)
(* Proofs about AtomicQueueOrder: with one consumer, delivery respects real  *)
(* time and what peek returned is what the next pop returns, for every       *)
(* number of producers, pushes and growths of the queue.                     *)
(***************************************************************************)
EXTENDS AtomicQueueOrder, AtomicQueueProofs

-----------------------------------------------------------------------------
(* The invariants. *)

\* The order of the places: blocks in the chain, then positions.
Ahead(b, p, c, q) == b < c \/ (b = c /\ p < q)

\* Only pushes that have returned are before another push.
Past == before \in [Element -> SUBSET Completed]

\* No element that readers can reach was pushed before one that is consumed.
ConsumedFirst ==
  \A e \in consumed : \A b \in Blocks : \A p \in Published(b) :
    headMem <= b => Item(b, p) \notin before[e]

\* No published element was pushed before one that is ahead of it.
PlacedInOrder ==
  \A b, c \in Blocks : \A p \in Published(b), q \in Published(c) :
    Ahead(b, p, c, q) => Item(c, q) \notin before[Item(b, p)]

\* A push that has read tail_mem may find its block left behind by the chain, but
\* what is published in later blocks was not pushed before it.
PendingLabels == PushLabels \ {"push_mem"}

PendingInOrder ==
  \A t \in Producers : pc[t] \in PendingLabels =>
    \A c \in Blocks : \A q \in Published(c) :
      mem[t] < c => Item(c, q) \notin before[Data(t)]

PlaceInv == Past /\ ConsumedFirst /\ PlacedInOrder /\ PendingInOrder

\* The only consumer reads the head of the block it works on, which stays the
\* first block of the chain.
SoleReader(c) ==
  /\ pc[c] \in {"pop_head", "pop_tail", "pop_next", "pop_swing", "pop_load", "pop_take"}
       => mem[c] = headMem
  /\ pc[c] \in {"pop_tail", "pop_load", "pop_take"} => lhead[c] = head[headMem]

\* What it has peeked is the element at the head, and its calls find it there.
PeekedHead(c) ==
  peeked[c] # NULL =>
    /\ head[headMem] \in Published(headMem)
    /\ peeked[c] = Item(headMem, head[headMem])
    /\ pc[c] \notin {"pop_next", "pop_swing", "pop_retire"}

-----------------------------------------------------------------------------
(* The steps. *)

\* The step of one thread, with the history it writes.
OrderStep(t) ==
  \/ t \in Producers /\ BeginPush(t)
  \/ t \in Consumers /\ (Peek(t) \/ Take(t))
  \/ Other(t)

LEMMA OrderStepKinds ==
  ASSUME [OrderNext]_<<vars, orderVars>>
  PROVE \/ UNCHANGED <<vars, orderVars>>
        \/ \E t \in Threads : OrderStep(t)
BY DEF OrderNext, OrderStep, Done, Threads

\* The history variables are only written: a step of OrderNext is one of Next.
LEMMA OrderStepIsStep ==
  ASSUME NEW t \in Threads, OrderStep(t)
  PROVE (LocalStep(t) \/ SharedStep(t)) /\ [Next]_vars
<1>1. CASE t \in Producers /\ BeginPush(t)
  BY <1>1 DEF BeginPush, LocalStep, Next
<1>2. CASE t \in Consumers /\ (Peek(t) \/ Take(t))
  BY <1>2 DEF Peek, Take, LocalStep, SharedStep, Next, PopStep
<1>3. CASE Other(t)
  <2>1. CASE Ref(t) \/ Unref(t)
    BY <2>1 DEF LocalStep, Next
  <2>2. CASE t \in Producers /\ PushStep(t)
    BY <2>2 DEF PushStep, LocalStep, SharedStep, Next
  <2>3. CASE t \in Consumers /\ (PopBegin(t) \/ PopStep(t))
    BY <2>3 DEF PopStep, LocalStep, SharedStep, Next
  <2> QED BY <1>3, <2>1, <2>2, <2>3 DEF Other
<1> QED BY <1>1, <1>2, <1>3 DEF OrderStep

\* A step of OrderNext is a step of Next or a stutter.
LEMMA OrderNextIsNext ==
  ASSUME [OrderNext]_<<vars, orderVars>>
  PROVE [Next]_vars
BY OrderStepKinds, OrderStepIsStep DEF vars, orderVars

\* The order specification implements the queue's.
LEMMA OrderSpecIsSpec == OrderSpec => Spec
<1>1. OrderInit => Init
  BY DEF OrderInit
<1>2. [OrderNext]_<<vars, orderVars>> => [Next]_vars
  BY OrderNextIsNext
<1> QED BY <1>1, <1>2, PTL DEF OrderSpec, Spec

\* Only the beginning of a push counts a push and writes `before'.
LEMMA PushedKept ==
  ASSUME NEW t \in Threads, Peek(t) \/ Take(t) \/ Other(t)
  PROVE pushed' = pushed /\ before' = before
BY DEF Peek, Take, Other, orderVars, PushStep, PopStep, Ref, Unref, PushReadMem, PushReadHead,
   PushReadTail, PushGrow, PushGrowLost, PushLink, PushClaim, PushClaimLost, PushStore,
   PushPublish, PopBegin, PopReadMem, PopReadHead, PopReadTail, PopEmpty, PopReadNext,
   PopSwing, PopSwingLost, PopRetire, PopLoad, PeekLoad, PopTake, PopTakeLost

\* head_mem is only swung by a pop.
LEMMA HeadMemKept ==
  ASSUME NEW t \in Threads, LocalStep(t) \/ SharedStep(t), ~(t \in Consumers /\ PopSwing(t))
  PROVE headMem' = headMem
BY LocalStepFrame DEF sharedVars, SharedStep, PushGrow, PushLink, PushClaim, PushStore,
   PushPublish, PopTake, queueVars

\* head_mem only advances.
LEMMA HeadMemGrows ==
  ASSUME IInv, NEW t \in Threads, LocalStep(t) \/ SharedStep(t)
  PROVE headMem \in Nat /\ headMem' \in Nat /\ headMem <= headMem'
<1> USE DEF IInv
<1>0. headMem \in Nat
  BY ChainBlocks DEF TypeOK
<1>1. CASE PopSwing(t)
  BY <1>0, <1>1, ChainBlocks DEF PopSwing, Chain, Locals, LocalsOf, TypeOK, QueueType
<1>2. CASE ~PopSwing(t)
  BY <1>0, <1>2, HeadMemKept
<1> QED BY <1>1, <1>2


-----------------------------------------------------------------------------
(* Real time. *)

\* The beginning of a push writes its own entry, before it has completed.
LEMMA BeginWrites ==
  ASSUME IInv, Past, NEW t \in Producers, BeginPush(t)
  PROVE \E new \in Element :
          /\ new \notin Completed
          /\ before' = [before EXCEPT ![new] = Completed]
          /\ pc[t] = "idle" /\ pc'[t] = "push_mem"
          /\ \A u \in Producers : pc[u] \in PushLabels => Data(u) # new
<1> USE DEF IInv, TypeOK
<1>1. /\ pc[t] = "idle" /\ pc'[t] = "push_mem"
      /\ pushed[t] \in Nat /\ pushed'[t] = pushed[t] + 1 /\ pushed[t] + 1 \in 1 .. MaxPushes
    BY SizeAssumption DEF BeginPush, PushBegin, Goto, LocalType, QueueType, Threads
<1> DEFINE new == <<t, pushed[t] + 1>>
<1>2. new \in Element /\ new \notin Completed
  BY <1>1 DEF Element, Completed
<1>3. before' = [before EXCEPT ![new] = Completed]
  BY <1>1 DEF BeginPush
<1>4. \A u \in Producers : pc[u] \in PushLabels => Data(u) # new
  BY <1>1 DEF Data, PushLabels
<1> QED BY <1>1, <1>2, <1>3, <1>4

\* A step writes the entry of at most one element, whose push has not returned,
\* and which no push inside its loop is making.
LEMMA BeforeWritten ==
  ASSUME IInv, Past, NEW t \in Threads, OrderStep(t)
  PROVE \/ before' = before
        \/ \E new \in Element :
             /\ new \notin Completed
             /\ \A e \in Element : before'[e] = before[e] \/ (e = new /\ before'[e] = Completed)
             /\ before' \in [Element -> SUBSET Completed]
             /\ \A u \in Producers : pc[u] \in PushLabels => before'[Data(u)] = before[Data(u)]
<1>1. CASE t \in Producers /\ BeginPush(t)
  <2>1. PICK new \in Element :
          /\ new \notin Completed
          /\ before' = [before EXCEPT ![new] = Completed]
          /\ \A u \in Producers : pc[u] \in PushLabels => Data(u) # new
    BY <1>1, BeginWrites
  <2>2. ASSUME NEW u \in Producers, pc[u] \in PushLabels
        PROVE  before'[Data(u)] = before[Data(u)]
    <3>1. Data(u) \in Element
      BY <2>2, DataElement DEF IInv, TypeOK, Threads
    <3> QED BY <2>1, <2>2, <3>1 DEF Past
  <2> QED BY <2>1, <2>2 DEF Past
<1>2. CASE ~(t \in Producers /\ BeginPush(t))
  BY <1>2, PushedKept DEF OrderStep
<1> QED BY <1>1, <1>2

\* Pushes that have returned keep their entry.
LEMMA CompletedKeepBefore ==
  ASSUME IInv, Past, NEW t \in Threads, OrderStep(t), NEW e \in Completed
  PROVE before'[e] = before[e]
BY BeforeWritten DEF Completed

\* Only pushes that have returned are before another push, also after a step.
LEMMA PastStep ==
  ASSUME IInv, Past, NEW t \in Threads, OrderStep(t)
  PROVE Past'
<1>1. Completed \subseteq Completed'
  BY OrderStepIsStep, CompletedGrows DEF IInv
<1>2. before' \in [Element -> SUBSET Completed]
  BY BeforeWritten DEF Past
<1> QED BY <1>1, <1>2 DEF Past

\* The step of a push in its loop keeps its block, or reads the last one.
LEMMA PendingBlock ==
  ASSUME IInv, NEW t \in Threads, OrderStep(t), NEW u \in Producers, pc'[u] \in PendingLabels
  PROVE /\ pc[u] \in PushLabels /\ Data(u)' = Data(u)
        /\ \/ pc[u] \in PendingLabels /\ mem'[u] = mem[u]
           \/ PushReadMem(u) /\ mem'[u] = tailMem /\ tailMem' = tailMem
<1> USE DEF IInv, TypeOK
<1>0. u \in Threads /\ (LocalStep(t) \/ SharedStep(t))
  BY OrderStepIsStep DEF Threads
<1>1. CASE u # t
  BY <1>0, <1>1, OthersKeepLocals DEF KeepsLocals, Data, PendingLabels
<1>2. CASE u = t
  <2> USE DEF PushLabels, PendingLabels
  <2>1. CASE t \in Producers /\ BeginPush(t)
    BY <1>0, <1>2, <2>1 DEF BeginPush, PushBegin, Goto, LocalType
  <2>2. CASE PushReadMem(t)
    BY <1>0, <1>2, <2>2 DEF PushReadMem, Goto, LocalType, Data, queueVars
  <2>3. CASE PushReadHead(t) \/ PushReadTail(t) \/ PushGrow(t) \/ PushClaim(t) \/ PushStore(t)
    BY <1>0, <1>2, <2>3 DEF PushReadHead, PushReadTail, PushGrow, PushClaim, PushStore, Goto,
       LocalType, Data, localVars
  <2>4. CASE PushGrowLost(t) \/ PushClaimLost(t) \/ PushLink(t) \/ PushPublish(t)
    BY <1>0, <1>2, <2>4 DEF PushGrowLost, PushClaimLost, PushLink, PushPublish, Retry, Return,
       Discard, LocalType
  <2>5. CASE Ref(t) \/ Unref(t)
    BY <1>2, <2>5 DEF Ref, Unref, localVars, Data
  <2>6. t \notin Consumers
    BY <1>2, ThreadAssumption
  <2> QED BY <2>1, <2>2, <2>3, <2>4, <2>5, <2>6 DEF OrderStep, Other, PushStep
<1> QED BY <1>1, <1>2

\* A push whose block was left behind stays before what is published later.
LEMMA PendingStep ==
  ASSUME IInv, PlaceInv, NEW t \in Threads, OrderStep(t)
  PROVE PendingInOrder'
<1> USE DEF IInv
<1> SUFFICES ASSUME NEW u \in Producers, pc'[u] \in PendingLabels,
                    NEW c \in Blocks, NEW q \in Published(c)', mem'[u] < c
             PROVE  Item(c, q)' \notin before'[Data(u)']
  BY DEF PendingInOrder
<1>0. LocalStep(t) \/ SharedStep(t)
  BY OrderStepIsStep
<1>1. /\ pc[u] \in PushLabels /\ Data(u)' = Data(u)
      /\ \/ pc[u] \in PendingLabels /\ mem'[u] = mem[u]
         \/ PushReadMem(u) /\ mem'[u] = tailMem /\ tailMem' = tailMem
  BY PendingBlock
<1>2. Data(u) \in Element
  BY <1>1, DataElement DEF TypeOK, Threads
<1>3. before'[Data(u)] = before[Data(u)]
  BY <1>1, BeforeWritten DEF PlaceInv
<1>4. before[Data(u)] \subseteq Completed
  BY <1>2 DEF PlaceInv, Past
<1>5. CASE q \in Published(c) /\ Item(c, q)' = Item(c, q)
  <2>1. CASE pc[u] \in PendingLabels /\ mem'[u] = mem[u]
    BY <1>1, <1>3, <1>5, <2>1 DEF PlaceInv, PendingInOrder
  <2>2. CASE mem'[u] = tailMem
    <3>1. head[c] = tailRead[c] /\ head[c] \in Nat
      BY <2>2 DEF Chain, TypeOK, BlockType
    <3> QED BY <1>5, <3>1 DEF Published
  <2> QED BY <1>1, <2>1, <2>2
<1>6. CASE t \in Producers /\ PushPublish(t) /\ Item(c, q)' = Data(t)
  <2>1. Data(t) \notin Completed
    BY <1>6, DataFresh DEF PushPublish, PushLabels
  <2> QED BY <1>1, <1>3, <1>4, <1>6, <2>1
<1> QED BY <1>0, <1>5, <1>6, PublishedAfter

\* A place that is published is behind the places published before it, or its
\* block was left behind by a push that started before theirs had returned.
LEMMA PlacedStep ==
  ASSUME IInv, PlaceInv, NEW t \in Threads, OrderStep(t)
  PROVE PlacedInOrder'
<1> USE DEF IInv
<1> SUFFICES ASSUME NEW b \in Blocks, NEW c \in Blocks, NEW p \in Published(b)',
                    NEW q \in Published(c)', Ahead(b, p, c, q)
             PROVE  Item(c, q)' \notin before'[Item(b, p)']
  BY DEF PlacedInOrder, Ahead
<1>0. LocalStep(t) \/ SharedStep(t)
  BY OrderStepIsStep
<1> DEFINE Same(x, n) == n \in Published(x) /\ Item(x, n)' = Item(x, n)
           Fresh(x, n) == /\ t \in Producers /\ PushPublish(t) /\ x = mem[t] /\ n = ltail[t]
                          /\ Item(x, n)' = Data(t)
<1>1. /\ Same(b, p) \/ Fresh(b, p)
      /\ Same(c, q) \/ Fresh(c, q)
  BY <1>0, PublishedAfter
<1>2. CASE Same(b, p) /\ Same(c, q)
  <2>1. Item(b, p) \in Completed
    BY <1>2, ItemLive
  <2>2. before'[Item(b, p)] = before[Item(b, p)]
    BY <2>1, CompletedKeepBefore DEF PlaceInv
  <2> QED BY <1>2, <2>2 DEF PlaceInv, PlacedInOrder
<1>3. CASE Same(b, p) /\ Fresh(c, q)
  <2>1. Item(b, p) \in Completed /\ Item(b, p) \in Element
    BY <1>3, ItemLive
  <2>2. before'[Item(b, p)] = before[Item(b, p)] /\ before[Item(b, p)] \subseteq Completed
    BY <2>1, CompletedKeepBefore DEF PlaceInv, Past
  <2>3. Data(t) \notin Completed
    BY <1>3, DataFresh DEF PushPublish, PushLabels
  <2> QED BY <1>3, <2>2, <2>3
<1>4. CASE Fresh(b, p) /\ Same(c, q)
  <2>1. pc[t] = "push_publish" /\ tailRead[b] = p /\ b \in Nat /\ c \in Nat
    BY <1>4 DEF PushPublish, MayPublish, Blocks
  <2>2. b # c
    <3>1. head[c] \in Nat /\ tailRead[c] \in Nat /\ q \in Int /\ q < tailRead[c]
      BY <1>4 DEF Published, TypeOK, BlockType
    <3> QED BY <2>1, <3>1 DEF Ahead
  <2>3. mem[t] < c
    BY <1>4, <2>2 DEF Ahead
  <2>4. before'[Data(t)] = before[Data(t)]
    BY <1>4, <2>1, BeforeWritten DEF PlaceInv, PushLabels
  <2> QED BY <1>4, <2>1, <2>3, <2>4 DEF PlaceInv, PendingInOrder, PendingLabels, PushLabels
<1>5. CASE Fresh(b, p) /\ Fresh(c, q)
  BY <1>0, <1>5, OwnBlock DEF Ahead, PushPublish, MemLabels
<1> QED BY <1>1, <1>2, <1>3, <1>4, <1>5

\* With one consumer, what it takes is at the first place of the first block.
LEMMA ConsumedFirstStep ==
  ASSUME IInv, PlaceInv, NEW t \in Threads, OrderStep(t),
         PopTake(t) => mem[t] = headMem
  PROVE ConsumedFirst'
<1> USE DEF IInv
<1> SUFFICES ASSUME NEW e \in consumed', NEW b \in Blocks, NEW p \in Published(b)',
                    headMem' <= b
             PROVE  Item(b, p)' \notin before'[e]
  BY DEF ConsumedFirst
<1>0. LocalStep(t) \/ SharedStep(t)
  BY OrderStepIsStep
<1>1. headMem <= b /\ headMem \in Nat /\ b \in Nat
  BY <1>0, HeadMemGrows DEF Blocks
<1>2. e \in consumed \/ (PopTake(t) /\ e = ret[t])
  BY <1>0, LocalStepFrame DEF sharedVars, SharedStep, PushGrow, PushLink, PushClaim, PushStore,
     PushPublish, PopSwing, PopTake
<1>3. e \in Completed
  BY <1>2, TakeFresh
<1>4. before'[e] = before[e] /\ before[e] \subseteq Completed
  BY <1>3, CompletedKeepBefore DEF PlaceInv, Past, Completed
<1>5. CASE p \in Published(b) /\ Item(b, p)' = Item(b, p)
  <2>1. CASE e \in consumed
    BY <1>1, <1>4, <1>5, <2>1 DEF PlaceInv, ConsumedFirst
  <2>2. CASE PopTake(t) /\ e = ret[t]
    <3>1. /\ mem[t] = headMem /\ lhead[t] \in Published(headMem) /\ headMem \in Blocks
          /\ e = Item(headMem, lhead[t]) /\ head[headMem] = lhead[t]
      BY <2>2, TakeFresh DEF Item
    <3>2. Ahead(headMem, lhead[t], b, p)
      <4>1. CASE headMem = b
        <5>1. head' = [head EXCEPT ![b] = head[b] + 1]
          BY <2>2, <3>1, <4>1 DEF PopTake
        <5>2. head'[b] = head[b] + 1 /\ head[b] \in Nat /\ p \in Int /\ p >= head'[b]
          BY <5>1 DEF Published, TypeOK, BlockType
        <5> QED BY <3>1, <4>1, <5>2 DEF Ahead
      <4> QED BY <1>1, <4>1 DEF Ahead
    <3> QED BY <1>4, <1>5, <3>1, <3>2 DEF PlaceInv, PlacedInOrder
  <2> QED BY <1>2, <2>1, <2>2
<1>6. CASE t \in Producers /\ PushPublish(t) /\ Item(b, p)' = Data(t)
  <2>1. Data(t) \notin Completed
    BY <1>6, DataFresh DEF PushPublish, PushLabels
  <2> QED BY <1>4, <1>6, <2>1
<1> QED BY <1>0, <1>5, <1>6, PublishedAfter

-----------------------------------------------------------------------------
(* The only consumer. *)

\* Only readers move the first block and its head.
LEMMA HeadKept ==
  ASSUME IInv, NEW t \in Threads, LocalStep(t) \/ SharedStep(t),
         ~(t \in Consumers /\ PopSwing(t)), ~(t \in Consumers /\ PopTake(t))
  PROVE headMem' = headMem /\ headMem \in Blocks /\ head'[headMem] = head[headMem]
<1> USE DEF IInv
<1>1. headMem' = headMem /\ headMem \in Blocks /\ headMem \in Nat
  BY HeadMemKept, ChainBlocks DEF TypeOK, QueueType
<1>2. CASE LocalStep(t)
  BY <1>1, <1>2, LocalStepFrame DEF sharedVars
<1>3. CASE t \in Producers /\ PushGrow(t)
  <2>1. mem[t] + 1 # headMem
    BY <1>1, <1>3, ChainBlocks DEF PushGrow, Chain, TypeOK
  <2> QED BY <1>1, <1>3, <2>1 DEF PushGrow, TypeOK, BlockType
<1>4. CASE t \in Producers /\ (PushLink(t) \/ PushClaim(t) \/ PushStore(t) \/ PushPublish(t))
  BY <1>1, <1>4 DEF PushLink, PushClaim, PushStore, PushPublish
<1> QED BY <1>1, <1>2, <1>3, <1>4 DEF SharedStep

\* Every step keeps the only consumer at the first block and its head.
LEMMA SoleReaderStep ==
  ASSUME IInv, NEW c \in Consumers, Consumers = {c}, SoleReader(c),
         NEW t \in Threads, OrderStep(t)
  PROVE SoleReader(c)'
<1> USE DEF IInv, TypeOK, LocalType
<1>0. c \in Threads /\ (LocalStep(t) \/ SharedStep(t))
  BY OrderStepIsStep DEF Threads
<1>1. CASE t # c
  <2>1. pc'[c] = pc[c] /\ mem'[c] = mem[c] /\ lhead'[c] = lhead[c]
    BY <1>0, <1>1, OthersKeepLocals DEF KeepsLocals
  <2>2. t \notin Consumers
    BY <1>1
  <2>3. headMem' = headMem /\ head'[headMem] = head[headMem]
    BY <1>0, <2>2, HeadKept
  <2> QED BY <2>1, <2>3 DEF SoleReader
<1>2. CASE t = c
  <2>1. CASE PopReadMem(t)
    BY <1>0, <1>2, <2>1 DEF PopReadMem, Goto, SoleReader, queueVars
  <2>2. CASE PopReadHead(t)
    BY <1>0, <1>2, <2>2 DEF PopReadHead, Goto, SoleReader, queueVars, blockVars
  <2>3. CASE PopReadTail(t) \/ PopReadNext(t) \/ PopLoad(t)
    BY <1>0, <1>2, <2>3 DEF PopReadTail, PopReadNext, PopLoad, Goto, SoleReader,
       queueVars, blockVars, localVars
  <2>4. CASE PopSwing(t) \/ PopBegin(t)
    BY <1>0, <1>2, <2>4 DEF PopSwing, PopBegin, Goto, SoleReader
  <2>5. CASE PopEmpty(t) \/ PopSwingLost(t) \/ PopRetire(t) \/ PeekLoad(t) \/ PopTake(t)
             \/ PopTakeLost(t)
    BY <1>0, <1>2, <2>5 DEF PopEmpty, PopSwingLost, PopRetire, PeekLoad, PopTake, PopTakeLost,
       Retry, Return, Discard, SoleReader
  <2>6. CASE Ref(t) \/ Unref(t)
    BY <2>6 DEF Ref, Unref, queueVars, blockVars, localVars, SoleReader
  <2>7. t \notin Producers
    BY <1>2, ThreadAssumption
  <2> QED
    BY <1>2, <2>1, <2>2, <2>3, <2>4, <2>5, <2>6, <2>7
    DEF OrderStep, Peek, Take, Other, PopStep
<1> QED BY <1>1, <1>2

\* The steps that leave the head alone keep the element there.
LEMMA HeadItemKept ==
  ASSUME IInv, NEW t \in Threads, LocalStep(t) \/ SharedStep(t),
         ~(t \in Consumers /\ PopSwing(t)), ~(t \in Consumers /\ PopTake(t)),
         head[headMem] \in Published(headMem)
  PROVE /\ head'[headMem] = head[headMem] /\ headMem' = headMem
        /\ head[headMem] \in Published(headMem)'
        /\ Item(headMem, head[headMem])' = Item(headMem, head[headMem])
<1> USE DEF IInv
<1> DEFINE b == headMem
           p == head[headMem]
<1>1. headMem' = headMem /\ b \in Blocks /\ head'[b] = head[b] /\ p \in Nat
  BY HeadKept DEF TypeOK, BlockType
<1>2. b \in 1 .. tailMem
  BY ChainBlocks DEF Chain, TypeOK
<1>3. tailRead[b] <= tailRead'[b] /\ tailRead[b] \in Nat /\ tailRead'[b] \in Nat
  <2>1. Monotone /\ TypeOK'
    BY StepMonotone, TypeStep
  <2> QED BY <1>1, <1>2, <2>1 DEF Monotone, TypeOK, BlockType
<1>4. p < tailRead[b]
  BY <1>1, <1>3 DEF Published
<1>5. p \in head'[b] .. (tailRead'[b] - 1)
  BY <1>1, <1>3, <1>4
<1>6. p \in Published(b)'
  BY <1>1, <1>5 DEF Published
<1>7. p \in InUse(b) /\ ~(pc[t] = "push_store" /\ b = mem[t] /\ p = ltail[t])
  BY <1>1, PublishedInUse, ClaimInUse DEF Claiming
<1>8. Item(b, p)' = Item(b, p)
  BY <1>1, <1>7, SlotsKept DEF Item
<1> QED BY <1>1, <1>6, <1>8

\* Every step keeps the peeked element at the head until a pop takes it.
LEMMA PeekedHeadStep ==
  ASSUME IInv, NEW c \in Consumers, Consumers = {c}, SoleReader(c), PeekedHead(c),
         peeked \in [Consumers -> Element \cup {NULL}],
         NEW t \in Threads, OrderStep(t)
  PROVE PeekedHead(c)' /\ peeked' \in [Consumers -> Element \cup {NULL}]
<1> USE DEF IInv, TypeOK, LocalType
<1>0. c \in Threads /\ (LocalStep(t) \/ SharedStep(t)) /\ headMem \in Blocks
  BY OrderStepIsStep DEF Threads, QueueType
<1>1. CASE t \in Consumers /\ Take(t)
  BY <1>1 DEF Take, PeekedHead
<1>2. CASE t \in Consumers /\ Peek(t)
  <2>1. pc[c] = "pop_load" /\ pc'[c] = "idle" /\ t = c
    BY <1>0, <1>2 DEF Peek, PeekLoad, Return, Discard
  <2>2. mem[c] = headMem /\ lhead[c] = head[headMem] /\ lhead[c] < tailRead[headMem]
    BY <1>0, <2>1 DEF SoleReader, Locals, LocalsOf
  <2>3. head[headMem] \in Published(headMem)
    BY <1>0, <2>2 DEF Published, BlockType
  <2>4. peeked' = [peeked EXCEPT ![c] = Item(headMem, head[headMem])]
    BY <1>2, <2>1, <2>2 DEF Peek, LoadedSlot, Item
  <2>5. UNCHANGED <<headMem, head, tailRead, array, size>>
    BY <1>2 DEF Peek, PeekLoad, queueVars, blockVars
  <2>6. (head[headMem] \in Published(headMem))'
    BY <2>3, <2>5 DEF Published
  <2>7. (peeked[c] = Item(headMem, head[headMem]))'
    BY <2>4, <2>5 DEF Item, Slot
  <2>8. Item(headMem, head[headMem]) \in Element
    BY <1>0, <2>3, ItemLive
  <2> QED BY <2>1, <2>4, <2>6, <2>7, <2>8 DEF PeekedHead
<1>3. CASE ~(t \in Consumers /\ (Peek(t) \/ Take(t)))
  <2>1. peeked' = peeked
    BY <1>3 DEF OrderStep, BeginPush, Other, orderVars
  <2> SUFFICES ASSUME peeked[c] # NULL PROVE PeekedHead(c)'
    BY <2>1 DEF PeekedHead
  <2>2. /\ head[headMem] \in Published(headMem)
        /\ peeked[c] = Item(headMem, head[headMem])
        /\ pc[c] \notin {"pop_next", "pop_swing", "pop_retire"}
    BY DEF PeekedHead
  <2>3. ~(t \in Consumers /\ PopSwing(t))
    BY <2>2 DEF PopSwing
  <2>4. ~(t \in Consumers /\ PopTake(t))
    <3> SUFFICES ASSUME t \in Consumers, PopTake(t) PROVE FALSE
      OBVIOUS
    <3>1. t \notin Producers /\ ~Ref(t) /\ ~Unref(t) /\ ~PopBegin(t)
      BY ThreadAssumption DEF PopTake, Ref, Unref, PopBegin, Return, Discard
    <3> QED BY <1>3, <3>1 DEF OrderStep, Other
  <2>5. /\ head'[headMem] = head[headMem] /\ headMem' = headMem
        /\ head[headMem] \in Published(headMem)'
        /\ Item(headMem, head[headMem])' = Item(headMem, head[headMem])
    BY <1>0, <2>2, <2>3, <2>4, HeadItemKept
  <2>6. pc'[c] \notin {"pop_next", "pop_swing", "pop_retire"}
    <3>1. CASE t # c
      BY <1>0, <2>2, <3>1, OthersKeepLocals DEF KeepsLocals
    <3>2. CASE t = c
      <4>1. CASE PopReadTail(t)
        <5>1. lhead[c] = head[headMem] /\ mem[c] = headMem
          BY <3>2, <4>1 DEF PopReadTail, SoleReader
        <5>2. lhead[c] # tailRead[mem[c]]
          BY <1>0, <2>2, <5>1 DEF Published, BlockType
        <5> QED BY <1>0, <3>2, <4>1, <5>2 DEF PopReadTail, Goto
      <4>2. CASE PopReadMem(t) \/ PopReadHead(t) \/ PopLoad(t) \/ PopBegin(t)
        BY <1>0, <3>2, <4>2 DEF PopReadMem, PopReadHead, PopLoad, PopBegin, Goto
      <4>3. CASE PopEmpty(t) \/ PopReadNext(t) \/ PopSwing(t) \/ PopSwingLost(t) \/ PopRetire(t)
        BY <2>2, <3>2, <4>3 DEF PopEmpty, PopReadNext, PopSwing, PopSwingLost, PopRetire
      <4>4. CASE PopTakeLost(t)
        BY <1>0, <3>2, <4>4 DEF PopTakeLost, Retry, Discard
      <4>5. CASE Ref(t) \/ Unref(t)
        BY <2>2, <4>5 DEF Ref, Unref
      <4>6. t \notin Producers
        BY <3>2, ThreadAssumption
      <4> QED
        BY <1>3, <3>2, <4>1, <4>2, <4>3, <4>4, <4>5, <4>6 DEF OrderStep, Other, PopStep
    <3> QED BY <3>1, <3>2
  <2> QED BY <2>1, <2>2, <2>5, <2>6 DEF PeekedHead
<1> QED BY <1>1, <1>2, <1>3

-----------------------------------------------------------------------------
(* The theorems. *)

\* The invariant of the histories, for the only consumer c.
ReaderInv(c) ==
  /\ PlaceInv
  /\ SoleReader(c)
  /\ PeekedHead(c)
  /\ peeked \in [Consumers -> Element \cup {NULL}]

LEMMA InitReaderInv ==
  ASSUME OrderInit, NEW c \in Consumers, Consumers = {c}
  PROVE ReaderInv(c)
<1>1. PlaceInv
  BY DEF OrderInit, Init, PlaceInv, Past, ConsumedFirst, PlacedInOrder, PendingInOrder,
     PendingLabels, PushLabels, Published, Threads
<1> QED BY <1>1 DEF OrderInit, Init, ReaderInv, SoleReader, PeekedHead, Threads

LEMMA NextReaderInv ==
  ASSUME IInv, NEW c \in Consumers, Consumers = {c}, ReaderInv(c),
         [OrderNext]_<<vars, orderVars>>
  PROVE ReaderInv(c)'
<1>1. CASE UNCHANGED <<vars, orderVars>>
  BY <1>1 DEF ReaderInv, PlaceInv, Past, ConsumedFirst, PlacedInOrder, PendingInOrder,
     SoleReader, PeekedHead, Item, Slot, Published, Completed, Data, vars, orderVars, queueVars,
     blockVars, localVars
<1>2. ASSUME NEW t \in Threads, OrderStep(t) PROVE ReaderInv(c)'
  <2> USE <1>2 DEF ReaderInv
  <2>1. PopTake(t) => mem[t] = headMem
    <3>1. PopTake(t) => t = c
      <4>1. PopTake(t) => pc[t] = "pop_take"
        BY DEF PopTake
      <4> QED BY <4>1 DEF IInv, Locals, LocalsOf, ReadLabels
    <3> QED BY <3>1 DEF PopTake, SoleReader
  <2>2. PlaceInv'
    BY <2>1, PastStep, ConsumedFirstStep, PlacedStep, PendingStep DEF PlaceInv
  <2> QED BY <2>2, SoleReaderStep, PeekedHeadStep
<1> QED BY <1>1, <1>2, OrderStepKinds

\* What a successful pop of the only consumer returns is the first element.
LEMMA TakesFirst ==
  ASSUME IInv, NEW c \in Consumers, Consumers = {c}, ReaderInv(c),
         [OrderNext]_<<vars, orderVars>>, pc[c] = "pop_take", pc'[c] = "idle"
  PROVE /\ headMem \in Blocks /\ head[headMem] \in Published(headMem)
        /\ ret[c] = Item(headMem, head[headMem])
<1> USE DEF IInv
<1>1. c \in Threads /\ pc \in [Threads -> Labels]
  BY DEF Threads, TypeOK, LocalType
<1>2. PICK t \in Threads : OrderStep(t)
  BY OrderStepKinds DEF vars
<1>3. t = c
  BY <1>1, <1>2, OrderStepIsStep, OthersKeepLocals DEF KeepsLocals, TypeOK
<1>4. PopTake(c)
  BY <1>1, <1>2, <1>3 DEF OrderStep, Other, BeginPush, Peek, Take, PushStep, PopStep, Ref, Unref,
     PushBegin, PushReadMem, PushReadHead, PushReadTail, PushGrow, PushGrowLost,
     PushLink, PushClaim, PushClaimLost, PushStore, PushPublish,
     PopBegin, PopReadMem, PopReadHead, PopReadTail, PopEmpty, PopReadNext, PopSwing,
     PopSwingLost, PopRetire, PopLoad, PeekLoad, PopTakeLost, Discard, Retry
<1>5. mem[c] = headMem
  BY DEF ReaderInv, SoleReader
<1> QED BY <1>1, <1>4, <1>5, TakeFresh DEF Item

\* The invariant holds in every state.
LEMMA ReaderInvariant ==
  ASSUME NEW c \in Consumers, Consumers = {c}
  PROVE OrderSpec => []IInv /\ []ReaderInv(c)
<1>1. OrderInit => ReaderInv(c)
  BY InitReaderInv
<1>2. IInv /\ ReaderInv(c) /\ [OrderNext]_<<vars, orderVars>> => ReaderInv(c)'
  BY NextReaderInv
<1> QED BY <1>1, <1>2, OrderSpecIsSpec, InductiveInvariant, PTL DEF OrderSpec

\* With one consumer, no pop returns an element after one whose push began when
\* its own push had returned: writers that are late for an old block do not
\* overtake, for any number of writers and growths of the queue.
THEOREM RealTimeFifoHolds ==
  ASSUME NEW c, Consumers = {c}
  PROVE OrderSpec => RealTimeFifo
<1> DEFINE InOrder(t) == pc[t] = "pop_take" /\ pc'[t] = "idle"
                           => \A e \in consumed : ret[t] \notin before[e]
<1>1. c \in Consumers
  OBVIOUS
<1>2. ASSUME IInv, ReaderInv(c), [OrderNext]_<<vars, orderVars>>
      PROVE  InOrder(c)
  <2>1. IInv => headMem <= headMem
    BY DEF IInv, TypeOK, QueueType, Blocks
  <2> QED BY <1>1, <1>2, <2>1, TakesFirst DEF ReaderInv, PlaceInv, ConsumedFirst
<1>3. IInv /\ ReaderInv(c) /\ [OrderNext]_<<vars, orderVars>>
        => [\A t \in Consumers : InOrder(t)]_vars
  BY <1>2
<1> QED BY <1>1, <1>3, ReaderInvariant, PTL DEF OrderSpec, RealTimeFifo

\* With one consumer, a successful pop returns what peek returned last, if it
\* has peeked since the pop before: neither writers nor the growth of the queue
\* move the element at its head.
THEOREM PeekStableHolds ==
  ASSUME NEW c, Consumers = {c}
  PROVE OrderSpec => PeekStable
<1> DEFINE Stable(t) == pc[t] = "pop_take" /\ pc'[t] = "idle" => peeked[t] \in {NULL, ret[t]}
<1>1. c \in Consumers
  OBVIOUS
<1>2. ASSUME IInv, ReaderInv(c), [OrderNext]_<<vars, orderVars>>
      PROVE  Stable(c)
  BY <1>1, <1>2, TakesFirst DEF ReaderInv, PeekedHead
<1>3. IInv /\ ReaderInv(c) /\ [OrderNext]_<<vars, orderVars>>
        => [\A t \in Consumers : Stable(t)]_<<vars, orderVars>>
  BY <1>2
<1> QED BY <1>1, <1>3, ReaderInvariant, PTL DEF OrderSpec, PeekStable
=============================================================================
