------------------------- MODULE AtomicQueueProofs -------------------------
(***************************************************************************)
(* Proofs about AtomicQueue for every number of producers, consumers,       *)
(* pushes and blocks: typing, the bounds of a block, that no unconsumed     *)
(* slot is overwritten, that no element is delivered twice, that the last   *)
(* unref gives every block back, and that length in a queue that has not    *)
(* grown is bounded by the pushes begun.                                    *)
(***************************************************************************)
EXTENDS AtomicQueue, FiniteSetTheorems, TLAPS

-----------------------------------------------------------------------------
(* The inductive invariant. *)

\* The chain of blocks: next links consecutive blocks, up to tail_mem; a block
\* beyond tail_mem has no position in use.
Chain ==
  /\ headMem <= tailMem
  /\ \A b \in Blocks : next[b] = 0 \/ (next[b] = b + 1 /\ b < tailMem)
  /\ \A b \in Blocks : b > tailMem => head[b] = tailWrite[b] /\ tailRead[b] = tailWrite[b]

MemLabels == {"push_head", "push_tail", "push_grow", "push_link",
              "push_claim", "push_store", "push_publish",
              "pop_head", "pop_tail", "pop_next", "pop_swing", "pop_retire",
              "pop_load", "pop_take", "len_head", "len_tail"}

\* A thread that has read head_mem or tail_mem holds a block of the chain, and
\* the head it has read is not ahead of the head of that block.
LocalsOf(t) ==
  /\ pc[t] \in MemLabels => mem[t] \in 1 .. tailMem
  /\ pc[t] \in {"push_tail", "push_claim", "pop_tail", "pop_load", "pop_take"}
       => lhead[t] <= head[mem[t]]
  /\ pc[t] = "push_link" => mem[t] < tailMem
  /\ pc[t] = "push_claim" => HasRoom(mem[t], lhead[t], ltail[t])
  /\ pc[t] = "pop_swing" => next[mem[t]] # 0
  /\ pc[t] \in {"pop_load", "pop_take"} => lhead[t] < tailRead[mem[t]]
  /\ pc[t] \in PushLabels => t \in Producers /\ pushed[t] >= 1
  /\ pc[t] \in ReadLabels => t \in Consumers

Locals == \A t \in Threads : LocalsOf(t)

Claiming(t) == pc[t] \in {"push_store", "push_publish"}

\* A claimed position is not published yet, belongs to one writer, and after the
\* store its slot holds the writer's element.
Claims ==
  \A t \in Threads :
    Claiming(t) =>
      /\ tailRead[mem[t]] <= ltail[t]
      /\ ltail[t] < tailWrite[mem[t]]
      /\ pc[t] = "push_publish" => array[mem[t]][Slot(mem[t], ltail[t])] = Data(t)
      /\ \A u \in Threads : Claiming(u) /\ u # t /\ mem[u] = mem[t] => ltail[u] # ltail[t]

\* A published slot holds an element whose push has returned and that no pop
\* has returned.
LiveFresh ==
  \A b \in Blocks : \A p \in Published(b) :
    array[b][Slot(b, p)] \in Completed \ consumed

\* No element is published in two places.
LiveDistinct ==
  \A b, c \in Blocks : \A p \in Published(b), q \in Published(c) :
    array[b][Slot(b, p)] = array[c][Slot(c, q)] => b = c /\ p = q

\* The slot a pop has loaded is what it still takes if head has not moved.
Loaded ==
  \A t \in Threads :
    pc[t] = "pop_take" /\ head[mem[t]] = lhead[t]
      => ret[t] = array[mem[t]][Slot(mem[t], lhead[t])]

IInv ==
  /\ TypeOK
  /\ Chain
  /\ BlockBounds
  /\ Locals
  /\ Claims
  /\ consumed \subseteq Completed
  /\ LiveFresh
  /\ LiveDistinct
  /\ Loaded

-----------------------------------------------------------------------------
(* Arithmetic of slots. *)

\* pos & size is a slot of the array.
LEMMA ModRange ==
  ASSUME NEW a \in Nat, NEW m \in Nat
  PROVE a % (m + 1) \in 0 .. m
BY SMT

\* Division with remainder.
LEMMA DivMod ==
  ASSUME NEW a \in Nat, NEW c \in Nat \ {0}
  PROVE /\ a = c * (a \div c) + (a % c)
        /\ a \div c \in Nat
        /\ a % c \in Nat
BY SMT

\* Two positions less than one array length apart have different slots.
LEMMA ModInjective ==
  ASSUME NEW a \in Nat, NEW b \in Nat, NEW c \in Nat \ {0},
         a < b, b - a < c
  PROVE a % c # b % c
<1> SUFFICES ASSUME a % c = b % c PROVE FALSE
  OBVIOUS
<1> DEFINE qa == a \div c
           qb == b \div c
<1>1. a = c * qa + (a % c) /\ qa \in Nat /\ a % c \in Nat
  BY DivMod
<1>2. b = c * qb + (b % c) /\ qb \in Nat
  BY DivMod
<1> HIDE DEF qa, qb
<1>3. b - a = c * (qb - qa)
  BY <1>1, <1>2
<1>4. CASE qb <= qa
  <2>1. c * (qb - qa) <= 0
    BY <1>1, <1>2, <1>4
  <2> QED BY <2>1, <1>3
<1>5. CASE qb > qa
  <2>1. qb - qa >= 1
    BY <1>1, <1>2, <1>5
  <2>2. c * (qb - qa) >= c
    BY <2>1, <1>1, <1>2
  <2> QED BY <2>2, <1>3
<1> QED BY <1>1, <1>2, <1>4, <1>5

-----------------------------------------------------------------------------
(* The initial states. *)

\* The labels, so that a leaf need not expand the sets.
LEMMA LabelMembers ==
  /\ "idle" \in Labels
  /\ "push_mem" \in Labels /\ "push_head" \in Labels /\ "push_tail" \in Labels
  /\ "push_grow" \in Labels /\ "push_link" \in Labels /\ "push_claim" \in Labels
  /\ "push_store" \in Labels /\ "push_publish" \in Labels
  /\ "pop_mem" \in Labels /\ "pop_head" \in Labels /\ "pop_tail" \in Labels
  /\ "pop_next" \in Labels /\ "pop_swing" \in Labels /\ "pop_retire" \in Labels
  /\ "pop_load" \in Labels /\ "pop_take" \in Labels
  /\ "len_head_mem" \in Labels /\ "len_head" \in Labels
  /\ "len_tail_mem" \in Labels /\ "len_tail" \in Labels
BY DEF Labels, PushLabels, ReadLabels

\* A new queue satisfies the inductive invariant.
LEMMA InitIInv == Init => IInv
<1> SUFFICES ASSUME Init PROVE IInv
  OBVIOUS
<1>1. TypeOK
  <2>1. QueueType
    BY SizeAssumption, ThreadAssumption DEF Init, QueueType, Blocks
  <2>2. BlockType
    BY SizeAssumption DEF Init, BlockType, EmptyArray, Blocks
  <2>3. LocalType
    BY SizeAssumption, LabelMembers DEF Init, LocalType
  <2> QED BY <2>1, <2>2, <2>3 DEF TypeOK
<1>2. Chain
  BY SizeAssumption DEF Init, Chain, Blocks
<1>3. BlockBounds
  BY SizeAssumption DEF Init, BlockBounds, Blocks
<1>4. Locals
  BY DEF Init, Locals, LocalsOf, MemLabels, PushLabels, ReadLabels
<1>5. Claims
  BY DEF Init, Claims, Claiming
<1>6. LiveFresh /\ LiveDistinct
  BY DEF Init, LiveFresh, LiveDistinct, Published
<1>7. consumed \subseteq Completed
  BY DEF Init
<1>8. Loaded
  BY DEF Init, Loaded
<1> QED BY <1>1, <1>2, <1>3, <1>4, <1>5, <1>6, <1>7, <1>8 DEF IInv

-----------------------------------------------------------------------------
(* What a step leaves alone. *)

\* The steps that change neither the chain nor a block nor the elements taken.
LocalStep(t) ==
  \/ Ref(t) \/ Unref(t)
  \/ /\ t \in Producers
     /\ \/ PushBegin(t) \/ PushReadMem(t) \/ PushReadHead(t) \/ PushReadTail(t)
        \/ PushGrowLost(t) \/ PushClaimLost(t)
  \/ /\ t \in Consumers
     /\ \/ PopBegin(t) \/ PopReadMem(t) \/ PopReadHead(t) \/ PopReadTail(t)
        \/ PopEmpty(t) \/ PopReadNext(t) \/ PopSwingLost(t) \/ PopRetire(t)
        \/ PopLoad(t) \/ PeekLoad(t) \/ PopTakeLost(t)
        \/ LengthBegin(t) \/ LengthStep(t)

\* The steps that do.
SharedStep(t) ==
  \/ /\ t \in Producers
     /\ \/ PushGrow(t) \/ PushLink(t) \/ PushClaim(t)
        \/ PushStore(t) \/ PushPublish(t)
  \/ /\ t \in Consumers
     /\ PopSwing(t) \/ PopTake(t)

sharedVars == <<headMem, tailMem, size, array, head, tailWrite, tailRead, next, consumed>>

\* Every step is a stutter or the local or shared step of one thread.
LEMMA StepKinds ==
  ASSUME [Next]_vars
  PROVE \/ UNCHANGED vars
        \/ \E t \in Threads : LocalStep(t) \/ SharedStep(t)
BY DEF Next, PushStep, PopStep, LocalStep, SharedStep, Threads, Done

\* A local step leaves the queue and its blocks alone.
LEMMA LocalStepFrame ==
  ASSUME NEW t \in Threads, LocalStep(t)
  PROVE UNCHANGED sharedVars
BY DEF LocalStep, sharedVars, queueVars, blockVars, Ref, Unref,
   PushBegin, PushReadMem, PushReadHead, PushReadTail, PushGrowLost, PushClaimLost,
   PopBegin, PopReadMem, PopReadHead, PopReadTail, PopEmpty, PopReadNext,
   PopSwingLost, PopRetire, PopLoad, PeekLoad, PopTakeLost, LengthBegin, LengthStep,
   LengthReadHeadMem, LengthReadHead, LengthReadTailMem, LengthReturn

\* The locals of thread u and its count of pushes.
KeepsLocals(u) ==
  /\ pc'[u] = pc[u]
  /\ mem'[u] = mem[u]
  /\ lhead'[u] = lhead[u]
  /\ ltail'[u] = ltail[u]
  /\ ret'[u] = ret[u]
  /\ u \in Producers => pushed'[u] = pushed[u]

\* A step of one thread leaves the locals of the others alone.
LEMMA OthersKeepLocals ==
  ASSUME LocalType, QueueType, NEW t \in Threads, LocalStep(t) \/ SharedStep(t),
         NEW u \in Threads, u # t
  PROVE KeepsLocals(u)
<1>1. CASE Ref(t) \/ Unref(t)
  BY <1>1 DEF Ref, Unref, localVars, KeepsLocals
<1>2. CASE PushBegin(t)
  BY <1>2 DEF PushBegin, Goto, LocalType, QueueType, localVars, KeepsLocals
<1>3. CASE PushReadMem(t) \/ PushReadHead(t) \/ PushReadTail(t)
  BY <1>3 DEF PushReadMem, PushReadHead, PushReadTail, Goto, LocalType, KeepsLocals
<1>4. CASE PushGrow(t) \/ PushClaim(t) \/ PushStore(t)
  BY <1>4 DEF PushGrow, PushClaim, PushStore, Goto, LocalType, localVars, KeepsLocals
<1>5. CASE PushGrowLost(t) \/ PushClaimLost(t) \/ PushLink(t) \/ PushPublish(t)
  BY <1>5 DEF PushGrowLost, PushClaimLost, PushLink, PushPublish,
     Retry, Return, Discard, LocalType, KeepsLocals
<1>6. CASE PopBegin(t) \/ PopReadMem(t) \/ PopReadHead(t) \/ PopReadTail(t)
  BY <1>6 DEF PopBegin, PopReadMem, PopReadHead, PopReadTail, Goto, LocalType,
     localVars, KeepsLocals
<1>7. CASE PopReadNext(t) \/ PopSwing(t) \/ PopLoad(t)
  BY <1>7 DEF PopReadNext, PopSwing, PopLoad, Goto, LocalType, localVars, KeepsLocals
<1>8. CASE PopEmpty(t) \/ PopSwingLost(t) \/ PopRetire(t) \/ PeekLoad(t)
           \/ PopTake(t) \/ PopTakeLost(t)
  BY <1>8 DEF PopEmpty, PopSwingLost, PopRetire, PeekLoad, PopTake, PopTakeLost,
     Retry, Return, Discard, LocalType, KeepsLocals
<1>9. CASE LengthBegin(t) \/ LengthStep(t)
  BY <1>9 DEF LengthBegin, LengthStep, LengthReadHeadMem, LengthReadHead,
     LengthReadTailMem, LengthReturn, Return, Discard, Goto, LocalType, localVars,
     KeepsLocals
<1> QED
  BY <1>1, <1>2, <1>3, <1>4, <1>5, <1>6, <1>7, <1>8, <1>9 DEF LocalStep, SharedStep

\* Positions only grow, links stay, and the size of a block in the chain is fixed.
Monotone ==
  /\ tailMem <= tailMem'
  /\ \A b \in 1 .. tailMem :
       /\ head[b] <= head'[b]
       /\ tailRead[b] <= tailRead'[b]
       /\ tailWrite[b] <= tailWrite'[b]
       /\ size'[b] = size[b]
       /\ next[b] # 0 => next'[b] # 0

\* The two ends of the chain are blocks.
LEMMA ChainBlocks ==
  ASSUME QueueType
  PROVE /\ 1 .. tailMem \subseteq Blocks
        /\ headMem \in Nat \ {0} /\ tailMem \in Nat \ {0}
        /\ tailMem <= MaxBlocks /\ headMem <= MaxBlocks
BY SizeAssumption DEF QueueType, Blocks

\* Positions, next links and tail_mem only ever advance.
LEMMA StepMonotone ==
  ASSUME TypeOK, Locals, NEW t \in Threads, LocalStep(t) \/ SharedStep(t)
  PROVE Monotone
<1>0. /\ size \in [Blocks -> Nat] /\ head \in [Blocks -> Nat]
      /\ tailRead \in [Blocks -> Nat] /\ tailWrite \in [Blocks -> Nat]
      /\ next \in [Blocks -> 0 .. MaxBlocks]
      /\ tailMem \in Nat
      /\ \A b \in 1 .. tailMem : b \in Blocks
  BY ChainBlocks DEF TypeOK, QueueType, BlockType
<1>1. CASE LocalStep(t)
  BY <1>0, <1>1, LocalStepFrame DEF sharedVars, Monotone
<1>2. CASE PushGrow(t)
  <2>1. \A b \in 1 .. tailMem : b # tailMem + 1
    BY <1>0
  <2> QED
    BY <1>0, <1>2, <2>1 DEF PushGrow, Monotone
<1>3. CASE PushLink(t)
  <2>1. mem[t] \in Nat
    BY <1>0, <1>3 DEF PushLink, Locals, LocalsOf, MemLabels
  <2>2. mem[t] + 1 # 0
    BY <2>1
  <2> QED
    BY <1>0, <1>3, <2>2 DEF PushLink, Monotone, queueVars
<1>4. CASE PushClaim(t)
  BY <1>0, <1>4 DEF PushClaim, Monotone, queueVars
<1>5. CASE PushStore(t)
  BY <1>0, <1>5 DEF PushStore, Monotone, queueVars
<1>6. CASE PushPublish(t)
  BY <1>0, <1>6 DEF PushPublish, Monotone, queueVars
<1>7. CASE PopSwing(t)
  BY <1>0, <1>7 DEF PopSwing, Monotone, blockVars
<1>8. CASE PopTake(t)
  BY <1>0, <1>8 DEF PopTake, Monotone, queueVars
<1> QED
  BY <1>1, <1>2, <1>3, <1>4, <1>5, <1>6, <1>7, <1>8 DEF SharedStep

-----------------------------------------------------------------------------
(* Typing. *)

\* What a push in progress stores is an element.
LEMMA DataElement ==
  ASSUME QueueType, Locals, NEW t \in Threads, pc[t] \in PushLabels
  PROVE Data(t) \in Element
<1>1. t \in Producers /\ pushed[t] >= 1
  BY DEF Locals, LocalsOf
<1>2. pushed[t] \in 1 .. MaxPushes
  BY <1>1, SizeAssumption DEF QueueType
<1> QED BY <1>1, <1>2 DEF Data, Element

\* Every step keeps the types of the queue.
LEMMA QueueTypeStep ==
  ASSUME TypeOK, Chain, Locals, NEW t \in Threads, LocalStep(t) \/ SharedStep(t)
  PROVE QueueType'
<1> USE DEF TypeOK
<1>1. CASE Ref(t)
  BY <1>1 DEF Ref, QueueType, queueVars
<1>2. CASE Unref(t)
  BY <1>2 DEF Unref, QueueType, queueVars, FreedBlocks
<1>3. CASE t \in Producers /\ PushBegin(t)
  <2>1. pushed[t] + 1 \in 0 .. MaxPushes
    BY <1>3, SizeAssumption DEF PushBegin, QueueType
  <2> QED
    BY <1>3, <2>1 DEF PushBegin, QueueType, queueVars, lifeVars
<1>4. CASE PushGrow(t)
  <2>1. mem[t] + 1 \in Blocks
    BY <1>4, SizeAssumption, ChainBlocks DEF PushGrow, Locals, LocalsOf, MemLabels, Blocks
  <2> QED
    BY <1>4, <2>1 DEF PushGrow, QueueType, lifeVars
<1>5. CASE PopSwing(t)
  <2>1. mem[t] \in 1 .. tailMem
    BY <1>5 DEF PopSwing, Locals, LocalsOf, MemLabels
  <2>2. mem[t] \in Blocks /\ next[mem[t]] # 0
    BY <1>5, <2>1, ChainBlocks DEF PopSwing, Locals, LocalsOf
  <2>3. next[mem[t]] \in Blocks
    BY <2>2, SizeAssumption DEF BlockType, Blocks
  <2> QED
    BY <1>5, <2>3 DEF PopSwing, QueueType, lifeVars
<1>6. CASE PopRetire(t)
  <2>1. mem[t] \in Blocks
    BY <1>6, ChainBlocks DEF PopRetire, Locals, LocalsOf, MemLabels
  <2> QED
    BY <1>6, <2>1 DEF PopRetire, QueueType, lifeVars
<1>7. CASE PopTake(t)
  BY <1>7 DEF PopTake, QueueType, LocalType, queueVars, lifeVars
<1>8. ASSUME UNCHANGED <<refcount, holders, headMem, tailMem, freeList, freed, pushed, consumed>>
      PROVE  QueueType'
  BY <1>8 DEF QueueType
<1>9. CASE PushReadMem(t) \/ PushReadHead(t) \/ PushReadTail(t) \/ PushGrowLost(t)
           \/ PushLink(t) \/ PushClaim(t) \/ PushClaimLost(t) \/ PushStore(t)
           \/ PushPublish(t)
  BY <1>8, <1>9 DEF PushReadMem, PushReadHead, PushReadTail, PushGrowLost, PushLink,
     PushClaim, PushClaimLost, PushStore, PushPublish, queueVars, lifeVars
<1>10. CASE PopBegin(t) \/ PopReadMem(t) \/ PopReadHead(t) \/ PopReadTail(t) \/ PopEmpty(t)
            \/ PopReadNext(t) \/ PopSwingLost(t) \/ PopLoad(t) \/ PeekLoad(t)
            \/ PopTakeLost(t)
  BY <1>8, <1>10 DEF PopBegin, PopReadMem, PopReadHead, PopReadTail, PopEmpty,
     PopReadNext, PopSwingLost, PopLoad, PeekLoad, PopTakeLost, queueVars, lifeVars
<1>11. CASE LengthBegin(t) \/ LengthStep(t)
  BY <1>8, <1>11 DEF LengthBegin, LengthStep, LengthReadHeadMem, LengthReadHead,
     LengthReadTailMem, LengthReturn, queueVars, lifeVars
<1> QED
  BY <1>1, <1>2, <1>3, <1>4, <1>5, <1>6, <1>7, <1>9, <1>10, <1>11
  DEF LocalStep, SharedStep

\* Every step keeps the types of the blocks.
LEMMA BlockTypeStep ==
  ASSUME TypeOK, Chain, Locals, NEW t \in Threads, LocalStep(t) \/ SharedStep(t)
  PROVE BlockType'
<1> USE DEF TypeOK
<1>0. pc[t] \in MemLabels => mem[t] \in Blocks /\ mem[t] \in Nat
  BY ChainBlocks DEF Locals, LocalsOf, Blocks
<1>1. CASE LocalStep(t)
  BY <1>1, LocalStepFrame DEF sharedVars, BlockType
<1>2. CASE PushGrow(t)
  <2> DEFINE new == mem[t] + 1
             mask == GrownMask(size[mem[t]])
  <2>1. mem[t] \in Blocks /\ new \in Blocks
    BY <1>0, <1>2, SizeAssumption DEF PushGrow, MemLabels, Blocks
  <2>2. mask \in Nat
    BY <2>1 DEF BlockType, GrownMask
  <2>3. EmptyArray(mask) \in [0 .. mask -> Element \cup {NULL}]
    BY DEF EmptyArray
  <2>4. ltail[t] \in Nat
    BY DEF LocalType
  <2>5. /\ size' = [size EXCEPT ![new] = mask]
        /\ array' = [array EXCEPT ![new] = EmptyArray(mask)]
        /\ head' = [head EXCEPT ![new] = ltail[t]]
        /\ tailWrite' = [tailWrite EXCEPT ![new] = ltail[t]]
        /\ tailRead' = [tailRead EXCEPT ![new] = ltail[t]]
        /\ next' = next
    BY <1>2 DEF PushGrow
  <2> HIDE DEF new, mask
  <2>6. ASSUME NEW b \in Blocks PROVE array'[b] \in [0 .. size'[b] -> Element \cup {NULL}]
    BY <2>1, <2>3, <2>5 DEF BlockType
  <2> QED
    BY <2>1, <2>2, <2>4, <2>5, <2>6 DEF BlockType
<1>3. CASE PushLink(t)
  <2>1. mem[t] \in Blocks /\ mem[t] + 1 \in 0 .. MaxBlocks
    BY <1>0, <1>3, ChainBlocks, SizeAssumption DEF PushLink, Locals, LocalsOf, MemLabels
  <2> QED
    BY <1>3, <2>1 DEF PushLink, BlockType
<1>4. CASE PushClaim(t)
  BY <1>0, <1>4 DEF PushClaim, BlockType, MemLabels
<1>5. CASE PushStore(t)
  <2>1. mem[t] \in Blocks /\ Data(t) \in Element
    BY <1>0, <1>5, DataElement DEF PushStore, MemLabels, PushLabels
  <2>2. array' = [array EXCEPT ![mem[t]] = [array[mem[t]] EXCEPT ![Slot(mem[t], ltail[t])] = Data(t)]]
    BY <1>5 DEF PushStore
  <2>3. ASSUME NEW b \in Blocks PROVE array'[b] \in [0 .. size[b] -> Element \cup {NULL}]
    BY <2>1, <2>2 DEF BlockType
  <2> QED
    BY <1>5, <2>2, <2>3 DEF PushStore, BlockType
<1>6. CASE PushPublish(t)
  BY <1>0, <1>6 DEF PushPublish, BlockType, MemLabels
<1>7. CASE PopSwing(t)
  BY <1>7 DEF PopSwing, BlockType, blockVars
<1>8. CASE PopTake(t)
  BY <1>0, <1>8 DEF PopTake, BlockType, MemLabels
<1> QED
  BY <1>1, <1>2, <1>3, <1>4, <1>5, <1>6, <1>7, <1>8 DEF SharedStep

\* Every step keeps the types of the locals.
LEMMA LocalTypeStep ==
  ASSUME TypeOK, Chain, Locals, NEW t \in Threads, LocalStep(t) \/ SharedStep(t)
  PROVE LocalType'
<1> USE LabelMembers DEF TypeOK, LocalType
<1>1. headMem \in 0 .. MaxBlocks /\ tailMem \in 0 .. MaxBlocks
  BY ChainBlocks, SizeAssumption
<1>2. pc[t] \in MemLabels => head[mem[t]] \in Nat /\ tailWrite[mem[t]] \in Nat
  BY ChainBlocks DEF Locals, LocalsOf, BlockType
<1>3. CASE Ref(t) \/ Unref(t)
  BY <1>3 DEF Ref, Unref, localVars
<1>4. CASE PushBegin(t) \/ PushReadMem(t) \/ PushReadHead(t)
  BY <1>1, <1>2, <1>4 DEF PushBegin, PushReadMem, PushReadHead, Goto, localVars, MemLabels
<1>5. CASE PushReadTail(t)
  BY <1>2, <1>5 DEF PushReadTail, Goto, MemLabels
<1>6. CASE PushGrow(t) \/ PushClaim(t) \/ PushStore(t)
  BY <1>6 DEF PushGrow, PushClaim, PushStore, Goto, localVars
<1>7. CASE PushGrowLost(t) \/ PushClaimLost(t) \/ PushLink(t) \/ PushPublish(t)
  BY <1>7, SizeAssumption DEF PushGrowLost, PushClaimLost, PushLink, PushPublish,
     Retry, Return, Discard
<1>8. CASE PopBegin(t)
  BY <1>8 DEF PopBegin, Goto
<1>9. CASE PopReadMem(t) \/ PopReadHead(t) \/ PopReadTail(t) \/ PopReadNext(t) \/ PopSwing(t)
  BY <1>1, <1>2, <1>9 DEF PopReadMem, PopReadHead, PopReadTail, PopReadNext, PopSwing,
     Goto, localVars, MemLabels
<1>10. CASE PopLoad(t)
  <2>1. mem[t] \in Blocks /\ size[mem[t]] \in Nat /\ lhead[t] \in Nat
    BY <1>10, ChainBlocks DEF PopLoad, Locals, LocalsOf, MemLabels, BlockType
  <2>2. Slot(mem[t], lhead[t]) \in 0 .. size[mem[t]]
    BY <2>1, ModRange DEF Slot
  <2>3. LoadedSlot(t) \in Element \cup {NULL}
    BY <2>1, <2>2 DEF LoadedSlot, BlockType
  <2> QED
    BY <1>10, <2>3 DEF PopLoad, Goto
<1>11. CASE PopEmpty(t) \/ PopSwingLost(t) \/ PopRetire(t) \/ PeekLoad(t)
            \/ PopTake(t) \/ PopTakeLost(t)
  BY <1>11, SizeAssumption DEF PopEmpty, PopSwingLost, PopRetire, PeekLoad, PopTake,
     PopTakeLost, Retry, Return, Discard
<1>12. CASE LengthBegin(t) \/ LengthReadHeadMem(t) \/ LengthReadHead(t) \/ LengthReadTailMem(t)
  BY <1>1, <1>2, <1>12 DEF LengthBegin, LengthReadHeadMem, LengthReadHead,
     LengthReadTailMem, Goto, localVars, MemLabels
<1>13. CASE LengthReturn(t)
  BY <1>13, SizeAssumption DEF LengthReturn, Return, Discard
<1> QED
  BY <1>3, <1>4, <1>5, <1>6, <1>7, <1>8, <1>9, <1>10, <1>11, <1>12, <1>13
  DEF LocalStep, SharedStep, LengthStep

\* Every step keeps the types.
LEMMA TypeStep ==
  ASSUME TypeOK, Chain, Locals, NEW t \in Threads, LocalStep(t) \/ SharedStep(t)
  PROVE TypeOK'
BY QueueTypeStep, BlockTypeStep, LocalTypeStep DEF TypeOK

-----------------------------------------------------------------------------
(* The chain and the bounds of a block. *)

\* The facts about a step on block m = mem[t] that the proofs below start from.
LEMMA OwnBlock ==
  ASSUME TypeOK, Locals, NEW t \in Threads, pc[t] \in MemLabels
  PROVE /\ mem[t] \in Blocks /\ mem[t] \in Nat /\ mem[t] <= tailMem
        /\ size[mem[t]] \in Nat /\ head[mem[t]] \in Nat
        /\ tailRead[mem[t]] \in Nat /\ tailWrite[mem[t]] \in Nat
        /\ lhead[t] \in Nat /\ ltail[t] \in Nat
BY ChainBlocks DEF Locals, LocalsOf, TypeOK, BlockType, LocalType, Blocks

\* Every step keeps the chain: a block enters at its end and positions follow.
LEMMA ChainStep ==
  ASSUME TypeOK, Chain, Locals, NEW t \in Threads, LocalStep(t) \/ SharedStep(t)
  PROVE Chain'
<1>0. /\ headMem \in Nat /\ tailMem \in Nat
      /\ head \in [Blocks -> Nat] /\ tailRead \in [Blocks -> Nat]
      /\ tailWrite \in [Blocks -> Nat] /\ next \in [Blocks -> 0 .. MaxBlocks]
      /\ \A b \in Blocks : b \in Nat
  BY ChainBlocks DEF TypeOK, BlockType, Blocks
<1>1. CASE LocalStep(t)
  BY <1>1, LocalStepFrame DEF sharedVars, Chain
<1>2. CASE PushGrow(t)
  BY <1>0, <1>2 DEF PushGrow, Chain
<1>3. CASE PushLink(t)
  <2>1. mem[t] < tailMem
    BY <1>3 DEF PushLink, Locals, LocalsOf
  <2> QED
    BY <1>0, <1>3, <2>1 DEF PushLink, Chain, queueVars
<1>4. CASE PushClaim(t) \/ PushStore(t) \/ PushPublish(t) \/ PopTake(t)
  <2>1. mem[t] \in Blocks /\ mem[t] <= tailMem
    BY <1>4, OwnBlock DEF PushClaim, PushStore, PushPublish, PopTake, MemLabels
  <2>2. UNCHANGED <<headMem, tailMem, next>>
    BY <1>4 DEF PushClaim, PushStore, PushPublish, PopTake, queueVars
  <2>3. \A b \in Blocks : b # mem[t] =>
          head'[b] = head[b] /\ tailRead'[b] = tailRead[b] /\ tailWrite'[b] = tailWrite[b]
    BY <1>0, <1>4 DEF PushClaim, PushStore, PushPublish, PopTake
  <2> QED
    BY <1>0, <2>1, <2>2, <2>3 DEF Chain
<1>5. CASE PopSwing(t)
  <2>1. mem[t] \in Blocks /\ next[mem[t]] # 0
    BY <1>5, OwnBlock DEF PopSwing, Locals, LocalsOf, MemLabels
  <2> QED
    BY <1>0, <1>5, <2>1 DEF PopSwing, Chain, blockVars
<1> QED
  BY <1>1, <1>2, <1>3, <1>4, <1>5 DEF SharedStep

\* Every step keeps the order of a block's positions: a claim finds room because
\* the head the writer read is not ahead of the head.
LEMMA BlockBoundsStep ==
  ASSUME TypeOK, Chain, Locals, Claims, BlockBounds,
         NEW t \in Threads, LocalStep(t) \/ SharedStep(t)
  PROVE BlockBounds'
<1>0. /\ size \in [Blocks -> Nat] /\ head \in [Blocks -> Nat]
      /\ tailRead \in [Blocks -> Nat] /\ tailWrite \in [Blocks -> Nat]
  BY DEF TypeOK, BlockType
<1>1. CASE LocalStep(t)
  BY <1>1, LocalStepFrame DEF sharedVars, BlockBounds
<1>2. CASE PushGrow(t)
  <2>1. mem[t] \in Blocks /\ ltail[t] \in Nat /\ size[mem[t]] \in Nat
    BY <1>2, OwnBlock DEF PushGrow, MemLabels
  <2>2. GrownMask(size[mem[t]]) \in Nat
    BY <2>1 DEF GrownMask
  <2> QED
    BY <1>0, <1>2, <2>1, <2>2 DEF PushGrow, BlockBounds
<1>3. CASE PushLink(t) \/ PushStore(t) \/ PopSwing(t)
  BY <1>3 DEF PushLink, PushStore, PopSwing, BlockBounds, blockVars
\* The full test was made against a head that the block has since passed.
<1>4. CASE PushClaim(t)
  <2>1. mem[t] \in Blocks /\ lhead[t] \in Nat
    BY <1>4, OwnBlock DEF PushClaim, MemLabels
  <2>2. lhead[t] <= head[mem[t]] /\ tailWrite[mem[t]] - lhead[t] <= size[mem[t]]
    BY <1>4 DEF PushClaim, Locals, LocalsOf, HasRoom
  <2> QED
    BY <1>0, <1>4, <2>1, <2>2 DEF PushClaim, BlockBounds
<1>5. CASE PushPublish(t)
  <2>1. mem[t] \in Blocks
    BY <1>5, OwnBlock DEF PushPublish, MemLabels
  <2>2. tailRead[mem[t]] < tailWrite[mem[t]]
    BY <1>5 DEF PushPublish, MayPublish, Claims, Claiming
  <2> QED
    BY <1>0, <1>5, <2>1, <2>2 DEF PushPublish, BlockBounds
<1>6. CASE PopTake(t)
  <2>1. mem[t] \in Blocks
    BY <1>6, OwnBlock DEF PopTake, MemLabels
  <2>2. head[mem[t]] < tailRead[mem[t]]
    BY <1>6 DEF PopTake, Locals, LocalsOf
  <2> QED
    BY <1>0, <1>6, <2>1, <2>2 DEF PopTake, BlockBounds
<1> QED
  BY <1>1, <1>2, <1>3, <1>4, <1>5, <1>6 DEF SharedStep

-----------------------------------------------------------------------------
(* The locals. *)

\* What other threads do leaves the facts about the locals of u standing.
LEMMA OthersLocals ==
  ASSUME NEW u \in Threads, TypeOK, LocalsOf(u), KeepsLocals(u), Monotone, TypeOK'
  PROVE LocalsOf(u)'
<1>1. CASE pc[u] \in MemLabels
  <2>1. mem[u] \in 1 .. tailMem /\ tailMem \in Nat /\ tailMem' \in Nat /\ tailMem <= tailMem'
    BY <1>1, ChainBlocks DEF LocalsOf, TypeOK, QueueType, Blocks, Monotone
  <2>2. mem[u] \in Blocks /\ mem[u] \in Nat
    BY <2>1, ChainBlocks DEF TypeOK
  <2>3. mem[u] \in 1 .. tailMem'
    BY <2>1
  <2>4. /\ head[mem[u]] \in Nat /\ head'[mem[u]] \in Nat /\ head[mem[u]] <= head'[mem[u]]
        /\ tailRead[mem[u]] \in Nat /\ tailRead'[mem[u]] \in Nat
        /\ tailRead[mem[u]] <= tailRead'[mem[u]]
        /\ size'[mem[u]] = size[mem[u]]
        /\ next[mem[u]] # 0 => next'[mem[u]] # 0
    BY <2>1, <2>2 DEF TypeOK, BlockType, Monotone
  <2>5. lhead[u] \in Nat
    BY DEF TypeOK, LocalType
  <2> QED
    BY <2>1, <2>2, <2>3, <2>4, <2>5 DEF LocalsOf, KeepsLocals, HasRoom
<1>2. CASE pc[u] \notin MemLabels
  BY <1>2 DEF LocalsOf, KeepsLocals, MemLabels
<1> QED BY <1>1, <1>2

\* What the step of t itself does to its locals.
LEMMA OwnLocals ==
  ASSUME TypeOK, Chain, Locals, BlockBounds, TypeOK',
         NEW t \in Threads, LocalStep(t) \/ SharedStep(t)
  PROVE LocalsOf(t)'
<1> USE DEF LocalsOf, PushLabels, ReadLabels
<1>0. /\ pc \in [Threads -> Labels] /\ mem \in [Threads -> 0 .. MaxBlocks]
      /\ lhead \in [Threads -> Nat] /\ ltail \in [Threads -> Nat]
      /\ pushed \in [Producers -> 0 .. MaxPushes]
      /\ headMem \in Nat \ {0} /\ tailMem \in Nat \ {0} /\ headMem <= tailMem
  BY ChainBlocks DEF TypeOK, LocalType, QueueType, Chain
<1>1. LocalsOf(t)
  BY DEF Locals
\* On return and on a retry only the labels matter.
<1>2. ASSUME NEW l \in {"idle", "push_mem", "pop_mem", "len_head_mem"},
             pc'[t] = l,
             l = "push_mem" => t \in Producers /\ pushed'[t] >= 1,
             l \in {"pop_mem", "len_head_mem"} => t \in Consumers
      PROVE  LocalsOf(t)'
  BY <1>2 DEF MemLabels
<1>3. CASE Ref(t) \/ Unref(t)
  BY <1>1, <1>3, LocalStepFrame DEF Ref, Unref, LocalStep, localVars, sharedVars, HasRoom
<1>4. CASE t \in Producers /\ PushBegin(t)
  <2>1. pushed[t] \in Nat
    BY <1>0, <1>4, SizeAssumption
  <2> QED
    BY <1>0, <1>2, <1>4, <2>1 DEF PushBegin, Goto
<1>5. CASE t \in Producers /\ (PushGrowLost(t) \/ PushClaimLost(t) \/ PushLink(t) \/ PushPublish(t))
  <2>1. pc'[t] \in {"push_mem", "idle"} /\ pushed' = pushed
    BY <1>0, <1>5 DEF PushGrowLost, PushClaimLost, PushLink, PushPublish, Retry, Return, Discard
  <2>2. pushed[t] >= 1
    BY <1>1, <1>5 DEF PushGrowLost, PushClaimLost, PushLink, PushPublish
  <2> QED
    BY <1>2, <1>5, <2>1, <2>2
<1>6. CASE t \in Producers /\ PushReadMem(t)
  BY <1>0, <1>1, <1>6 DEF PushReadMem, Goto, queueVars, MemLabels
<1>7. CASE t \in Producers /\ PushReadHead(t)
  <2>1. mem[t] \in Blocks /\ head[mem[t]] \in Nat
    BY <1>7, OwnBlock DEF PushReadHead, MemLabels
  <2> QED
    BY <1>0, <1>1, <1>7, <2>1 DEF PushReadHead, Goto, queueVars, blockVars, MemLabels
<1>8. CASE t \in Producers /\ PushReadTail(t)
  BY <1>0, <1>1, <1>8 DEF PushReadTail, Goto, queueVars, blockVars, MemLabels, HasRoom
<1>9. CASE t \in Producers /\ PushGrow(t)
  BY <1>0, <1>1, <1>9 DEF PushGrow, Goto, localVars, MemLabels
<1>10. CASE t \in Producers /\ (PushClaim(t) \/ PushStore(t))
  BY <1>0, <1>1, <1>10 DEF PushClaim, PushStore, Goto, localVars, queueVars, MemLabels
<1>11. CASE t \in Consumers /\ (PopBegin(t) \/ LengthBegin(t))
  BY <1>0, <1>2, <1>11 DEF PopBegin, LengthBegin, Goto
<1>12. CASE t \in Consumers /\ PopReadMem(t)
  BY <1>0, <1>1, <1>12 DEF PopReadMem, Goto, queueVars, MemLabels
<1>13. CASE t \in Consumers /\ PopReadHead(t)
  <2>1. mem[t] \in Blocks /\ head[mem[t]] \in Nat
    BY <1>13, OwnBlock DEF PopReadHead, MemLabels
  <2> QED
    BY <1>0, <1>1, <1>13, <2>1 DEF PopReadHead, Goto, queueVars, blockVars, MemLabels
\* head was read before tail_read and neither goes back, so head # tail means
\* that the position read is below tail_read.
<1>14. CASE t \in Consumers /\ PopReadTail(t)
  <2>1. mem[t] \in Blocks /\ lhead[t] \in Nat
        /\ head[mem[t]] \in Nat /\ tailRead[mem[t]] \in Nat
    BY <1>14, OwnBlock DEF PopReadTail, MemLabels
  <2>2. lhead[t] <= head[mem[t]] /\ head[mem[t]] <= tailRead[mem[t]]
    BY <1>1, <1>14, <2>1 DEF PopReadTail, BlockBounds
  <2>3. lhead[t] # tailRead[mem[t]] => lhead[t] < tailRead[mem[t]]
    BY <2>1, <2>2
  <2> QED
    BY <1>0, <1>1, <1>14, <2>2, <2>3 DEF PopReadTail, Goto, localVars, queueVars, blockVars, MemLabels
<1>15. CASE t \in Consumers /\ PopReadNext(t)
  BY <1>0, <1>1, <1>15 DEF PopReadNext, Goto, localVars, queueVars, blockVars, MemLabels
<1>16. CASE t \in Consumers /\ PopSwing(t)
  BY <1>0, <1>1, <1>16 DEF PopSwing, Goto, localVars, MemLabels
<1>17. CASE t \in Consumers /\ PopLoad(t)
  BY <1>0, <1>1, <1>17 DEF PopLoad, Goto, queueVars, blockVars, MemLabels
<1>18. CASE t \in Consumers /\ (PopEmpty(t) \/ PopSwingLost(t) \/ PopRetire(t) \/ PeekLoad(t)
                                 \/ PopTake(t) \/ PopTakeLost(t) \/ LengthReturn(t))
  BY <1>0, <1>2, <1>18 DEF PopEmpty, PopSwingLost, PopRetire, PeekLoad, PopTake,
     PopTakeLost, LengthReturn, Retry, Return, Discard
<1>19. CASE t \in Consumers /\ (LengthReadHeadMem(t) \/ LengthReadHead(t) \/ LengthReadTailMem(t))
  BY <1>0, <1>1, <1>19 DEF LengthReadHeadMem, LengthReadHead, LengthReadTailMem, Goto,
     queueVars, MemLabels
<1> QED
  BY <1>3, <1>4, <1>5, <1>6, <1>7, <1>8, <1>9, <1>10, <1>11, <1>12, <1>13, <1>14, <1>15,
     <1>16, <1>17, <1>18, <1>19 DEF LocalStep, SharedStep, LengthStep

\* Every step keeps what is known of the locals of all threads.
LEMMA LocalsStep ==
  ASSUME TypeOK, Chain, Locals, BlockBounds,
         NEW t \in Threads, LocalStep(t) \/ SharedStep(t)
  PROVE Locals'
<1>1. TypeOK'
  BY TypeStep
<1>2. LocalsOf(t)'
  BY <1>1, OwnLocals
<1>3. ASSUME NEW u \in Threads, u # t PROVE LocalsOf(u)'
  BY <1>1, <1>3, OthersLocals, OthersKeepLocals, StepMonotone DEF TypeOK, Locals
<1> QED BY <1>2, <1>3 DEF Locals

-----------------------------------------------------------------------------
(* Slots and elements. *)

\* Positions between head and tail_write of a block have different slots.
LEMMA SlotInjective ==
  ASSUME TypeOK, BlockBounds, NEW b \in Blocks,
         NEW p \in head[b] .. tailWrite[b] - 1, NEW q \in head[b] .. tailWrite[b] - 1,
         p # q
  PROVE Slot(b, p) # Slot(b, q)
<1>1. /\ head[b] \in Nat /\ tailWrite[b] \in Nat /\ size[b] \in Nat
      /\ tailWrite[b] <= head[b] + size[b] + 1
  BY DEF TypeOK, BlockType, BlockBounds
<1>2. p \in Nat /\ q \in Nat /\ p - q < size[b] + 1 /\ q - p < size[b] + 1
      /\ size[b] + 1 \in Nat \ {0}
  BY <1>1
<1>3. CASE p < q
  BY <1>2, <1>3, ModInjective DEF Slot
<1>4. CASE q < p
  BY <1>2, <1>4, ModInjective DEF Slot
<1> QED BY <1>2, <1>3, <1>4

\* A slot number is an index of the array.
LEMMA SlotRange ==
  ASSUME TypeOK, NEW b \in Blocks, NEW p \in Nat
  PROVE Slot(b, p) \in 0 .. size[b]
BY ModRange DEF Slot, TypeOK, BlockType

\* A push that has returned has returned for good.
LEMMA CompletedGrows ==
  ASSUME TypeOK, Locals, NEW t \in Threads, LocalStep(t) \/ SharedStep(t)
  PROVE Completed \subseteq Completed'
<1> SUFFICES ASSUME NEW e \in Completed PROVE e \in Completed'
  OBVIOUS
<1> DEFINE p == e[1]
<1>1. e \in Element /\ p \in Producers /\ e[2] \in Nat /\ p \in Threads
  BY SizeAssumption DEF Completed, Element, Threads
<1>2. pc \in [Threads -> Labels] /\ pushed \in [Producers -> 0 .. MaxPushes]
      /\ pushed[p] \in Nat
  BY <1>1, SizeAssumption DEF TypeOK, LocalType, QueueType
<1>3. e[2] < pushed[p] \/ (e[2] = pushed[p] /\ pc[p] = "idle")
  BY DEF Completed
<1>4. CASE p # t
  BY <1>1, <1>3, <1>4, OthersKeepLocals DEF KeepsLocals, Completed, TypeOK
<1>5. CASE p = t /\ PushBegin(t)
  BY <1>1, <1>2, <1>3, <1>5 DEF PushBegin, Goto, Completed
<1>6. CASE p = t /\ pushed'[t] = pushed[t] /\ (pc[t] = "idle" => pc'[t] = "idle")
  BY <1>1, <1>3, <1>6 DEF Completed
<1>7. CASE p = t /\ t \notin Consumers /\ ~PushBegin(t)
  <2>1. pushed' = pushed
    BY <1>7 DEF LocalStep, SharedStep, Ref, Unref, PushReadMem, PushReadHead, PushReadTail,
       PushGrowLost, PushClaimLost, PushGrow, PushLink, PushClaim, PushStore, PushPublish
  <2>2. pc[t] = "idle" => pc'[t] = "idle"
    BY <1>7 DEF LocalStep, SharedStep, Ref, Unref, PushReadMem, PushReadHead, PushReadTail,
       PushGrowLost, PushClaimLost, PushGrow, PushLink, PushClaim, PushStore, PushPublish
  <2> QED BY <1>6, <1>7, <2>1, <2>2
<1>8. p = t => t \notin Consumers
  BY <1>1, ThreadAssumption
<1> QED BY <1>4, <1>5, <1>7, <1>8

\* The element of a push in progress has not been published.
LEMMA DataFresh ==
  ASSUME TypeOK, Locals, NEW t \in Threads, pc[t] \in PushLabels
  PROVE Data(t) \notin Completed
<1>1. t \in Producers /\ pc[t] # "idle"
  BY DEF Locals, LocalsOf, PushLabels
<1>2. pushed[t] \in Nat
  BY <1>1, SizeAssumption DEF TypeOK, QueueType
<1> QED BY <1>1, <1>2 DEF Completed, Data

\* A step that leaves the published slots alone keeps what is known of them.
LEMMA LiveUnchanged ==
  ASSUME LiveFresh, LiveDistinct, Completed \subseteq Completed', consumed' = consumed,
         \A b \in Blocks : /\ Published(b)' \subseteq Published(b)
                           /\ \A p \in Published(b)' : array'[b][Slot(b, p)'] = array[b][Slot(b, p)]
  PROVE LiveFresh' /\ LiveDistinct'
BY DEF LiveFresh, LiveDistinct

\* Positions in use: claimed by a writer and not yet taken by a reader.
InUse(b) == head[b] .. tailWrite[b] - 1

\* A published position is one of those between head and tail_write.
LEMMA PublishedInUse ==
  ASSUME TypeOK, BlockBounds, NEW b \in Blocks
  PROVE Published(b) \subseteq InUse(b)
BY DEF TypeOK, BlockType, BlockBounds, Published, InUse

\* A claimed position is in use and not published.
LEMMA ClaimInUse ==
  ASSUME TypeOK, Locals, BlockBounds, Claims, NEW t \in Threads, Claiming(t)
  PROVE /\ mem[t] \in Blocks
        /\ ltail[t] \in Nat
        /\ ltail[t] \in InUse(mem[t])
        /\ ltail[t] \notin Published(mem[t])
<1>1. mem[t] \in Blocks /\ ltail[t] \in Nat
      /\ head[mem[t]] \in Nat /\ tailRead[mem[t]] \in Nat /\ tailWrite[mem[t]] \in Nat
  BY OwnBlock DEF Claiming, MemLabels
<1>2. tailRead[mem[t]] <= ltail[t] /\ ltail[t] < tailWrite[mem[t]]
      /\ head[mem[t]] <= tailRead[mem[t]]
  BY <1>1 DEF Claims, BlockBounds
<1> QED BY <1>1, <1>2 DEF InUse, Published

\* Only the store of a push changes a slot in use, and only its own.
LEMMA SlotsKept ==
  ASSUME TypeOK, Chain, Locals, BlockBounds, Claims,
         NEW t \in Threads, LocalStep(t) \/ SharedStep(t),
         NEW b \in Blocks, NEW p \in InUse(b),
         ~(pc[t] = "push_store" /\ b = mem[t] /\ p = ltail[t])
  PROVE array'[b][Slot(b, p)'] = array[b][Slot(b, p)]
<1>0. /\ size \in [Blocks -> Nat] /\ DOMAIN array = Blocks
      /\ head[b] \in Nat /\ tailWrite[b] \in Nat /\ b \in Nat /\ p \in Nat
      /\ tailMem \in Nat
  BY ChainBlocks DEF TypeOK, BlockType, InUse, Blocks
<1>1. CASE UNCHANGED <<size, array>>
  BY <1>1 DEF Slot
<1>2. CASE LocalStep(t)
  BY <1>1, <1>2, LocalStepFrame DEF sharedVars
<1>3. CASE PushGrow(t)
  <2>1. b # mem[t] + 1
    BY <1>0, <1>3 DEF PushGrow, Chain, InUse
  <2>2. array'[b] = array[b] /\ size'[b] = size[b]
    BY <1>0, <1>3, <2>1 DEF PushGrow
  <2> QED BY <2>2 DEF Slot
<1>4. CASE PushStore(t)
  <2>1. Claiming(t) /\ pc[t] = "push_store"
    BY <1>4 DEF PushStore, Claiming
  <2>2. size' = size /\ array' = [array EXCEPT ![mem[t]] =
          [array[mem[t]] EXCEPT ![Slot(mem[t], ltail[t])] = Data(t)]]
    BY <1>4 DEF PushStore
  <2>3. CASE b # mem[t]
    BY <1>0, <2>2, <2>3 DEF Slot
  <2>4. CASE b = mem[t]
    <3>1. p # ltail[t] /\ ltail[t] \in InUse(b)
      BY <2>1, <2>4, ClaimInUse
    <3>2. Slot(b, p) # Slot(b, ltail[t])
      BY <3>1, SlotInjective DEF InUse
    <3>3. array'[b][Slot(b, p)] = array[b][Slot(b, p)]
      BY <1>0, <2>2, <2>4, <3>2
    <3> QED BY <2>2, <3>3 DEF Slot
  <2> QED BY <2>3, <2>4
<1>5. CASE PushLink(t) \/ PushClaim(t) \/ PushPublish(t) \/ PopSwing(t) \/ PopTake(t)
  BY <1>1, <1>5 DEF PushLink, PushClaim, PushPublish, PopSwing, PopTake, blockVars
<1> QED BY <1>2, <1>3, <1>4, <1>5 DEF SharedStep

-----------------------------------------------------------------------------
(* Claims and loaded slots. *)

\* Every step keeps the slot that a pop has loaded, unless head moves.
LEMMA LoadedStep ==
  ASSUME TypeOK, Chain, Locals, BlockBounds, Claims, Loaded,
         NEW t \in Threads, LocalStep(t) \/ SharedStep(t)
  PROVE Loaded'
<1> SUFFICES ASSUME NEW u \in Threads, pc'[u] = "pop_take", head'[mem'[u]] = lhead'[u]
             PROVE  ret'[u] = (array[mem[u]][Slot(mem[u], lhead[u])])'
  BY DEF Loaded
<1>0. /\ pc \in [Threads -> Labels] /\ ret \in [Threads -> Element \cup {NULL}]
      /\ mem \in [Threads -> 0 .. MaxBlocks] /\ lhead \in [Threads -> Nat]
      /\ ltail \in [Threads -> Nat]
  BY DEF TypeOK, LocalType
<1>1. CASE PopLoad(t) /\ u = t
  BY <1>0, <1>1 DEF PopLoad, LoadedSlot, Goto, blockVars, Slot
<1>2. CASE pc[u] = "pop_take" /\ KeepsLocals(u)
  <2>1. mem[u] \in Blocks /\ mem[u] \in 1 .. tailMem /\ lhead[u] \in Nat
        /\ head[mem[u]] \in Nat /\ tailRead[mem[u]] \in Nat
    BY <1>2, OwnBlock DEF Locals, LocalsOf, MemLabels
  <2>2. lhead[u] <= head[mem[u]] /\ lhead[u] < tailRead[mem[u]]
    BY <1>2 DEF Locals, LocalsOf
  <2>3. head[mem[u]] <= head'[mem[u]]
    BY <2>1, StepMonotone DEF Monotone
  <2>4. head'[mem[u]] \in Nat
    BY <2>1, TypeStep DEF TypeOK, BlockType
  <2>5. head[mem[u]] = lhead[u]
    BY <1>2, <2>1, <2>2, <2>3, <2>4 DEF KeepsLocals
  <2>6. lhead[u] \in Published(mem[u])
    BY <2>1, <2>2, <2>5 DEF Published
  <2>7. ~(pc[t] = "push_store" /\ mem[u] = mem[t] /\ lhead[u] = ltail[t])
    BY <2>6, ClaimInUse DEF Claiming
  <2>8. ASSUME NEW b \in Blocks, NEW p \in Published(b), b = mem[u], p = lhead[u]
        PROVE  array'[b][Slot(b, p)'] = array[b][Slot(b, p)]
    BY <2>7, <2>8, PublishedInUse, SlotsKept
  <2>9. ret[u] = array[mem[u]][Slot(mem[u], lhead[u])]
    BY <1>2, <2>5 DEF Loaded
  <2> QED BY <1>2, <2>1, <2>6, <2>8, <2>9 DEF KeepsLocals, Slot
<1>3. CASE u # t
  BY <1>2, <1>3, OthersKeepLocals DEF TypeOK, KeepsLocals
<1>4. CASE u = t /\ (Ref(t) \/ Unref(t))
  BY <1>2, <1>4 DEF Ref, Unref, localVars, KeepsLocals
\* No other step of t leads to the compare-and-exchange on head.
<1>5. CASE u = t /\ ~PopLoad(t) /\ ~Ref(t) /\ ~Unref(t)
  BY <1>0, <1>5 DEF LocalStep, SharedStep, LengthStep,
     PushBegin, PushReadMem, PushReadHead, PushReadTail, PushGrow, PushGrowLost, PushLink,
     PushClaim, PushClaimLost, PushStore, PushPublish,
     PopBegin, PopReadMem, PopReadHead, PopReadTail, PopEmpty, PopReadNext, PopSwing,
     PopSwingLost, PopRetire, PeekLoad, PopTake, PopTakeLost, LengthBegin,
     LengthReadHeadMem, LengthReadHead, LengthReadTailMem, LengthReturn,
     Goto, Discard, Retry, Return
<1> QED BY <1>1, <1>3, <1>4, <1>5

\* The part of Claims about thread t.
LEMMA ClaimsOf ==
  ASSUME Claims, NEW t \in Threads, Claiming(t)
  PROVE /\ tailRead[mem[t]] <= ltail[t]
        /\ ltail[t] < tailWrite[mem[t]]
        /\ pc[t] = "push_publish" => array[mem[t]][Slot(mem[t], ltail[t])] = Data(t)
        /\ \A u \in Threads : Claiming(u) /\ u # t /\ mem[u] = mem[t] => ltail[u] # ltail[t]
BY DEF Claims

\* A writer that claims or has claimed a position keeps it from the step of
\* another thread.
LEMMA OthersClaims ==
  ASSUME TypeOK, Chain, Locals, BlockBounds, Claims,
         NEW t \in Threads, LocalStep(t) \/ SharedStep(t),
         NEW u \in Threads, u # t, Claiming(u)
  PROVE /\ tailRead'[mem[u]] <= ltail[u]
        /\ ltail[u] < tailWrite'[mem[u]]
        /\ pc[u] = "push_publish" => (array[mem[u]][Slot(mem[u], ltail[u])])' = Data(u)
<1>0. /\ mem[u] \in Blocks /\ mem[u] \in 1 .. tailMem /\ ltail[u] \in Nat
      /\ tailRead[mem[u]] \in Nat /\ tailWrite[mem[u]] \in Nat
      /\ tailRead'[mem[u]] \in Nat /\ tailWrite'[mem[u]] \in Nat
  BY OwnBlock, TypeStep DEF Claiming, MemLabels, Locals, LocalsOf, TypeOK, BlockType
<1>1. KeepsLocals(u)
  BY OthersKeepLocals DEF TypeOK
<1>2. tailRead[mem[u]] <= ltail[u] /\ ltail[u] < tailWrite[mem[u]]
  BY ClaimsOf
<1>3. tailWrite[mem[u]] <= tailWrite'[mem[u]]
  BY <1>0, StepMonotone DEF Monotone
<1>4. tailRead'[mem[u]] <= ltail[u]
  <2>1. CASE PushPublish(t) /\ mem[u] = mem[t]
    <3>1. Claiming(t) /\ tailRead[mem[t]] = ltail[t]
      BY <2>1 DEF PushPublish, MayPublish, Claiming
    <3>2. ltail[u] # ltail[t]
      BY <2>1, <3>1, ClaimsOf
    <3>3. tailRead'[mem[u]] = tailRead[mem[u]] + 1
      BY <1>0, <2>1 DEF PushPublish, TypeOK, BlockType
    <3>4. ltail[t] \in Nat
      BY DEF TypeOK, LocalType
    <3> QED BY <1>0, <1>2, <2>1, <3>1, <3>2, <3>3, <3>4
  <2>2. CASE PushPublish(t) /\ mem[u] # mem[t]
    BY <1>0, <1>2, <2>2 DEF PushPublish, TypeOK, BlockType
  <2>3. CASE PushGrow(t)
    <3>1. mem[u] # mem[t] + 1
      BY <1>0, <2>3, ChainBlocks DEF PushGrow, TypeOK
    <3> QED
      BY <1>0, <1>2, <2>3, <3>1 DEF PushGrow, TypeOK, BlockType
  <2>4. CASE LocalStep(t)
    BY <1>2, <2>4, LocalStepFrame DEF sharedVars
  <2>5. CASE PushLink(t) \/ PushClaim(t) \/ PushStore(t) \/ PopSwing(t) \/ PopTake(t)
    BY <1>2, <2>5 DEF PushLink, PushClaim, PushStore, PopSwing, PopTake, blockVars
  <2> QED BY <2>1, <2>2, <2>3, <2>4, <2>5 DEF SharedStep
<1>5. ASSUME pc[u] = "push_publish"
      PROVE  (array[mem[u]][Slot(mem[u], ltail[u])])' = Data(u)
  <2>1. ltail[u] \in InUse(mem[u])
    BY ClaimInUse
  <2>2. ~(pc[t] = "push_store" /\ mem[u] = mem[t] /\ ltail[u] = ltail[t])
    BY ClaimsOf DEF Claiming
  <2>3. ASSUME NEW b \in Blocks, NEW p \in InUse(b), b = mem[u], p = ltail[u]
        PROVE  array'[b][Slot(b, p)'] = array[b][Slot(b, p)]
    BY <2>2, <2>3, SlotsKept
  <2>4. array[mem[u]][Slot(mem[u], ltail[u])] = Data(u)
    BY <1>5, ClaimsOf
  <2> QED BY <1>0, <1>1, <2>1, <2>3, <2>4 DEF KeepsLocals, Slot
<1> QED BY <1>2, <1>3, <1>4, <1>5, <1>0

\* The claim of t itself: made by the compare-and-exchange on tail_write, kept
\* by the store.
LEMMA OwnClaim ==
  ASSUME TypeOK, Chain, Locals, BlockBounds, Claims,
         NEW t \in Threads, LocalStep(t) \/ SharedStep(t), Claiming(t)'
  PROVE /\ mem'[t] = mem[t] /\ ltail'[t] = ltail[t]
        /\ tailRead'[mem[t]] <= ltail[t]
        /\ ltail[t] < tailWrite'[mem[t]]
        /\ pc'[t] = "push_publish" =>
             (array[mem[t]][Slot(mem[t], ltail[t])])' = Data(t)'
        /\ \A u \in Threads : Claiming(u) /\ u # t /\ mem[u] = mem[t] => ltail[u] # ltail[t]
<1>0. /\ pc \in [Threads -> Labels] /\ DOMAIN array = Blocks
      /\ size \in [Blocks -> Nat]
      /\ tailRead \in [Blocks -> Nat] /\ tailWrite \in [Blocks -> Nat]
  BY DEF TypeOK, LocalType, BlockType
<1>1. CASE PushClaim(t)
  <2>1. mem[t] \in Blocks /\ ltail[t] \in Nat
    BY <1>1, OwnBlock DEF PushClaim, MemLabels
  <2>2. /\ tailWrite[mem[t]] = ltail[t] /\ tailWrite'[mem[t]] = ltail[t] + 1
        /\ UNCHANGED <<tailRead, mem, ltail>> /\ pc'[t] = "push_store"
    BY <1>0, <1>1, <2>1 DEF PushClaim, Goto, localVars
  <2>3. tailRead[mem[t]] <= ltail[t]
    BY <2>1, <2>2 DEF BlockBounds
  <2>4. ASSUME NEW u \in Threads, Claiming(u), mem[u] = mem[t] PROVE ltail[u] # ltail[t]
    <3>1. ltail[u] < ltail[t]
      BY <2>2, <2>4, ClaimsOf
    <3>2. ltail[u] \in Nat
      BY DEF TypeOK, LocalType
    <3> QED BY <2>1, <3>1, <3>2
  <2> QED BY <2>1, <2>2, <2>3, <2>4
<1>2. CASE PushStore(t)
  <2>1. Claiming(t) /\ mem[t] \in Blocks /\ ltail[t] \in Nat /\ size[mem[t]] \in Nat
    BY <1>2, OwnBlock DEF PushStore, MemLabels, Claiming
  <2>2. UNCHANGED <<tailRead, tailWrite, size, mem, ltail, pushed>>
    BY <1>2 DEF PushStore, localVars
  <2>3. Slot(mem[t], ltail[t]) \in DOMAIN array[mem[t]]
    BY <2>1, SlotRange DEF TypeOK, BlockType
  <2>4. array' = [array EXCEPT ![mem[t]] =
          [array[mem[t]] EXCEPT ![Slot(mem[t], ltail[t])] = Data(t)]]
    BY <1>2 DEF PushStore
  <2>5. array'[mem[t]][Slot(mem[t], ltail[t])] = Data(t)
    BY <1>0, <2>1, <2>3, <2>4
  <2> QED BY <2>1, <2>2, <2>5, ClaimsOf DEF Slot, Data
<1>3. ~PushClaim(t) /\ ~PushStore(t) => pc'[t] \notin {"push_store", "push_publish"}
  <2>1. CASE Ref(t) \/ Unref(t)
    BY <2>1 DEF Ref, Unref, Claiming, Locals, LocalsOf, PushLabels
  <2>2. CASE ~Ref(t) /\ ~Unref(t)
    BY <1>0, <2>2 DEF LocalStep, SharedStep, LengthStep,
       PushBegin, PushReadMem, PushReadHead, PushReadTail, PushGrow, PushGrowLost, PushLink,
       PushClaimLost, PushPublish,
       PopBegin, PopReadMem, PopReadHead, PopReadTail, PopEmpty, PopReadNext, PopSwing,
       PopSwingLost, PopRetire, PopLoad, PeekLoad, PopTake, PopTakeLost, LengthBegin,
       LengthReadHeadMem, LengthReadHead, LengthReadTailMem, LengthReturn,
       Goto, Discard, Retry, Return
  <2> QED BY <2>1, <2>2
<1> QED BY <1>1, <1>2, <1>3 DEF Claiming

\* Every step keeps the claimed positions distinct and unpublished.
LEMMA ClaimsStep ==
  ASSUME TypeOK, Chain, Locals, BlockBounds, Claims,
         NEW t \in Threads, LocalStep(t) \/ SharedStep(t)
  PROVE Claims'
<1> SUFFICES ASSUME NEW u \in Threads, Claiming(u)'
             PROVE  /\ tailRead'[mem'[u]] <= ltail'[u]
                    /\ ltail'[u] < tailWrite'[mem'[u]]
                    /\ pc'[u] = "push_publish" =>
                         (array[mem[u]][Slot(mem[u], ltail[u])])' = Data(u)'
                    /\ \A v \in Threads : Claiming(v)' /\ v # u /\ mem'[v] = mem'[u]
                                            => ltail'[v] # ltail'[u]
  BY DEF Claims
<1>1. ASSUME NEW v \in Threads, v # t, Claiming(v)'
      PROVE  Claiming(v) /\ KeepsLocals(v)
  BY <1>1, OthersKeepLocals DEF TypeOK, KeepsLocals, Claiming
<1>2. CASE u = t
  <2>1. /\ mem'[t] = mem[t] /\ ltail'[t] = ltail[t]
        /\ tailRead'[mem[t]] <= ltail[t] /\ ltail[t] < tailWrite'[mem[t]]
        /\ pc'[t] = "push_publish" =>
             (array[mem[t]][Slot(mem[t], ltail[t])])' = Data(t)'
        /\ \A v \in Threads : Claiming(v) /\ v # t /\ mem[v] = mem[t] => ltail[v] # ltail[t]
    BY <1>2, OwnClaim
  <2> QED BY <1>1, <1>2, <2>1 DEF KeepsLocals
<1>3. CASE u # t
  <2>1. Claiming(u) /\ KeepsLocals(u)
    BY <1>1, <1>3
  <2>2. /\ tailRead'[mem[u]] <= ltail[u] /\ ltail[u] < tailWrite'[mem[u]]
        /\ pc[u] = "push_publish" => (array[mem[u]][Slot(mem[u], ltail[u])])' = Data(u)
    BY <1>3, <2>1, OthersClaims
  <2>3. pc[u] = "push_publish" => Data(u)' = Data(u)
    BY <2>1 DEF KeepsLocals, Data, Locals, LocalsOf, PushLabels
  <2>4. ASSUME NEW v \in Threads, Claiming(v)', v # u, mem'[v] = mem'[u]
        PROVE  ltail'[v] # ltail'[u]
    <3>1. CASE v = t
      <4>1. /\ mem'[t] = mem[t] /\ ltail'[t] = ltail[t]
            /\ \A w \in Threads : Claiming(w) /\ w # t /\ mem[w] = mem[t] => ltail[w] # ltail[t]
        BY <2>4, <3>1, OwnClaim
      <4> QED BY <1>3, <2>1, <2>4, <3>1, <4>1 DEF KeepsLocals
    <3>2. CASE v # t
      <4>1. Claiming(v) /\ KeepsLocals(v)
        BY <1>1, <2>4, <3>2
      <4> QED BY <2>1, <2>4, <4>1, ClaimsOf DEF KeepsLocals
    <3> QED BY <3>1, <3>2
  <2> QED BY <2>1, <2>2, <2>3, <2>4 DEF KeepsLocals
<1> QED BY <1>2, <1>3

-----------------------------------------------------------------------------
(* Published elements. *)

\* Steps after which every published position was published before, and holds
\* what it held.
LEMMA LiveKept ==
  ASSUME TypeOK, Chain, Locals, BlockBounds, Claims, LiveFresh, LiveDistinct,
         NEW t \in Threads, LocalStep(t) \/ SharedStep(t),
         consumed' = consumed,
         \A b \in Blocks : Published(b)' \subseteq Published(b)
  PROVE LiveFresh' /\ LiveDistinct'
<1>1. Completed \subseteq Completed'
  BY CompletedGrows
<1>2. ASSUME NEW b \in Blocks, NEW p \in Published(b)
      PROVE  array'[b][Slot(b, p)'] = array[b][Slot(b, p)]
  <2>1. ~(pc[t] = "push_store" /\ b = mem[t] /\ p = ltail[t])
    BY ClaimInUse DEF Claiming
  <2> QED BY <2>1, PublishedInUse, SlotsKept
<1> QED BY <1>1, <1>2, LiveUnchanged

\* Publishing adds the writer's element, which nobody has seen yet.
LEMMA LivePublish ==
  ASSUME TypeOK, Chain, Locals, BlockBounds, Claims, consumed \subseteq Completed,
         LiveFresh, LiveDistinct, NEW t \in Threads, t \in Producers, PushPublish(t)
  PROVE LiveFresh' /\ LiveDistinct'
<1>. PICK m \in Nat, n \in Nat, e \in Element : m = mem[t] /\ n = ltail[t] /\ e = Data(t)
  BY OwnBlock, DataElement DEF PushPublish, MemLabels, PushLabels, TypeOK
<1>0. SharedStep(t) /\ Claiming(t) /\ pc[t] = "push_publish"
  BY DEF SharedStep, PushPublish, Claiming
<1>1. /\ m \in Blocks /\ head[m] \in Nat /\ n \in Nat
      /\ tailRead[m] = n /\ tailRead \in [Blocks -> Nat]
      /\ UNCHANGED <<size, array, head, consumed>>
      /\ tailRead' = [tailRead EXCEPT ![m] = @ + 1]
  BY <1>0, OwnBlock DEF PushPublish, MayPublish, MemLabels, TypeOK, BlockType
<1>2. Published(m)' = Published(m) \cup {n}
  <2>1. head[m] <= tailRead[m] /\ head[m] \in Nat
    BY <1>1 DEF BlockBounds
  <2>2. head'[m] = head[m] /\ tailRead'[m] = n + 1
    BY <1>1
  <2>3. head[m] .. n = (head[m] .. n - 1) \cup {n}
    BY <1>1, <2>1
  <2> QED BY <1>1, <2>2, <2>3 DEF Published
<1>3. \A b \in Blocks : b # m => Published(b)' = Published(b)
  BY <1>1 DEF Published
<1>4. array[m][Slot(m, n)] = e
  BY <1>0, ClaimsOf
<1>5. e \notin Completed
  BY <1>0, DataFresh DEF PushLabels
<1>6. Completed \subseteq Completed' /\ e \in Completed'
  <2>1. pushed' = pushed /\ pc'[t] = "idle"
    BY DEF PushPublish, Return, Discard, TypeOK, LocalType
  <2>2. e \in Completed'
    BY <1>5, <2>1 DEF Completed, Data
  <2> QED BY <1>0, <2>2, CompletedGrows
<1>7. \A b \in Blocks, p \in Nat : Slot(b, p)' = Slot(b, p)
  BY <1>1 DEF Slot
<1>8. \A b \in Blocks : Published(b) \subseteq Nat
  BY DEF Published, TypeOK, BlockType
<1>9. LiveFresh'
  <2> SUFFICES ASSUME NEW b \in Blocks, NEW p \in Published(b)'
               PROVE  array'[b][Slot(b, p)'] \in Completed' \ consumed'
    BY DEF LiveFresh
  <2>1. CASE p \in Published(b)
    BY <1>1, <1>6, <1>7, <1>8, <2>1 DEF LiveFresh
  <2>2. CASE b = m /\ p = n
    BY <1>1, <1>4, <1>5, <1>6, <1>7, <2>2
  <2> QED BY <1>2, <1>3, <2>1, <2>2
<1>10. LiveDistinct'
  <2> SUFFICES ASSUME NEW b \in Blocks, NEW c \in Blocks,
                      NEW p \in Published(b)', NEW q \in Published(c)',
                      array'[b][Slot(b, p)'] = array'[c][Slot(c, q)']
               PROVE  b = c /\ p = q
    BY DEF LiveDistinct
  <2>1. p \in Nat /\ q \in Nat
    BY <1>1, <1>2, <1>3, <1>8
  <2>2. array[b][Slot(b, p)] = array[c][Slot(c, q)]
    BY <1>1, <1>7, <2>1
  <2>3. p \in Published(b) \/ (b = m /\ p = n)
    BY <1>2, <1>3
  <2>4. q \in Published(c) \/ (c = m /\ q = n)
    BY <1>2, <1>3
  <2>5. p \in Published(b) => array[b][Slot(b, p)] # e
    BY <1>5 DEF LiveFresh
  <2>6. q \in Published(c) => array[c][Slot(c, q)] # e
    BY <1>5 DEF LiveFresh
  <2>7. CASE p \in Published(b) /\ q \in Published(c)
    BY <2>2, <2>7 DEF LiveDistinct
  <2> QED BY <1>4, <2>2, <2>3, <2>4, <2>5, <2>6, <2>7
<1> QED BY <1>9, <1>10

\* A successful pop takes the element at the head of its block, which was
\* published and had not been returned before.
LEMMA TakeFresh ==
  ASSUME TypeOK, Locals, Loaded, LiveFresh, NEW t \in Threads, PopTake(t)
  PROVE /\ lhead[t] \in Published(mem[t])
        /\ head[mem[t]] = lhead[t]
        /\ mem[t] \in Blocks
        /\ ret[t] = array[mem[t]][Slot(mem[t], lhead[t])]
        /\ ret[t] \in Completed \ consumed
<1>1. pc[t] = "pop_take" /\ head[mem[t]] = lhead[t]
  BY DEF PopTake
<1>2. mem[t] \in Blocks /\ lhead[t] \in Nat /\ tailRead[mem[t]] \in Nat
  BY <1>1, OwnBlock DEF MemLabels
<1>3. lhead[t] < tailRead[mem[t]]
  BY <1>1 DEF Locals, LocalsOf
<1>4. lhead[t] \in Published(mem[t])
  BY <1>1, <1>2, <1>3 DEF Published
<1>5. ret[t] = array[mem[t]][Slot(mem[t], lhead[t])]
  BY <1>1 DEF Loaded
<1> QED BY <1>1, <1>2, <1>4, <1>5 DEF LiveFresh

\* Taking the head element keeps what is known of the published slots.
LEMMA LiveTake ==
  ASSUME TypeOK, Chain, Locals, BlockBounds, Loaded, LiveFresh, LiveDistinct,
         NEW t \in Threads, t \in Consumers, PopTake(t)
  PROVE LiveFresh' /\ LiveDistinct'
<1>. PICK m \in Blocks, n \in Nat, e \in Element \cup {NULL} : m = mem[t] /\ n = lhead[t] /\ e = ret[t]
  BY TakeFresh DEF TypeOK, LocalType
<1>1. n \in Published(m) /\ head[m] = n /\ e = array[m][Slot(m, n)]
  BY TakeFresh
<1>2. /\ UNCHANGED <<size, array, tailRead>>
      /\ head' = [head EXCEPT ![m] = @ + 1]
      /\ consumed' = consumed \cup {e}
  BY DEF PopTake
<1>3. head \in [Blocks -> Nat] /\ tailRead \in [Blocks -> Nat]
  BY DEF TypeOK, BlockType
<1>4. \A b \in Blocks : Published(b)' \subseteq Published(b)
  BY <1>2, <1>3 DEF Published
<1>5. n \notin Published(m)'
  <2>1. head'[m] = n + 1
    BY <1>1, <1>2, <1>3
  <2> QED BY <2>1 DEF Published
<1>6. \A b \in Blocks : \A p \in Published(b) : array'[b][Slot(b, p)'] = array[b][Slot(b, p)]
  BY <1>2 DEF Slot
<1>7. Completed \subseteq Completed'
  BY CompletedGrows DEF SharedStep
<1>8. LiveDistinct'
  BY <1>4, <1>6 DEF LiveDistinct
<1>9. LiveFresh'
  <2> SUFFICES ASSUME NEW b \in Blocks, NEW p \in Published(b)'
               PROVE  array'[b][Slot(b, p)'] \in Completed' \ consumed'
    BY DEF LiveFresh
  <2>1. p \in Published(b)
    BY <1>4
  <2>2. array[b][Slot(b, p)] \in Completed \ consumed
    BY <2>1 DEF LiveFresh
  <2>3. array[b][Slot(b, p)] # e
    BY <1>1, <1>5, <2>1 DEF LiveDistinct
  <2> QED BY <1>2, <1>6, <1>7, <2>1, <2>2, <2>3
<1> QED BY <1>8, <1>9

\* Every step keeps what is known of the published slots.
LEMMA LiveStep ==
  ASSUME IInv, NEW t \in Threads, LocalStep(t) \/ SharedStep(t)
  PROVE LiveFresh' /\ LiveDistinct'
<1> USE DEF IInv
<1>1. CASE LocalStep(t)
  BY <1>1, LocalStepFrame, LiveKept DEF sharedVars, Published
<1>2. CASE t \in Producers /\ PushGrow(t)
  <2>1. SharedStep(t)
    BY <1>2 DEF SharedStep
  <2>2. /\ head' = [head EXCEPT ![mem[t] + 1] = ltail[t]]
        /\ tailRead' = [tailRead EXCEPT ![mem[t] + 1] = ltail[t]]
        /\ consumed' = consumed /\ ltail[t] \in Nat
    BY <1>2 DEF PushGrow, TypeOK, LocalType
  <2>3. \A b \in Blocks : Published(b)' \subseteq Published(b)
    <3> SUFFICES ASSUME NEW b \in Blocks PROVE Published(b)' \subseteq Published(b)
      OBVIOUS
    <3>1. CASE b = mem[t] + 1
      <4>1. head'[b] = ltail[t] /\ tailRead'[b] = ltail[t]
        BY <2>2, <3>1 DEF TypeOK, BlockType
      <4> QED BY <2>2, <4>1 DEF Published
    <3>2. CASE b # mem[t] + 1
      BY <2>2, <3>2 DEF Published, TypeOK, BlockType
    <3> QED BY <3>1, <3>2
  <2> QED BY <2>1, <2>2, <2>3, LiveKept
<1>3. CASE SharedStep(t) /\ (PushLink(t) \/ PushClaim(t) \/ PushStore(t) \/ PopSwing(t))
  <2>1. UNCHANGED <<head, tailRead, consumed>>
    BY <1>3 DEF PushLink, PushClaim, PushStore, PopSwing, blockVars
  <2> QED BY <1>3, <2>1, LiveKept DEF Published
<1>4. CASE t \in Producers /\ PushPublish(t)
  BY <1>4, LivePublish
<1>5. CASE t \in Consumers /\ PopTake(t)
  BY <1>5, LiveTake
<1> QED BY <1>1, <1>2, <1>3, <1>4, <1>5 DEF SharedStep

\* A pop only returns elements whose push has returned.
LEMMA ConsumedStep ==
  ASSUME IInv, NEW t \in Threads, LocalStep(t) \/ SharedStep(t)
  PROVE consumed' \subseteq Completed'
<1> USE DEF IInv
<1>1. Completed \subseteq Completed'
  BY CompletedGrows
<1>2. CASE PopTake(t)
  <2>1. ret[t] \in Completed /\ consumed' = consumed \cup {ret[t]}
    BY <1>2, TakeFresh DEF PopTake
  <2> QED BY <1>1, <2>1
<1>3. CASE LocalStep(t)
  BY <1>1, <1>3, LocalStepFrame DEF sharedVars
<1>4. CASE PushGrow(t) \/ PushLink(t) \/ PushClaim(t) \/ PushStore(t) \/ PushPublish(t)
           \/ PopSwing(t)
  BY <1>1, <1>4 DEF PushGrow, PushLink, PushClaim, PushStore, PushPublish, PopSwing
<1> QED BY <1>2, <1>3, <1>4 DEF SharedStep

-----------------------------------------------------------------------------
(* What readers find in the queue. *)

\* The element at position p of block b.
Item(b, p) == array[b][Slot(b, p)]

\* A published element is that of a push that has returned and was not taken.
LEMMA ItemLive ==
  ASSUME LiveFresh, NEW b \in Blocks, NEW p \in Published(b)
  PROVE Item(b, p) \in Completed /\ Item(b, p) \notin consumed /\ Item(b, p) \in Element
BY DEF LiveFresh, Item, Completed

\* A position published after a step was published before it, with the same
\* element, or it is the one that the step publishes.
LEMMA PublishedAfter ==
  ASSUME IInv, NEW t \in Threads, LocalStep(t) \/ SharedStep(t),
         NEW b \in Blocks, NEW p \in Published(b)'
  PROVE \/ p \in Published(b) /\ Item(b, p)' = Item(b, p)
        \/ /\ t \in Producers /\ PushPublish(t)
           /\ b = mem[t] /\ p = ltail[t] /\ Item(b, p)' = Data(t)
<1> USE DEF IInv
<1>0. /\ head[b] \in Nat /\ tailRead[b] \in Nat /\ head'[b] \in Nat /\ tailRead'[b] \in Nat
      /\ p \in Nat /\ head'[b] <= p /\ p < tailRead'[b]
  <2>1. TypeOK'
    BY TypeStep
  <2>2. head[b] \in Nat /\ tailRead[b] \in Nat /\ head'[b] \in Nat /\ tailRead'[b] \in Nat
    BY <2>1 DEF TypeOK, BlockType
  <2> QED BY <2>2 DEF Published
<1>1. CASE p \in Published(b)
  <2>1. p \in InUse(b)
    BY <1>1, PublishedInUse
  <2>2. ~(pc[t] = "push_store" /\ b = mem[t] /\ p = ltail[t])
    BY <1>1, ClaimInUse DEF Claiming
  <2> QED BY <1>1, <2>1, <2>2, SlotsKept DEF Item
<1>2. CASE p \notin Published(b)
  <2>1. p < head[b] \/ p >= tailRead[b]
    BY <1>0, <1>2 DEF Published
  <2>2. CASE LocalStep(t)
    BY <1>0, <2>1, <2>2, LocalStepFrame DEF sharedVars
  <2>3. CASE t \in Producers /\ (PushLink(t) \/ PushClaim(t) \/ PushStore(t))
    BY <1>0, <2>1, <2>3 DEF PushLink, PushClaim, PushStore
  <2>4. CASE t \in Consumers /\ PopSwing(t)
    BY <1>0, <2>1, <2>4 DEF PopSwing, blockVars
  <2>5. CASE t \in Consumers /\ PopTake(t)
    <3>1. tailRead'[b] = tailRead[b] /\ head[b] <= head'[b]
      BY <1>0, <2>5 DEF PopTake, TypeOK, BlockType
    <3> QED BY <1>0, <2>1, <3>1
  <2>6. CASE t \in Producers /\ PushGrow(t)
    <3>1. CASE b = mem[t] + 1
      <4>1. head'[b] = tailRead'[b]
        BY <2>6, <3>1 DEF PushGrow, TypeOK, BlockType
      <4> QED BY <1>0, <4>1
    <3>2. CASE b # mem[t] + 1
      BY <1>0, <2>1, <2>6, <3>2 DEF PushGrow, TypeOK, BlockType
    <3> QED BY <3>1, <3>2
  <2>7. CASE t \in Producers /\ PushPublish(t)
    <3>1. pc[t] = "push_publish" /\ Claiming(t) /\ tailRead[mem[t]] = ltail[t]
      BY <2>7 DEF PushPublish, Claiming, MayPublish
    <3>2. Item(mem[t], ltail[t]) = Data(t)
      BY <3>1, ClaimsOf DEF Item
    <3>3. b = mem[t] /\ p = ltail[t]
      <4>1. head' = head
        BY <2>7 DEF PushPublish
      <4>2. p >= tailRead[b] /\ tailRead'[b] # tailRead[b]
        BY <1>0, <2>1, <4>1
      <4>3. b = mem[t] /\ tailRead'[b] = tailRead[b] + 1
        BY <2>7, <4>2 DEF PushPublish, TypeOK, BlockType
      <4> QED BY <1>0, <3>1, <4>2, <4>3
    <3>4. Item(b, p)' = Item(b, p)
      BY <2>7 DEF PushPublish, Item, Slot
    <3> QED BY <2>7, <3>2, <3>3, <3>4
  <2> QED BY <2>2, <2>3, <2>4, <2>5, <2>6, <2>7 DEF SharedStep
<1> QED BY <1>1, <1>2

-----------------------------------------------------------------------------
(* The invariant and what follows from it. *)

\* The invariant is inductive.
LEMMA NextIInv == IInv /\ [Next]_vars => IInv'
<1> SUFFICES ASSUME IInv, [Next]_vars PROVE IInv'
  OBVIOUS
<1>1. CASE UNCHANGED vars
  <2> USE <1>1 DEF vars, queueVars, blockVars, lifeVars, localVars
  <2>1. TypeOK'
    BY DEF IInv, TypeOK, QueueType, BlockType, LocalType
  <2>2. Chain' /\ BlockBounds'
    BY DEF IInv, Chain, BlockBounds
  <2>3. Locals'
    BY DEF IInv, Locals, LocalsOf, HasRoom
  <2>4. Claims' /\ Loaded'
    BY DEF IInv, Claims, Claiming, Loaded, Slot, Data
  <2>5. LiveFresh' /\ LiveDistinct' /\ consumed' \subseteq Completed'
    BY DEF IInv, LiveFresh, LiveDistinct, Published, Slot, Completed
  <2> QED BY <2>1, <2>2, <2>3, <2>4, <2>5 DEF IInv
<1>2. ASSUME NEW t \in Threads, LocalStep(t) \/ SharedStep(t) PROVE IInv'
  BY <1>2, TypeStep, ChainStep, BlockBoundsStep, LocalsStep, ClaimsStep, LoadedStep,
     LiveStep, ConsumedStep DEF IInv
<1> QED BY <1>1, <1>2, StepKinds

\* The conjunction of what the proofs know of every reachable state: it is
\* inductive, which the properties below are not by themselves.
THEOREM InductiveInvariant == Spec => []IInv
<1>1. Init => IInv
  BY InitIInv
<1>2. IInv /\ [Next]_vars => IInv'
  BY NextIInv
<1> QED BY <1>1, <1>2, PTL DEF Spec

\* Every field and local keeps its type: positions are not negative and no
\* thread dereferences a block that is not in the chain.
THEOREM TypeCorrect == Spec => []TypeOK
<1>1. IInv => TypeOK
  BY DEF IInv
<1> QED BY <1>1, InductiveInvariant, PTL

\* head <= tail_read <= tail_write <= head + size + 1 in every block, for any
\* number of writers and readers with stale copies.
THEOREM BlocksBounded == Spec => []BlockBounds
<1>1. IInv => BlockBounds
  BY DEF IInv
<1> QED BY <1>1, InductiveInvariant, PTL

\* No push writes to a slot that a reader may still take.
THEOREM NeverOverwrites == Spec => NoOverwrite
<1> DEFINE Keeps(t) == pc[t] = "push_store" /\ pc'[t] = "push_publish"
             => \A p \in Published(mem[t]) : Slot(mem[t], p) # Slot(mem[t], ltail[t])
<1>1. ASSUME IInv, NEW t \in Producers PROVE Keeps(t)
  <2> SUFFICES ASSUME pc[t] = "push_store", NEW p \in Published(mem[t])
               PROVE  Slot(mem[t], p) # Slot(mem[t], ltail[t])
    OBVIOUS
  <2> USE <1>1 DEF IInv
  <2>1. t \in Threads /\ Claiming(t)
    BY DEF Claiming, Threads
  <2>2. /\ mem[t] \in Blocks /\ ltail[t] \in InUse(mem[t])
        /\ ltail[t] \notin Published(mem[t])
    BY <2>1, ClaimInUse
  <2>3. p \in InUse(mem[t]) /\ p # ltail[t]
    BY <2>2, PublishedInUse
  <2> QED BY <2>2, <2>3, SlotInjective DEF InUse
<1>2. IInv => \A t \in Producers : Keeps(t)
  BY <1>1
<1>3. IInv /\ [Next]_vars => [\A t \in Producers : Keeps(t)]_vars
  BY <1>2
<1> QED BY <1>3, InductiveInvariant, PTL DEF Spec, NoOverwrite

\* No pop returns NULL from a non-empty queue, a slot's old content, or an
\* element that a pop has returned before, for any number of threads and growths.
THEOREM NeverDeliversTwice == Spec => DeliveredOnce
<1> DEFINE Fresh(t) == pc[t] = "pop_take" /\ pc'[t] = "idle" => ret[t] \in Element \ consumed
<1>1. ASSUME IInv, [Next]_vars, NEW t \in Consumers PROVE [Fresh(t)]_vars
  <2> SUFFICES ASSUME ~UNCHANGED vars, pc[t] = "pop_take", pc'[t] = "idle"
               PROVE  ret[t] \in Element \ consumed
    OBVIOUS
  <2> USE <1>1 DEF IInv
  <2>1. PICK u \in Threads : LocalStep(u) \/ SharedStep(u)
    BY StepKinds
  <2>2. t \in Threads /\ pc \in [Threads -> Labels]
    BY DEF Threads, TypeOK, LocalType
  <2>3. u = t
    BY <2>1, <2>2, OthersKeepLocals DEF KeepsLocals, TypeOK
  <2>4. PopTake(t)
    BY <2>1, <2>2, <2>3 DEF LocalStep, SharedStep, LengthStep, Ref, Unref,
       PushBegin, PushReadMem, PushReadHead, PushReadTail, PushGrow, PushGrowLost,
       PushLink, PushClaim, PushClaimLost, PushStore, PushPublish,
       PopBegin, PopReadMem, PopReadHead, PopReadTail, PopEmpty, PopReadNext, PopSwing,
       PopSwingLost, PopRetire, PopLoad, PeekLoad, PopTakeLost, LengthBegin,
       LengthReadHeadMem, LengthReadHead, LengthReadTailMem, LengthReturn,
       Discard, Retry
  <2> QED BY <2>2, <2>4, TakeFresh DEF Completed
<1>2. IInv /\ [Next]_vars => [\A t \in Consumers : Fresh(t)]_vars
  BY <1>1
<1> QED BY <1>2, InductiveInvariant, PTL DEF Spec, DeliveredOnce

-----------------------------------------------------------------------------
(* References and retired blocks. *)

\* refcount counts the owners of a reference, and only owners are inside a call.
Owned ==
  /\ refcount = Cardinality(holders)
  /\ \A t \in Threads : pc[t] # "idle" => t \in holders

Retiring(t, b) == pc[t] = "pop_retire" /\ mem[t] = b

\* The blocks that readers have left behind head_mem are on the free list, but
\* for those that a pop has swung head_mem from and is about to add to it.
Retired ==
  /\ \A b \in freeList : b < headMem
  /\ \A b \in Blocks : b < headMem => b \in freeList \/ \E t \in Threads : Retiring(t, b)
  /\ \A t \in Threads : pc[t] = "pop_retire" => mem[t] < headMem

\* The blocks are given back once, when nobody can call any more.
Released == freed # {} => holders = {} /\ freed = FreedBlocks

RInv == Owned /\ Retired /\ Released

-----------------------------------------------------------------------------
\* The owners are finitely many, so that they can be counted.
LEMMA HoldersFinite ==
  ASSUME QueueType
  PROVE IsFiniteSet(holders) /\ Cardinality(holders) \in Nat
BY ThreadAssumption, FS_Subset, FS_CardinalityType DEF QueueType

\* A new queue has one owner and no retired block.
LEMMA InitRInv == Init => RInv
<1> SUFFICES ASSUME Init PROVE RInv
  OBVIOUS
<1>1. Cardinality({Creator}) = 1
  BY FS_Singleton
<1>2. Owned
  BY <1>1 DEF Init, Owned
<1>3. Retired
  BY SizeAssumption DEF Init, Retired, Blocks
<1>4. Released
  BY DEF Init, Released
<1> QED BY <1>2, <1>3, <1>4 DEF RInv

\* Steps inside a call and the beginnings of calls keep the owners.
LEMMA OwnersKept ==
  ASSUME NEW t \in Threads, LocalStep(t) \/ SharedStep(t), ~Ref(t), ~Unref(t)
  PROVE UNCHANGED lifeVars
BY DEF LocalStep, SharedStep, PushBegin, PushReadMem, PushReadHead, PushReadTail,
   PushGrow, PushGrowLost, PushLink, PushClaim, PushClaimLost, PushStore, PushPublish,
   PopBegin, PopReadMem, PopReadHead, PopReadTail, PopEmpty, PopReadNext, PopSwing,
   PopSwingLost, PopRetire, PopLoad, PeekLoad, PopTake, PopTakeLost, LengthBegin,
   LengthStep, LengthReadHeadMem, LengthReadHead, LengthReadTailMem, LengthReturn

\* Only an owner steps into or within a call.
LEMMA OnlyOwnersCall ==
  ASSUME Owned, NEW t \in Threads, LocalStep(t) \/ SharedStep(t), ~Ref(t)
  PROVE t \in holders
<1>1. Unref(t) \/ PushBegin(t) \/ PopBegin(t) \/ LengthBegin(t) \/ pc[t] # "idle"
  BY DEF LocalStep, SharedStep, PushReadMem, PushReadHead, PushReadTail,
   PushGrow, PushGrowLost, PushLink, PushClaim, PushClaimLost, PushStore, PushPublish,
   PopReadMem, PopReadHead, PopReadTail, PopEmpty, PopReadNext, PopSwing,
   PopSwingLost, PopRetire, PopLoad, PeekLoad, PopTake, PopTakeLost,
   LengthStep, LengthReadHeadMem, LengthReadHead, LengthReadTailMem, LengthReturn
<1> QED BY <1>1 DEF Unref, PushBegin, PopBegin, LengthBegin, Owned

\* Every step keeps the count of the owners.
LEMMA OwnedStep ==
  ASSUME IInv, Owned, NEW t \in Threads, LocalStep(t) \/ SharedStep(t)
  PROVE Owned'
<1> USE DEF IInv, TypeOK
<1>1. CASE Ref(t)
  <2>1. Cardinality(holders \cup {t}) = Cardinality(holders) + 1
    BY <1>1, HoldersFinite, FS_AddElement DEF Ref
  <2> QED BY <1>1, <2>1 DEF Ref, Owned
<1>2. CASE Unref(t)
  <2>1. Cardinality(holders \ {t}) = Cardinality(holders) - 1
    BY <1>2, HoldersFinite, FS_RemoveElement DEF Unref
  <2> QED BY <1>2, <2>1 DEF Unref, Owned
<1>3. CASE ~Ref(t) /\ ~Unref(t)
  <2>1. UNCHANGED lifeVars /\ t \in holders
    BY <1>3, OwnersKept, OnlyOwnersCall
  <2>2. ASSUME NEW u \in Threads, u # t PROVE pc'[u] = pc[u]
    BY <2>2, OthersKeepLocals DEF KeepsLocals
  <2> QED BY <2>1, <2>2 DEF Owned, lifeVars
<1> QED BY <1>1, <1>2, <1>3

\* head_mem and the free list change when a pop swings head_mem and when it adds
\* the block it has left.
LEMMA EndsKept ==
  ASSUME NEW t \in Threads, LocalStep(t) \/ SharedStep(t), ~PopSwing(t), ~PopRetire(t)
  PROVE UNCHANGED <<headMem, freeList>>
BY DEF LocalStep, SharedStep, queueVars, Ref, Unref, PushBegin, PushReadMem, PushReadHead,
   PushReadTail, PushGrow, PushGrowLost, PushLink, PushClaim, PushClaimLost, PushStore,
   PushPublish, PopBegin, PopReadMem, PopReadHead, PopReadTail, PopEmpty, PopReadNext,
   PopSwingLost, PopLoad, PeekLoad, PopTake, PopTakeLost, LengthBegin,
   LengthStep, LengthReadHeadMem, LengthReadHead, LengthReadTailMem, LengthReturn

\* A thread is about to retire a block only after it has swung head_mem.
LEMMA RetiringKept ==
  ASSUME LocalType, NEW t \in Threads, LocalStep(t) \/ SharedStep(t), ~PopSwing(t), ~PopRetire(t)
  PROVE pc[t] # "pop_retire" /\ pc'[t] # "pop_retire"
<1>1. CASE Ref(t) \/ Unref(t)
  BY <1>1 DEF Ref, Unref
<1>2. CASE PushBegin(t) \/ PushReadMem(t) \/ PushReadHead(t) \/ PushReadTail(t)
           \/ PushGrow(t) \/ PushClaim(t) \/ PushStore(t)
  BY <1>2 DEF PushBegin, PushReadMem, PushReadHead, PushReadTail, PushGrow, PushClaim,
     PushStore, Goto, LocalType
<1>3. CASE PushGrowLost(t) \/ PushClaimLost(t) \/ PushLink(t) \/ PushPublish(t)
           \/ PopEmpty(t) \/ PopSwingLost(t) \/ PeekLoad(t) \/ PopTake(t) \/ PopTakeLost(t)
  BY <1>3 DEF PushGrowLost, PushClaimLost, PushLink, PushPublish, PopEmpty, PopSwingLost,
     PeekLoad, PopTake, PopTakeLost, Retry, Return, Discard, LocalType
<1>4. CASE PopBegin(t) \/ PopReadMem(t) \/ PopReadHead(t) \/ PopReadTail(t)
           \/ PopReadNext(t) \/ PopLoad(t)
  BY <1>4 DEF PopBegin, PopReadMem, PopReadHead, PopReadTail, PopReadNext, PopLoad,
     Goto, LocalType
<1>5. CASE LengthBegin(t) \/ LengthStep(t)
  BY <1>5 DEF LengthBegin, LengthStep, LengthReadHeadMem, LengthReadHead,
     LengthReadTailMem, LengthReturn, Return, Discard, Goto, LocalType
<1> QED BY <1>1, <1>2, <1>3, <1>4, <1>5 DEF LocalStep, SharedStep

\* Every step keeps the retired blocks accounted for.
LEMMA RetiredStep ==
  ASSUME IInv, Retired, NEW t \in Threads, LocalStep(t) \/ SharedStep(t)
  PROVE Retired'
<1> USE DEF IInv, TypeOK
<1>0. ASSUME NEW u \in Threads, u # t PROVE pc'[u] = pc[u] /\ mem'[u] = mem[u]
  BY <1>0, OthersKeepLocals DEF KeepsLocals
<1>1. CASE PopSwing(t)
  <2>1. mem[t] = headMem /\ headMem \in Nat /\ headMem' = headMem + 1 /\ freeList' = freeList
    BY <1>1, ChainBlocks DEF PopSwing, Chain, Locals, LocalsOf, QueueType
  <2>2. pc'[t] = "pop_retire" /\ mem'[t] = headMem
    BY <1>1, <2>1 DEF PopSwing, Goto, localVars, LocalType
  <2>3. \A b \in freeList' : b < headMem'
    <3> SUFFICES ASSUME NEW b \in freeList PROVE b < headMem + 1
      BY <2>1
    <3>1. b < headMem /\ b \in Nat
      BY SizeAssumption DEF Retired, QueueType, Blocks
    <3> QED BY <2>1, <3>1
  <2>4. ASSUME NEW b \in Blocks, b < headMem'
        PROVE  b \in freeList' \/ \E u \in Threads : Retiring(u, b)'
    <3>1. b = headMem \/ b < headMem
      BY <2>1, <2>4, SizeAssumption DEF Blocks
    <3>2. CASE b = headMem
      BY <2>2, <3>2 DEF Retiring
    <3>3. CASE b < headMem
      <4>1. b \in freeList \/ \E u \in Threads : Retiring(u, b)
        BY <3>3 DEF Retired
      <4>2. pc[t] # "pop_retire"
        BY <1>1 DEF PopSwing
      <4> QED BY <1>0, <2>1, <4>1, <4>2 DEF Retiring
    <3> QED BY <3>1, <3>2, <3>3
  <2>5. ASSUME NEW u \in Threads, pc'[u] = "pop_retire" PROVE mem'[u] < headMem'
    <3>1. CASE u = t
      BY <2>1, <2>2, <3>1
    <3>2. CASE u # t
      <4>1. mem[u] < headMem /\ mem[u] \in Nat
        BY <1>0, <2>5, <3>2, SizeAssumption DEF Retired, LocalType
      <4> QED BY <1>0, <2>1, <3>2, <4>1
    <3> QED BY <3>1, <3>2
  <2> QED BY <2>3, <2>4, <2>5 DEF Retired
<1>2. CASE PopRetire(t)
  <2>1. /\ headMem' = headMem
        /\ freeList' = freeList \cup {mem[t]}
        /\ pc[t] = "pop_retire" /\ pc'[t] = "pop_mem"
    BY <1>2 DEF PopRetire, Retry, Discard, LocalType
  <2> QED BY <1>0, <2>1 DEF Retired, Retiring
<1>3. CASE ~PopSwing(t) /\ ~PopRetire(t)
  <2>1. /\ headMem' = headMem /\ freeList' = freeList
        /\ pc[t] # "pop_retire" /\ pc'[t] # "pop_retire"
    BY <1>3, EndsKept, RetiringKept
  <2> QED BY <1>0, <2>1 DEF Retired, Retiring
<1> QED BY <1>1, <1>2, <1>3

\* Every step keeps the blocks that were given back.
LEMMA ReleasedStep ==
  ASSUME IInv, Owned, Released, NEW t \in Threads, LocalStep(t) \/ SharedStep(t)
  PROVE Released'
<1> USE DEF IInv, TypeOK
<1>1. CASE Ref(t)
  BY <1>1 DEF Ref, Released, FreedBlocks, queueVars
<1>2. CASE Unref(t)
  <2>1. FreedBlocks' = FreedBlocks
    BY <1>2 DEF Unref, FreedBlocks, queueVars
  <2>2. freed = {}
    BY <1>2 DEF Unref, Released
  <2>3. ASSUME refcount = 1 PROVE holders' = {}
    <3>1. t \in holders /\ IsFiniteSet(holders) /\ Cardinality(holders) = 1
      BY <1>2, <2>3, HoldersFinite DEF Unref, Owned
    <3>2. /\ IsFiniteSet(holders \ {t})
          /\ Cardinality(holders \ {t}) = Cardinality(holders) - 1
      BY <3>1, FS_RemoveElement
    <3>3. holders \ {t} = {}
      BY <3>1, <3>2, FS_EmptySet
    <3> QED BY <1>2, <3>3 DEF Unref
  <2> QED BY <1>2, <2>1, <2>2, <2>3 DEF Unref, Released
<1>3. CASE ~Ref(t) /\ ~Unref(t)
  <2>1. t \in holders /\ UNCHANGED lifeVars
    BY <1>3, OwnersKept, OnlyOwnersCall
  <2> QED BY <2>1 DEF Released, lifeVars
<1> QED BY <1>1, <1>2, <1>3

\* References and retired blocks are accounted for in every state.
THEOREM ReferenceInvariant == Spec => []RInv
<1>1. Init => RInv
  BY InitRInv
<1>2. ASSUME IInv, RInv, [Next]_vars PROVE RInv'
  <2>1. CASE UNCHANGED vars
    BY <1>2, <2>1 DEF RInv, Owned, Retired, Retiring, Released, FreedBlocks,
       vars, queueVars, lifeVars, localVars
  <2>2. CASE \E t \in Threads : LocalStep(t) \/ SharedStep(t)
    BY <1>2, <2>2, OwnedStep, RetiredStep, ReleasedStep DEF RInv
  <2> QED BY <1>2, <2>1, <2>2, StepKinds
<1> QED BY <1>1, <1>2, InductiveInvariant, PTL DEF Spec

\* When the last reference is given back, no call is in progress, so no block is
\* on its way to the free list: it holds exactly the blocks before head_mem.
LEMMA FreedRetired == IInv /\ RInv => RetiredReclaimed
<1> SUFFICES ASSUME IInv, RInv, freed # {}
             PROVE  freed = 1 .. headMem \cup {tailMem}
  BY DEF RetiredReclaimed
<1>1. headMem \in 1 .. MaxBlocks /\ freeList \subseteq 1 .. MaxBlocks
  BY DEF IInv, TypeOK, QueueType, Blocks
<1>2. freed = {headMem, tailMem} \cup freeList
  BY DEF RInv, Released, FreedBlocks
<1>3. \A t \in Threads : pc[t] # "pop_retire"
  BY DEF RInv, Released, Owned
<1>4. \A b \in 1 .. MaxBlocks : b \in freeList <=> b < headMem
  <2>1. Blocks = 1 .. MaxBlocks /\ Retired
    BY DEF Blocks, RInv
  <2> HIDE DEF RInv
  <2> QED BY <1>1, <1>3, <2>1 DEF Retired, Retiring
<1>5. freeList = 1 .. headMem - 1
  <2>1. \A b \in 1 .. headMem - 1 : b \in 1 .. MaxBlocks /\ b < headMem
    BY <1>1, SizeAssumption
  <2>2. \A b \in 1 .. MaxBlocks : b < headMem => b \in 1 .. headMem - 1
    BY <1>1, SizeAssumption
  <2>3. ASSUME NEW b \in freeList PROVE b \in 1 .. headMem - 1
    BY <1>1, <1>4, <2>2
  <2>4. ASSUME NEW b \in 1 .. headMem - 1 PROVE b \in freeList
    BY <1>4, <2>1
  <2> QED BY <2>3, <2>4
<1>6. 1 .. headMem = (1 .. headMem - 1) \cup {headMem}
  BY <1>1, SizeAssumption
<1> QED BY <1>2, <1>5, <1>6

\* A queue gives back every block that its readers have retired, and both ends of
\* its chain, with its last reference (quant_atomic_queue_free), and the blocks
\* between the two ends are the only ones that it does not give back.
THEOREM RetiredReclaimedHolds == Spec => []RetiredReclaimed
BY InductiveInvariant, ReferenceInvariant, FreedRetired, PTL

-----------------------------------------------------------------------------
(* The length of a queue that has not grown. *)

BeforeClaim == {"push_mem", "push_head", "push_tail", "push_grow", "push_link", "push_claim"}

\* The pushes begun, and those of them that have claimed a position.
Begun == {e \in Element : e[2] <= pushed[e[1]]}
Claimed == {e \in Begun : ~(e[2] = pushed[e[1]] /\ pc[e[1]] \in BeforeClaim)}

\* While there is one block, every position of it was claimed by a push of its
\* own, and the head that length has read is not ahead of the head.
Counted ==
  tailMem = 1 =>
    /\ tailWrite[1] <= Cardinality(Claimed)
    /\ \A t \in Threads : pc[t] \in {"len_tail_mem", "len_tail"} => lhead[t] <= head[1]

\* The pushes are finitely many.
LEMMA PushesFinite ==
  /\ IsFiniteSet(Begun) /\ Cardinality(Begun) \in Nat
  /\ IsFiniteSet(Claimed) /\ Cardinality(Claimed) \in Nat
  /\ Cardinality(Claimed) <= Cardinality(Begun)
<1>1. IsFiniteSet(Producers)
  BY ThreadAssumption, FS_Subset DEF Threads
<1>2. IsFiniteSet(1 .. MaxPushes)
  BY FS_Interval, SizeAssumption
<1>3. IsFiniteSet(Element)
  BY <1>1, <1>2, FS_Product DEF Element
<1>4. Begun \subseteq Element /\ Claimed \subseteq Begun
  BY DEF Begun, Claimed
<1>5. IsFiniteSet(Begun)
  BY <1>3, <1>4, FS_Subset
<1> QED BY <1>4, <1>5, FS_Subset, FS_CardinalityType

\* A new queue has no claimed position.
LEMMA InitCounted == Init => Counted
<1> SUFFICES ASSUME Init PROVE Counted
  OBVIOUS
<1>1. tailWrite[1] = 0
  BY SizeAssumption DEF Init, Blocks
<1>2. 0 <= Cardinality(Claimed)
  BY PushesFinite
<1> QED BY <1>1, <1>2 DEF Init, Counted

\* The steps other than the beginning of a push, a claim and the growth of the
\* queue keep the claimed pushes and the positions claimed.
LEMMA ClaimedKept ==
  ASSUME TypeOK, NEW t \in Threads, LocalStep(t) \/ SharedStep(t),
         t \in Producers => ~PushBegin(t) /\ ~PushClaim(t) /\ ~PushGrow(t)
  PROVE /\ pushed' = pushed /\ tailWrite' = tailWrite /\ tailMem' = tailMem
        /\ t \in Producers => (pc'[t] \in BeforeClaim <=> pc[t] \in BeforeClaim)
<1> USE DEF TypeOK
<1>1. CASE Ref(t) \/ Unref(t)
  BY <1>1 DEF Ref, Unref, queueVars, blockVars
<1>2. CASE PushReadMem(t) \/ PushReadHead(t) \/ PushReadTail(t) \/ PushStore(t)
  BY <1>2 DEF PushReadMem, PushReadHead, PushReadTail, PushStore, Goto, LocalType,
     queueVars, blockVars, BeforeClaim
<1>3. CASE PushGrowLost(t) \/ PushClaimLost(t) \/ PushLink(t) \/ PushPublish(t)
  BY <1>3 DEF PushGrowLost, PushClaimLost, PushLink, PushPublish, Retry, Return, Discard,
     LocalType, queueVars, blockVars, BeforeClaim
<1>4. ASSUME t \in Consumers
      PROVE  t \notin Producers
  BY <1>4, ThreadAssumption
<1>5. CASE t \in Consumers /\ LocalStep(t)
  BY <1>2, <1>3, <1>4, <1>5 DEF LocalStep, PopBegin, PopReadMem, PopReadHead, PopReadTail,
     PopEmpty, PopReadNext, PopSwingLost, PopRetire, PopLoad, PeekLoad, PopTakeLost,
     LengthBegin, LengthStep, LengthReadHeadMem, LengthReadHead, LengthReadTailMem,
     LengthReturn, queueVars, blockVars, Ref, Unref
<1>6. CASE t \in Consumers /\ (PopSwing(t) \/ PopTake(t))
  BY <1>4, <1>6 DEF PopSwing, PopTake, queueVars, blockVars
<1> QED BY <1>1, <1>2, <1>3, <1>4, <1>5, <1>6 DEF LocalStep, SharedStep, Threads

\* A push that begins has claimed nothing yet.
LEMMA BeginKeepsClaimed ==
  ASSUME TypeOK, NEW t \in Producers, PushBegin(t)
  PROVE Claimed' = Claimed
<1> USE DEF TypeOK, QueueType, LocalType, Threads
<1>1. /\ pc[t] = "idle" /\ pc'[t] = "push_mem"
      /\ pushed[t] \in 0 .. MaxPushes /\ pushed'[t] = pushed[t] + 1
      /\ \A u \in Producers : u # t => pc'[u] = pc[u] /\ pushed'[u] = pushed[u]
  BY DEF PushBegin, Goto
<1>2. ASSUME NEW e \in Element PROVE e \in Claimed' <=> e \in Claimed
  <2>1. e[1] \in Producers /\ e[2] \in 1 .. MaxPushes
    BY DEF Element
  <2>2. CASE e[1] = t
    BY <1>1, <2>1, <2>2, SizeAssumption DEF Claimed, Begun, BeforeClaim
  <2>3. CASE e[1] # t
    BY <1>1, <2>1, <2>3 DEF Claimed, Begun
  <2> QED BY <2>2, <2>3
<1> QED BY <1>2 DEF Claimed, Begun

\* The claim of a position is the claim of one more push.
LEMMA ClaimCounts ==
  ASSUME TypeOK, Locals, NEW t \in Producers, PushClaim(t)
  PROVE Data(t) \notin Claimed /\ Claimed' = Claimed \cup {Data(t)}
<1> USE DEF TypeOK, QueueType, LocalType, Threads
<1>1. /\ pc[t] = "push_claim" /\ pc'[t] = "push_store" /\ pushed' = pushed
      /\ \A u \in Producers : u # t => pc'[u] = pc[u]
      /\ Data(t) \in Element
  BY DataElement DEF PushClaim, Goto, PushLabels
<1>2. Data(t)[1] = t /\ Data(t)[2] = pushed[t]
  BY DEF Data
<1>3. Data(t) \notin Claimed
  BY <1>1, <1>2 DEF Claimed, BeforeClaim
<1>4. ASSUME NEW e \in Element PROVE e \in Claimed' <=> e \in Claimed \/ e = Data(t)
  <2>1. e[1] \in Producers /\ e[2] \in 1 .. MaxPushes /\ e = <<e[1], e[2]>>
    BY DEF Element
  <2>2. CASE e[1] = t
    <3>1. e = Data(t) <=> e[2] = pushed[t]
      BY <2>1, <2>2 DEF Data
    <3>2. e \in Claimed' <=> e[2] <= pushed[t]
      BY <1>1, <2>2 DEF Claimed, Begun, BeforeClaim
    <3>3. e \in Claimed <=> e[2] <= pushed[t] /\ e[2] # pushed[t]
      BY <1>1, <2>2 DEF Claimed, Begun, BeforeClaim
    <3>4. e[2] = pushed[t] => e[2] <= pushed[t]
      BY <2>1
    <3> QED BY <3>1, <3>2, <3>3, <3>4
  <2>3. CASE e[1] # t
    BY <1>1, <1>2, <2>1, <2>3 DEF Claimed, Begun
  <2> QED BY <2>2, <2>3
<1> QED BY <1>1, <1>3, <1>4 DEF Claimed, Begun

\* Every step keeps the positions counted.
LEMMA CountedStep ==
  ASSUME IInv, Counted, NEW t \in Threads, LocalStep(t) \/ SharedStep(t), tailMem' = 1
  PROVE tailWrite'[1] <= Cardinality(Claimed')
<1> USE DEF IInv, TypeOK
<1>0. Monotone /\ tailMem \in Nat \ {0}
  BY StepMonotone, ChainBlocks
<1>1. tailMem = 1 /\ 1 \in Blocks /\ ~PushGrow(t)
  <2>1. tailMem = 1
    BY <1>0 DEF Monotone
  <2>2. ~PushGrow(t)
    BY <2>1 DEF PushGrow
  <2> QED BY <2>1, <2>2, SizeAssumption DEF Blocks
<1>2. tailWrite[1] <= Cardinality(Claimed)
  BY <1>1 DEF Counted
<1>3. tailWrite[1] \in Nat
  BY <1>1 DEF BlockType
<1>4. CASE t \in Producers /\ PushBegin(t)
  BY <1>2, <1>4, BeginKeepsClaimed DEF PushBegin, blockVars
<1>5. CASE t \in Producers /\ PushClaim(t)
  <2>1. mem[t] = 1
    BY <1>1, <1>5 DEF PushClaim, Locals, LocalsOf, MemLabels
  <2>2. tailWrite'[1] = tailWrite[1] + 1
    BY <1>1, <1>5, <2>1 DEF PushClaim, BlockType
  <2>3. Cardinality(Claimed') = Cardinality(Claimed) + 1
    BY <1>5, ClaimCounts, PushesFinite, FS_AddElement
  <2> QED BY <1>2, <1>3, <2>2, <2>3, PushesFinite
<1>6. CASE t \in Producers => ~PushBegin(t) /\ ~PushClaim(t)
  <2>1. /\ pushed' = pushed /\ tailWrite' = tailWrite
        /\ t \in Producers => (pc'[t] \in BeforeClaim <=> pc[t] \in BeforeClaim)
    BY <1>1, <1>6, ClaimedKept
  <2>2. \A u \in Producers : u # t => pc'[u] = pc[u]
    BY OthersKeepLocals DEF KeepsLocals, Threads
  <2>3. ASSUME NEW e \in Element PROVE e \in Claimed' <=> e \in Claimed
    BY <2>1, <2>2 DEF Claimed, Begun, Element
  <2>4. Claimed' = Claimed
    BY <2>3 DEF Claimed, Begun
  <2> QED BY <1>2, <2>1, <2>4
<1> QED BY <1>4, <1>5, <1>6

\* The head that length has read stays behind the head.
LEMMA LengthHeadStep ==
  ASSUME IInv, Counted, NEW t \in Threads, LocalStep(t) \/ SharedStep(t), tailMem' = 1,
         NEW u \in Threads, pc'[u] \in {"len_tail_mem", "len_tail"}
  PROVE lhead'[u] <= head'[1]
<1> USE DEF IInv, TypeOK
<1>0. Monotone /\ tailMem \in Nat \ {0}
  BY StepMonotone, ChainBlocks
<1>1. /\ tailMem = 1 /\ 1 \in Blocks /\ head[1] <= head'[1]
      /\ head[1] \in Nat /\ head'[1] \in Nat /\ lhead[u] \in Nat
  <2>1. tailMem = 1
    BY <1>0 DEF Monotone
  <2>2. 1 \in Blocks
    BY SizeAssumption DEF Blocks
  <2>3. head'[1] \in Nat
    BY <2>2, BlockTypeStep DEF BlockType
  <2> QED BY <1>0, <2>1, <2>2, <2>3 DEF Monotone, BlockType, LocalType
<1>2. pc[u] \in {"len_tail_mem", "len_tail"} => lhead[u] <= head[1]
  BY <1>1 DEF Counted
<1>3. CASE u # t
  <2>1. pc'[u] = pc[u] /\ lhead'[u] = lhead[u]
    BY <1>3, OthersKeepLocals DEF KeepsLocals
  <2> QED BY <1>1, <1>2, <2>1
<1>4. CASE u = t
  <2>1. CASE LengthReadHead(t)
    <3>1. mem[t] = 1
      BY <1>1, <2>1 DEF LengthReadHead, Locals, LocalsOf, MemLabels
    <3> QED BY <1>1, <1>4, <2>1, <3>1 DEF LengthReadHead, LocalType
  <2>2. CASE LengthReadTailMem(t)
    BY <1>1, <1>2, <1>4, <2>2 DEF LengthReadTailMem
  <2>3. CASE Ref(t) \/ Unref(t)
    BY <1>1, <1>2, <1>4, <2>3 DEF Ref, Unref, localVars
  <2>4. CASE PushBegin(t) \/ PushReadMem(t) \/ PushReadHead(t) \/ PushReadTail(t)
             \/ PushGrow(t) \/ PushClaim(t) \/ PushStore(t)
    BY <1>4, <2>4 DEF PushBegin, PushReadMem, PushReadHead, PushReadTail, PushGrow, PushClaim,
       PushStore, Goto, LocalType
  <2>5. CASE PushGrowLost(t) \/ PushClaimLost(t) \/ PushLink(t) \/ PushPublish(t)
             \/ PopEmpty(t) \/ PopSwingLost(t) \/ PopRetire(t) \/ PeekLoad(t) \/ PopTake(t)
             \/ PopTakeLost(t)
    BY <1>4, <2>5 DEF PushGrowLost, PushClaimLost, PushLink, PushPublish, PopEmpty,
       PopSwingLost, PopRetire, PeekLoad, PopTake, PopTakeLost, Retry, Return, Discard, LocalType
  <2>6. CASE PopBegin(t) \/ PopReadMem(t) \/ PopReadHead(t) \/ PopReadTail(t)
             \/ PopReadNext(t) \/ PopSwing(t) \/ PopLoad(t)
    BY <1>4, <2>6 DEF PopBegin, PopReadMem, PopReadHead, PopReadTail, PopReadNext, PopSwing,
       PopLoad, Goto, LocalType
  <2>7. CASE LengthBegin(t) \/ LengthReadHeadMem(t) \/ LengthReturn(t)
    BY <1>4, <2>7 DEF LengthBegin, LengthReadHeadMem, LengthReturn, Return, Discard, Goto,
       LocalType
  <2> QED
    BY <2>1, <2>2, <2>3, <2>4, <2>5, <2>6, <2>7 DEF LocalStep, SharedStep, LengthStep
<1> QED BY <1>3, <1>4

\* The positions of a queue that has not grown are counted by its pushes.
THEOREM CountInvariant == Spec => []Counted
<1>1. Init => Counted
  BY InitCounted
<1>2. ASSUME IInv, Counted, [Next]_vars PROVE Counted'
  <2>1. CASE UNCHANGED vars
    <3>1. Claimed' = Claimed
      BY <2>1 DEF vars, Claimed, Begun
    <3> QED BY <1>2, <2>1, <3>1 DEF Counted, vars, queueVars, blockVars, localVars
  <2>2. ASSUME NEW t \in Threads, LocalStep(t) \/ SharedStep(t) PROVE Counted'
    BY <1>2, <2>2, CountedStep, LengthHeadStep DEF Counted
  <2> QED BY <1>2, <2>1, <2>2, StepKinds
<1> QED BY <1>1, <1>2, InductiveInvariant, PTL DEF Spec

\* quant_atomic_queue_length reads head before tail: as long as the queue has
\* not grown, the difference does not wrap and is at most the pushes begun.
THEOREM LengthBoundedInBlockHolds == Spec => LengthBoundedInBlock
<1>1. ASSUME IInv, Counted, NEW t \in Consumers, LengthReturns(t), tailMem = 1
      PROVE  PlausibleLength(t)
  <2> USE DEF IInv, TypeOK
  <2>1. t \in Threads /\ pc[t] = "len_tail" /\ mem[t] = 1 /\ 1 \in Blocks
    BY <1>1, SizeAssumption DEF LengthReturns, Locals, LocalsOf, MemLabels, Threads, Blocks
  <2>2. /\ lhead[t] \in Nat /\ head[1] \in Nat /\ tailRead[1] \in Nat /\ tailWrite[1] \in Nat
        /\ lhead[t] <= head[1] /\ head[1] <= tailRead[1] /\ tailRead[1] <= tailWrite[1]
        /\ tailWrite[1] <= Cardinality(Claimed)
    BY <1>1, <2>1 DEF Counted, BlockBounds, BlockType, LocalType
  <2>3. tailRead[1] - lhead[t] \in Nat /\ tailRead[1] - lhead[t] <= tailWrite[1]
    BY <2>2
  <2>4. GuintModulus \in Nat \ {0}
    BY ReaderAssumption
  <2>5. LengthResult(t) <= tailRead[1] - lhead[t] /\ LengthResult(t) \in Nat
    BY <2>1, <2>3, <2>4 DEF LengthResult
  <2> QED BY <2>2, <2>3, <2>5, PushesFinite DEF PlausibleLength, Begun
<1>2. IInv /\ Counted =>
        [\A t \in Consumers : LengthReturns(t) /\ tailMem = 1 => PlausibleLength(t)]_vars
  BY <1>1
<1> QED BY <1>2, InductiveInvariant, CountInvariant, PTL DEF Spec, LengthBoundedInBlock
=============================================================================
