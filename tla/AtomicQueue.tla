---------------------------- MODULE AtomicQueue ----------------------------
(***************************************************************************)
(* The array-based lock-free queue of quant_mpmc_queue.c.  Producers push,  *)
(* consumers pop, peek or ask for the length, and every access to a shared  *)
(* field (one g_atomic_* call, one plain load or store of a slot) is one    *)
(* step, so that the steps of the threads interleave as on the machine.     *)
(*                                                                          *)
(* Blocks (QuantAQueueMem) are numbered in the order in which they enter    *)
(* the chain: only the thread that swings tail_mem from block b installs    *)
(* its own allocation, which is therefore block b + 1.  Pointers are block  *)
(* numbers and 0 is the NULL pointer.  The i-th element that thread p       *)
(* pushes is <<p, i>>: elements are distinct, as pointers handed over are.  *)
(*                                                                          *)
(* Locals are reset where they are dead, on a retry and on return.          *)
(***************************************************************************)
EXTENDS Integers, FiniteSets

CONSTANTS
  Producers,    \* threads that call quant_atomic_queue_push
  Consumers,    \* threads that call pop
  Peekers,      \* the consumers that also call peek
  Counters,     \* the consumers that also call length
  Creator,      \* the thread that called quant_atomic_queue_new
  NULL,         \* the gpointer NULL
  InitialMask,  \* size - 1 of the first block, 2^k - 1 (15 or more in the code)
  MaxBlocks,    \* bound on the number of blocks ever chained
  MaxPushes,    \* bound on the number of pushes of one producer
  GuintModulus  \* 2^w for a guint of w bits: the result of length wraps

Threads == Producers \cup Consumers
Blocks == 1 .. MaxBlocks
Element == Producers \X (1 .. MaxPushes)

ASSUME ThreadAssumption ==
  /\ Producers \cap Consumers = {}
  /\ Creator \in Threads
  /\ IsFiniteSet(Threads)

ASSUME SizeAssumption ==
  /\ MaxBlocks \in Nat \ {0}
  /\ MaxPushes \in Nat
  /\ InitialMask \in Nat \ {0}

\* The sizes are powers of two, so that `pos & size' is `pos % (size + 1)'.
ASSUME MaskAssumption ==
  \E k \in 1 .. InitialMask : InitialMask + 1 = 2 ^ k

ASSUME NullAssumption == NULL \notin Element

ASSUME ReaderAssumption ==
  /\ Peekers \subseteq Consumers /\ Counters \subseteq Consumers
  /\ GuintModulus \in Nat \ {0}

VARIABLES
  refcount,   \* queue->refcount
  holders,    \* the threads that own a reference (who may call)
  headMem,    \* queue->head_mem
  tailMem,    \* queue->tail_mem
  freeList,   \* the blocks on queue->free_list
  size,       \* per block: size, kept as a mask
  array,      \* per block: array
  head,       \* per block: head
  tailWrite,  \* per block: tail_write
  tailRead,   \* per block: tail_read
  next,       \* per block: next
  freed,      \* the blocks returned to the allocator by the last unref
  pc,         \* per thread: the next access it makes
  op,         \* per thread: pop or peek, which share their loop
  mem,        \* per thread: local tail_mem or head_mem
  lhead,      \* per thread: local head
  ltail,      \* per thread: local tail
  ret,        \* per thread: local ret of pop
  pushed,     \* per producer: pushes begun
  consumed    \* the elements that pop has returned

queueVars == <<headMem, tailMem, freeList>>
blockVars == <<size, array, head, tailWrite, tailRead, next>>
lifeVars == <<refcount, holders, freed>>
localVars == <<op, mem, lhead, ltail, ret>>
vars == <<queueVars, blockVars, lifeVars, pc, localVars, pushed, consumed>>

PushLabels == {"push_mem", "push_head", "push_tail", "push_grow", "push_link",
               "push_claim", "push_store", "push_publish"}
ReadLabels == {"pop_mem", "pop_head", "pop_tail", "pop_next", "pop_swing",
               "pop_retire", "pop_load", "pop_take",
               "len_head_mem", "len_head", "len_tail_mem", "len_tail"}

-----------------------------------------------------------------------------
\* array[pos & size]
Slot(b, pos) == pos % (size[b] + 1)

\* The @data of the push in progress.
Data(t) == <<t, pushed[t]>>

\* new_queue_mem((size << 1) + 1, pos): the next power of two above 2 * mask + 1,
\* less one, is 2 * mask + 1 again.
GrownMask(mask) == 2 * mask + 1

\* Variant: the array is allocated one slot short.
ShortArray(mask) == [i \in 0 .. mask - 1 |-> NULL]

EmptyArray(mask) == [i \in 0 .. mask |-> NULL]

\* The local variables of a call are dead: the thread goes to label l.
Discard(t, l) ==
  /\ pc' = [pc EXCEPT ![t] = l]
  /\ mem' = [mem EXCEPT ![t] = 0]
  /\ lhead' = [lhead EXCEPT ![t] = 0]
  /\ ltail' = [ltail EXCEPT ![t] = 0]
  /\ ret' = [ret EXCEPT ![t] = NULL]

Retry(t, l) == Discard(t, l) /\ UNCHANGED op

Return(t) == Discard(t, "idle") /\ op' = [op EXCEPT ![t] = "none"]

Goto(t, l) == pc' = [pc EXCEPT ![t] = l]

-----------------------------------------------------------------------------
\* quant_atomic_queue_new has returned to the creator.  Blocks not yet
\* allocated have the one-slot value below, which nothing reads.
Init ==
  /\ refcount = 1
  /\ holders = {Creator}
  /\ headMem = 1
  /\ tailMem = 1
  /\ freeList = {}
  /\ size = [b \in Blocks |-> IF b = 1 THEN InitialMask ELSE 0]
  /\ array = [b \in Blocks |-> EmptyArray(IF b = 1 THEN InitialMask ELSE 0)]
  /\ head = [b \in Blocks |-> 0]
  /\ tailWrite = [b \in Blocks |-> 0]
  /\ tailRead = [b \in Blocks |-> 0]
  /\ next = [b \in Blocks |-> 0]
  /\ freed = {}
  /\ pc = [t \in Threads |-> "idle"]
  /\ op = [t \in Threads |-> "none"]
  /\ mem = [t \in Threads |-> 0]
  /\ lhead = [t \in Threads |-> 0]
  /\ ltail = [t \in Threads |-> 0]
  /\ ret = [t \in Threads |-> NULL]
  /\ pushed = [t \in Producers |-> 0]
  /\ consumed = {}

-----------------------------------------------------------------------------
\* The creator takes a reference for thread u, which has not started or has
\* given its own back (quant_atomic_queue_ref).
Ref(u) ==
  /\ Creator \in holders
  /\ pc[Creator] = "idle" /\ pc[u] = "idle"
  /\ u \notin holders
  /\ refcount' = refcount + 1
  /\ holders' = holders \cup {u}
  /\ UNCHANGED <<queueVars, blockVars, freed, pc, localVars, pushed, consumed>>

\* Variant: free forgets the free list.
FreedEnds == {headMem, tailMem}

\* The blocks quant_atomic_queue_free gives back: the two ends of the chain
\* and the retired blocks.
FreedBlocks == {headMem, tailMem} \cup freeList

\* quant_atomic_queue_unref, and quant_atomic_queue_free when it was the last.
Unref(t) ==
  /\ t \in holders
  /\ pc[t] = "idle"
  /\ refcount' = refcount - 1
  /\ holders' = holders \ {t}
  /\ freed' = IF refcount = 1 THEN FreedBlocks ELSE freed
  /\ UNCHANGED <<queueVars, blockVars, pc, localVars, pushed, consumed>>

-----------------------------------------------------------------------------
\* quant_atomic_queue_push

PushBegin(t) ==
  /\ t \in holders
  /\ pc[t] = "idle"
  /\ pushed[t] < MaxPushes
  /\ pushed' = [pushed EXCEPT ![t] = @ + 1]
  /\ Goto(t, "push_mem")
  /\ UNCHANGED <<queueVars, blockVars, lifeVars, localVars, consumed>>

PushReadMem(t) ==
  /\ pc[t] = "push_mem"
  /\ mem' = [mem EXCEPT ![t] = tailMem]
  /\ Goto(t, "push_head")
  /\ UNCHANGED <<queueVars, blockVars, lifeVars, op, lhead, ltail, ret, pushed, consumed>>

PushReadHead(t) ==
  /\ pc[t] = "push_head"
  /\ lhead' = [lhead EXCEPT ![t] = head[mem[t]]]
  /\ Goto(t, "push_tail")
  /\ UNCHANGED <<queueVars, blockVars, lifeVars, op, mem, ltail, ret, pushed, consumed>>

\* Variant: the full test takes the mask for the number of slots.
HasRoomAndOne(b, h, tl) == tl - h <= size[b] + 1

\* `if (tail - head <= size) break;': a full block must grow.
HasRoom(b, h, tl) == tl - h <= size[b]

PushReadTail(t) ==
  /\ pc[t] = "push_tail"
  /\ ltail' = [ltail EXCEPT ![t] = tailWrite[mem[t]]]
  /\ Goto(t, IF HasRoom(mem[t], lhead[t], tailWrite[mem[t]])
             THEN "push_claim" ELSE "push_grow")
  /\ UNCHANGED <<queueVars, blockVars, lifeVars, op, mem, lhead, ret, pushed, consumed>>

\* Variant: the new block starts with tail_read at 0.
PushGrowUnread(t) ==
  /\ pc[t] = "push_grow"
  /\ tailMem = mem[t]
  /\ mem[t] < MaxBlocks                                       \* bound
  /\ LET new == mem[t] + 1
         mask == GrownMask(size[mem[t]])
     IN /\ tailMem' = new
        /\ size' = [size EXCEPT ![new] = mask]
        /\ array' = [array EXCEPT ![new] = EmptyArray(mask)]
        /\ head' = [head EXCEPT ![new] = ltail[t]]
        /\ tailWrite' = [tailWrite EXCEPT ![new] = ltail[t]]
        /\ UNCHANGED tailRead
  /\ Goto(t, "push_link")
  /\ UNCHANGED <<headMem, freeList, next, lifeVars, localVars, pushed, consumed>>

\* The compare-and-exchange on tail_mem succeeds: block mem[t] + 1 enters the
\* chain, its three positions at the local tail.
PushGrow(t) ==
  /\ pc[t] = "push_grow"
  /\ tailMem = mem[t]
  /\ mem[t] < MaxBlocks                                       \* bound
  /\ LET new == mem[t] + 1
         mask == GrownMask(size[mem[t]])
     IN /\ tailMem' = new
        /\ size' = [size EXCEPT ![new] = mask]
        /\ array' = [array EXCEPT ![new] = EmptyArray(mask)]
        /\ head' = [head EXCEPT ![new] = ltail[t]]
        /\ tailWrite' = [tailWrite EXCEPT ![new] = ltail[t]]
        /\ tailRead' = [tailRead EXCEPT ![new] = ltail[t]]
  /\ Goto(t, "push_link")
  /\ UNCHANGED <<headMem, freeList, next, lifeVars, localVars, pushed, consumed>>

\* Another writer grew the queue first: free_queue_mem and start again.
PushGrowLost(t) ==
  /\ pc[t] = "push_grow"
  /\ tailMem # mem[t]
  /\ Retry(t, "push_mem")
  /\ UNCHANGED <<queueVars, blockVars, lifeVars, pushed, consumed>>

\* g_atomic_pointer_set(&tail_mem->next, mem), then round the loop again.
PushLink(t) ==
  /\ pc[t] = "push_link"
  /\ next' = [next EXCEPT ![mem[t]] = mem[t] + 1]
  /\ Retry(t, "push_mem")
  /\ UNCHANGED <<queueVars, size, array, head, tailWrite, tailRead, lifeVars, pushed, consumed>>

\* The compare-and-exchange on tail_write: the position is this writer's.
PushClaim(t) ==
  /\ pc[t] = "push_claim"
  /\ tailWrite[mem[t]] = ltail[t]
  /\ tailWrite' = [tailWrite EXCEPT ![mem[t]] = @ + 1]
  /\ Goto(t, "push_store")
  /\ UNCHANGED <<queueVars, size, array, head, tailRead, next, lifeVars, localVars, pushed, consumed>>

PushClaimLost(t) ==
  /\ pc[t] = "push_claim"
  /\ tailWrite[mem[t]] # ltail[t]
  /\ Retry(t, "push_mem")
  /\ UNCHANGED <<queueVars, blockVars, lifeVars, pushed, consumed>>

PushStore(t) ==
  /\ pc[t] = "push_store"
  /\ array' = [array EXCEPT ![mem[t]][Slot(mem[t], ltail[t])] = Data(t)]
  /\ Goto(t, "push_publish")
  /\ UNCHANGED <<queueVars, size, head, tailWrite, tailRead, next, lifeVars, localVars, pushed, consumed>>

\* Variant: a writer publishes without waiting for the writers before it.
PublishAtOnce(t) == TRUE

\* The busy wait on tail_read ends when all writers before this one are done.
MayPublish(t) == tailRead[mem[t]] = ltail[t]

PushPublish(t) ==
  /\ pc[t] = "push_publish"
  /\ MayPublish(t)
  /\ tailRead' = [tailRead EXCEPT ![mem[t]] = @ + 1]
  /\ Return(t)
  /\ UNCHANGED <<queueVars, size, array, head, tailWrite, next, lifeVars, pushed, consumed>>

-----------------------------------------------------------------------------
\* quant_atomic_queue_pop and quant_atomic_queue_peek

PopBegin(t) ==
  /\ t \in holders
  /\ pc[t] = "idle"
  /\ \E o \in {"pop", "peek"} :
       /\ o = "peek" => t \in Peekers
       /\ op' = [op EXCEPT ![t] = o]
  /\ Goto(t, "pop_mem")
  /\ UNCHANGED <<queueVars, blockVars, lifeVars, mem, lhead, ltail, ret, pushed, consumed>>

PopReadMem(t) ==
  /\ pc[t] = "pop_mem"
  /\ mem' = [mem EXCEPT ![t] = headMem]
  /\ Goto(t, "pop_head")
  /\ UNCHANGED <<queueVars, blockVars, lifeVars, op, lhead, ltail, ret, pushed, consumed>>

PopReadHead(t) ==
  /\ pc[t] = "pop_head"
  /\ lhead' = [lhead EXCEPT ![t] = head[mem[t]]]
  /\ Goto(t, "pop_tail")
  /\ UNCHANGED <<queueVars, blockVars, lifeVars, op, mem, ltail, ret, pushed, consumed>>

\* Variant: the last element of a block is taken for an empty block.
PopReadTailLess(t) ==
  /\ pc[t] = "pop_tail"
  /\ Goto(t, IF lhead[t] + 1 < tailRead[mem[t]] THEN "pop_load" ELSE "pop_next")
  /\ UNCHANGED <<queueVars, blockVars, lifeVars, localVars, pushed, consumed>>

\* `if (head != tail) break;', with tail read from the field tail_read.
PopReadTail(t) ==
  /\ pc[t] = "pop_tail"
  /\ Goto(t, IF lhead[t] # tailRead[mem[t]] THEN "pop_load" ELSE "pop_next")
  /\ UNCHANGED <<queueVars, blockVars, lifeVars, localVars, pushed, consumed>>

\* No next block: the call returns NULL.
PopEmpty(t) ==
  /\ pc[t] = "pop_next"
  /\ next[mem[t]] = 0
  /\ Return(t)
  /\ UNCHANGED <<queueVars, blockVars, lifeVars, pushed, consumed>>

\* next is set once, so the local copy of it need not be kept.
PopReadNext(t) ==
  /\ pc[t] = "pop_next"
  /\ next[mem[t]] # 0
  /\ Goto(t, "pop_swing")
  /\ UNCHANGED <<queueVars, blockVars, lifeVars, localVars, pushed, consumed>>

PopSwing(t) ==
  /\ pc[t] = "pop_swing"
  /\ headMem = mem[t]
  /\ headMem' = next[mem[t]]
  /\ Goto(t, "pop_retire")
  /\ UNCHANGED <<tailMem, freeList, blockVars, lifeVars, localVars, pushed, consumed>>

PopSwingLost(t) ==
  /\ pc[t] = "pop_swing"
  /\ headMem # mem[t]
  /\ Retry(t, "pop_mem")
  /\ UNCHANGED <<queueVars, blockVars, lifeVars, pushed, consumed>>

\* add_to_free_list: blocks are only added while the queue is in use, so the
\* loop of compare-and-exchanges is one step.
PopRetire(t) ==
  /\ pc[t] = "pop_retire"
  /\ freeList' = freeList \cup {mem[t]}
  /\ Retry(t, "pop_mem")
  /\ UNCHANGED <<headMem, tailMem, blockVars, lifeVars, pushed, consumed>>

\* Variant: the slot is read at the position after the head.
LoadedNext(t) == array[mem[t]][Slot(mem[t], lhead[t] + 1)]

LoadedSlot(t) == array[mem[t]][Slot(mem[t], lhead[t])]

PopLoad(t) ==
  /\ pc[t] = "pop_load"
  /\ op[t] = "pop"
  /\ ret' = [ret EXCEPT ![t] = LoadedSlot(t)]
  /\ Goto(t, "pop_take")
  /\ UNCHANGED <<queueVars, blockVars, lifeVars, op, mem, lhead, ltail, pushed, consumed>>

\* quant_atomic_queue_peek returns the slot it reads.
PeekLoad(t) ==
  /\ pc[t] = "pop_load"
  /\ op[t] = "peek"
  /\ Return(t)
  /\ UNCHANGED <<queueVars, blockVars, lifeVars, pushed, consumed>>

\* Variant: head is stored without comparing.
PopTakeStore(t) ==
  /\ pc[t] = "pop_take"
  /\ head' = [head EXCEPT ![mem[t]] = lhead[t] + 1]
  /\ consumed' = consumed \cup {ret[t]}
  /\ Return(t)
  /\ UNCHANGED <<queueVars, size, array, tailWrite, tailRead, next, lifeVars, pushed>>

\* The compare-and-exchange on head: the element is this reader's.
PopTake(t) ==
  /\ pc[t] = "pop_take"
  /\ head[mem[t]] = lhead[t]
  /\ head' = [head EXCEPT ![mem[t]] = @ + 1]
  /\ consumed' = consumed \cup {ret[t]}
  /\ Return(t)
  /\ UNCHANGED <<queueVars, size, array, tailWrite, tailRead, next, lifeVars, pushed>>

PopTakeLost(t) ==
  /\ pc[t] = "pop_take"
  /\ head[mem[t]] # lhead[t]
  /\ Retry(t, "pop_mem")
  /\ UNCHANGED <<queueVars, blockVars, lifeVars, pushed, consumed>>

-----------------------------------------------------------------------------
\* quant_atomic_queue_length

LengthBegin(t) ==
  /\ t \in holders
  /\ pc[t] = "idle"
  /\ t \in Counters
  /\ Goto(t, "len_head_mem")
  /\ UNCHANGED <<queueVars, blockVars, lifeVars, localVars, pushed, consumed>>

LengthReadHeadMem(t) ==
  /\ pc[t] = "len_head_mem"
  /\ mem' = [mem EXCEPT ![t] = headMem]
  /\ Goto(t, "len_head")
  /\ UNCHANGED <<queueVars, blockVars, lifeVars, op, lhead, ltail, ret, pushed, consumed>>

LengthReadHead(t) ==
  /\ pc[t] = "len_head"
  /\ lhead' = [lhead EXCEPT ![t] = head[mem[t]]]
  /\ Goto(t, "len_tail_mem")
  /\ UNCHANGED <<queueVars, blockVars, lifeVars, op, mem, ltail, ret, pushed, consumed>>

LengthReadTailMem(t) ==
  /\ pc[t] = "len_tail_mem"
  /\ mem' = [mem EXCEPT ![t] = tailMem]
  /\ Goto(t, "len_tail")
  /\ UNCHANGED <<queueVars, blockVars, lifeVars, op, lhead, ltail, ret, pushed, consumed>>

\* Variant: the operands are swapped.
LengthSwapped(t) == (lhead[t] - tailRead[mem[t]]) % GuintModulus

\* `return tail - head;' as a guint.
LengthResult(t) == (tailRead[mem[t]] - lhead[t]) % GuintModulus

LengthReturn(t) ==
  /\ pc[t] = "len_tail"
  /\ Return(t)
  /\ UNCHANGED <<queueVars, blockVars, lifeVars, pushed, consumed>>

-----------------------------------------------------------------------------
PushStep(t) ==
  \/ PushReadMem(t) \/ PushReadHead(t) \/ PushReadTail(t)
  \/ PushGrow(t) \/ PushGrowLost(t) \/ PushLink(t)
  \/ PushClaim(t) \/ PushClaimLost(t) \/ PushStore(t) \/ PushPublish(t)

PopStep(t) ==
  \/ PopReadMem(t) \/ PopReadHead(t) \/ PopReadTail(t)
  \/ PopEmpty(t) \/ PopReadNext(t) \/ PopSwing(t) \/ PopSwingLost(t) \/ PopRetire(t)
  \/ PopLoad(t) \/ PeekLoad(t) \/ PopTake(t) \/ PopTakeLost(t)

LengthStep(t) ==
  \/ LengthReadHeadMem(t) \/ LengthReadHead(t)
  \/ LengthReadTailMem(t) \/ LengthReturn(t)

\* Nobody has a reference left: the program is done with the queue.
Done == holders = {} /\ UNCHANGED vars

Next ==
  \/ \E t \in Threads : Ref(t) \/ Unref(t)
  \/ \E t \in Producers : PushBegin(t) \/ PushStep(t)
  \/ \E t \in Consumers : PopBegin(t) \/ PopStep(t) \/ LengthBegin(t) \/ LengthStep(t)
  \/ Done

Spec == Init /\ [][Next]_vars

\* A thread that is inside a call is scheduled until the call returns, and a
\* consumer that owns a reference calls pop again and again, as an event loop
\* does, whatever other calls it makes in between.  Nothing obliges a producer to
\* push, or a thread to give its reference back.
Fairness ==
  /\ \A t \in Producers : WF_vars(PushStep(t))
  /\ \A t \in Consumers :
       /\ WF_vars(PopStep(t)) /\ WF_vars(LengthStep(t))
       /\ SF_vars(PopBegin(t) /\ op'[t] = "pop")

-----------------------------------------------------------------------------
Labels == {"idle"} \cup PushLabels \cup ReadLabels

QueueType ==
  /\ refcount \in Int
  /\ holders \subseteq Threads
  /\ headMem \in Blocks
  /\ tailMem \in Blocks
  /\ freeList \subseteq Blocks
  /\ freed \subseteq Blocks
  /\ pushed \in [Producers -> 0 .. MaxPushes]
  /\ consumed \subseteq Element \cup {NULL}

BlockType ==
  /\ size \in [Blocks -> Nat]
  /\ DOMAIN array = Blocks
  /\ \A b \in Blocks : array[b] \in [0 .. size[b] -> Element \cup {NULL}]
  /\ head \in [Blocks -> Nat]
  /\ tailWrite \in [Blocks -> Nat]
  /\ tailRead \in [Blocks -> Nat]
  /\ next \in [Blocks -> 0 .. MaxBlocks]

LocalType ==
  /\ pc \in [Threads -> Labels]
  /\ op \in [Threads -> {"none", "pop", "peek"}]
  /\ mem \in [Threads -> 0 .. MaxBlocks]
  /\ lhead \in [Threads -> Nat]
  /\ ltail \in [Threads -> Nat]
  /\ ret \in [Threads -> Element \cup {NULL}]

\* The fields of the queue, of the blocks and the locals have their types: in
\* particular positions are not negative and blocks are not dangling.
TypeOK == QueueType /\ BlockType /\ LocalType

-----------------------------------------------------------------------------
\* Positions of a block that readers may take.
Published(b) == head[b] .. (tailRead[b] - 1)

\* The four positions of a block keep their order and never span more slots
\* than the block has, whatever stale copies of head and tail the writers and
\* readers act on (the full test and the compare-and-exchanges of push and pop).
BlockBounds ==
  \A b \in Blocks :
    /\ head[b] <= tailRead[b]
    /\ tailRead[b] <= tailWrite[b]
    /\ tailWrite[b] <= head[b] + size[b] + 1

\* No slot that a reader may still take is overwritten: a store goes to a slot
\* that holds no published position (quant_atomic_queue_push line 362).
NoOverwrite ==
  [][\A t \in Producers :
       pc[t] = "push_store" /\ pc'[t] = "push_publish"
         => \A p \in Published(mem[t]) : Slot(mem[t], p) # Slot(mem[t], ltail[t])]_vars

\* What a successful pop returns is an element that was pushed, not NULL and
\* not the old content of a slot, and no pop has returned it before.
DeliveredOnce ==
  [][\A t \in Consumers :
       pc[t] = "pop_take" /\ pc'[t] = "idle" => ret[t] \in Element \ consumed]_vars

\* The last unref gives back the memory of the queue, whatever its readers have
\* taken until then ("free the memory when the refcount reaches 0").
FreeReclaims == freed # {} => freed = 1 .. tailMem

\* The last unref gives back every block that readers have left, the one they are
\* in and the last one, and no other: no retired block is missing from the free list,
\* although swinging head_mem and adding to the list are two steps, and what leaks
\* is what lies between the two ends.
RetiredReclaimed == freed # {} => freed = 1 .. headMem \cup {tailMem}

\* Pushes that have returned.
Completed ==
  {e \in Element : e[2] < pushed[e[1]] \/ (e[2] = pushed[e[1]] /\ pc[e[1]] = "idle")}

\* The elements readers can still reach: they start at head_mem.
Reachable ==
  UNION {{array[b][Slot(b, p)] : p \in Published(b)} : b \in headMem .. tailMem}

\* An element whose push has returned is in the queue until a pop returns it
\* ("Append @data to the tail of the queue").
NoElementLost == Completed \subseteq consumed \cup Reachable

\* length returns no more than the number of pushes ever begun.
PlausibleLength(t) ==
  LengthResult(t) <= Cardinality({e \in Element : e[2] <= pushed[e[1]]})

LengthReturns(t) == pc[t] = "len_tail" /\ pc'[t] = "idle"

\* What length promises, whether or not the queue grows during the call.
LengthBounded == [][\A t \in Consumers : LengthReturns(t) => PlausibleLength(t)]_vars

\* As long as the queue has not grown, length returns no more than the pushes
\* begun: its two positions are read at different times, but in the right order.
LengthBoundedInBlock ==
  [][\A t \in Consumers : LengthReturns(t) /\ tailMem = 1 => PlausibleLength(t)]_vars

\* Every call returns when its thread and the others inside a call are
\* scheduled: the busy wait of push and the retry loops come to an end.
CallsReturn == \A t \in Threads : []<>(pc[t] = "idle")

\* Readers that keep polling empty the queue: no element whose push has returned
\* stays in it, also when the queue grows (pushes are bounded, so that the queue
\* does fall empty; NoElementLost says that elements leave it by pop only).
EventuallyEmptied ==
  []<>(Completed \cap Reachable = {} \/ holders \cap Consumers = {})
=============================================================================
