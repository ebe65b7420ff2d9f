# A TLA+ development of libquant

libquant is a C library for event-driven trading programs: events of a market
feed, of an execution venue, of services, of commands and of timers are ordered
by an event bus, which runs either a back test ("simulator") or live
("realtime"). This directory models the parts of the library that have code,
model-checks them with TLC and proves with TLAPS every safety property of
the lock-free queue, the red-black tree, the event queue on it, the event bus and the
dates that the runs check. File names below without a directory are under `src/src/`.

## 1. The system

| Part | Code | State | Operations |
| --- | --- | --- | --- |
| Atomic queue | `quant_mpmc_queue.c` | `refcount`, `head_mem`, `tail_mem`, `free_list`; per block `size`, `array`, `head`, `tail_write`, `tail_read`, `next` | new, ref, unref, push, pop, peek, length |
| Event queue | `quant_event_queue.c` | `refcount`, a red-black tree of (event, id), `counter` | new, ref, unref, push, pop, peek, is_empty, remove, remove_by_id, clear |
| Red-black tree | `adt_tree.h` (RB macros) | root, and per node left, right, parent, color | insert, remove, find, nfind, next, prev, min, max |
| Event bus | `quant_event_bus.c` | six event queues ("pipes"), `saved_event`, `mode`, two clocks, `refcount` | new, ref, unref, set_mode, push, pop, the two clock setters, next_timeout |
| Events | `quant_event.c`, `quant_event_reminder.c`, `quant_event_market.c` | per event type, flags, timestamp, reference count | new, ref, unref, copy, the `QUANT_EVENT_IS_` tests |
| Dates and times | `quant_datetime.c` | none: `datetime_t` is a number of microseconds | encode, decode, from_iso8601, format, to_tm |
| System clock, event loop, context, support headers | `quant_datetime_os.c`, `quant_event_loop.*`, `quant_context.*`, ... | | one system call; declarations only |

How they interact. The bus owns six event queues, each of which keeps its nodes
in a red-black tree ordered by timestamp and, among equals, by the id that push
gives out. An event carries a count of references: the creator holds one, push
hands it to the bus and pop hands it back, and a client may take more of them,
so that the same event is at times held by both. Routing to a pipe looks at the
flags of an event, which
`quant_event_new` copies from a class table indexed by the event type. The bus
and its queues are used by one thread; the atomic queue is the part meant for
several, to carry events from feed threads to the thread of the loop. Dates
stand beside the rest: the bus compares `datetime_t` numbers only.

What is hard here, and what makes each part correct:

* *Atomic queue*: every shared access interleaves with every other. Writers
  claim a slot, store, and publish in order; readers load, then compare and
  exchange; a full block is replaced by one of twice the size while both sides
  still use the old one. Correct: nothing stored over an unread slot, nothing
  delivered twice, nothing lost, first in first out, calls return, blocks go back.
* *Event bus*: one market event is staged ahead of its time, and reminders,
  mode changes, clock changes and references arrive while it waits. Correct: no
  event dropped or doubled, none freed while somebody holds it, reminders neither
  late nor early, time order.
* *Event queue and tree*: long histories of insertions and removals, including
  removal while iterating. Correct: the pointer structure answers as the
  ordered set of what is in it.
* *Events*: a table that must stay aligned with an enumeration.
* *Dates*: divisions at leap days and centuries; offsets over midnight; the epoch
  in unsigned arithmetic.

The lines at which each difficulty bites are the `hazards` of `PROJECT.json`.

## 2. The modules

| Module | Models | Extends or instantiates |
| --- | --- | --- |
| `AtomicQueue` | `quant_mpmc_queue.c`, one action per shared access | |
| `FifoQueue` | what a linearizable FIFO queue promises | |
| `AtomicQueueFifo` | `AtomicQueue` with the history that maps it to `FifoQueue` | `AtomicQueue`, `FifoQueue` |
| `AtomicQueueOrder` | `AtomicQueue` with the history of its ordering properties | `AtomicQueue` |
| `AtomicQueueProofs` | theorems: the inductive invariant of `AtomicQueue`, its safety, references, the freeing of blocks, `length` | `AtomicQueue` |
| `AtomicQueueOrderProofs` | theorems: order of delivery, `peek` | `AtomicQueueOrder`, `AtomicQueueProofs` |
| `AtomicQueueFifoProofs` | theorem: the refinement of `FifoQueue` | `AtomicQueueFifo`, `AtomicQueueProofs` |
| `Event` | event types, flags, class table | |
| `EventQueue` | an event queue as a value, an ordered set | |
| `EventBus` | `quant_event_bus.c`, and the references of `quant_event.c` | `Event`, `EventQueue` |
| `EventBusProofs` | theorems: all safety properties of the bus | `EventBus` |
| `RBTree` | the functions the RB macros generate, on pointers | |
| `RBTreeProofs` | theorems: what insert, remove, find, nfind, next, prev, min, max and a clear do to any tree | `RBTree` |
| `RBTreeSet` | a tree in use, against the set of its keys | `RBTree` |
| `RBTreeSetProofs` | theorems: all properties of the tree in use | `RBTreeSet`, `RBTreeProofs` |
| `EventQueueSpec` | what an event queue promises, as a state machine | `EventQueue` |
| `EventQueueTree` | `quant_event_queue.c` on its tree | `RBTree`, `EventQueueSpec` |
| `EventQueueTreeProofs` | theorem: the queue on its tree is the queue of `EventQueueSpec` | `EventQueueTree`, `RBTreeProofs` |
| `Datetime` | the arithmetic of `quant_datetime.c` | |
| `Calendar` | a calendar walked day by day, against `Datetime` | `Datetime` |
| `CalendarProofs` | theorems: the date formulas are the calendar's | `Calendar` |
| `MC...` | instances for TLC | |

**AtomicQueue.** Each `g_atomic_*` call and each plain access to a slot of
`array` is an action, and `pc` names the access a thread makes next. A block is
its number in the chain: only the thread whose compare-and-exchange moves
`tail_mem` off block *b* installs a successor, so its allocation is block
*b + 1* and `next` is 0 or *b + 1*. The i-th element of producer *p* is
`<<p, i>>`. A failed compare-and-exchange goes back to the start of the loop, as
in the code. Locals are cleared where they are dead, which keeps the state space
small and changes no step. `add_to_free_list` is one action: blocks are only
added while the queue is in use, so its retry loop has no other effect. A
reference is taken for a thread before it starts and given back between calls,
as the documentation of ref and unref asks; the last unref records the blocks
handed to the allocator in `freed`.

**FifoQueue and AtomicQueueFifo.** In the abstract queue a call answers with an
element that was at the front at some moment between its start and its return
(`window` collects them), or takes the front. In the refinement a push takes
effect at the store to `tail_read`, a pop at its exchange of `head`. `LinearizableFifo`
asks this of the steps that leave the queue in its first block, for a growth loses
elements (`aq_lost`).

**EventBus.** `PopPipe`, `PopMarket`, `PopNothing` and `PopOutOfOrder` are the
outcomes of `quant_event_bus_pop`, each the whole call: staging, the chain of
tests of the mode in force (`Eligible`, `Precedence`) and the removal from a
pipe. `g_log` at the error level ends the process, so the branches after it are
not taken (`aborted`). `unseen`, `orderly`, `delivered` and `pushed` are history.
A queue is here the ordered set that `EventQueueTree` is shown to implement.
`count` is the `refcount` of each event and `owned` the client's part of it.
`PushEvent` is the sequence of the tests, new, an optional ref, push; `PushCopy` a
copy of an event that the client owns, which is pushed; a pop hands its reference
over (`HandOver`); `RefEvent` and `UnrefEvent` are the client's, and go on after the
bus is freed. Copying copies the bytes of the class, the count among them, and is
modelled only for types that have a size. `NextTimeout` is an operator, for
`quant_event_bus_next_timeout` changes nothing; what `datetime_now` answers is its
parameter.

**RBTree** follows the macros pointer by pointer: rotations, the insertion and
removal fix-ups, the splice of the successor in a removal of a node with two
children. `RB_AUGMENT` is empty in this repository. A loop of the macros is an
operator for one turn (`InsertColorTurn`, `DescendTurn`, ...), which leaves its values
as they are once the condition of the loop is false, and `Loop` takes as many turns as
the tree has nodes. That no loop needs more is part of what is proved: a loop that was
cut off would leave a tree that is out of balance, or an answer that is wrong.

**EventQueueTree** maps the whole interface of the event queue; `last` holds the
call and its answer so that the refinement compares answers, not states alone.
`EventQueueSpec` is what the header and the comments promise. The code departs from
it in three ways, each named and no wider than it is (`Departure`): an event that is
queued is queued again, a removal does not find it, and a removal by number
never returns from a queue that is not empty. `RefinesQueue` allows these and
no other.
`PushNoMemory` is a push whose `calloc` fails; `g_new`, in
`quant_event_queue_new` and `quant_event_bus_new`, ends the process instead, so the
clean-up label of `quant_event_bus_new` is not reachable and not modelled.

**Datetime** keeps a `datetime_t` in mixed radix (day, second, microsecond), for
64-bit microseconds do not fit the integers of TLC. Texts are their fields. In
this form the unsigned comparison of `datetime_to_tm` is a comparison of days
(`ToTmAccepts`).

## 3. The runs

| Run | Asks | Outcome |
| --- | --- | --- |
| `aq_calls` | two writers, two readers that pop, one of which also asks for the length, through a growth: `BlockBounds`, `NoOverwrite`, `DeliveredOnce`, `RetiredReclaimed`, `LengthBoundedInBlock`, `LinearizableFifo` | holds |
| `aq_mpsc` | two writers, one polling reader that also peeks, through a growth: `RealTimeFifo`, `PeekStable`, `CallsReturn`, `EventuallyEmptied` | holds |
| `bus` | six kinds of events in both modes, with references and copies: `OneHome`, `NeverDangling`, `NeverLeaked`, `TimeoutAgrees`, `RemindersFirst`, `ReminderNotEarly`, `MarketOrder`, `TimeOrdered`, `Drained` | holds |
| `rbtree` | ten keys in any order: `RedBlack`, `Search`, `Iteration` | holds |
| `eq_tree` | the event queue on its tree does what is promised of it, but for three named departures: `RefinesQueue` | holds |
| `calendar` | the date formulas over a cycle of 400 years and at both ends of the range: `DateOfDay`, `DayOfDate`, `RealDatesOnly`, `ParsedInstant`, `TmFields`, `RoundTrip` | holds |
| `aq_lost` | no element is lost: `NoElementLost` | violated |
| `aq_length` | `length` with growth: `LengthBounded` | violated |
| `aq_peek` | peek with two readers: `LinearizableFifo` | violated |
| `aq_leak` | the last unref frees the memory: `FreeReclaims` | violated |
| `eq_remove` | remove finds what is queued: `RemoveFinds` | violated |
| `bus_reminder` | events made by `quant_event_new`: `RoutedAsDeclared` | violated |

**Bounds.**

* Queue. `InitialMask` scales the first block: the code rounds a size below 16
  up to 16, the models use 2 slots. No line depends on the
  size but through `pos & size` and `tail - head <= size`, and the proofs are for
  every power of two. Two slots with four pushes fill the block, wrap round and
  grow. `MaxBlocks` 2 gives one growth, and four pushes cannot fill the second
  block, so that the bound never stops anyone and deadlock is checked. `aq_leak`
  has a third block and the seven pushes that reach it. With `MaxBlocks` 1 (`aq_peek`)
  a writer that finds the block full stops before it grows, so a state in which
  it waits for ever is an artefact of the bound and deadlock is not checked.
  `LinearizableFifo` looks at the steps in the first block, also of calls that another
  thread's growth overtakes. Positions are unbounded numbers; `GuintModulus` is 16 to
  make a negative length visible. Symmetry of producers is used in `aq_calls`
  and `aq_peek`, which check only safety; the readers are not symmetric, for one
  of them created the queue.
* Bus. Three events, two timestamps, both modes. Every
  property relates at most three events (staged, reminder, returned), and two
  timestamps give before, equal and after. `MaxCalls` 6 bounds pushes, which weigh
  2, together with calls that take references, which weigh 1: three events, or
  two with two more references (an event kept by the client while it is staged,
  and the bus freed by a ref and an unref), or one with four. References are
  given back without a bound. Moves of the exchange clock, which no other call
  reads, weigh 3. An event is pushed once; its copies are events of their own.
* Tree. Ten keys give all cases of the fix-ups, a removed node whose successor
  is its child or deeper among them. `eq_tree` allows six pushes of three
  events, two of which have the same time; each may be pushed while it is queued.
* Dates. The years 1601 to 2004 are every day of one full period of the calendar,
  with the epoch in it; the years 1 to 101 and 9890 to 9999 are the ends of the
  range. The cycle is started at four years, and each of these walks runs into the
  next. Times are midnight, 12:00:59 and
  23:59:59 with fractions of nothing, of milliseconds and just under a second, and
  offsets of whole hours, half hours and just under a day. A walk ends with its
  years, so deadlock is not checked.

**Fairness.** A thread inside a queue call keeps being scheduled (`WF` on its
steps). A reader with a reference calls pop again and again (`SF`, because it may
make other calls in between), as an event loop does. Nothing obliges a writer to
push or a thread to give its reference back. Pushes are bounded, so that
`EventuallyEmptied` says that the queue falls empty. `bus` assumes that the loop keeps calling pop
(`WF` on the calls of pop that return an event or report one); pushes are bounded,
so `Drained` says that no pipe starves another once the higher ones are empty, and
that in real time a local reminder is returned once the clock has reached it.
Nothing obliges a client to move a clock, to leave a mode or to give a reference
back. Threads are not assumed to stop or crash
inside a call: a writer that stops between its claim and its publication blocks
all later writers, which `CallsReturn` excludes by its fairness only.

**What the violations show.**

* `aq_lost` (`quant_mpmc_queue.c:288`): a reader finds `head == tail_read`, a
  writer publishes into the same block and the block then fills and grows, and
  the reader, which now sees `next`, retires the block with what was published.
  The element is never delivered. It takes one writer and one reader.
* `aq_length` (`:397`): `head` comes from an old block and `tail_read` from a
  newer one, or the two are read so far apart that the difference is negative:
  the unsigned result is huge. Until the queue grows the answer is bounded
  (`LengthBoundedInBlock`).
* `aq_peek` (`:240`): with a second reader, the slot may have been taken and
  reused when peek reads it, so it answers an element that was not at the head
  at any moment of the call. With one reader it is right (`PeekStable`).
* `aq_leak` (`:172`): the last unref gives back the block at `head_mem`, the block at
  `tail_mem` and the free list. If the queue has grown twice ahead of its readers,
  the blocks between the two ends are freed by nobody; the comment at line 182 says
  that the memory is freed. It takes one writer that fills two blocks. What is given
  back is stated by `RetiredReclaimed`: the blocks that readers have left and both ends.
* `eq_remove` (`quant_event_queue.c:181`): remove searches with the id 0, the
  comparison uses the id, no node has it. Nothing is ever found or removed. Its
  sibling `remove_by_id` dereferences a null event in a queue that is not empty
  (action `RemoveById`, departure `NeverReturns`).
* `bus_reminder` (`quant_event.c:106`): the class table has no entry for
  `QUANT_EVENT_UNKNOW`, so that types take the entry of the next one; a
  reminder made by `quant_event_new` is routed as a tick. The run `bus`
  therefore uses events whose flags the client has set.

Also seen, and modelled as the code has it, without a run of their own:

* The bus starts with a count of zero references, so a ref and an unref free it
  under its creator and a lone unref never frees it (`Ref`, `Unref`). Freeing it
  drops the references of the events in its pipes, which are then never freed;
  the client's own references stay good (`NeverDangling`).
* A copy takes over the reference count of its original, so that the copy of an
  event with more than one reference is never freed. `NeverLeaked` says that
  nothing but this and the end of the bus loses a reference.
* `quant_event_bus_next_timeout` answers 0 both when there is no reminder and when
  one is due, and a negative number when one is overdue. `TimeoutAgrees` compares the
  answer with the pop that follows, knowing whether a reminder waits.
* An event pushed while it is queued is queued twice, against
  `quant_event_queue.c:118` ("if e has been insert return EDUP") and
  `quant_event_queue.h:38`: `EDUPLICATE` needs two nodes with one id, which the
  counter excludes. `RefinesQueue` names this departure (`PushedAgain`), and
  `PushNeverDuplicate` proves that `EDUPLICATE` is never answered. The error numbers
  are negative, the type of the answer is unsigned, and the bus cuts it to an `int`.
* The fraction of a second is printed a thousand times too small (`Format`), while
  `quant_datetime.h:32` spells 999999 microseconds as `.999999`. `RoundTrip` does not
  cover it: it says that a time read back is in the same second and not later.
* `datetime_to_tm` counts the weekday from Monday (`ToTm`), its comment from Sunday
  (`quant_datetime.c:251`), as `struct tm` does. `TmFields` leaves the weekday out.
* `timestamp_format_internal` tests and returns a length that leaves out five of the
  six bytes of an offset (`quant_datetime.c:278`, `:359`), so that a buffer that
  passes the test may be too short. Buffers are not modelled: `Format` takes them as
  long enough, and leaves out the answer 0 for one that is not.
* `datetime_now` adds the epoch to a monotonic clock (`quant_datetime_os.c:136`).

## 4. The proofs

Every safety property that a passing run checks is also a theorem, for every value
of the constants that the assumptions allow. The theorem about property
`P` is `PHolds`, but for `TypeCorrect`, `BlocksBounded`, `NeverOverwrites` and
`NeverDeliversTwice`.

### The atomic queue

`AtomicQueueProofs` proves, for any number of producers and consumers, any
first size that is a power of two, and any bounds on blocks and pushes:

* `TypeCorrect`: `Spec => []TypeOK`
* `BlocksBounded`: `Spec => []BlockBounds`
* `NeverOverwrites`: `Spec => NoOverwrite`
* `NeverDeliversTwice`: `Spec => DeliveredOnce`
* `InductiveInvariant`: `Spec => []IInv`, on which the others rest.

Assumptions: producers and consumers are distinct threads and finitely many, the
mask is of the form 2^k - 1, the bounds are numbers, NULL is not an element. All are
ASSUMEs of `AtomicQueue`, evaluated by TLC in the runs.

The argument. `BlockBounds` alone is not inductive. That a claim keeps
`tail_write <= head + size + 1` needs that the head a writer read is not ahead of
the present head (`Locals`), which in turn needs that positions only grow
(lemma `StepMonotone`). That publishing keeps `tail_read <= tail_write`, and that a
store hits no published slot, needs that claimed positions lie between
`tail_read` and `tail_write` and belong to one writer each (`Claims`), and that two
positions less than a block apart have different slots (`ModInjective`).
That a pop returns a fresh element needs that published slots hold elements
whose push has returned and no pop has taken (`LiveFresh`), none twice
(`LiveDistinct`), and that what a pop loaded is still in the slot if `head` has not
moved (`Loaded`). `Chain` says where blocks are, so that the positions of a new
block meet those of the old one without overlap. The step lemma has a case per
action; actions that touch only locals are treated together (`LocalStep`).

The last part of the module is about what calls leave behind.

* `RetiredReclaimedHolds`. `RInv` says that `refcount` is the number of owners, that
  only owners are inside calls (`Owned`), and that each block before `head_mem` is
  on the free list or in the hands of the one thread that swung `head_mem` off it
  (`Retired`). So at the last unref no thread has a block in hand: the list is all
  that lies before `head_mem`, and what is not given back lies between the two ends.
* `LengthBoundedInBlockHolds`. Until the queue grows no more positions are claimed
  than pushes have begun, counted as a cardinality (`Counted`), and the head that
  `length` read earlier is not ahead of the present one.

`AtomicQueueOrderProofs` assumes one consumer, `Consumers = {c}`; a second one may
return before a first that took an earlier element. Producers, pushes and growths are
arbitrary.

* `RealTimeFifoHolds`. `PlaceInv` orders elements by their place, the pair of block
  and position, across blocks: an element whose push had returned before another
  began is consumed or lies before it, also while one of them is only claimed
  (`PendingInOrder`). The only consumer takes the first place
  of the first block (`SoleReader`).
* `PeekStableHolds`. What was peeked is at the head until the next pop
  (`PeekedHead`), for nobody else moves `head`.

`AtomicQueueFifoProofs` proves the refinement. `LinearizableFifoHolds` says that
every step of `HistorySpec` that leaves the queue in its first block is a step of
`FifoQueue` or changes nothing that it sees, for any number of producers, for any number
of readers that only pop, and for a single reader that also peeks (`QuietPeeks`), while
any of them ask for the length: growth loses elements (`aq_lost`)
and peek with a second reader is not linearizable (`aq_peek`), so that neither condition
can be dropped. The mapping
is shown step by step: `items` is what is published in the block, in order
(`ItemsInBlock`), each call in progress has seen the present front (`Windows`), one
about to answer that the queue is empty has seen it empty, and the head that a peek has
read is still the head, since only its own thread could move it (`Peeks`). A step of the
queue is then a step of the abstract one or changes nothing that it sees.

### The event bus

`EventBusProofs` proves every property of the run `bus` but `Drained`, for any number of
events, times and calls: `TypeCorrect`, `OneHomeHolds`, `NeverDanglingHolds`,
`NeverLeakedHolds`, `TimeoutAgreesHolds`, `RemindersFirstHolds`,
`ReminderNotEarlyHolds`, `MarketOrderHolds`, `TimeOrderedHolds`. It assumes that NULL
is not an event and that the times and bounds are numbers.

Two invariants carry them. `Inv` says that an event is in the one pipe that its flags
route it to or is the staged one, in one place only (`Piped`, `Apart`), that two pushed
events differ in their key (`Addresses`), and that the count of an event covers its
holders (`Covered`); the properties of single states follow. `OrderInv` says that ids are
given out in the order of pushes (`Numbered`), that the staged event precedes
all that are left of its pipe but those in `unseen` (`StagedEarly`), and, while the client
feeds in time order, that nothing that waits is earlier than what was returned
(`Timely`). The properties of steps follow from `Inv`, `OrderInv` and what a pop does:
`PopPipeMoves` and `PopMarketHolds` say where the returned event was, and
`ChosenIsFirst` that no pipe of a higher precedence was open.
`NeverLeaked` compares the count of an event with its holders before and
after each step (`SpareStays`). The lemmas on the first node of a queue, at the start
of the module, rest on the existence of a least node of a finite set.

### The red-black tree

`RBTreeProofs` proves about every tree, of any size and in any order `Less` that is
strict and total on its nodes:

* `InsertIs`, `RemoveIs`, `ClearIs`: what the operations do to the set of nodes, and that
  they keep `Good`;
* `FindIs`, `NFindIs`, `ExtremeIs`, `StepIs`: what the searches and the steps of an
  iteration answer.

`Good(T)` says that the tree is finite and that there are two functions that fit it: one
gives the nodes of every subtree (`Shape`: the pointers lead up and down consistently,
a node is not under itself, and what hangs on a side lies on that side in the order),
the other the black nodes on the ways down (`Heights`); and that no red node has a red
parent and the root is black (`RedUnder`). No definition is recursive: the functions
are named by an existential quantifier, and every operation is shown to change them
at a few nodes only. `RotateShape` says what a rotation does to the subtrees, and all
fix-ups rest on it.

The loops are proved by what a turn keeps. In RB_INSERT_COLOR one node may be
red under a red parent, and it has more nodes under it after every turn
(`Inserting`, `InsertTurn`); in RB_REMOVE_COLOR the ways through one side of one node
are one black node short, and that gap moves up (`HeightsShort`, `RemoveTurn`), after
the rotations of a black sibling and a red nephew (`BlackSiblingKeeps`,
`RedNephewKeeps`, `RaiseSiblingKeeps`); a search goes down into ever smaller
subtrees, and a climb up out of ever larger ones. As the size of a subtree bounds the
turns, the loop has ended when `Loop` is through. The removal of a node with two
children is a splice and a change of names: `Transplant` puts the successor in
the place of the node (`RenamedShape`, `RenamedHeights`), which leaves the order as it
was for the two are neighbours. A clear keeps the next node: the successor read
before a removal is the first node of what is left (`ClearingKeeps`).

`RBTreeSetProofs` has `TypeCorrect`, `RedBlackHolds`, `SearchHolds` and
`IterationHolds`, the four properties of the run `rbtree`, for any set of keys that `Less`
orders (`KeyAssumption`), from one invariant: the tree is good and its nodes are the
keys. `RedBlack` counts the black nodes of a path from below, which is what the height
of the root has on that of the last node (`BlackAbove`, `PathIs`). For `Iteration`
every key has a rank, the number of keys before it, and the walk meets the key of
rank *i* at its *i*-th step (`WalkRanks`); ranks from both sides add up to the
number of keys, so that one walk is the other backwards (`Ranks`).

### The event queue on its tree

`EventQueueTreeProofs` proves `TypeCorrect` and `RefinesQueueHolds`, for any events with integer
times, of which NULL is none nor a node of one (`QueueAssumption`), any number of pushes, and every call of the interface in any order. The
invariant `Kept` says that the tree is good and that its nodes bear different
numbers below the counter; so `event_node_compare` orders them, and also the new node of
a push and the node that `remove` searches for (`InOrder`). The theorems of
`RBTreeProofs` are used under this order; since they are about an instance of `RBTree` of
their own, the lemmas `SameInsert`, `SameRemove`, ... first say that its operators are those of
`EventQueueTree`. Each call is then a step of `EventQueueSpec`, one of the three departures of
`Departure`, or changes nothing that the specification sees. A node that a push makes or
remove looks for has a number that no node of the tree has (`NewIsNot`, `WantedIsNot`).
So `PushNeverDuplicate` says that no push ever answers `EDUPLICATE`, and
`RemoveFindsNothing` states the finding of `eq_remove` for every queue: no call of remove
ever finds an event.

### The dates

`CalendarProofs` proves all properties of the run `calendar`, for every set of walks,
seconds, microseconds and offsets within a day: `DayOfDateHolds`, `DateOfDayHolds`,
`RealDatesOnlyHolds`, `ParsedInstantHolds`, `RoundTripHolds`, `TmFieldsHolds`. The
assumptions are those of `Calendar`: a walk lies in the years 1 to 9999, times lie
within a day.

The invariant `DateInv` says that the date is one of the calendar and that its day
number is `yd_to_rdn` of its year and day of the year; that it holds at the start
of a walk is the count of leap years (`LeapCount`), and that it survives midnight is
twelve months and a leap day. `DateOfDay` is then pure arithmetic, in which day
*z* is day *n* of a year *Y* that starts in March (`MarchDate`): `CenturiesIs`
bounds the first division between two multiples of 3652425, `MarchYear` the second
between two multiples of 36525, and `MarchMonth` decides the
third for each month. Day 366, where the bounds would fail, exists only before a leap
day (`LeapEnd`). The rest follows by splitting seconds into hours and minutes
(`HourMinuteSecond`) and an offset into days (`MinusIs`). `TmFields` needs that
1970-01-01 is `EPOCH_DATE_TIME` (`EpochIs`).

### Induction

The provers cannot apply the induction theorems of the library, whose parameter is an
operator. Where a proof needs a least element it takes one: of the nonempty sets below
a finite one, ordered by strict inclusion, which the library shows to be well founded
(`LeastNat`, and the same for the nodes of a queue). `LeapCount` is an induction over the
years in this form. In `RBTreeProofs` an induction is over a set of numbers (`Induction`), and the
values of a loop are a function of the number of its turns that is shown to exist
(`Iterates`) and to solve the recursive definition (`Recursion`).

### Only model-checked

* Liveness: `CallsReturn`, `EventuallyEmptied`, `Drained`.
* The violations have no theorem, of course.

## 5. Not modelled

* The `LOW_MEM` variant of the atomic queue is compiled out. Weak memory is not
  modelled: `g_atomic_*` calls are sequentially consistent, and the plain slot
  accesses are ordered by the calls around them.
* Overflow of the `gint` positions after 2^31 pushes, and a block of more than
  2^31 slots, for which `clp2` does not end.
* Splay trees of `adt_tree.h`: third-party code that nothing instantiates.
* The system clock (`quant_datetime_os.c`) is one call for each platform.
* The payload of market events, and a client that changes the timestamp of an
  event while it is queued, against which a queue has no defence.
* A push to the bus that finds no memory: the queue's part is in
  `EventQueueTree`; a client that then drops its event is where it began.
* The layout of texts, the buffers they are written to, and the shape tests of
  `datetime_from_iso8601`: texts are their fields.
* A composition of the atomic queue with the bus: `quant_event_bus.h` includes the
  atomic queue's header, but no code connects the two.
* The event loop, the context and the managers that `src/doc/design.md` names
  have no code.

## 6. Plan

The order was: the atomic queue, whose errors are the hardest to see; then the
bus, the heart of the library; then what the bus rests on (queue, tree, the life
of an event); then dates. What has code is modelled, and the safety of what is
modelled is proved. What would come next waits for code: the loop, the context
and the managers of `src/doc/design.md`.
