------------------------------ MODULE EventBus ------------------------------
(***************************************************************************)
(* quant_event_bus.c: six time-ordered pipes, the market event staged in     *)
(* saved_event, and the two ways of choosing the next event, one for a       *)
(* simulation driven by the market pipe and one for real time driven by the  *)
(* local clock.  The client pushes events, pops them, moves the clocks and   *)
(* switches the mode; it keeps references to events, copies them and gives   *)
(* the references back (quant_event.c), while the bus holds others.          *)
(***************************************************************************)
EXTENDS Event, EventQueue

CONSTANTS
  Templates,    \* the [type, flags, clock] of the events the client pushes
  Modes,        \* the modes the client sets, "simulator" or "realtime"
  MaxTime,      \* bound on timestamps and clocks
  MaxEvents,    \* bound on the events pushed
  MaxCalls,     \* bound on the weights of pushes (2), calls that take references (1)
                \* and moves of the exchange clock, which nothing reads (3)
  NULL

Pipes == {"market", "execution", "service", "command", "local", "exchange"}
Times == 0 .. MaxTime
Keys == 1 .. MaxEvents

ASSUME BusAssumption ==
  /\ MaxTime \in Nat /\ MaxEvents \in Nat /\ MaxCalls \in Nat
  /\ Modes \subseteq {"simulator", "realtime"}

Events ==
  {[type |-> p.type, flags |-> p.flags, clock |-> p.clock, time |-> t, key |-> k] :
     p \in Templates, t \in Times, k \in Keys}

ASSUME NoEventAssumption == NULL \notin Events

VARIABLES
  refcount,       \* bus->refcount
  references,     \* the references clients own, the creator's included
  freed,          \* quant_event_bus_free has run
  aborted,        \* g_log at G_LOG_LEVEL_ERROR has ended the process
  mode,           \* bus->mode
  pipe,           \* bus->queue
  saved,          \* bus->saved_event
  clock,          \* bus->clock_datetime[0]
  exchangeClock,  \* bus->clock_datetime[1]
  count,          \* e->refcount of the event with a key; 0 when it is freed
  owned,          \* the references to it that the client owns
  pushed,         \* the events pushed, which give the keys
  calls,          \* the weight of the calls that MaxCalls bounds
  delivered,      \* history: events returned by pop
  unseen,         \* history: market events pushed while an event is staged
  orderly         \* history: the client has kept to OrderlyPush in a simulation

busVars == <<refcount, references, freed, aborted>>
clockVars == <<clock, exchangeClock>>
eventVars == <<count, owned, pushed>>
vars == <<busVars, mode, pipe, saved, clockVars, eventVars, calls, delivered, unseen, orderly>>

-----------------------------------------------------------------------------
\* quant_event_bus_new: g_new0 leaves refcount, mode and clocks zero.
Init ==
  /\ refcount = 0
  /\ references = 1
  /\ freed = FALSE
  /\ aborted = FALSE
  /\ mode = "simulator"
  /\ pipe = [p \in Pipes |-> EmptyQueue]
  /\ saved = NULL
  /\ clock = 0
  /\ exchangeClock = 0
  /\ count = [k \in Keys |-> 0]
  /\ owned = [k \in Keys |-> 0]
  /\ pushed = {}
  /\ calls = 0
  /\ delivered = {}
  /\ unseen = {}
  /\ orderly = TRUE

\* The client may call: it owns a reference, the bus exists, and the process runs.
Callable == references > 0 /\ ~freed /\ ~aborted

\* A call of weight n within the bound.
Call(n) == calls + n <= MaxCalls /\ calls' = calls + n               \* bound

-----------------------------------------------------------------------------
\* event_type_to_pipe
PipeOf(e) ==
  IF IsMarket(e) THEN "market"
  ELSE IF IsExecution(e) THEN "execution"
  ELSE IF IsReminder(e) THEN (IF e.clock = "local" THEN "local" ELSE "exchange")
  ELSE IF IsService(e) THEN "service"
  ELSE "command"

\* Events that are delivered by their timestamp in a simulation.
IsTimed(e) == IsMarket(e) \/ PipeOf(e) = "local"

\* A feed in time order, and reminders set for the present or the future.
OrderlyPush(e) ==
  /\ IsMarket(e) => \A f \in pushed : IsMarket(f) => f.time <= e.time
  /\ PipeOf(e) = "local" => \A f \in delivered : IsTimed(f) => f.time <= e.time

NextKey == Cardinality(pushed) + 1

\* quant_event_bus_push of an event with refs references, one of which the caller
\* hands over to the bus, while it keeps others.
PushOwned(e, refs, kept) ==
  /\ Callable
  /\ e.key \in Keys                                           \* bound
  /\ pipe' = [pipe EXCEPT ![PipeOf(e)] = Push(@, e)]
  /\ pushed' = pushed \cup {e}
  /\ count' = [count EXCEPT ![e.key] = refs]
  /\ owned' = [owned EXCEPT ![e.key] = kept]
  /\ unseen' = IF saved # NULL /\ IsMarket(e) THEN unseen \cup {e} ELSE unseen
  /\ orderly' = (orderly /\ OrderlyPush(e))
  /\ UNCHANGED <<busVars, mode, saved, clockVars, delivered>>

\* Variant: the bus takes a reference of its own.
CreatedCountOwn(kept) == 2 + kept

\* quant_event_malloc starts a count of 1; a client that keeps the event calls
\* quant_event_ref before it pushes, as the tests do.
CreatedCount(kept) == 1 + kept

PushEvent(p, t, kept) ==
  /\ Call(2 + kept)
  /\ PushOwned([type |-> p.type, flags |-> p.flags, clock |-> p.clock, time |-> t, key |-> NextKey],
               CreatedCount(kept), kept)

\* quant_event_copy of an event that the client owns, and a push of the copy.  The
\* bytes that are copied, the size of the class, include the count.
PushCopy(e) ==
  /\ owned[e.key] > 0 /\ e.type \in Creatable
  /\ Call(2)
  /\ PushOwned([e EXCEPT !.key = NextKey], count[e.key], 0)

-----------------------------------------------------------------------------
\* quant_event_bus_pop, first part: the earliest market event is staged when
\* none is.  staged is saved_event and market the pipe after this part.
Staging == saved = NULL /\ ~IsEmpty(pipe["market"])
StagedEvent == IF Staging THEN First(pipe["market"]) ELSE saved

\* Variant: the staged event is read but not taken from its pipe.
MarketKept == pipe["market"]

MarketLeft == IF Staging THEN Rest(pipe["market"]) ELSE pipe["market"]

\* In a simulation an event from the past is reported before it is staged.
OutOfOrder == mode = "simulator" /\ Staging /\ First(pipe["market"]).time < clock

\* Variants: a reminder is not due at its very time; the time is not looked at.
DueAfter(p, t) == ~IsEmpty(pipe[p]) /\ First(pipe[p]).time < t
DueAlways(p, t) == ~IsEmpty(pipe[p])

\* The first reminder of pipe p is due at time t.
Due(p, t) == ~IsEmpty(pipe[p]) /\ First(pipe[p]).time <= t

\* Variants: the command pipe is forgotten; in a simulation, too, local reminders
\* wait for the clock.
EligibleNoCommand(e) ==
  {p \in {"execution", "service"} : ~IsEmpty(pipe[p])}
  \cup {p \in {"local"} : IF mode = "simulator" THEN e # NULL /\ Due(p, e.time)
                                                ELSE Due(p, clock)}
  \cup {p \in {"exchange"} : e # NULL /\ IsTick(e) /\ Due(p, e.time)}

EligibleByClock(e) ==
  {p \in {"execution", "service", "command"} : ~IsEmpty(pipe[p])}
  \cup {p \in {"local"} : Due(p, clock)}
  \cup {p \in {"exchange"} : e # NULL /\ IsTick(e) /\ Due(p, e.time)}

\* The pipes that the chain of tests may take an event from.
Eligible(e) ==
  {p \in {"execution", "service", "command"} : ~IsEmpty(pipe[p])}
  \cup {p \in {"local"} : IF mode = "simulator" THEN e # NULL /\ Due(p, e.time)
                                                ELSE Due(p, clock)}
  \cup {p \in {"exchange"} : e # NULL /\ IsTick(e) /\ Due(p, e.time)}

\* The order of the tests.
Precedence ==
  IF mode = "simulator"
  THEN <<"execution", "local", "exchange", "service", "command">>
  ELSE <<"local", "exchange", "execution", "service", "command">>

Chosen(e) ==
  LET open == Eligible(e)
  IN Precedence[CHOOSE i \in 1 .. 5 :
       Precedence[i] \in open /\ \A j \in 1 .. i - 1 : Precedence[j] \notin open]

\* Variant: the bus gives up a reference when it returns the event.
HandOverReleased(e) ==
  /\ delivered' = delivered \cup {e}
  /\ owned' = [owned EXCEPT ![e.key] = @ + 1]
  /\ count' = [count EXCEPT ![e.key] = @ - 1]

\* The event is returned, and the reference that the bus held with it.
HandOver(e) ==
  /\ delivered' = delivered \cup {e}
  /\ owned' = [owned EXCEPT ![e.key] = @ + 1]
  /\ UNCHANGED count

\* An event of another pipe goes first: the staged event stays in saved_event.
PopPipe ==
  /\ Callable /\ ~OutOfOrder
  /\ Eligible(StagedEvent) # {}
  /\ LET p == Chosen(StagedEvent)
     IN /\ HandOver(First(pipe[p]))
        /\ pipe' = [pipe EXCEPT !["market"] = MarketLeft, ![p] = Rest(@)]
  /\ saved' = StagedEvent
  /\ UNCHANGED <<busVars, mode, clockVars, pushed, calls, unseen, orderly>>

\* Nothing goes before the staged market event.
PopMarket ==
  /\ Callable /\ ~OutOfOrder
  /\ Eligible(StagedEvent) = {}
  /\ StagedEvent # NULL
  /\ HandOver(StagedEvent)
  /\ pipe' = [pipe EXCEPT !["market"] = MarketLeft]
  /\ saved' = NULL
  /\ unseen' = {}
  /\ UNCHANGED <<busVars, mode, clockVars, pushed, calls, orderly>>

\* pop returns NULL.
PopNothing ==
  /\ Callable /\ ~OutOfOrder
  /\ Eligible(StagedEvent) = {}
  /\ StagedEvent = NULL
  /\ UNCHANGED vars

\* LOG_OUT_OF_ORDER: g_log ends the process at this level, so that neither the
\* jump back nor the early return after it is reached.
PopOutOfOrder ==
  /\ Callable /\ OutOfOrder
  /\ aborted' = TRUE
  /\ UNCHANGED <<refcount, references, freed, mode, pipe, saved, clockVars, eventVars,
                 calls, delivered, unseen, orderly>>

-----------------------------------------------------------------------------
\* quant_event_bus_set_mode
SetMode(m) ==
  /\ Callable
  /\ mode' = m
  /\ orderly' = (orderly /\ m = "simulator")
  /\ UNCHANGED <<busVars, pipe, saved, clockVars, eventVars, calls, delivered, unseen>>

\* quant_event_bus_set_datetime and quant_event_bus_set_exchange_datetime
SetDatetime(t) ==
  /\ Callable
  /\ IF t < clock THEN aborted' = TRUE /\ UNCHANGED clock
                  ELSE clock' = t /\ UNCHANGED aborted
  /\ UNCHANGED <<refcount, references, freed, mode, pipe, saved, exchangeClock, eventVars,
                 calls, delivered, unseen, orderly>>

SetExchangeDatetime(t) ==
  /\ Callable
  /\ Call(3)
  /\ IF t < exchangeClock THEN aborted' = TRUE /\ UNCHANGED exchangeClock
                          ELSE exchangeClock' = t /\ UNCHANGED aborted
  /\ UNCHANGED <<refcount, references, freed, mode, pipe, saved, clock, eventVars,
                 delivered, unseen, orderly>>

\* quant_event_bus_ref
Ref ==
  /\ Callable
  /\ Call(1)
  /\ refcount' = refcount + 1
  /\ references' = references + 1
  /\ UNCHANGED <<freed, aborted, mode, pipe, saved, clockVars, eventVars,
                 delivered, unseen, orderly>>

\* quant_event_bus_free: the pipes go with their nodes, and only saved_event is
\* unreferenced.
FreeBus ==
  /\ freed' = TRUE
  /\ pipe' = [p \in Pipes |-> EmptyQueue]
  /\ count' = IF saved = NULL THEN count ELSE [count EXCEPT ![saved.key] = @ - 1]
  /\ saved' = NULL

\* quant_event_bus_unref
Unref ==
  /\ Callable
  /\ refcount' = refcount - 1
  /\ references' = references - 1
  /\ IF refcount = 1 THEN FreeBus ELSE UNCHANGED <<freed, pipe, count, saved>>
  /\ UNCHANGED <<aborted, mode, clockVars, owned, pushed, calls, delivered, unseen, orderly>>

\* quant_event_ref and quant_event_unref, by a client that owns a reference; the
\* event is freed when its count reaches zero.
RefEvent(e) ==
  /\ ~aborted /\ owned[e.key] > 0
  /\ Call(1)
  /\ count' = [count EXCEPT ![e.key] = @ + 1]
  /\ owned' = [owned EXCEPT ![e.key] = @ + 1]
  /\ UNCHANGED <<busVars, mode, pipe, saved, clockVars, pushed, delivered, unseen, orderly>>

UnrefEvent(e) ==
  /\ ~aborted /\ owned[e.key] > 0
  /\ count' = [count EXCEPT ![e.key] = @ - 1]
  /\ owned' = [owned EXCEPT ![e.key] = @ - 1]
  /\ UNCHANGED <<busVars, mode, pipe, saved, clockVars, pushed, calls, delivered, unseen, orderly>>

\* Variant: the exchange reminders are looked at.
NextTimeoutExchange(now) ==
  IF IsEmpty(pipe["exchange"]) THEN 0 ELSE First(pipe["exchange"]).time - now

\* quant_event_bus_next_timeout when datetime_now answers now.
NextTimeout(now) ==
  IF IsEmpty(pipe["local"]) THEN 0 ELSE First(pipe["local"]).time - now

-----------------------------------------------------------------------------
Pop == PopPipe \/ PopMarket \/ PopNothing \/ PopOutOfOrder

\* The bus or the process is gone, or the last reference has been given back.
Done == ~Callable /\ UNCHANGED vars

Next ==
  \/ \E p \in Templates, t \in Times, kept \in 0 .. 1 : PushEvent(p, t, kept)
  \/ \E e \in pushed : PushCopy(e) \/ RefEvent(e) \/ UnrefEvent(e)
  \/ Pop
  \/ \E m \in Modes : SetMode(m)
  \/ \E t \in Times : SetDatetime(t) \/ SetExchangeDatetime(t)
  \/ Ref \/ Unref
  \/ Done

Spec == Init /\ [][Next]_vars

\* The event loop keeps popping.
FairSpec == Spec /\ WF_vars(PopPipe \/ PopMarket \/ PopOutOfOrder)

-----------------------------------------------------------------------------
\* The fields have their types, and every pipe holds only events routed to it.
TypeOK ==
  /\ refcount \in -1 .. MaxCalls /\ references \in 0 .. MaxCalls + 1 /\ calls \in 0 .. MaxCalls
  /\ freed \in BOOLEAN /\ aborted \in BOOLEAN /\ orderly \in BOOLEAN
  /\ mode \in {"simulator", "realtime"}
  /\ \A p \in Pipes : \A n \in pipe[p].nodes :
       n.event \in Events /\ PipeOf(n.event) = p /\ n.id < pipe[p].counter
  /\ saved # NULL => saved \in Events /\ IsMarket(saved)
  /\ clock \in Times /\ exchangeClock \in Times
  /\ pushed \subseteq Events /\ count \in [Keys -> Nat] /\ owned \in [Keys -> Nat]
  /\ delivered \subseteq pushed /\ unseen \subseteq pushed

\* An event waits in the pipe that the flags declared for its type choose: a
\* reminder in the pipe of its clock, never among the market events.
RoutedAsDeclared ==
  \A p \in Pipes : \A e \in EventsOf(pipe[p]) :
    e.type \in DOMAIN DeclaredFlags => p = PipeOf([e EXCEPT !.flags = DeclaredFlags[e.type]])

\* The references to e that the bus holds.
InBus(e) ==
  (IF saved = e THEN 1 ELSE 0) + Cardinality({p \in Pipes : e \in EventsOf(pipe[p])})

\* An event pushed is in exactly one place, a pipe, saved_event or the events
\* returned, until the bus is freed: whatever the modes and the clocks do, none
\* is dropped and none is returned twice.
OneHome ==
  ~freed => \A e \in pushed : InBus(e) + (IF e \in delivered THEN 1 ELSE 0) = 1

\* Nothing that the bus holds or the client owns is freed, whichever of the two
\* gives its references back first and also when the bus goes: the count of an
\* event covers all of them.
NeverDangling == \A e \in pushed : InBus(e) + owned[e.key] <= count[e.key]

\* References counted that nobody holds, so that the event is never freed.
Lost(e) == count[e.key] - InBus(e) - owned[e.key]

\* Such references come from a copy of an event that had other references, and
\* from the end of the bus, and from nothing else.
NeverLeaked ==
  [][~freed' =>
       /\ \A e \in pushed : Lost(e)' = Lost(e)
       /\ \A e \in pushed' \ pushed : Lost(e)' > 0 =>
            \E f \in pushed : [f EXCEPT !.key = e.key] = e /\ Lost(e)' = count[f.key] - 1]_vars

Returned == delivered' \ delivered

\* A market event is not returned before a local reminder that is due: at its
\* own time in a simulation, at the bus clock in real time; nor a tick before an
\* exchange reminder due at its time.
RemindersFirst ==
  [][\A e \in Returned : IsMarket(e) =>
       /\ \A r \in EventsOf(pipe["local"]) :
            r.time > (IF mode = "simulator" THEN e.time ELSE clock)
       /\ IsTick(e) => \A r \in EventsOf(pipe["exchange"]) : r.time > e.time]_vars

\* A reminder is not returned early: in a simulation the market event that has
\* reached its time is still to come, in real time the clock has reached it.
ReminderNotEarly ==
  [][\A r \in Returned :
       /\ PipeOf(r) = "local" /\ mode = "simulator" => saved' # NULL /\ r.time <= saved'.time
       /\ PipeOf(r) = "local" /\ mode = "realtime" => r.time <= clock
       /\ PipeOf(r) = "exchange" => saved' # NULL /\ IsTick(saved') /\ r.time <= saved'.time]_vars

\* next_timeout and pop agree on when a reminder goes off in real time: of a client
\* that keeps the bus clock at the time datetime_now answers, pop returns a local
\* reminder exactly when one waits and the time left is zero or less, before the
\* events of all other pipes, and whatever was staged in a simulation before.
TimeoutAgrees ==
  [][mode = "realtime" => \A e \in Returned :
       PipeOf(e) = "local" <=> ~IsEmpty(pipe["local"]) /\ NextTimeout(clock) <= 0]_vars

\* Market events are returned by timestamp and, among equals, in the order
\* pushed; only one that was pushed while the returned event was already staged
\* may be earlier.
MarketOrder ==
  [][\A e \in Returned : IsMarket(e) =>
       \A f \in EventsOf(pipe'["market"]) :
         f \in unseen \/ e.time < f.time \/ (e.time = f.time /\ e.key < f.key)]_vars

\* In a simulation fed in time order, market events and local reminders come out
\* merged in time order, although one market event is staged ahead of the
\* reminders that the client sets meanwhile.
TimeOrdered ==
  [][orderly => \A e \in Returned : IsTimed(e) =>
       \A d \in delivered : IsTimed(d) => d.time <= e.time]_vars

\* A client that keeps popping gets every event that is not a reminder and, in
\* real time, every local reminder that the clock has reached (the number of
\* pushes is bounded, so that the higher pipes fall empty).
Drained ==
  []<>(\/ ~Callable
       \/ /\ \A e \in pushed : IsReminder(e) \/ e \in delivered
          /\ mode = "realtime" => ~Due("local", clock))
=============================================================================
