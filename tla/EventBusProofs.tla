--------------------------- MODULE EventBusProofs ---------------------------
(***************************************************************************)
(* Proofs about EventBus for all templates, modes and bounds: typing, that   *)
(* an event pushed is in exactly one place, that nothing held is freed, and   *)
(* the order in which pop returns events.                                    *)
(***************************************************************************)
EXTENDS EventBus, FiniteSetTheorems, TLAPS

-----------------------------------------------------------------------------
(* Queues as values: a queue whose timestamps are integers and whose nodes   *)
(* are numbered differently has a first node, which is before every other,   *)
(* and push and pop add and remove exactly one node.                         *)

\* What event_node_compare orders strictly: integer times and ids, no id twice.
Ordered(N) ==
  /\ \A n \in N : n.event.time \in Int /\ n.id \in Int
  /\ \A m, n \in N : m.id = n.id => m = n

\* n is before every other node of N.
IsFirstOf(n, N) == n \in N /\ \A m \in N \ {n} : Before(n, m)

\* The order of the nodes is total and transitive.
LEMMA BeforeOrder ==
  ASSUME NEW N, Ordered(N), NEW l \in N, NEW m \in N, NEW n \in N
  PROVE  /\ m # n => Before(m, n) \/ Before(n, m)
         /\ ~(Before(m, n) /\ Before(n, m))
         /\ Before(l, m) /\ Before(m, n) => Before(l, n)
  BY DEF Ordered, Before

\* Every finite set of nodes that is not empty has a first node: a least
\* counterexample among its subsets would have one as soon as it loses a node.
LEMMA FirstExists ==
  ASSUME NEW N, IsFiniteSet(N), N # {}, Ordered(N)
  PROVE  \E n \in N : IsFirstOf(n, N)
<1> DEFINE Bad == {S \in SUBSET N : S # {} /\ ~ \E n \in S : IsFirstOf(n, S)}
<1>1. SUFFICES ASSUME Bad # {} PROVE FALSE
  OBVIOUS
<1>2. Bad \subseteq FiniteSubsetsOf(N)
  BY FS_FiniteSubsetsOfFinite
<1>3. PICK S \in Bad : \A T \in Bad : <<T, S>> \notin StrictSubsetOrdering(N)
  <2>1. IsWellFoundedOn(StrictSubsetOrdering(N), FiniteSubsetsOf(N))
    BY FS_StrictSubsetOrderingWellFounded
  <2> HIDE DEF Bad
  <2>2. QED
    BY <1>1, <1>2, <2>1, WFMin, Zenon
<1>4. PICK x \in S : TRUE
  OBVIOUS
<1> DEFINE T == S \ {x}
<1>5. <<T, S>> \in StrictSubsetOrdering(N)
  BY <1>4 DEF StrictSubsetOrdering
<1>6. T \notin Bad
  BY <1>3, <1>5
<1>7. CASE T = {}
  <2>1. IsFirstOf(x, S)
    BY <1>4, <1>7 DEF IsFirstOf
  <2>2. QED
    BY <2>1, <1>4
<1>8. CASE T # {}
  <2>1. PICK n \in T : IsFirstOf(n, T)
    BY <1>6, <1>8
  <2>2. Before(x, n) \/ Before(n, x)
    BY <1>4, <2>1, BeforeOrder
  <2>3. CASE Before(n, x)
    BY <2>1, <2>3, <1>4 DEF IsFirstOf
  <2>4. CASE Before(x, n)
    <3>1. \A m \in T \ {n} : Before(x, m)
      <4>1. TAKE m \in T \ {n}
      <4>2. Before(n, m)
        BY <2>1 DEF IsFirstOf
      <4>3. QED
        BY <1>4, <2>1, <2>4, <4>2, BeforeOrder
    <3>2. IsFirstOf(x, S)
      BY <3>1, <2>4, <1>4 DEF IsFirstOf
    <3>3. QED
      BY <3>2, <1>4
  <2>5. QED
    BY <2>2, <2>3, <2>4
<1>9. QED
  BY <1>7, <1>8

-----------------------------------------------------------------------------
\* What the operations of a queue keep of its value: a record of finitely many
\* nodes that hold events of E, numbered below the counter, no event twice.
QueueOf(E, q) ==
  /\ q = [nodes |-> q.nodes, counter |-> q.counter] /\ q.counter \in Nat
  /\ IsFiniteSet(q.nodes) /\ Ordered(q.nodes)
  /\ \A n \in q.nodes :
       /\ n = Node(n.event, n.id) /\ n.event \in E
       /\ n.id \in Nat /\ n.id < q.counter
  /\ \A m, n \in q.nodes : m.event = n.event => m = n

\* RB_MIN of a queue that is not empty is its first node, and there is one only.
LEMMA FirstIsFirst ==
  ASSUME NEW E, NEW q, QueueOf(E, q), ~IsEmpty(q)
  PROVE  /\ IsFirstOf(FirstNode(q), q.nodes)
         /\ \A n : IsFirstOf(n, q.nodes) => n = FirstNode(q)
<1>1. \E n \in q.nodes : \A m \in q.nodes \ {n} : Before(n, m)
  BY FirstExists DEF QueueOf, IsEmpty, IsFirstOf
<1>2. IsFirstOf(FirstNode(q), q.nodes)
  BY <1>1 DEF FirstNode, IsFirstOf
<1>3. ASSUME NEW n, IsFirstOf(n, q.nodes), n # FirstNode(q)
      PROVE  FALSE
  <2>1. Before(n, FirstNode(q)) /\ Before(FirstNode(q), n)
    BY <1>2, <1>3 DEF IsFirstOf
  <2>2. QED
    BY <1>2, <1>3, <2>1, BeforeOrder DEF IsFirstOf, QueueOf
<1>4. QED
  BY <1>2, <1>3

\* The event that is peeked is in the queue; no other one has an earlier time.
LEMMA FirstIsEarliest ==
  ASSUME NEW E, NEW q, QueueOf(E, q), ~IsEmpty(q)
  PROVE  /\ First(q) \in EventsOf(q) /\ First(q) \in E
         /\ \A e \in EventsOf(q) : First(q).time <= e.time
<1>1. IsFirstOf(FirstNode(q), q.nodes)
  BY FirstIsFirst
<1>2. \A n \in q.nodes : FirstNode(q).event.time <= n.event.time
  BY <1>1 DEF IsFirstOf, Before, QueueOf, Ordered
<1>3. QED
  BY <1>1, <1>2 DEF First, EventsOf, IsFirstOf, QueueOf

LEMMA EmptyIsQueue ==
  ASSUME NEW E
  PROVE  QueueOf(E, EmptyQueue) /\ EventsOf(EmptyQueue) = {} /\ IsEmpty(EmptyQueue)
BY FS_EmptySet DEF QueueOf, EmptyQueue, EventsOf, IsEmpty, Ordered

\* A push of an event that is not there adds a node after all the others.
LEMMA PushIsQueue ==
  ASSUME NEW E, NEW q, QueueOf(E, q), NEW e \in E, e.time \in Int, e \notin EventsOf(q)
  PROVE  /\ QueueOf(E, Push(q, e))
         /\ EventsOf(Push(q, e)) = EventsOf(q) \cup {e}
<1>1. Push(q, e).nodes = q.nodes \cup {Node(e, q.counter)} /\ Push(q, e).counter = q.counter + 1
  BY DEF Push
<1>2. Node(e, q.counter).event = e /\ Node(e, q.counter).id = q.counter
  BY DEF Node
<1>3. IsFiniteSet(Push(q, e).nodes)
  BY <1>1, FS_AddElement DEF QueueOf
<1>4. Ordered(Push(q, e).nodes)
  BY <1>1, <1>2 DEF QueueOf, Ordered
<1>5. \A m, n \in Push(q, e).nodes : m.event = n.event => m = n
  BY <1>1, <1>2 DEF QueueOf, EventsOf
<1>6. \A n \in Push(q, e).nodes :
        n = Node(n.event, n.id) /\ n.event \in E /\ n.id \in Nat /\ n.id < Push(q, e).counter
  BY <1>1, <1>2 DEF QueueOf
<1>7. Push(q, e) = [nodes |-> Push(q, e).nodes, counter |-> Push(q, e).counter]
  BY DEF Push
<1>8. Push(q, e).counter \in Nat
  BY <1>1 DEF QueueOf
<1>9. EventsOf(Push(q, e)) = EventsOf(q) \cup {e}
  BY <1>1, <1>2 DEF EventsOf
<1>10. QED
  BY <1>3, <1>4, <1>5, <1>6, <1>7, <1>8, <1>9 DEF QueueOf

\* A pop takes the first event and nothing else.
LEMMA RestIsQueue ==
  ASSUME NEW E, NEW q, QueueOf(E, q), ~IsEmpty(q)
  PROVE  /\ QueueOf(E, Rest(q)) /\ Rest(q).nodes = q.nodes \ {FirstNode(q)}
         /\ EventsOf(Rest(q)) = EventsOf(q) \ {First(q)}
<1>1. Rest(q).nodes = q.nodes \ {FirstNode(q)} /\ Rest(q).counter = q.counter
  BY DEF Rest, QueueOf
<1>2. FirstNode(q) \in q.nodes
  BY FirstIsFirst DEF IsFirstOf
<1>3. IsFiniteSet(Rest(q).nodes)
  BY <1>1, FS_RemoveElement DEF QueueOf
<1>4. Rest(q) = [nodes |-> Rest(q).nodes, counter |-> Rest(q).counter]
  BY DEF Rest, QueueOf
<1>5. QueueOf(E, Rest(q))
  BY <1>1, <1>3, <1>4 DEF QueueOf, Ordered
<1>6. EventsOf(Rest(q)) = EventsOf(q) \ {First(q)}
  BY <1>1, <1>2 DEF EventsOf, First, QueueOf
<1>7. QED
  BY <1>1, <1>5, <1>6

-----------------------------------------------------------------------------
(* The inductive invariant. *)

\* The fields other than the pipes.  A reference on the bus is one the counter
\* has, and only Ref, which the bound charges, makes more of them.
Fields ==
  /\ refcount \in Int /\ references \in Nat /\ references = refcount + 1
  /\ calls \in 0 .. MaxCalls /\ refcount <= calls
  /\ freed \in BOOLEAN /\ aborted \in BOOLEAN /\ orderly \in BOOLEAN
  /\ mode \in {"simulator", "realtime"}
  /\ clock \in Times /\ exchangeClock \in Times
  /\ count \in [Keys -> Nat] /\ owned \in [Keys -> Nat]
  /\ delivered \subseteq pushed /\ unseen \subseteq pushed

\* The events pushed have the first addresses, each its own.
Addresses ==
  /\ pushed \subseteq Events /\ IsFiniteSet(pushed)
  /\ \A e \in pushed : e.key <= Cardinality(pushed)
  /\ \A e, f \in pushed : e.key = f.key => e = f

\* A pipe is a queue of events that were pushed and that it is the pipe of.
Piped ==
  /\ pipe = [p \in Pipes |-> pipe[p]]
  /\ \A p \in Pipes : QueueOf(Events, pipe[p])
  /\ \A p \in Pipes : \A e \in EventsOf(pipe[p]) : e \in pushed /\ PipeOf(e) = p

\* No event is in two places and, before the bus is freed, each is in one.
Apart ==
  /\ \A p \in Pipes : \A e \in EventsOf(pipe[p]) : e \notin delivered
  /\ saved # NULL =>
       /\ saved \in pushed /\ IsMarket(saved)
       /\ saved \notin delivered /\ saved \notin EventsOf(pipe["market"])
  /\ ~freed => \A e \in pushed :
       e = saved \/ e \in delivered \/ e \in EventsOf(pipe[PipeOf(e)])

\* The bus holds e: one reference then, as no event is in two places.
Holds(e) == e = saved \/ e \in EventsOf(pipe[PipeOf(e)])

\* The count of an event covers the references to it.
Covered ==
  \A e \in pushed : (IF Holds(e) THEN 1 ELSE 0) + owned[e.key] <= count[e.key]

Inv == Fields /\ Addresses /\ Piped /\ Apart /\ Covered

-----------------------------------------------------------------------------
\* What the definitions of events and pipes say of one event.
LEMMA EventFields ==
  ASSUME NEW e \in Events
  PROVE  /\ e.time \in Times /\ e.time \in Int /\ e.key \in Keys /\ e.key \in Int
         /\ e # NULL
  BY NoEventAssumption, BusAssumption DEF Events, Times, Keys

LEMMA PipeOfInPipes ==
  ASSUME NEW e
  PROVE  /\ PipeOf(e) \in Pipes
         /\ PipeOf(e) = "market" <=> IsMarket(e)
  BY DEF PipeOf, Pipes

\* The event that a push makes, and the copy of an event.
LEMMA NewEvent ==
  ASSUME NEW p \in Templates, NEW t \in Times, NEW k \in Keys
  PROVE  [type |-> p.type, flags |-> p.flags, clock |-> p.clock, time |-> t, key |-> k] \in Events
  BY DEF Events

LEMMA CopiedEvent ==
  ASSUME NEW e \in Events, NEW k \in Keys
  PROVE  [e EXCEPT !.key = k] \in Events /\ [e EXCEPT !.key = k].key = k
<1>1. PICK p \in Templates, t \in Times, l \in Keys :
        e = [type |-> p.type, flags |-> p.flags, clock |-> p.clock, time |-> t, key |-> l]
  BY DEF Events
<1>2. [e EXCEPT !.key = k] =
        [type |-> p.type, flags |-> p.flags, clock |-> p.clock, time |-> t, key |-> k]
  BY <1>1
<1>3. QED
  BY <1>2, NewEvent

LEMMA CopyHasKey ==
  ASSUME NEW e \in pushed, Inv, NextKey \in Keys
  PROVE  [e EXCEPT !.key = NextKey] \in Events /\ [e EXCEPT !.key = NextKey].key = NextKey
  BY CopiedEvent DEF Inv, Addresses

LEMMA InitInv == Init => Inv
<1> SUFFICES ASSUME Init PROVE Inv
  OBVIOUS
<1>1. Fields
  <2>1. /\ refcount \in Int /\ references \in Nat /\ references = refcount + 1
        /\ refcount <= calls
    BY DEF Init
  <2>2. calls \in 0 .. MaxCalls /\ clock \in Times /\ exchangeClock \in Times
    BY BusAssumption DEF Init, Times
  <2>3. count \in [Keys -> Nat] /\ owned \in [Keys -> Nat]
    BY DEF Init
  <2>4. freed \in BOOLEAN /\ aborted \in BOOLEAN /\ orderly \in BOOLEAN
    BY DEF Init
  <2>5. QED
    BY <2>1, <2>2, <2>3, <2>4 DEF Init, Fields
<1>2. Addresses
  BY FS_EmptySet DEF Init, Addresses
<1>3. Piped
  BY EmptyIsQueue DEF Init, Piped
<1>4. Apart
  BY EmptyIsQueue DEF Init, Apart
<1>5. Covered
  BY DEF Init, Covered
<1>6. QED
  BY <1>1, <1>2, <1>3, <1>4, <1>5 DEF Inv

-----------------------------------------------------------------------------
(* Pushes. *)

\* A push of an event with a new address puts it into its pipe, with the count and
\* the owned references given, and leaves every other event alone.
LEMMA PushMoves ==
  ASSUME Inv, NEW e \in Events, e.key = NextKey, NEW refs, NEW kept, PushOwned(e, refs, kept)
  PROVE  /\ e \notin pushed /\ \A f \in pushed : f.key # e.key
         /\ pipe' = [p \in Pipes |-> pipe'[p]] /\ pipe'[PipeOf(e)] = Push(pipe[PipeOf(e)], e)
         /\ \A p \in Pipes \ {PipeOf(e)} : pipe'[p] = pipe[p]
         /\ QueueOf(Events, pipe'[PipeOf(e)])
         /\ EventsOf(pipe'[PipeOf(e)]) = EventsOf(pipe[PipeOf(e)]) \cup {e}
         /\ count'[e.key] = refs /\ owned'[e.key] = kept
         /\ \A f \in pushed : count'[f.key] = count[f.key] /\ owned'[f.key] = owned[f.key]
         /\ Holds(e)' /\ \A f \in pushed : Holds(f)' <=> Holds(f)
<1> DEFINE q == PipeOf(e)
<1>1. e \notin pushed /\ \A f \in pushed : f.key # e.key
  BY FS_CardinalityType, EventFields DEF NextKey, Inv, Addresses
<1>2. q \in Pipes /\ q \in DOMAIN pipe
  BY PipeOfInPipes DEF Inv, Piped
<1>3. /\ QueueOf(Events, Push(pipe[q], e))
      /\ EventsOf(Push(pipe[q], e)) = EventsOf(pipe[q]) \cup {e}
  BY <1>1, <1>2, PushIsQueue, EventFields DEF Inv, Piped
<1>4. /\ pipe' = [p \in Pipes |-> pipe'[p]] /\ pipe'[q] = Push(pipe[q], e)
      /\ \A p \in Pipes \ {q} : pipe'[p] = pipe[p]
  BY <1>2 DEF PushOwned, Inv, Piped
<1>5. /\ count'[e.key] = refs /\ owned'[e.key] = kept
      /\ \A f \in pushed : count'[f.key] = count[f.key] /\ owned'[f.key] = owned[f.key]
  BY <1>1, EventFields DEF PushOwned, Inv, Fields, Addresses
<1>6. Holds(e)' /\ \A f \in pushed : Holds(f)' <=> Holds(f)
  BY <1>1, <1>3, <1>4, PipeOfInPipes DEF Holds, PushOwned
<1>7. QED
  BY <1>1, <1>3, <1>4, <1>5, <1>6

\* A push to which the client keeps fewer references than the event has.
LEMMA PushKeepsInv ==
  ASSUME Inv, NEW e \in Events, e.key = NextKey,
         NEW refs \in Nat, NEW kept \in Nat, kept + 1 <= refs,
         PushOwned(e, refs, kept), calls' \in 0 .. MaxCalls, calls <= calls'
  PROVE  Inv'
<1>1. /\ e \notin pushed /\ \A f \in pushed : f.key # e.key
      /\ pipe' = [p \in Pipes |-> pipe'[p]]
      /\ \A p \in Pipes \ {PipeOf(e)} : pipe'[p] = pipe[p]
      /\ QueueOf(Events, pipe'[PipeOf(e)])
      /\ EventsOf(pipe'[PipeOf(e)]) = EventsOf(pipe[PipeOf(e)]) \cup {e}
      /\ count'[e.key] = refs /\ owned'[e.key] = kept
      /\ \A f \in pushed : count'[f.key] = count[f.key] /\ owned'[f.key] = owned[f.key]
      /\ Holds(e)' /\ \A f \in pushed : Holds(f)' <=> Holds(f)
  BY PushMoves
<1>2. /\ pushed' = pushed \cup {e} /\ delivered' = delivered /\ saved' = saved
      /\ refcount' = refcount /\ references' = references /\ freed' = freed /\ aborted' = aborted
      /\ mode' = mode /\ clock' = clock /\ exchangeClock' = exchangeClock
  BY DEF PushOwned, busVars, clockVars
<1>3. Fields'
  <2>1. count' \in [Keys -> Nat] /\ owned' \in [Keys -> Nat]
    BY DEF Inv, Fields, PushOwned
  <2>2. delivered' \subseteq pushed' /\ unseen' \subseteq pushed'
    BY DEF Inv, Fields, PushOwned
  <2>3. orderly' \in BOOLEAN
    BY DEF PushOwned
  <2>4. calls \in Int /\ calls' \in Int
    BY BusAssumption DEF Inv, Fields
  <2>5. refcount' <= calls'
    BY <1>2, <2>4 DEF Inv, Fields
  <2>6. QED
    BY <1>2, <2>1, <2>2, <2>3, <2>5 DEF Inv, Fields
<1>4. Addresses'
  <2>1. IsFiniteSet(pushed') /\ Cardinality(pushed') = Cardinality(pushed) + 1
    BY <1>1, <1>2, FS_AddElement DEF Inv, Addresses
  <2>2. Cardinality(pushed) \in Nat /\ e.key = Cardinality(pushed) + 1
    BY FS_CardinalityType DEF Inv, Addresses, NextKey
  <2>3. \A f \in pushed' : f.key <= Cardinality(pushed')
    BY <1>2, <2>1, <2>2, EventFields DEF Inv, Addresses
  <2>4. \A f, g \in pushed' : f.key = g.key => f = g
    BY <1>1, <1>2 DEF Inv, Addresses
  <2>5. QED
    BY <1>2, <2>1, <2>3, <2>4 DEF Inv, Addresses
<1>5. Piped'
  BY <1>1, <1>2 DEF Inv, Piped
<1>6. Apart'
  <2>1. \A p \in Pipes : \A f \in EventsOf(pipe'[p]) : f \notin delivered
    BY <1>1 DEF Inv, Apart, Fields
  <2>2. saved # NULL => saved \notin EventsOf(pipe'["market"])
    BY <1>1 DEF Inv, Apart, Pipes
  <2>3. ~freed => \A f \in pushed : Holds(f) \/ f \in delivered
    BY DEF Inv, Apart, Holds
  <2>4. ~freed => \A f \in pushed' :
          f = saved \/ f \in delivered \/ f \in EventsOf(pipe'[PipeOf(f)])
    BY <1>1, <1>2, <2>3 DEF Holds
  <2>5. QED
    BY <1>2, <2>1, <2>2, <2>4 DEF Inv, Apart
<1>7. Covered'
  <2>1. SUFFICES ASSUME NEW f \in pushed'
                 PROVE  (IF Holds(f)' THEN 1 ELSE 0) + owned'[f.key] <= count'[f.key]
    BY DEF Covered
  <2>2. CASE f = e
    BY <1>1, <2>2
  <2>3. CASE f \in pushed
    BY <1>1, <2>3 DEF Inv, Covered
  <2>4. QED
    BY <1>2, <2>2, <2>3
<1>8. QED
  BY <1>3, <1>4, <1>5, <1>6, <1>7 DEF Inv

-----------------------------------------------------------------------------
(* Pops. *)

\* Staging moves the first market event from its pipe to saved_event, and
\* leaves everything else where it is.
LEMMA StagingMoves ==
  ASSUME Inv
  PROVE  /\ QueueOf(Events, MarketLeft)
         /\ EventsOf(MarketLeft) \subseteq EventsOf(pipe["market"])
         /\ StagedEvent # NULL =>
              /\ StagedEvent \in pushed /\ StagedEvent \notin delivered
              /\ IsMarket(StagedEvent) /\ StagedEvent \notin EventsOf(MarketLeft)
         /\ \A e \in pushed :
              e = StagedEvent \/ e \in EventsOf(MarketLeft)
                <=> e = saved \/ e \in EventsOf(pipe["market"])
         /\ StagedEvent = NULL => saved = NULL /\ MarketLeft = pipe["market"]
<1>1. "market" \in Pipes
  BY DEF Pipes
<1>2. CASE Staging
  <2>1. /\ QueueOf(Events, MarketLeft)
        /\ EventsOf(MarketLeft) = EventsOf(pipe["market"]) \ {StagedEvent}
    BY <1>1, <1>2, RestIsQueue DEF Staging, MarketLeft, StagedEvent, Inv, Piped
  <2>2. StagedEvent \in EventsOf(pipe["market"]) /\ StagedEvent \in Events
    BY <1>1, <1>2, FirstIsEarliest DEF Staging, StagedEvent, Inv, Piped
  <2>3. saved = NULL /\ \A e \in pushed : e # NULL
    BY <1>2, EventFields DEF Staging, Inv, Addresses
  <2>4. QED
    BY <1>1, <2>1, <2>2, <2>3, PipeOfInPipes, EventFields DEF Inv, Piped, Apart
<1>3. CASE ~Staging
  BY <1>1, <1>3 DEF MarketLeft, StagedEvent, Inv, Piped, Apart
<1>4. QED
  BY <1>2, <1>3

\* The chain of tests takes the event from the first pipe in its order that may
\* be taken from: one with an event, and never the market pipe.
LEMMA ChosenIsFirst ==
  ASSUME NEW e, Eligible(e) # {}
  PROVE  /\ Chosen(e) \in Eligible(e)
         /\ \E i \in 1 .. 5 :
              /\ Precedence[i] = Chosen(e)
              /\ \A j \in 1 .. i - 1 : Precedence[j] \notin Eligible(e)
<1> DEFINE open == Eligible(e)
           First5(i) == Precedence[i] \in open /\ \A j \in 1 .. i - 1 : Precedence[j] \notin open
<1>1. open \subseteq {"execution", "local", "exchange", "service", "command"}
  BY DEF Eligible
<1>2. open \subseteq {Precedence[1], Precedence[2], Precedence[3], Precedence[4], Precedence[5]}
  BY <1>1 DEF Precedence
<1>3. \E i \in 1 .. 5 : First5(i)
  <2> HIDE DEF open
  <2>1. CASE Precedence[1] \in open
    BY <2>1
  <2>2. CASE Precedence[1] \notin open /\ Precedence[2] \in open
    <3>1. First5(2)
      BY <2>2
    <3>2. QED
      BY <3>1
  <2>3. CASE Precedence[1] \notin open /\ Precedence[2] \notin open /\ Precedence[3] \in open
    <3>1. First5(3)
      <4>1. \A j \in 1 .. 2 : j = 1 \/ j = 2
        OBVIOUS
      <4>2. QED
        BY <2>3, <4>1
    <3>2. QED
      BY <3>1
  <2>4. CASE /\ Precedence[1] \notin open /\ Precedence[2] \notin open
             /\ Precedence[3] \notin open /\ Precedence[4] \in open
    <3>1. First5(4)
      <4>1. \A j \in 1 .. 3 : j = 1 \/ j = 2 \/ j = 3
        OBVIOUS
      <4>2. QED
        BY <2>4, <4>1
    <3>2. QED
      BY <3>1
  <2>5. CASE /\ Precedence[1] \notin open /\ Precedence[2] \notin open
             /\ Precedence[3] \notin open /\ Precedence[4] \notin open
    <3>1. First5(5)
      <4>1. \A j \in 1 .. 4 : j = 1 \/ j = 2 \/ j = 3 \/ j = 4
        OBVIOUS
      <4>2. Precedence[5] \in open
        BY <1>2, <2>5 DEF open
      <4>3. QED
        BY <2>5, <4>1, <4>2
    <3>2. QED
      BY <3>1
  <2>6. QED
    BY <2>1, <2>2, <2>3, <2>4, <2>5
<1>4. PICK i \in 1 .. 5 : First5(i) /\ Chosen(e) = Precedence[i]
  <2>1. Chosen(e) = Precedence[CHOOSE i \in 1 .. 5 : First5(i)]
    BY DEF Chosen
  <2>2. First5(CHOOSE i \in 1 .. 5 : First5(i)) /\ (CHOOSE i \in 1 .. 5 : First5(i)) \in 1 .. 5
    <3> HIDE DEF First5
    <3>1. QED
      BY <1>3
  <2>3. QED
    BY <2>1, <2>2
<1>5. QED
  BY <1>4

LEMMA EligibleIsWaiting ==
  ASSUME NEW e, NEW p \in Eligible(e)
  PROVE  p \in Pipes \ {"market"} /\ ~IsEmpty(pipe[p])
  BY DEF Eligible, Due, Pipes

\* What an event returned from a pipe leaves: the events of every other pipe are
\* those after staging, and its own pipe loses it.
LEMMA PopPipeMoves ==
  ASSUME Inv, PopPipe
  PROVE  \E p \in Pipes \ {"market"} :
           /\ p = Chosen(StagedEvent) /\ p \in Eligible(StagedEvent)
           /\ pipe' = [r \in Pipes |-> pipe'[r]]
           /\ pipe'["market"] = MarketLeft /\ pipe'[p] = Rest(pipe[p])
           /\ \A r \in Pipes \ {"market", p} : pipe'[r] = pipe[r]
           /\ QueueOf(Events, Rest(pipe[p]))
           /\ EventsOf(Rest(pipe[p])) = EventsOf(pipe[p]) \ {First(pipe[p])}
           /\ First(pipe[p]) \in EventsOf(pipe[p])
           /\ HandOver(First(pipe[p])) /\ saved' = StagedEvent
<1> DEFINE p == Chosen(StagedEvent)
<1>1. p \in Eligible(StagedEvent)
  BY ChosenIsFirst DEF PopPipe
<1>2. p \in Pipes \ {"market"} /\ ~IsEmpty(pipe[p])
  BY <1>1, EligibleIsWaiting
<1>3. /\ HandOver(First(pipe[p])) /\ saved' = StagedEvent
      /\ pipe' = [pipe EXCEPT !["market"] = MarketLeft, ![p] = Rest(@)]
  BY DEF PopPipe
<1> HIDE DEF p
<1>4. /\ pipe' = [r \in Pipes |-> pipe'[r]]
      /\ pipe'["market"] = MarketLeft /\ pipe'[p] = Rest(pipe[p])
      /\ \A r \in Pipes \ {"market", p} : pipe'[r] = pipe[r]
  BY <1>2, <1>3 DEF Inv, Piped, Pipes
<1>5. /\ QueueOf(Events, Rest(pipe[p]))
      /\ EventsOf(Rest(pipe[p])) = EventsOf(pipe[p]) \ {First(pipe[p])}
  BY <1>2, RestIsQueue DEF Inv, Piped
<1>6. First(pipe[p]) \in EventsOf(pipe[p])
  BY <1>2, FirstIsEarliest DEF Inv, Piped
<1>7. p = Chosen(StagedEvent)
  BY DEF p
<1>8. QED
  BY <1>1, <1>2, <1>3, <1>4, <1>5, <1>6, <1>7

\* The bus no longer holds the event that pop returns, and holds every other event
\* that it held: in two lemmas, for an event of a pipe and for the staged one.
LEMMA PopPipeHolds ==
  ASSUME Inv, PopPipe
  PROVE  \E e \in pushed :
           /\ HandOver(e) /\ e \notin delivered /\ Holds(e) /\ ~Holds(e)'
           /\ \A f \in pushed \ {e} : Holds(f)' <=> Holds(f)
<1>1. PICK p \in Pipes \ {"market"} :
        /\ pipe'["market"] = MarketLeft /\ pipe'[p] = Rest(pipe[p])
        /\ \A r \in Pipes \ {"market", p} : pipe'[r] = pipe[r]
        /\ EventsOf(Rest(pipe[p])) = EventsOf(pipe[p]) \ {First(pipe[p])}
        /\ First(pipe[p]) \in EventsOf(pipe[p])
        /\ HandOver(First(pipe[p])) /\ saved' = StagedEvent
  BY PopPipeMoves
<1>2. PICK e : e = First(pipe[p])
  OBVIOUS
<1>3. /\ e \in pushed /\ PipeOf(e) = p /\ ~IsMarket(e) /\ e \in EventsOf(pipe[p])
      /\ e \notin delivered /\ e \notin EventsOf(pipe'[p])
  BY <1>1, <1>2, PipeOfInPipes DEF Inv, Piped, Apart
<1>4. /\ StagedEvent # NULL => StagedEvent \in pushed /\ IsMarket(StagedEvent)
      /\ \A f \in pushed :
           f = StagedEvent \/ f \in EventsOf(MarketLeft)
             <=> f = saved \/ f \in EventsOf(pipe["market"])
  BY StagingMoves
<1>5. \A f \in pushed \ {e} : Holds(f)' <=> Holds(f)
  <2>1. TAKE f \in pushed \ {e}
  <2>2. CASE IsMarket(f)
    BY <1>1, <1>4, <2>2, PipeOfInPipes DEF Holds
  <2>3. CASE ~IsMarket(f)
    <3>1. PipeOf(f) \in Pipes \ {"market"} /\ f # saved /\ f # saved'
      BY <2>3, <1>1, <1>4, PipeOfInPipes, EventFields DEF Inv, Addresses, Apart
    <3>2. QED
      BY <3>1, <1>1, <1>2 DEF Holds
  <2>4. QED
    BY <2>2, <2>3
<1>6. Holds(e) /\ ~Holds(e)'
  <2>1. e # saved'
    BY <1>1, <1>3, <1>4, EventFields DEF Inv, Addresses
  <2>2. QED
    BY <2>1, <1>3 DEF Holds
<1>7. QED
  BY <1>1, <1>2, <1>3, <1>5, <1>6

LEMMA PopMarketHolds ==
  ASSUME Inv, PopMarket
  PROVE  \E e \in pushed :
           /\ HandOver(e) /\ e \notin delivered /\ Holds(e) /\ ~Holds(e)'
           /\ \A f \in pushed \ {e} : Holds(f)' <=> Holds(f)
<1>1. PICK e : e = StagedEvent
  OBVIOUS
<1>2. /\ e \in pushed /\ e \notin delivered /\ IsMarket(e) /\ e \notin EventsOf(MarketLeft)
      /\ \A f \in pushed :
           f = e \/ f \in EventsOf(MarketLeft) <=> f = saved \/ f \in EventsOf(pipe["market"])
  BY <1>1, StagingMoves DEF PopMarket
<1>3. /\ saved' = NULL /\ pipe'["market"] = MarketLeft
      /\ \A r \in Pipes \ {"market"} : pipe'[r] = pipe[r]
  BY DEF PopMarket, Inv, Piped, Pipes
<1>4. e # NULL
  BY <1>2, EventFields DEF Inv, Addresses
<1>5. \A f \in pushed \ {e} : Holds(f)' <=> Holds(f)
  BY <1>2, <1>3, PipeOfInPipes, EventFields DEF Holds, Inv, Addresses, Apart
<1>6. Holds(e) /\ ~Holds(e)'
  BY <1>2, <1>3, <1>4, PipeOfInPipes DEF Holds
<1>7. QED
  BY <1>1, <1>2, <1>5, <1>6 DEF PopMarket

\* The reference that the bus held is the one that the client owns now.
LEMMA HandOverCovers ==
  ASSUME Inv, NEW e \in pushed, HandOver(e), Holds(e), ~Holds(e)', pushed' = pushed,
         \A f \in pushed \ {e} : Holds(f)' <=> Holds(f)
  PROVE  /\ owned' \in [Keys -> Nat] /\ Covered'
         /\ owned'[e.key] = owned[e.key] + 1
         /\ \A f \in pushed \ {e} : owned'[f.key] = owned[f.key]
<1>1. \A f \in pushed : f.key \in Keys
  BY EventFields DEF Inv, Addresses
<1>2. /\ count' = count /\ owned' = [owned EXCEPT ![e.key] = @ + 1]
      /\ owned' \in [Keys -> Nat] /\ owned'[e.key] = owned[e.key] + 1
  BY <1>1 DEF HandOver, Inv, Fields
<1>3. \A f \in pushed \ {e} : owned'[f.key] = owned[f.key]
  BY <1>1, <1>2 DEF Inv, Fields, Addresses
<1>4. SUFFICES ASSUME NEW f \in pushed
               PROVE  (IF Holds(f)' THEN 1 ELSE 0) + owned'[f.key] <= count'[f.key]
  BY <1>2, <1>3 DEF Covered
<1>5. (IF Holds(f) THEN 1 ELSE 0) + owned[f.key] <= count[f.key]
  BY DEF Inv, Covered
<1>6. CASE f = e
  BY <1>1, <1>2, <1>5, <1>6 DEF Inv, Fields
<1>7. CASE f # e
  BY <1>2, <1>3, <1>5, <1>7
<1>8. QED
  BY <1>6, <1>7

LEMMA PopPipeKeepsInv ==
  ASSUME Inv, PopPipe
  PROVE  Inv'
<1>1. PICK p \in Pipes \ {"market"} :
        /\ pipe' = [r \in Pipes |-> pipe'[r]]
        /\ pipe'["market"] = MarketLeft /\ pipe'[p] = Rest(pipe[p])
        /\ \A r \in Pipes \ {"market", p} : pipe'[r] = pipe[r]
        /\ QueueOf(Events, Rest(pipe[p]))
        /\ EventsOf(Rest(pipe[p])) = EventsOf(pipe[p]) \ {First(pipe[p])}
        /\ saved' = StagedEvent
  BY PopPipeMoves
<1>2. PICK e \in pushed :
        /\ HandOver(e) /\ e \notin delivered /\ Holds(e) /\ ~Holds(e)'
        /\ \A f \in pushed \ {e} : Holds(f)' <=> Holds(f)
  BY PopPipeHolds
<1>3. /\ QueueOf(Events, MarketLeft)
      /\ EventsOf(MarketLeft) \subseteq EventsOf(pipe["market"])
      /\ StagedEvent # NULL =>
           /\ StagedEvent \in pushed /\ StagedEvent \notin delivered
           /\ IsMarket(StagedEvent) /\ StagedEvent \notin EventsOf(MarketLeft)
  BY StagingMoves
<1>4. /\ delivered' = delivered \cup {e} /\ count' = count /\ pushed' = pushed
      /\ references' = references /\ refcount' = refcount /\ calls' = calls /\ freed' = freed
      /\ aborted' = aborted /\ orderly' = orderly /\ mode' = mode /\ unseen' = unseen
      /\ clock' = clock /\ exchangeClock' = exchangeClock
  BY <1>2 DEF PopPipe, HandOver, busVars, clockVars
<1>5. \A r \in Pipes : EventsOf(pipe'[r]) \subseteq EventsOf(pipe[r])
  BY <1>1, <1>3
<1>6. owned' \in [Keys -> Nat] /\ Covered'
  BY <1>2, <1>4, HandOverCovers
<1>7. Fields'
  BY <1>2, <1>4, <1>6 DEF Inv, Fields
<1>8. Addresses'
  BY <1>4 DEF Inv, Addresses
<1>9. Piped'
  <2>1. \A r \in Pipes : QueueOf(Events, pipe'[r])
    BY <1>1, <1>3 DEF Inv, Piped
  <2>2. QED
    BY <1>1, <1>4, <1>5, <2>1 DEF Inv, Piped
<1>10. Apart'
  <2>1. \A r \in Pipes : \A f \in EventsOf(pipe'[r]) : f \notin delivered'
    <3>1. TAKE r \in Pipes
    <3>2. TAKE f \in EventsOf(pipe'[r])
    <3>3. f \in EventsOf(pipe[r])
      BY <1>5
    <3>4. Holds(f)'
      BY <3>3 DEF Inv, Piped, Holds
    <3>5. QED
      BY <1>2, <1>4, <3>3, <3>4 DEF Inv, Apart
  <2>2. saved' # NULL =>
          /\ saved' \in pushed' /\ IsMarket(saved')
          /\ saved' \notin delivered' /\ saved' \notin EventsOf(pipe'["market"])
    <3>1. saved' # e
      BY <1>2 DEF Holds
    <3>2. QED
      BY <1>1, <1>3, <1>4, <3>1
  <2>3. ~freed => \A f \in pushed : Holds(f) \/ f \in delivered
    BY DEF Inv, Apart, Holds
  <2>4. ~freed' => \A f \in pushed' :
          f = saved' \/ f \in delivered' \/ f \in EventsOf(pipe'[PipeOf(f)])
    BY <1>2, <1>4, <2>3 DEF Holds
  <2>5. QED
    BY <2>1, <2>2, <2>4 DEF Apart
<1>11. QED
  BY <1>6, <1>7, <1>8, <1>9, <1>10 DEF Inv

LEMMA PopMarketKeepsInv ==
  ASSUME Inv, PopMarket
  PROVE  Inv'
<1>1. PICK e \in pushed :
        /\ HandOver(e) /\ e \notin delivered /\ Holds(e) /\ ~Holds(e)'
        /\ \A f \in pushed \ {e} : Holds(f)' <=> Holds(f)
  BY PopMarketHolds
<1>2. /\ QueueOf(Events, MarketLeft)
      /\ EventsOf(MarketLeft) \subseteq EventsOf(pipe["market"])
  BY StagingMoves
<1>3. /\ saved' = NULL /\ pushed' = pushed /\ delivered' = delivered \cup {e} /\ count' = count
      /\ references' = references /\ refcount' = refcount /\ calls' = calls /\ freed' = freed
      /\ aborted' = aborted /\ orderly' = orderly /\ mode' = mode /\ unseen' = {}
      /\ clock' = clock /\ exchangeClock' = exchangeClock
  BY <1>1 DEF PopMarket, HandOver, busVars, clockVars
<1>4. /\ "market" \in Pipes /\ pipe' = [r \in Pipes |-> pipe'[r]]
      /\ pipe'["market"] = MarketLeft
      /\ \A r \in Pipes \ {"market"} : pipe'[r] = pipe[r]
  BY DEF PopMarket, Inv, Piped, Pipes
<1>5. owned' \in [Keys -> Nat] /\ Covered'
  BY <1>1, <1>3, HandOverCovers
<1>6. Fields'
  BY <1>1, <1>3, <1>5 DEF Inv, Fields
<1>7. Addresses'
  BY <1>3 DEF Inv, Addresses
<1>8. Piped'
  BY <1>2, <1>3, <1>4 DEF Inv, Piped
<1>9. Apart'
  <2>1. \A r \in Pipes : \A f \in EventsOf(pipe'[r]) : f \notin delivered'
    <3>1. TAKE r \in Pipes
    <3>2. TAKE f \in EventsOf(pipe'[r])
    <3>3. f \in EventsOf(pipe[r])
      BY <1>2, <1>4
    <3>4. Holds(f)'
      BY <3>3 DEF Inv, Piped, Holds
    <3>5. QED
      BY <1>1, <1>3, <3>3, <3>4 DEF Inv, Apart
  <2>2. ~freed => \A f \in pushed : Holds(f) \/ f \in delivered
    BY DEF Inv, Apart, Holds
  <2>3. ~freed' => \A f \in pushed' :
          f = saved' \/ f \in delivered' \/ f \in EventsOf(pipe'[PipeOf(f)])
    BY <1>1, <1>3, <2>2 DEF Holds
  <2>4. QED
    BY <1>3, <2>1, <2>3 DEF Apart
<1>10. QED
  BY <1>5, <1>6, <1>7, <1>8, <1>9 DEF Inv

-----------------------------------------------------------------------------
(* The other calls. *)

LEMMA UnrefKeepsInv ==
  ASSUME Inv, Unref
  PROVE  Inv'
<1>1. /\ pushed' = pushed /\ delivered' = delivered /\ unseen' = unseen /\ owned' = owned
      /\ references' = references - 1 /\ refcount' = refcount - 1 /\ calls' = calls
      /\ aborted' = aborted /\ orderly' = orderly /\ mode' = mode
      /\ clock' = clock /\ exchangeClock' = exchangeClock /\ references > 0
  BY DEF Unref, Callable, clockVars
<1>2. CASE refcount = 1
  <2>1. /\ freed' = TRUE /\ saved' = NULL /\ pipe' = [p \in Pipes |-> EmptyQueue]
        /\ count' = IF saved = NULL THEN count ELSE [count EXCEPT ![saved.key] = @ - 1]
    BY <1>2 DEF Unref, FreeBus
  <2>2. saved # NULL => saved \in pushed /\ saved \in Events /\ saved.key \in Keys
    BY EventFields DEF Inv, Apart, Addresses
  <2>3. saved # NULL => Holds(saved)
    BY DEF Holds
  <2>4. saved # NULL => count[saved.key] - 1 \in Nat
    <3>1. SUFFICES ASSUME saved # NULL PROVE count[saved.key] - 1 \in Nat
      OBVIOUS
    <3>2. count[saved.key] \in Nat /\ owned[saved.key] \in Nat
      BY <2>2, <3>1 DEF Inv, Fields
    <3>3. 1 + owned[saved.key] <= count[saved.key]
      BY <2>2, <2>3, <3>1 DEF Inv, Covered
    <3>4. QED
      BY <3>2, <3>3
  <2>5. count' \in [Keys -> Nat]
    BY <2>1, <2>2, <2>4 DEF Inv, Fields
  <2>6. Fields'
    BY <1>1, <2>1, <2>5 DEF Inv, Fields
  <2>7. Addresses'
    BY <1>1 DEF Inv, Addresses
  <2>8. \A p \in Pipes : QueueOf(Events, pipe'[p]) /\ EventsOf(pipe'[p]) = {}
    BY <2>1, EmptyIsQueue
  <2>9. Piped' /\ Apart'
    BY <1>1, <2>1, <2>8 DEF Piped, Apart
  <2>10. Covered'
    <3>1. SUFFICES ASSUME NEW f \in pushed'
                   PROVE  (IF Holds(f)' THEN 1 ELSE 0) + owned'[f.key] <= count'[f.key]
      BY DEF Covered
    <3>2. f \in pushed /\ f.key \in Keys /\ f # NULL
      BY <1>1, EventFields DEF Inv, Addresses
    <3>3. ~Holds(f)'
      BY <2>1, <2>8, <3>2, PipeOfInPipes DEF Holds
    <3>4. (IF Holds(f) THEN 1 ELSE 0) + owned[f.key] <= count[f.key]
      BY <3>2 DEF Inv, Covered
    <3>5. CASE f = saved
      BY <1>1, <2>1, <2>3, <3>2, <3>3, <3>4, <3>5 DEF Inv, Fields
    <3>6. CASE f # saved
      <4>1. count'[f.key] = count[f.key]
        BY <2>1, <2>2, <3>2, <3>6 DEF Inv, Addresses, Fields
      <4>2. owned[f.key] <= count[f.key]
        BY <3>2, <3>4 DEF Inv, Fields
      <4>3. QED
        BY <1>1, <3>2, <3>3, <4>1, <4>2 DEF Inv, Fields
    <3>7. QED
      BY <3>5, <3>6
  <2>11. QED
    BY <2>6, <2>7, <2>9, <2>10 DEF Inv
<1>3. CASE refcount # 1
  <2>1. freed' = freed /\ pipe' = pipe /\ count' = count /\ saved' = saved
    BY <1>3 DEF Unref
  <2>2. Fields'
    BY <1>1, <2>1 DEF Inv, Fields
  <2>3. Addresses' /\ Piped' /\ Apart' /\ Covered'
    BY <1>1, <2>1 DEF Inv, Addresses, Piped, Apart, Covered, Holds
  <2>4. QED
    BY <2>2, <2>3 DEF Inv
<1>4. QED
  BY <1>2, <1>3

\* A call that changes references to one event in its count and in what the
\* client owns by the same number.
LEMMA ReferencesKeepInv ==
  ASSUME Inv, NEW e \in pushed, NEW d \in {-1, 1}, owned[e.key] > 0,
         count' = [count EXCEPT ![e.key] = @ + d],
         owned' = [owned EXCEPT ![e.key] = @ + d],
         calls' \in 0 .. MaxCalls, calls <= calls',
         UNCHANGED <<busVars, mode, pipe, saved, clockVars, pushed, delivered, unseen, orderly>>
  PROVE  Inv'
<1>1. e.key \in Keys
  BY EventFields DEF Inv, Addresses
<1>2. owned[e.key] <= count[e.key] /\ count[e.key] \in Nat /\ owned[e.key] \in Nat
  BY <1>1 DEF Inv, Covered, Fields
<1>3. count' \in [Keys -> Nat] /\ owned' \in [Keys -> Nat]
  BY <1>1, <1>2 DEF Inv, Fields
<1>4. Fields'
  <2>1. refcount' = refcount /\ calls \in Int /\ calls' \in Int
    BY BusAssumption DEF Inv, Fields, busVars
  <2>2. refcount' <= calls'
    BY <2>1 DEF Inv, Fields
  <2>3. QED
    BY <1>3, <2>2 DEF Inv, Fields, busVars, clockVars
<1>5. Addresses' /\ Piped' /\ Apart'
  BY DEF Inv, Addresses, Piped, Apart, busVars
<1>6. Covered'
  <2>1. SUFFICES ASSUME NEW f \in pushed'
                 PROVE  (IF Holds(f)' THEN 1 ELSE 0) + owned'[f.key] <= count'[f.key]
    BY DEF Covered
  <2>2. Holds(f)' <=> Holds(f)
    BY DEF Holds
  <2>3. f \in pushed /\ f.key \in Keys
    BY EventFields DEF Inv, Addresses
  <2>4. (IF Holds(f) THEN 1 ELSE 0) + owned[f.key] <= count[f.key]
    BY <2>3 DEF Inv, Covered
  <2>5. CASE f.key = e.key
    BY <1>1, <2>2, <2>3, <2>4, <2>5 DEF Inv, Fields
  <2>6. CASE f.key # e.key
    BY <1>1, <2>2, <2>3, <2>4, <2>6 DEF Inv, Fields
  <2>7. QED
    BY <2>5, <2>6
<1>7. QED
  BY <1>4, <1>5, <1>6 DEF Inv

LEMMA PushEventKeepsInv ==
  ASSUME Inv, NEW p \in Templates, NEW t \in Times, NEW kept \in 0 .. 1, PushEvent(p, t, kept)
  PROVE  Inv'
<1> DEFINE e == [type |-> p.type, flags |-> p.flags, clock |-> p.clock, time |-> t, key |-> NextKey]
<1>1. e.key = NextKey /\ e \in Events
  BY NewEvent DEF PushEvent, PushOwned
<1>2. calls' \in 0 .. MaxCalls /\ calls <= calls'
  BY BusAssumption DEF PushEvent, Call, Inv, Fields
<1>3. PushOwned(e, CreatedCount(kept), kept)
  BY DEF PushEvent
<1>4. CreatedCount(kept) \in Nat /\ kept + 1 <= CreatedCount(kept)
  BY DEF CreatedCount
<1> HIDE DEF e
<1>5. QED
  BY <1>1, <1>2, <1>3, <1>4, PushKeepsInv

LEMMA PushCopyKeepsInv ==
  ASSUME Inv, NEW f \in pushed, PushCopy(f)
  PROVE  Inv'
<1> DEFINE e == [f EXCEPT !.key = NextKey]
<1>1. e.key = NextKey /\ e \in Events
  BY CopyHasKey DEF PushCopy, PushOwned
<1>2. calls' \in 0 .. MaxCalls /\ calls <= calls'
  BY BusAssumption DEF PushCopy, Call, Inv, Fields
<1>3. PushOwned(e, count[f.key], 0)
  BY DEF PushCopy
<1>4. count[f.key] \in Nat /\ 0 + 1 <= count[f.key]
  <2>1. f.key \in Keys
    BY EventFields DEF Inv, Addresses
  <2>2. QED
    BY <2>1 DEF PushCopy, Inv, Fields, Covered
<1> HIDE DEF e
<1>5. QED
  BY <1>1, <1>2, <1>3, <1>4, PushKeepsInv

\* One case per action.
LEMMA NextKeepsInv == Inv /\ [Next]_vars => Inv'
<1> SUFFICES ASSUME Inv, [Next]_vars PROVE Inv'
  OBVIOUS
<1>1. ASSUME NEW p \in Templates, NEW t \in Times, NEW kept \in 0 .. 1, PushEvent(p, t, kept)
      PROVE  Inv'
  BY <1>1, PushEventKeepsInv
<1>2. ASSUME NEW e \in pushed, PushCopy(e)
      PROVE  Inv'
  BY <1>2, PushCopyKeepsInv
<1>3. ASSUME NEW e \in pushed, RefEvent(e)
      PROVE  Inv'
  <2>1. calls' \in 0 .. MaxCalls /\ calls <= calls'
    BY <1>3, BusAssumption DEF RefEvent, Call, Inv, Fields
  <2>2. QED
    BY <1>3, <2>1, ReferencesKeepInv DEF RefEvent
<1>4. ASSUME NEW e \in pushed, UnrefEvent(e)
      PROVE  Inv'
  <2>1. calls' \in 0 .. MaxCalls /\ calls <= calls'
    BY <1>4 DEF UnrefEvent, Inv, Fields
  <2>2. e.key \in Keys
    BY EventFields DEF Inv, Addresses
  <2>3. /\ count' = [count EXCEPT ![e.key] = @ + (-1)]
        /\ owned' = [owned EXCEPT ![e.key] = @ + (-1)]
    BY <1>4, <2>2 DEF UnrefEvent, Inv, Fields
  <2>4. QED
    BY <1>4, <2>1, <2>3, ReferencesKeepInv DEF UnrefEvent
<1>5. CASE PopPipe
  BY <1>5, PopPipeKeepsInv
<1>6. CASE PopMarket
  BY <1>6, PopMarketKeepsInv
<1>7. CASE PopOutOfOrder
  <2>1. Fields'
    BY <1>7 DEF PopOutOfOrder, Inv, Fields, clockVars, eventVars
  <2>2. Addresses' /\ Piped' /\ Apart' /\ Covered'
    BY <1>7 DEF PopOutOfOrder, Inv, Addresses, Piped, Apart, Covered, Holds, eventVars
  <2>3. QED
    BY <2>1, <2>2 DEF Inv
<1>8. ASSUME NEW m \in Modes, SetMode(m)
      PROVE  Inv'
  <2>1. Fields'
    BY <1>8, BusAssumption DEF SetMode, Inv, Fields, busVars, clockVars, eventVars
  <2>2. Addresses' /\ Piped' /\ Apart' /\ Covered'
    BY <1>8 DEF SetMode, Inv, Addresses, Piped, Apart, Covered, Holds, eventVars, busVars
  <2>3. QED
    BY <2>1, <2>2 DEF Inv
<1>9. ASSUME NEW t \in Times, SetDatetime(t)
      PROVE  Inv'
  <2>1. Fields'
    BY <1>9 DEF SetDatetime, Inv, Fields, eventVars
  <2>2. Addresses' /\ Piped' /\ Apart' /\ Covered'
    BY <1>9 DEF SetDatetime, Inv, Addresses, Piped, Apart, Covered, Holds, eventVars
  <2>3. QED
    BY <2>1, <2>2 DEF Inv
<1>10. ASSUME NEW t \in Times, SetExchangeDatetime(t)
       PROVE  Inv'
  <2>1. Fields'
    <3>1. calls' \in 0 .. MaxCalls /\ refcount <= calls'
      BY <1>10, BusAssumption DEF SetExchangeDatetime, Call, Inv, Fields
    <3>2. exchangeClock' \in Times /\ aborted' \in BOOLEAN
      BY <1>10 DEF SetExchangeDatetime, Inv, Fields
    <3>3. QED
      BY <1>10, <3>1, <3>2 DEF SetExchangeDatetime, Inv, Fields, eventVars
  <2>2. Addresses' /\ Piped' /\ Apart' /\ Covered'
    BY <1>10 DEF SetExchangeDatetime, Inv, Addresses, Piped, Apart, Covered, Holds, eventVars
  <2>3. QED
    BY <2>1, <2>2 DEF Inv
<1>11. CASE Ref
  <2>1. Fields'
    BY <1>11, BusAssumption DEF Ref, Call, Inv, Fields, clockVars, eventVars
  <2>2. Addresses' /\ Piped' /\ Apart' /\ Covered'
    BY <1>11 DEF Ref, Inv, Addresses, Piped, Apart, Covered, Holds, eventVars
  <2>3. QED
    BY <2>1, <2>2 DEF Inv
<1>12. CASE Unref
  BY <1>12, UnrefKeepsInv
<1>13. CASE UNCHANGED vars
  BY <1>13 DEF vars, Inv, Fields, Addresses, Piped, Apart, Covered, Holds,
               busVars, clockVars, eventVars
<1>14. QED
  BY <1>1, <1>2, <1>3, <1>4, <1>5, <1>6, <1>7, <1>8, <1>9, <1>10, <1>11, <1>12, <1>13
     DEF Next, Pop, PopNothing, Done

LEMMA InvHolds == Spec => []Inv
  BY InitInv, NextKeepsInv, PTL DEF Spec

-----------------------------------------------------------------------------
(* What the invariant says, for every value of the constants. *)

\* Every field keeps its type and every pipe holds only events routed to it,
\* numbered below its counter: push, pop, the modes, the clocks and the
\* references of quant_event_bus.c and quant_event.c.
THEOREM TypeCorrect == Spec => []TypeOK
<1>1. Inv => TypeOK
  <2> SUFFICES ASSUME Inv PROVE TypeOK
    OBVIOUS
  <2>1. /\ refcount \in -1 .. MaxCalls /\ references \in 0 .. MaxCalls + 1
        /\ calls \in 0 .. MaxCalls
    BY BusAssumption DEF Inv, Fields
  <2>2. \A p \in Pipes : \A n \in pipe[p].nodes :
          n.event \in Events /\ PipeOf(n.event) = p /\ n.id < pipe[p].counter
    BY DEF Inv, Piped, QueueOf, EventsOf
  <2>3. saved # NULL => saved \in Events /\ IsMarket(saved)
    BY DEF Inv, Apart, Addresses
  <2>4. QED
    BY <2>1, <2>2, <2>3 DEF TypeOK, Inv, Fields, Addresses
<1>2. QED
  BY <1>1, InvHolds, PTL

\* The references of the bus to an event are one or none, as it can only be in the
\* pipe of its class or staged.
LEMMA InBusIsHolds ==
  ASSUME Inv, NEW e \in pushed
  PROVE  InBus(e) = IF Holds(e) THEN 1 ELSE 0
<1> DEFINE where == {p \in Pipes : e \in EventsOf(pipe[p])}
<1>1. e \in Events /\ e # NULL /\ PipeOf(e) \in Pipes
  BY EventFields, PipeOfInPipes DEF Inv, Addresses
<1>2. where = IF e \in EventsOf(pipe[PipeOf(e)]) THEN {PipeOf(e)} ELSE {}
  BY <1>1 DEF Inv, Piped
<1>3. Cardinality(where) = IF e \in EventsOf(pipe[PipeOf(e)]) THEN 1 ELSE 0
  BY <1>2, FS_EmptySet, FS_Singleton
<1>4. saved = e => e \notin EventsOf(pipe[PipeOf(e)])
  BY <1>1, PipeOfInPipes DEF Inv, Apart
<1>5. InBus(e) = (IF saved = e THEN 1 ELSE 0) + Cardinality(where)
  BY DEF InBus
<1> HIDE DEF where
<1>6. QED
  BY <1>3, <1>4, <1>5 DEF Holds

\* Every event pushed is in exactly one place until the bus is freed: pop, staging
\* and the modes neither drop an event nor return one twice.
THEOREM OneHomeHolds == Spec => []OneHome
<1>1. Inv => OneHome
  <2> SUFFICES ASSUME Inv, ~freed, NEW e \in pushed
               PROVE  InBus(e) + (IF e \in delivered THEN 1 ELSE 0) = 1
    BY DEF OneHome
  <2>1. Holds(e) \/ e \in delivered
    BY DEF Inv, Apart, Holds
  <2>2. ~(Holds(e) /\ e \in delivered)
    BY EventFields, PipeOfInPipes DEF Inv, Apart, Holds, Addresses
  <2>3. QED
    BY <2>1, <2>2, InBusIsHolds
<1>2. QED
  BY <1>1, InvHolds, PTL

\* The count of an event covers what the bus holds and the client owns, so that
\* quant_event_unref never frees an event that is still referred to, also when
\* quant_event_bus_free gives up the staged one.
THEOREM NeverDanglingHolds == Spec => []NeverDangling
<1>1. Inv => NeverDangling
  BY InBusIsHolds DEF Inv, Covered, NeverDangling
<1>2. QED
  BY <1>1, InvHolds, PTL

-----------------------------------------------------------------------------
(* The order in which pop returns events. *)

\* Only pop returns events: the staged one, or the first of a pipe that may be
\* taken from and is not the market's.
LEMMA ReturnedByPop ==
  ASSUME Inv, [Next]_vars, NEW e \in Returned
  PROVE  \/ PopMarket /\ e = StagedEvent /\ IsMarket(e) /\ e \in pushed
         \/ /\ PopPipe /\ saved' = StagedEvent /\ ~IsMarket(e) /\ e \in pushed
            /\ PipeOf(e) = Chosen(StagedEvent) /\ PipeOf(e) \in Eligible(StagedEvent)
            /\ PipeOf(e) \in Pipes \ {"market"} /\ e = First(pipe[PipeOf(e)])
<1>1. CASE PopMarket
  BY <1>1, StagingMoves DEF PopMarket, HandOver, Returned
<1>2. CASE PopPipe
  <2>1. PICK p \in Pipes \ {"market"} :
          /\ p = Chosen(StagedEvent) /\ p \in Eligible(StagedEvent)
          /\ First(pipe[p]) \in EventsOf(pipe[p])
          /\ HandOver(First(pipe[p])) /\ saved' = StagedEvent
    BY <1>2, PopPipeMoves
  <2>2. e = First(pipe[p])
    BY <2>1 DEF HandOver, Returned
  <2>3. PipeOf(e) = p /\ e \in pushed
    BY <2>1, <2>2 DEF Inv, Piped
  <2>4. QED
    BY <1>2, <2>1, <2>2, <2>3, PipeOfInPipes
<1>3. CASE ~PopMarket /\ ~PopPipe
  <2>1. delivered' = delivered
    BY <1>3 DEF Next, Pop, PushEvent, PushCopy, PushOwned, RefEvent, UnrefEvent, PopNothing,
                PopOutOfOrder, SetMode, SetDatetime, SetExchangeDatetime, Ref, Unref, FreeBus,
                Done, vars
  <2>2. QED
    BY <2>1 DEF Returned
<1>4. QED
  BY <1>1, <1>2, <1>3

\* The events of a pipe whose first is not due are all later.
LEMMA NotDue ==
  ASSUME Inv, NEW p \in Pipes, NEW t \in Int, ~Due(p, t)
  PROVE  \A r \in EventsOf(pipe[p]) : r.time > t
<1>1. TAKE r \in EventsOf(pipe[p])
<1>2. ~IsEmpty(pipe[p])
  BY DEF EventsOf, IsEmpty
<1>3. /\ First(pipe[p]).time <= r.time /\ First(pipe[p]) \in Events
      /\ r \in Events
  BY <1>2, FirstIsEarliest DEF Inv, Piped, Addresses
<1>4. First(pipe[p]).time \in Int /\ r.time \in Int
  BY <1>3, EventFields
<1>5. First(pipe[p]).time > t
  BY <1>2, <1>4 DEF Due
<1>6. QED
  BY <1>3, <1>4, <1>5

LEMMA RemindersFirstStep ==
  ASSUME Inv, [Next]_vars, NEW e \in Returned, IsMarket(e)
  PROVE  /\ \A r \in EventsOf(pipe["local"]) :
              r.time > (IF mode = "simulator" THEN e.time ELSE clock)
         /\ IsTick(e) => \A r \in EventsOf(pipe["exchange"]) : r.time > e.time
<1>1. PopMarket /\ e = StagedEvent /\ e \in Events
  BY ReturnedByPop DEF Inv, Addresses
<1>2. Eligible(e) = {} /\ e # NULL
  BY <1>1 DEF PopMarket
<1>3. e.time \in Int /\ clock \in Int
  BY <1>1, EventFields DEF Inv, Fields, Times
<1>4. ~Due("local", IF mode = "simulator" THEN e.time ELSE clock)
  BY <1>2 DEF Eligible
<1>5. IsTick(e) => ~Due("exchange", e.time)
  BY <1>2 DEF Eligible
<1>6. "local" \in Pipes /\ "exchange" \in Pipes
  BY DEF Pipes
<1>7. QED
  BY <1>3, <1>4, <1>5, <1>6, NotDue

\* pop returns a market event only when the reminders that are due before it, of
\* the local clock and for a tick those of the exchange clock, have been returned.
THEOREM RemindersFirstHolds == Spec => RemindersFirst
<1>1. Inv /\ [Next]_vars =>
        [\A e \in Returned : IsMarket(e) =>
           /\ \A r \in EventsOf(pipe["local"]) :
                r.time > (IF mode = "simulator" THEN e.time ELSE clock)
           /\ IsTick(e) => \A r \in EventsOf(pipe["exchange"]) : r.time > e.time]_vars
  BY RemindersFirstStep
<1>2. QED
  BY <1>1, InvHolds, PTL DEF Spec, RemindersFirst

\* In real time the local reminders come first of all.
LEMMA TimeoutAgreesStep ==
  ASSUME Inv, [Next]_vars, mode = "realtime", NEW e \in Returned
  PROVE  PipeOf(e) = "local" <=> ~IsEmpty(pipe["local"]) /\ NextTimeout(clock) <= 0
<1>1. ~IsEmpty(pipe["local"]) /\ NextTimeout(clock) <= 0 <=> Due("local", clock)
  <2>1. CASE IsEmpty(pipe["local"])
    BY <2>1 DEF Due
  <2>2. CASE ~IsEmpty(pipe["local"])
    <3>1. QueueOf(Events, pipe["local"])
      BY DEF Inv, Piped, Pipes
    <3>2. First(pipe["local"]).time \in Int /\ clock \in Int
      BY <2>2, <3>1, FirstIsEarliest, EventFields DEF Inv, Fields, Times
    <3> QED BY <2>2, <3>2 DEF Due, NextTimeout
  <2> QED BY <2>1, <2>2
<1>2. Due("local", clock) <=> "local" \in Eligible(StagedEvent)
  BY DEF Eligible
<1>3. CASE IsMarket(e)
  <2>1. Eligible(StagedEvent) = {}
    BY <1>3, ReturnedByPop DEF PopMarket
  <2>2. PipeOf(e) = "market"
    BY <1>3 DEF PipeOf
  <2> QED BY <1>1, <1>2, <2>1, <2>2
<1>4. CASE ~IsMarket(e)
  <2>1. PipeOf(e) = Chosen(StagedEvent) /\ PipeOf(e) \in Eligible(StagedEvent)
    BY <1>4, ReturnedByPop
  <2>2. PICK i \in 1 .. 5 : /\ Precedence[i] = PipeOf(e)
                            /\ \A j \in 1 .. i - 1 : Precedence[j] \notin Eligible(StagedEvent)
    BY <2>1, ChosenIsFirst
  <2>3. Precedence[1] = "local"
    BY DEF Precedence
  <2>4. ASSUME "local" \in Eligible(StagedEvent) PROVE PipeOf(e) = "local"
    <3>1. i = 1
      BY <2>2, <2>3, <2>4
    <3> QED BY <2>2, <2>3, <3>1
  <2> QED BY <1>1, <1>2, <2>1, <2>4
<1> QED BY <1>3, <1>4

\* In real time pop returns a local reminder exactly when one waits for which
\* next_timeout, asked at the bus clock, leaves no time.
THEOREM TimeoutAgreesHolds == Spec => TimeoutAgrees
<1>1. Inv /\ [Next]_vars =>
        [mode = "realtime" => \A e \in Returned :
           PipeOf(e) = "local" <=> ~IsEmpty(pipe["local"]) /\ NextTimeout(clock) <= 0]_vars
  BY TimeoutAgreesStep
<1>2. QED
  BY <1>1, InvHolds, PTL DEF Spec, TimeoutAgrees

LEMMA ReminderNotEarlyStep ==
  ASSUME Inv, [Next]_vars, NEW r \in Returned
  PROVE  /\ PipeOf(r) = "local" /\ mode = "simulator" => saved' # NULL /\ r.time <= saved'.time
         /\ PipeOf(r) = "local" /\ mode = "realtime" => r.time <= clock
         /\ PipeOf(r) = "exchange" => saved' # NULL /\ IsTick(saved') /\ r.time <= saved'.time
<1>1. CASE IsMarket(r)
  BY <1>1, PipeOfInPipes
<1>2. CASE ~IsMarket(r)
  <2>1. /\ saved' = StagedEvent /\ PipeOf(r) \in Eligible(StagedEvent)
        /\ r = First(pipe[PipeOf(r)])
    BY <1>2, ReturnedByPop
  <2>2. QED
    BY <2>1 DEF Eligible, Due
<1>3. QED
  BY <1>1, <1>2

\* pop returns no reminder before its time: in a simulation only with the market
\* event that has reached it staged, in real time only when the clock has.
THEOREM ReminderNotEarlyHolds == Spec => ReminderNotEarly
<1>1. Inv /\ [Next]_vars =>
        [\A r \in Returned :
           /\ PipeOf(r) = "local" /\ mode = "simulator" => saved' # NULL /\ r.time <= saved'.time
           /\ PipeOf(r) = "local" /\ mode = "realtime" => r.time <= clock
           /\ PipeOf(r) = "exchange" => saved' # NULL /\ IsTick(saved') /\ r.time <= saved'.time]_vars
  BY ReminderNotEarlyStep
<1>2. QED
  BY <1>1, InvHolds, PTL DEF Spec, ReminderNotEarly

-----------------------------------------------------------------------------
(* The order of market events, and of all timed events in a simulation. *)

\* A pipe numbers its events in the order of their addresses, that is of the pushes.
Numbered ==
  \A p \in Pipes : \A m, n \in pipe[p].nodes : m.id < n.id => m.event.key < n.event.key

Earlier(e, f) == e.time < f.time \/ (e.time = f.time /\ e.key < f.key)

\* Only an event pushed after the staging may be earlier than the staged one.
StagedEarly ==
  saved # NULL => \A f \in EventsOf(pipe["market"]) : f \in unseen \/ Earlier(saved, f)

\* What an orderly client gets: no timed event still to come is before one that was
\* delivered or, for market events, before the staged one; a local reminder that
\* was delivered had a market event to wait for.
Timely ==
  orderly =>
    /\ mode = "simulator"
    /\ \A d \in delivered, f \in pushed \ delivered :
         IsTimed(d) /\ IsTimed(f) => d.time <= f.time
    /\ \A d \in delivered : PipeOf(d) = "local" =>
         \E f \in pushed : IsMarket(f) /\ d.time <= f.time
    /\ saved # NULL => \A f \in EventsOf(pipe["market"]) : saved.time <= f.time

OrderInv == Numbered /\ StagedEarly /\ Timely

LEMMA InitOrderInv == Init => OrderInv
  BY EmptyIsQueue DEF Init, OrderInv, Numbered, StagedEarly, Timely, EmptyQueue

\* The staged event is before all market events that are left, but for those
\* pushed while it was staged.
LEMMA StagedIsFirst ==
  ASSUME Inv, OrderInv, StagedEvent # NULL
  PROVE  /\ \A f \in EventsOf(MarketLeft) : f \in unseen \/ Earlier(StagedEvent, f)
         /\ orderly => \A f \in EventsOf(MarketLeft) : StagedEvent.time <= f.time
<1>1. CASE ~Staging
  BY <1>1 DEF MarketLeft, StagedEvent, OrderInv, StagedEarly, Timely
<1>2. CASE Staging
  <2> DEFINE q == pipe["market"]
             first == FirstNode(q)
  <2>1. "market" \in Pipes /\ QueueOf(Events, q) /\ ~IsEmpty(q) /\ StagedEvent = first.event
    BY <1>2 DEF Pipes, Inv, Piped, Staging, StagedEvent, First
  <2>2. IsFirstOf(first, q.nodes) /\ MarketLeft.nodes = q.nodes \ {first}
    BY <1>2, <2>1, FirstIsFirst, RestIsQueue DEF MarketLeft
  <2>3. SUFFICES ASSUME NEW n \in q.nodes \ {first}
                 PROVE  Earlier(StagedEvent, n.event) /\ StagedEvent.time <= n.event.time
    BY <2>2 DEF EventsOf
  <2>4. Before(first, n) /\ first \in q.nodes
    BY <2>2 DEF IsFirstOf
  <2>5. first.id < n.id => first.event.key < n.event.key
    BY <2>1, <2>4 DEF OrderInv, Numbered
  <2>6. first.event.time \in Int /\ n.event.time \in Int
    BY <2>1, <2>4 DEF QueueOf, Ordered
  <2>7. QED
    BY <2>1, <2>4, <2>5, <2>6 DEF Before, Earlier
<1>3. QED
  BY <1>1, <1>2

LEMMA PushKeepsOrder ==
  ASSUME Inv, OrderInv, Inv', NEW e, e.key = NextKey, e \in Events,
         NEW refs, NEW kept, PushOwned(e, refs, kept)
  PROVE  OrderInv'
<1> DEFINE q == PipeOf(e)
<1>1. /\ q \in Pipes /\ q \in DOMAIN pipe /\ "market" \in Pipes
      /\ q = "market" <=> IsMarket(e)
  BY PipeOfInPipes DEF Inv, Piped, Pipes
<1>2. Cardinality(pushed) \in Nat /\ e.key = Cardinality(pushed) + 1
  BY FS_CardinalityType DEF Inv, Addresses, NextKey
<1>3. \A f \in pushed : f.key < e.key /\ f \in Events /\ f # e
  BY <1>2, EventFields DEF Inv, Addresses
<1>4. /\ pipe'[q] = Push(pipe[q], e) /\ \A p \in Pipes \ {q} : pipe'[p] = pipe[p]
      /\ EventsOf(pipe'[q]) = EventsOf(pipe[q]) \cup {e}
      /\ pipe'[q].nodes = pipe[q].nodes \cup {Node(e, pipe[q].counter)}
  <2>1. pipe'[q] = Push(pipe[q], e) /\ \A p \in Pipes \ {q} : pipe'[p] = pipe[p]
    BY <1>1 DEF PushOwned
  <2>2. e \notin EventsOf(pipe[q]) /\ e.time \in Int /\ QueueOf(Events, pipe[q])
    BY <1>1, <1>3, EventFields DEF Inv, Piped
  <2>3. QED
    BY <2>1, <2>2, PushIsQueue DEF Push
<1>5. /\ pushed' = pushed \cup {e} /\ delivered' = delivered /\ saved' = saved /\ mode' = mode
      /\ unseen' = (IF saved # NULL /\ IsMarket(e) THEN unseen \cup {e} ELSE unseen)
      /\ orderly' = (orderly /\ OrderlyPush(e))
  BY DEF PushOwned
<1>6. Numbered'
  <2>1. SUFFICES ASSUME NEW p \in Pipes, NEW m \in pipe'[p].nodes, NEW n \in pipe'[p].nodes,
                        m.id < n.id
                 PROVE  m.event.key < n.event.key
    BY DEF Numbered
  <2>2. CASE m \in pipe[p].nodes /\ n \in pipe[p].nodes
    BY <2>1, <2>2 DEF OrderInv, Numbered
  <2>3. CASE p = q /\ n = Node(e, pipe[q].counter) /\ m \in pipe[p].nodes
    BY <1>1, <1>3, <2>3 DEF Node, Inv, Piped, EventsOf
  <2>4. CASE p = q /\ m = Node(e, pipe[q].counter)
    <3>1. \A l \in pipe'[q].nodes : l.id <= pipe[q].counter /\ l.id \in Int
      BY <1>1, <1>4 DEF Node, Inv, Piped, QueueOf
    <3>2. m.id = pipe[q].counter /\ n.id \in Int /\ m.id \in Int /\ n.id <= m.id
      BY <2>4, <3>1 DEF Node
    <3>3. QED
      BY <2>1, <3>2
  <2>5. QED
    BY <1>4, <2>2, <2>3, <2>4
<1>7. StagedEarly'
  <2>1. EventsOf(pipe'["market"]) \subseteq EventsOf(pipe["market"]) \cup (IF IsMarket(e) THEN {e} ELSE {})
    BY <1>1, <1>4
  <2>2. QED
    BY <1>5, <2>1 DEF OrderInv, StagedEarly
<1>8. Timely'
  <2>1. SUFFICES ASSUME orderly, OrderlyPush(e)
                 PROVE  Timely'
    BY <1>5 DEF Timely
  <2>2. \A d \in delivered : d \in pushed /\ d.time \in Int
    BY <1>3, EventFields DEF Inv, Fields
  <2>3. \A d \in delivered : IsTimed(d) /\ IsTimed(e) => d.time <= e.time
    <3>1. SUFFICES ASSUME NEW d \in delivered, IsTimed(d), IsTimed(e)
                   PROVE  d.time <= e.time
      OBVIOUS
    <3>2. CASE PipeOf(e) = "local"
      BY <2>1, <3>1, <3>2 DEF OrderlyPush
    <3>3. CASE IsMarket(e) /\ IsMarket(d)
      BY <2>1, <2>2, <3>3 DEF OrderlyPush
    <3>4. CASE IsMarket(e) /\ PipeOf(d) = "local"
      <4>1. PICK f \in pushed : IsMarket(f) /\ d.time <= f.time
        BY <2>1, <3>4 DEF OrderInv, Timely
      <4>2. f.time <= e.time
        BY <2>1, <3>4, <4>1 DEF OrderlyPush
      <4>3. f.time \in Int /\ d.time \in Int /\ e.time \in Int
        BY <1>3, <2>2, EventFields
      <4>4. QED
        BY <4>1, <4>2, <4>3
    <3>5. QED
      BY <3>1, <3>2, <3>3, <3>4 DEF IsTimed
  <2>4. saved # NULL => \A f \in EventsOf(pipe'["market"]) : saved.time <= f.time
    <3>1. SUFFICES ASSUME saved # NULL, NEW f \in EventsOf(pipe'["market"])
                   PROVE  saved.time <= f.time
      OBVIOUS
    <3>2. CASE f \in EventsOf(pipe["market"])
      BY <2>1, <3>1, <3>2 DEF OrderInv, Timely
    <3>3. CASE f = e /\ IsMarket(e)
      BY <2>1, <3>1, <3>3 DEF OrderlyPush, Inv, Apart
    <3>4. QED
      BY <1>1, <1>4, <3>1, <3>2, <3>3
  <2>5. QED
    BY <1>5, <2>1, <2>3, <2>4 DEF OrderInv, Timely
<1>9. QED
  BY <1>6, <1>7, <1>8 DEF OrderInv

\* A timed event that is still to come is staged, or waits in one of two pipes.
LEMMA TimedWaits ==
  ASSUME Inv, ~freed, NEW f \in pushed \ delivered, IsTimed(f)
  PROVE  \/ IsMarket(f) /\ (f = StagedEvent \/ f \in EventsOf(MarketLeft))
         \/ PipeOf(f) = "local" /\ f \in EventsOf(pipe["local"])
<1>1. f = saved \/ f \in EventsOf(pipe[PipeOf(f)])
  BY DEF Inv, Apart
<1>2. f # NULL
  BY EventFields DEF Inv, Addresses
<1>3. CASE IsMarket(f)
  BY <1>1, <1>3, PipeOfInPipes, StagingMoves
<1>4. CASE ~IsMarket(f)
  BY <1>1, <1>2, <1>4 DEF IsTimed, Inv, Apart
<1>5. QED
  BY <1>3, <1>4

LEMMA MarketLeftNodes ==
  ASSUME Inv
  PROVE  MarketLeft.nodes \subseteq pipe["market"].nodes
<1>1. QueueOf(Events, pipe["market"])
  BY DEF Inv, Piped, Pipes
<1>2. Staging => Rest(pipe["market"]).nodes \subseteq pipe["market"].nodes
  BY <1>1, RestIsQueue DEF Staging
<1>3. QED
  BY <1>2 DEF MarketLeft

LEMMA PopPipeKeepsOrder ==
  ASSUME Inv, OrderInv, Inv', PopPipe
  PROVE  OrderInv'
<1>1. PICK p \in Pipes \ {"market"} :
        /\ p = Chosen(StagedEvent) /\ p \in Eligible(StagedEvent)
        /\ pipe'["market"] = MarketLeft /\ pipe'[p] = Rest(pipe[p])
        /\ \A r \in Pipes \ {"market", p} : pipe'[r] = pipe[r]
        /\ First(pipe[p]) \in EventsOf(pipe[p])
        /\ HandOver(First(pipe[p])) /\ saved' = StagedEvent
  BY PopPipeMoves
<1>2. PICK e : e = First(pipe[p])
  OBVIOUS
<1>3. /\ delivered' = delivered \cup {e} /\ pushed' = pushed /\ unseen' = unseen
      /\ orderly' = orderly /\ mode' = mode /\ ~freed
  BY <1>1, <1>2 DEF HandOver, PopPipe, Callable
<1>4. e \in pushed /\ e \in Events /\ PipeOf(e) = p /\ ~IsMarket(e)
  BY <1>1, <1>2, PipeOfInPipes DEF Inv, Piped, Addresses
<1>5. \A r \in Pipes : pipe'[r].nodes \subseteq pipe[r].nodes
  <2>1. ~IsEmpty(pipe[p]) /\ QueueOf(Events, pipe[p])
    BY <1>1, EligibleIsWaiting DEF Inv, Piped
  <2>2. pipe'[p].nodes \subseteq pipe[p].nodes
    BY <1>1, <2>1, RestIsQueue
  <2>3. QED
    BY <1>1, <2>2, MarketLeftNodes
<1>6. Numbered'
  BY <1>5 DEF OrderInv, Numbered
<1>7. StagedEarly'
  BY <1>1, <1>3, StagedIsFirst DEF StagedEarly
<1>8. Timely'
  <2>1. SUFFICES ASSUME orderly
                 PROVE  Timely'
    BY <1>3 DEF Timely
  <2>2. mode = "simulator"
    BY <2>1 DEF OrderInv, Timely
  <2>3. saved' # NULL => \A f \in EventsOf(pipe'["market"]) : saved'.time <= f.time
    BY <1>1, <2>1, StagedIsFirst
  <2>4. p = "local" => StagedEvent # NULL /\ e.time <= StagedEvent.time
    BY <1>1, <1>2, <2>2 DEF Eligible, Due
  <2>5. StagedEvent # NULL => StagedEvent \in pushed /\ IsMarket(StagedEvent)
    BY StagingMoves
  <2>6. \A d \in delivered' : PipeOf(d) = "local" =>
           \E f \in pushed : IsMarket(f) /\ d.time <= f.time
    BY <1>3, <1>4, <2>1, <2>4, <2>5 DEF OrderInv, Timely
  <2>7. ASSUME NEW d \in delivered', NEW f \in pushed \ delivered', IsTimed(d), IsTimed(f)
        PROVE  d.time <= f.time
    <3>1. CASE d \in delivered
      BY <1>3, <2>1, <2>7, <3>1 DEF OrderInv, Timely
    <3>2. CASE d = e
      <4>1. p = "local"
        BY <1>4, <2>7, <3>2 DEF IsTimed
      <4>2. \A g \in EventsOf(pipe["local"]) : e.time <= g.time
        BY <1>1, <1>2, <4>1, EligibleIsWaiting, FirstIsEarliest DEF Inv, Piped
      <4>3. /\ e.time \in Int /\ f.time \in Int /\ StagedEvent.time \in Int
            /\ e.time <= StagedEvent.time
        BY <1>4, <2>4, <2>5, <2>7, <4>1, <1>3, EventFields DEF Inv, Addresses
      <4>4. f \in EventsOf(MarketLeft) => StagedEvent.time <= f.time
        BY <2>1, <2>4, <4>1, StagedIsFirst
      <4>5. \/ f = StagedEvent \/ f \in EventsOf(MarketLeft) \/ f \in EventsOf(pipe["local"])
        BY <1>3, <2>7, TimedWaits
      <4>6. QED
        BY <3>2, <4>2, <4>3, <4>4, <4>5
    <3>3. QED
      BY <1>3, <3>1, <3>2
  <2>8. QED
    BY <1>3, <2>2, <2>3, <2>6, <2>7 DEF Timely
<1>9. QED
  BY <1>6, <1>7, <1>8 DEF OrderInv

LEMMA PopMarketKeepsOrder ==
  ASSUME Inv, OrderInv, Inv', PopMarket
  PROVE  OrderInv'
<1>1. PICK e : e = StagedEvent
  OBVIOUS
<1>2. /\ saved' = NULL /\ pushed' = pushed /\ delivered' = delivered \cup {e}
      /\ orderly' = orderly /\ mode' = mode /\ ~freed /\ e # NULL /\ Eligible(e) = {}
  BY <1>1 DEF PopMarket, HandOver, Callable
<1>3. /\ "market" \in Pipes /\ pipe'["market"] = MarketLeft
      /\ \A r \in Pipes \ {"market"} : pipe'[r] = pipe[r]
  BY DEF PopMarket, Inv, Piped, Pipes
<1>4. e \in pushed /\ IsMarket(e) /\ e.time \in Int
  BY <1>1, <1>2, StagingMoves, EventFields DEF Inv, Addresses
<1>5. \A r \in Pipes : pipe'[r].nodes \subseteq pipe[r].nodes
  BY <1>3, MarketLeftNodes
<1>6. Numbered'
  BY <1>5 DEF OrderInv, Numbered
<1>7. StagedEarly'
  BY <1>2 DEF StagedEarly
<1>8. Timely'
  <2>1. SUFFICES ASSUME orderly
                 PROVE  Timely'
    BY <1>2 DEF Timely
  <2>2. mode = "simulator"
    BY <2>1 DEF OrderInv, Timely
  <2>3. \A d \in delivered' : PipeOf(d) = "local" =>
           \E f \in pushed : IsMarket(f) /\ d.time <= f.time
    BY <1>2, <1>4, <2>1, PipeOfInPipes DEF OrderInv, Timely
  <2>4. ASSUME NEW d \in delivered', NEW f \in pushed \ delivered', IsTimed(d), IsTimed(f)
        PROVE  d.time <= f.time
    <3>1. CASE d \in delivered
      BY <1>2, <2>1, <2>4, <3>1 DEF OrderInv, Timely
    <3>2. CASE d = e
      <4>1. ~Due("local", e.time) /\ "local" \in Pipes
        BY <1>2, <2>2 DEF Eligible, Pipes
      <4>2. \A g \in EventsOf(pipe["local"]) : g.time > e.time
        BY <1>4, <4>1, NotDue
      <4>3. \A g \in EventsOf(MarketLeft) : e.time <= g.time
        BY <1>1, <1>2, <2>1, StagedIsFirst
      <4>4. f # e /\ f \in pushed \ delivered /\ f.time \in Int
        BY <1>2, <2>4, EventFields DEF Inv, Addresses
      <4>5. f \in EventsOf(MarketLeft) \/ f \in EventsOf(pipe["local"])
        BY <1>1, <1>2, <2>4, <4>4, TimedWaits
      <4>6. QED
        BY <1>4, <3>2, <4>2, <4>3, <4>4, <4>5
    <3>3. QED
      BY <1>2, <3>1, <3>2
  <2>5. QED
    BY <1>2, <2>2, <2>3, <2>4 DEF Timely
<1>9. QED
  BY <1>6, <1>7, <1>8 DEF OrderInv

LEMMA NextKeepsOrder == Inv /\ Inv' /\ OrderInv /\ [Next]_vars => OrderInv'
<1> SUFFICES ASSUME Inv, Inv', OrderInv, [Next]_vars PROVE OrderInv'
  OBVIOUS
<1>1. ASSUME NEW p \in Templates, NEW t \in Times, NEW kept \in 0 .. 1, PushEvent(p, t, kept)
      PROVE  OrderInv'
  <2> DEFINE e == [type |-> p.type, flags |-> p.flags, clock |-> p.clock, time |-> t, key |-> NextKey]
  <2>1. e.key = NextKey /\ PushOwned(e, CreatedCount(kept), kept)
    BY <1>1 DEF PushEvent
  <2>2. e \in Events
    BY <2>1, NewEvent DEF PushOwned
  <2> HIDE DEF e
  <2>3. QED
    BY <2>1, <2>2, PushKeepsOrder
<1>2. ASSUME NEW f \in pushed, PushCopy(f)
      PROVE  OrderInv'
  <2> DEFINE e == [f EXCEPT !.key = NextKey]
  <2>1. e.key = NextKey /\ e \in Events /\ PushOwned(e, count[f.key], 0)
    BY <1>2, CopyHasKey DEF PushCopy, PushOwned
  <2> HIDE DEF e
  <2>2. QED
    BY <2>1, PushKeepsOrder
<1>3. CASE PopPipe
  BY <1>3, PopPipeKeepsOrder
<1>4. CASE PopMarket
  BY <1>4, PopMarketKeepsOrder
<1>5. ASSUME NEW m \in Modes, SetMode(m)
      PROVE  OrderInv'
  BY <1>5 DEF SetMode, OrderInv, Numbered, StagedEarly, Timely, eventVars
<1>6. CASE Unref
  <2>1. /\ pushed' = pushed /\ delivered' = delivered /\ orderly' = orderly /\ mode' = mode
        /\ unseen' = unseen
    BY <1>6 DEF Unref, FreeBus
  <2>2. CASE refcount = 1
    <3>1. saved' = NULL /\ pipe' = [p \in Pipes |-> EmptyQueue]
      BY <1>6, <2>2 DEF Unref, FreeBus
    <3>2. QED
      BY <2>1, <3>1 DEF OrderInv, Numbered, StagedEarly, Timely, EmptyQueue
  <2>3. CASE refcount # 1
    BY <1>6, <2>1, <2>3 DEF Unref, FreeBus, OrderInv, Numbered, StagedEarly, Timely
  <2>4. QED
    BY <2>2, <2>3
<1>7. CASE UNCHANGED <<pipe, saved, mode, pushed, delivered, unseen, orderly>>
  BY <1>7 DEF OrderInv, Numbered, StagedEarly, Timely
<1>8. QED
  BY <1>1, <1>2, <1>3, <1>4, <1>5, <1>6, <1>7
     DEF Next, Pop, PopNothing, PopOutOfOrder, Done, SetDatetime, SetExchangeDatetime, Ref,
         RefEvent, UnrefEvent, vars, eventVars

LEMMA OrderInvHolds == Spec => []OrderInv
<1>1. QED
  BY InitOrderInv, NextKeepsOrder, InvHolds, PTL DEF Spec

LEMMA MarketOrderStep ==
  ASSUME Inv, OrderInv, [Next]_vars, NEW e \in Returned, IsMarket(e)
  PROVE  \A f \in EventsOf(pipe'["market"]) :
           f \in unseen \/ e.time < f.time \/ (e.time = f.time /\ e.key < f.key)
<1>1. PopMarket /\ e = StagedEvent
  BY ReturnedByPop
<1>2. pipe'["market"] = MarketLeft /\ StagedEvent # NULL
  BY <1>1 DEF PopMarket, Inv, Piped, Pipes
<1>3. QED
  BY <1>1, <1>2, StagedIsFirst DEF Earlier

\* pop returns market events by timestamp and in the order of the pushes, but for
\* those that were pushed while the returned one was staged in saved_event.
THEOREM MarketOrderHolds == Spec => MarketOrder
<1>1. Inv /\ OrderInv /\ [Next]_vars =>
        [\A e \in Returned : IsMarket(e) =>
           \A f \in EventsOf(pipe'["market"]) :
             f \in unseen \/ e.time < f.time \/ (e.time = f.time /\ e.key < f.key)]_vars
  BY MarketOrderStep
<1>2. QED
  BY <1>1, InvHolds, OrderInvHolds, PTL DEF Spec, MarketOrder

LEMMA TimeOrderedStep ==
  ASSUME Inv, OrderInv, [Next]_vars, orderly, NEW e \in Returned, IsTimed(e)
  PROVE  \A d \in delivered : IsTimed(d) => d.time <= e.time
<1>1. e \in pushed \ delivered
  BY ReturnedByPop DEF Returned
<1>2. QED
  BY <1>1 DEF OrderInv, Timely

\* In a simulation whose client keeps to a feed in time order, market events and
\* local reminders are returned merged by time.
THEOREM TimeOrderedHolds == Spec => TimeOrdered
<1>1. Inv /\ OrderInv /\ [Next]_vars =>
        [orderly => \A e \in Returned : IsTimed(e) =>
           \A d \in delivered : IsTimed(d) => d.time <= e.time]_vars
  BY TimeOrderedStep
<1>2. QED
  BY <1>1, InvHolds, OrderInvHolds, PTL DEF Spec, TimeOrdered

-----------------------------------------------------------------------------
(* The references that nobody holds. *)

Spare(e) == count[e.key] - (IF Holds(e) THEN 1 ELSE 0) - owned[e.key]

LEMMA LostIsSpare == Inv => \A e \in pushed : Lost(e) = Spare(e)
  BY InBusIsHolds DEF Lost, Spare

LEMMA LostIsSpareNext == Inv' => (\A e \in pushed : Lost(e) = Spare(e))'
  BY LostIsSpare, PTL

LEMMA SpareStays ==
  ASSUME Inv, [Next]_vars, ~freed', NEW e \in pushed
  PROVE  e \in pushed' /\ Spare(e)' = Spare(e)
<1> DEFINE hold == IF Holds(e) THEN 1 ELSE 0
           hold1 == IF Holds(e)' THEN 1 ELSE 0
<1>1. e.key \in Keys /\ e \in Events
  BY EventFields DEF Inv, Addresses
<1>2. count[e.key] \in Nat /\ owned[e.key] \in Nat
  BY <1>1 DEF Inv, Fields
<1>3. Spare(e)' = count'[e.key] - hold1 - owned'[e.key] /\ Spare(e) = count[e.key] - hold - owned[e.key]
  BY DEF Spare
<1>4. ASSUME NEW f \in Events, f.key = NextKey, NEW refs, NEW kept, PushOwned(f, refs, kept)
      PROVE  /\ count'[e.key] = count[e.key] /\ owned'[e.key] = owned[e.key]
             /\ hold1 = hold /\ e \in pushed'
  BY <1>4, PushMoves DEF PushOwned
<1>5. ASSUME NEW f \in pushed, HandOver(f), Holds(f), ~Holds(f)', pushed' = pushed,
             \A g \in pushed \ {f} : Holds(g)' <=> Holds(g)
      PROVE  Spare(e)' = Spare(e)
  <2>1. count' = count /\ owned'[f.key] = owned[f.key] + 1
    BY <1>5, HandOverCovers DEF HandOver
  <2>2. CASE e = f
    BY <1>2, <1>3, <1>5, <2>1, <2>2
  <2>3. CASE e # f
    <3>1. owned'[e.key] = owned[e.key] /\ hold1 = hold
      BY <1>5, <2>3, HandOverCovers
    <3>2. QED
      BY <1>3, <2>1, <3>1
  <2>4. QED
    BY <2>2, <2>3
<1>6. ASSUME NEW f \in pushed, NEW d \in {-1, 1},
             count' = [count EXCEPT ![f.key] = @ + d], owned' = [owned EXCEPT ![f.key] = @ + d],
             UNCHANGED <<pipe, saved>>
      PROVE  Spare(e)' = Spare(e)
  <2>1. hold1 = hold
    BY <1>6 DEF Holds
  <2>2. CASE e.key = f.key
    <3>1. count'[e.key] = count[e.key] + d /\ owned'[e.key] = owned[e.key] + d
      BY <1>1, <1>6, <2>2 DEF Inv, Fields
    <3>2. QED
      BY <1>2, <1>3, <2>1, <3>1
  <2>3. CASE e.key # f.key
    <3>1. count'[e.key] = count[e.key] /\ owned'[e.key] = owned[e.key]
      BY <1>1, <1>6, <2>3 DEF Inv, Fields
    <3>2. QED
      BY <1>3, <2>1, <3>1
  <2>4. QED
    BY <2>2, <2>3
<1>7. ASSUME UNCHANGED <<count, owned, pipe, saved, pushed>>
      PROVE  e \in pushed' /\ Spare(e)' = Spare(e)
  BY <1>7 DEF Spare, Holds
<1>8. ASSUME NEW p \in Templates, NEW t \in Times, NEW kept \in 0 .. 1, PushEvent(p, t, kept)
      PROVE  e \in pushed' /\ Spare(e)' = Spare(e)
  <2> DEFINE f == [type |-> p.type, flags |-> p.flags, clock |-> p.clock, time |-> t, key |-> NextKey]
  <2>1. f.key = NextKey /\ f \in Events /\ PushOwned(f, CreatedCount(kept), kept)
    BY <1>8, NewEvent DEF PushEvent, PushOwned
  <2> HIDE DEF f
  <2>2. QED
    BY <1>3, <1>4, <2>1
<1>9. ASSUME NEW g \in pushed, PushCopy(g)
      PROVE  e \in pushed' /\ Spare(e)' = Spare(e)
  <2> DEFINE f == [g EXCEPT !.key = NextKey]
  <2>1. f.key = NextKey /\ f \in Events /\ PushOwned(f, count[g.key], 0)
    BY <1>9, CopyHasKey DEF PushCopy, PushOwned
  <2> HIDE DEF f
  <2>2. QED
    BY <1>3, <1>4, <2>1
<1>10. CASE PopPipe
  BY <1>5, <1>10, PopPipeHolds DEF PopPipe
<1>11. CASE PopMarket
  BY <1>5, <1>11, PopMarketHolds DEF PopMarket
<1>12. ASSUME NEW f \in pushed, RefEvent(f)
       PROVE  e \in pushed' /\ Spare(e)' = Spare(e)
  BY <1>6, <1>12 DEF RefEvent
<1>13. ASSUME NEW f \in pushed, UnrefEvent(f)
       PROVE  e \in pushed' /\ Spare(e)' = Spare(e)
  <2>1. f.key \in Keys
    BY EventFields DEF Inv, Addresses
  <2>2. /\ count' = [count EXCEPT ![f.key] = @ + (-1)]
        /\ owned' = [owned EXCEPT ![f.key] = @ + (-1)]
    BY <1>13, <2>1 DEF UnrefEvent, Inv, Fields
  <2>3. QED
    BY <1>6, <1>13, <2>2 DEF UnrefEvent
<1>14. CASE Unref
  BY <1>7, <1>14 DEF Unref, FreeBus
<1>15. QED
  BY <1>7, <1>8, <1>9, <1>10, <1>11, <1>12, <1>13, <1>14
     DEF Next, Pop, PopNothing, PopOutOfOrder, Done, SetMode, SetDatetime, SetExchangeDatetime,
         Ref, vars, eventVars

LEMMA NewSpare ==
  ASSUME Inv, [Next]_vars, NEW e \in pushed' \ pushed, Spare(e)' > 0
  PROVE  \E f \in pushed : [f EXCEPT !.key = e.key] = e /\ Spare(e)' = count[f.key] - 1
<1>1. ASSUME NEW f \in Events, f.key = NextKey, NEW refs \in Nat, NEW kept \in Nat,
             PushOwned(f, refs, kept)
      PROVE  e = f /\ Spare(e)' = refs - 1 - kept
  <2>1. e = f
    BY <1>1 DEF PushOwned
  <2>2. count'[e.key] = refs /\ owned'[e.key] = kept /\ Holds(e)'
    BY <1>1, <2>1, PushMoves
  <2>3. QED
    BY <2>1, <2>2 DEF Spare
<1>2. ASSUME NEW p \in Templates, NEW t \in Times, NEW kept \in 0 .. 1, PushEvent(p, t, kept)
      PROVE  FALSE
  <2> DEFINE f == [type |-> p.type, flags |-> p.flags, clock |-> p.clock, time |-> t, key |-> NextKey]
  <2>1. f.key = NextKey /\ f \in Events /\ PushOwned(f, 1 + kept, kept)
    BY <1>2, NewEvent DEF PushEvent, PushOwned, CreatedCount
  <2> HIDE DEF f
  <2>2. Spare(e)' = 1 + kept - 1 - kept
    BY <1>1, <2>1
  <2>3. QED
    BY <2>2
<1>3. ASSUME NEW g \in pushed, PushCopy(g)
      PROVE  \E f \in pushed : [f EXCEPT !.key = e.key] = e /\ Spare(e)' = count[f.key] - 1
  <2> DEFINE f == [g EXCEPT !.key = NextKey]
  <2>1. f.key = NextKey /\ f \in Events /\ PushOwned(f, count[g.key], 0)
    BY <1>3, CopyHasKey DEF PushCopy, PushOwned
  <2>2. count[g.key] \in Nat
    BY EventFields DEF Inv, Addresses, Fields
  <2>3. [g EXCEPT !.key = f.key] = f
    BY <2>1
  <2> HIDE DEF f
  <2>4. e = f /\ Spare(e)' = count[g.key] - 1 - 0
    BY <1>1, <2>1, <2>2
  <2>5. QED
    BY <2>2, <2>3, <2>4
<1>4. QED
  BY <1>2, <1>3
     DEF Next, Pop, PopPipe, PopMarket, PopNothing, PopOutOfOrder, Done, SetMode, SetDatetime,
         SetExchangeDatetime, Ref, Unref, FreeBus, RefEvent, UnrefEvent, vars, eventVars

\* References that nobody holds come only from a copy, which takes over the count of
\* its original, until the bus is freed: no other call loses a reference.
THEOREM NeverLeakedHolds == Spec => NeverLeaked
<1>1. Inv /\ Inv' /\ [Next]_vars =>
        [~freed' =>
           /\ \A e \in pushed : Lost(e)' = Lost(e)
           /\ \A e \in pushed' \ pushed : Lost(e)' > 0 =>
                \E f \in pushed : [f EXCEPT !.key = e.key] = e /\ Lost(e)' = count[f.key] - 1]_vars
  <2>1. SUFFICES ASSUME Inv, Inv', [Next]_vars, ~freed'
                 PROVE  /\ \A e \in pushed : Lost(e)' = Lost(e)
                        /\ \A e \in pushed' \ pushed : Lost(e)' > 0 =>
                             \E f \in pushed :
                               [f EXCEPT !.key = e.key] = e /\ Lost(e)' = count[f.key] - 1
    OBVIOUS
  <2>2. \A e \in pushed : Lost(e) = Spare(e)
    BY <2>1, LostIsSpare
  <2>3. \A e \in pushed' : Lost(e)' = Spare(e)'
    BY <2>1, LostIsSpareNext
  <2>4. \A e \in pushed : Lost(e)' = Lost(e)
    BY <2>1, <2>2, <2>3, SpareStays
  <2>5. QED
    BY <2>1, <2>3, <2>4, NewSpare
<1>2. QED
  BY <1>1, InvHolds, PTL DEF Spec, NeverLeaked

=============================================================================
