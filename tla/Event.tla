------------------------------- MODULE Event -------------------------------
(***************************************************************************)
(* Events as quant_event.c creates them: the class table, and the flags and  *)
(* clock that the bus routes by.  An event is a record [type, flags, clock,  *)
(* time, key]; key is its address.                                          *)
(***************************************************************************)
EXTENDS Integers, Sequences

\* QuantEventType up to QUANT_EVENT_CUSTOM_START, which quant_event_malloc
\* refuses with an assertion; the C value is the index less one.
Types == <<"UNKNOW", "REMINDER", "ASK", "BID", "TRADE", "BAR", "NEWS", "FUNDAMENTAL">>

TypeValue(type) == (CHOOSE i \in 1 .. Len(Types) : Types[i] = type) - 1

\* The flag macros of quant_event.h.
MarketFlags == {"external", "market"}
TickFlags == MarketFlags \cup {"tick"}

\* _eventclassinfo, whose first entry has index 0.
ClassTable == <<{"reminder"}, TickFlags, TickFlags, TickFlags>>

\* _eventclassinfo[type].flag: entries without an initialiser are zero.
ClassFlags(type) ==
  IF TypeValue(type) + 1 \in 1 .. Len(ClassTable) THEN ClassTable[TypeValue(type) + 1] ELSE {}

\* The types whose entry has a size: quant_event_new returns memory for them.
Creatable == {Types[i] : i \in 1 .. Len(ClassTable)}

\* What QUANT_EVENT_DEFINE declares of the types it lists.
DeclaredFlags ==
  [type \in {"REMINDER", "ASK", "BID", "TRADE"} |->
     IF type = "REMINDER" THEN {"reminder"} ELSE TickFlags]

Clocks == {"local", "exchange"}

\* quant_event_new: flags from the class table.  The initialiser receives the
\* va_list in place of its parameters, so clock_type is whatever that leaves.
Template(type, clock) == [type |-> type, flags |-> ClassFlags(type), clock |-> clock]
CreatedTemplates == {Template(type, clock) : type \in Creatable, clock \in Clocks}

\* QUANT_EVENT_IS_...
IsMarket(e) == "market" \in e.flags
IsTick(e) == "tick" \in e.flags
IsExecution(e) == "execution" \in e.flags
IsService(e) == "service" \in e.flags
IsReminder(e) == "reminder" \in e.flags
=============================================================================
