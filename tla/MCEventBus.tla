----------------------------- MODULE MCEventBus -----------------------------
(* Small instances of EventBus for TLC. *)
EXTENDS EventBus

Made(flags, clk) == [type |-> "CUSTOM", flags |-> flags, clock |-> clk]

\* A tick as quant_event_new makes it, and events that a client has filled in
\* itself: one for every way through the bus.
HandMade ==
  {Template("ASK", "local"), Made(MarketFlags, "local"), Made({"execution"}, "local"),
   Made({}, "local"), Made({"reminder"}, "local"), Made({"reminder"}, "exchange")}
=============================================================================
