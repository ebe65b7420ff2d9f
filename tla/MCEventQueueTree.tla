--------------------------- MODULE MCEventQueueTree ---------------------------
(* Small instances of EventQueueTree for TLC: two events of time 0, one of 1. *)
EXTENDS EventQueueTree

TimedEvents == {[time |-> 0, name |-> "a"], [time |-> 0, name |-> "b"], [time |-> 1, name |-> "a"]}
=============================================================================
