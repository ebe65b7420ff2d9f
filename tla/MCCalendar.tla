----------------------------- MODULE MCCalendar -----------------------------
(* Small instances of Calendar for TLC. *)
EXTENDS Calendar

\* Both ends of the range, and a whole cycle with the epoch, started at four
\* years that walk into one another.
SomeWalks ==
  {[first |-> 1, last |-> 101], [first |-> 1601, last |-> 1701],
   [first |-> 1702, last |-> 1802], [first |-> 1803, last |-> 1903],
   [first |-> 1904, last |-> 2004], [first |-> 9890, last |-> 9999]}

SomeSeconds == {0, 43259, SecondsPerDay - 1}
SomeMicros == {0, 250000, 999999}
SomeZones == {-1439, -300, 330, 1439}
=============================================================================
