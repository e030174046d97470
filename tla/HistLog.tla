------------------------------ MODULE HistLog ------------------------------
(***************************************************************************)
(* What the quarter-hour history promises, without flash: a log of records *)
(* identified by the serial number of the append() that wrote them.  The   *)
(* newest append() may end in a record or not; what was acknowledged stays *)
(* for at least Window further appends; at most Chunk records go at once.  *)
(***************************************************************************)
EXTENDS Integers, FiniteSets

CONSTANTS
  Window,   \* appends after which a record may be recycled
  Chunk     \* records that one recycle can discard

VARIABLES
  log,      \* serial numbers of the records that can be read back
  last,     \* serial number of the latest append() call
  acked     \* serial numbers append() returned true for

vars == <<log, last, acked>>

Init == log = {} /\ last = 0 /\ acked = {}

\* append() is called.
Call ==
  /\ last' = last + 1
  /\ UNCHANGED <<log, acked>>

\* The record of the latest call reaches the log; that alone promises nothing.
Store ==
  /\ last > 0
  /\ log' = log \cup {last}
  /\ UNCHANGED <<last, acked>>

\* append() returns true.  The record is in the log from here on.
Ack ==
  /\ last > 0
  /\ log' = log \cup {last}
  /\ acked' = acked \cup {last}
  /\ UNCHANGED last

\* A recycle, complete or interrupted, discards old records and no others.
Recycle ==
  /\ log' \subseteq log
  /\ \A k \in log \ log' : k <= last - Window
  /\ Cardinality(log \ log') <= Chunk
  /\ UNCHANGED <<last, acked>>

Next == Call \/ Store \/ Ack \/ Recycle

Spec == Init /\ [][Next]_vars

=============================================================================
