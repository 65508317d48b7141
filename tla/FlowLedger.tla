------------------------------ MODULE FlowLedger ------------------------------
(***************************************************************************)
(* What the flow tracker promises to the program that calls it, without    *)
(* packets, times or tables: flows are opened, and each one that ends is   *)
(* handed over once.  A call that returns hands over the flows it ended    *)
(* and the ones that waited; a call that raises hands over nothing and     *)
(* lets the flows it ended wait; closing hands over everything.            *)
(***************************************************************************)
VARIABLES
  open,     \* the numbers of the flows that are tracked
  waiting,  \* ended in a call that raised
  handed,   \* handed over
  closed

vars == <<open, waiting, handed, closed>>

Init == open = {} /\ waiting = {} /\ handed = {} /\ closed = FALSE

Ended == open \ open'
Opened == open' \ open

\* A call opens one flow at most, and it is a new one.
OneIsNew ==
  /\ \A m, n \in Opened : m = n
  /\ Opened \cap (waiting \cup handed) = {}

Return ==
  /\ ~closed /\ UNCHANGED closed
  /\ OneIsNew
  /\ waiting' = {}
  /\ handed' = handed \cup waiting \cup Ended

Raise ==
  /\ ~closed /\ UNCHANGED closed
  /\ Opened = {}
  /\ waiting' = waiting \cup Ended
  /\ UNCHANGED handed

Close ==
  /\ ~closed /\ closed' = TRUE
  /\ open' = {} /\ waiting' = {}
  /\ handed' = handed \cup waiting \cup open

Next == Return \/ Raise \/ Close

Spec == Init /\ [][Next]_vars
-------------------------------------------------------------------------------
\* No flow is in two places.
OnePlace == open \cap waiting = {} /\ open \cap handed = {} /\ waiting \cap handed = {}
===============================================================================
