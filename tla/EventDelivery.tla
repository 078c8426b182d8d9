---------------------------- MODULE EventDelivery ---------------------------
(***************************************************************************)
(* What the event processor promises for the items it has accepted into    *)
(* its buffer (output events, and the evaluations counted in a summary):   *)
(* an item is buffered, handed over with everything buffered beside it,    *)
(* and attempted, each at most once; it leaves the buffer without being    *)
(* handed over only when the service has told the SDK to stop.             *)
(***************************************************************************)
VARIABLES buffered, inFlight, attempted, off

vars == <<buffered, inFlight, attempted, off>>

Init == buffered = {} /\ inFlight = {} /\ attempted = {} /\ off = FALSE

\* New items are buffered; what has been handed over never comes back.
Buffer ==
  /\ ~off
  /\ buffered \subseteq buffered'
  /\ buffered' \cap (inFlight \cup attempted) = {}
  /\ UNCHANGED <<inFlight, attempted, off>>

HandOver ==
  /\ ~off
  /\ inFlight' = inFlight \cup buffered
  /\ buffered' = {}
  /\ UNCHANGED <<attempted, off>>

\* The delivery of some items has been attempted, whatever came of it.
Attempt ==
  /\ attempted \subseteq attempted' /\ attempted' \subseteq attempted \cup inFlight
  /\ inFlight' = inFlight \ attempted'
  /\ UNCHANGED <<buffered, off>>

TurnOff ==
  /\ ~off /\ off' = TRUE
  /\ buffered' = {}
  /\ UNCHANGED <<inFlight, attempted>>

Next == Buffer \/ HandOver \/ Attempt \/ TurnOff

Spec == Init /\ [][Next]_vars
=============================================================================
