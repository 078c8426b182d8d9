---------------------------- MODULE DiagnosticsLog ---------------------------
(***************************************************************************)
(* What DiagnosticsManager promises to the goroutines that share it: each  *)
(* of its operations happens as a whole.  A statistics event has all that  *)
(* was recorded since the event before it, and its interval begins where   *)
(* that event's ended.                                                     *)
(***************************************************************************)
EXTENDS Sequences

CONSTANTS Inits, Time

VARIABLES recorded, \* the stream inits since the last event
          since,    \* when that was
          events    \* the events made

vars == <<recorded, since, events>>

Init == recorded = << >> /\ since = 0 /\ events = << >>

Record(i) ==
  /\ recorded' = Append(recorded, i)
  /\ UNCHANGED <<since, events>>

Report(time) ==
  /\ events' = Append(events, [dataSinceDate |-> since, creationDate |-> time,
                               streamInits |-> recorded])
  /\ recorded' = << >> /\ since' = time

Next == (\E i \in Inits : Record(i)) \/ (\E time \in Time : Report(time))

Spec == Init /\ [][Next]_vars
=============================================================================
