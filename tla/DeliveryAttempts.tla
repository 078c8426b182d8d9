--------------------------- MODULE DeliveryAttempts -------------------------
(***************************************************************************)
(* What SendEventDataWithRetry promises about a payload: two copies of it  *)
(* are sent at most, and none once its outcome is known; the server may    *)
(* process either copy late, or never, but has processed one if the        *)
(* outcome is success.                                                     *)
(***************************************************************************)
EXTENDS Naturals

CONSTANT Payloads

VARIABLES copies,    \* the copies of each payload that have been sent
          processed, \* which of them the server has processed
          outcome    \* "open" until the caller knows it

vars == <<copies, processed, outcome>>

Init ==
  /\ copies = [p \in Payloads |-> 0]
  /\ processed = [p \in Payloads |-> {}]
  /\ outcome = [p \in Payloads |-> "open"]

SendCopy(p) ==
  /\ outcome[p] = "open" /\ copies[p] < 2
  /\ copies' = [copies EXCEPT ![p] = copies[p] + 1]
  /\ UNCHANGED <<processed, outcome>>

\* Each copy is processed at most once, at any time after it was sent.
Process(p, n) ==
  /\ n \in 1 .. copies[p] /\ n \notin processed[p]
  /\ processed' = [processed EXCEPT ![p] = processed[p] \cup {n}]
  /\ UNCHANGED <<copies, outcome>>

Succeed(p) ==
  /\ outcome[p] = "open" /\ processed[p] # {}
  /\ outcome' = [outcome EXCEPT ![p] = "success"]
  /\ UNCHANGED <<copies, processed>>

\* The payload is lost, as far as the caller knows, and later ones may be sent.
Fail(p) ==
  /\ outcome[p] = "open"
  /\ outcome' = [outcome EXCEPT ![p] = "failure"]
  /\ UNCHANGED <<copies, processed>>

\* The server has told the SDK to stop, in answer to a copy of this payload.
Refuse(p) ==
  /\ outcome[p] = "open" /\ copies[p] > 0
  /\ outcome' = [outcome EXCEPT ![p] = "stop"]
  /\ UNCHANGED <<copies, processed>>

Next ==
  \E p \in Payloads :
    SendCopy(p) \/ (\E n \in 1 .. 2 : Process(p, n)) \/ Succeed(p) \/ Fail(p) \/ Refuse(p)

Spec == Init /\ [][Next]_vars
=============================================================================
