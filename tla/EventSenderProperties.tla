----------------------- MODULE EventSenderProperties ------------------------
(***************************************************************************)
(* What SendEventDataWithRetry guarantees to the flush workers, and to the *)
(* server that has to recognise a retry.                                   *)
(***************************************************************************)
EXTENDS EventSender

\* The server can tell a retry from a new payload by the payload ID: two requests
\* with analytics data that it has processed carry the same ID exactly if they
\* come from the same call, however late the first of them arrived.
IDsIdentifyPayloads ==
  \A r, s \in {q \in accepted : Kind[q.call] = "analytics"} : r.id = s.id <=> r.call = s.call

\* A call that reports success has been processed by the server.
SuccessMeansAccepted ==
  \A c \in Calls : state[c] = "returned" /\ result[c].success => \E r \in accepted : r.call = c

\* A payload is given up, with later ones still to be sent, only after two
\* attempts or because it is too large (unless there was no request to make).
GivenUpAfterRetry ==
  \A c \in Calls \ BadURI :
    state[c] = "returned" /\ Kind[c] # "other" /\ ~result[c].success /\ ~result[c].mustShutDown
      => attempt[c] = 2 \/ response[c].status = 413

\* Whatever is lost, late or answered twice, a call does with its payload what
\* DeliveryAttempts allows: two copies at most, each processed at most once, none sent
\* after the return, and no success without processing.
ProcessedAttempts(c) == {r.attempt : r \in {q \in accepted : q.call = c}}

Outcome(c) ==
  CASE state[c] # "returned" -> "open"
    [] state[c] = "returned" /\ result[c].success -> "success"
    [] state[c] = "returned" /\ ~result[c].success /\ result[c].mustShutDown -> "stop"
    [] OTHER -> "failure"

Attempts ==
  INSTANCE DeliveryAttempts WITH
    Payloads <- Calls, copies <- attempt,
    processed <- [c \in Calls |-> ProcessedAttempts(c)],
    outcome <- [c \in Calls |-> Outcome(c)]

AttemptsAsPromised == Attempts!Spec

\* The inductive invariant of the proofs.  A call has made no request before it
\* begins, and one with analytics data has an ID of its own from then on.
AttemptsCounted ==
  \A c \in Calls :
    /\ state[c] = "idle" => attempt[c] = 0 /\ payloadID[c] = NoID /\ result[c] = Failure
    /\ state[c] \in {"posted", "answered"} => attempt[c] \in 1 .. 2
    /\ state[c] = "delaying" => attempt[c] = 1

IDsAreFresh ==
  /\ \A c \in Calls : payloadID[c] # NoID => payloadID[c] \in usedIDs
  /\ \A c \in Calls : Kind[c] = "analytics" /\ state[c] # "idle" => payloadID[c] # NoID
  /\ \A c, d \in Calls : payloadID[c] = payloadID[d] /\ payloadID[c] # NoID => c = d

\* Whatever is under way carries the ID of its call, which has begun.
RequestsCarryIDs ==
  \A r \in network \cup accepted : r.id = payloadID[r.call] /\ state[r.call] # "idle"

\* A response that says success has reached its call after the server's processing.
SuccessIsReal ==
  \A c \in Calls :
    \/ state[c] = "answered" /\ Successful(response[c].status)
    \/ state[c] = "returned" /\ result[c].success
    => \E r \in accepted : r.call = c

\* The requests of a call are its attempts, and the server handles each once.
RequestsAreAttempts ==
  /\ \A r \in network \cup accepted : r.attempt <= attempt[r.call]
  /\ network \cap accepted = {}

SenderInvariant ==
  /\ TypeOK
  /\ AttemptsCounted
  /\ IDsAreFresh
  /\ RequestsCarryIDs
  /\ RequestsAreAttempts
  /\ SuccessIsReal
  /\ GivenUpAfterRetry

\* Every call returns.
CallsReturn == \A c \in Calls : state[c] = "posted" ~> state[c] = "returned"
=============================================================================
