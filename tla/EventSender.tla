----------------------------- MODULE EventSender ----------------------------
(***************************************************************************)
(* SendEventDataWithRetry (event_sender.go), as several flush workers call *)
(* it at once, over a network that delays, loses and reorders, to a server *)
(* that may process a request whose response never arrives.                *)
(***************************************************************************)
EXTENDS Naturals, FiniteSets

CONSTANTS Calls,      \* calls of SendEventData, one per payload
          Kind,       \* Kind[c]: the EventDataKind given to the call
          BadURI,     \* the calls whose URI http.NewRequest cannot parse
          PayloadIDs, \* the UUIDs there are
          Statuses,   \* the HTTP statuses the server may answer with
          MaxClock,   \* bound on the server's clock
          NoID

ASSUME SenderAssumption ==
  /\ Kind \in [Calls -> {"analytics", "diagnostic", "other"}]
  /\ BadURI \subseteq Calls
  /\ Statuses \subseteq 100 .. 599
  /\ MaxClock \in Nat \ {0}
  /\ NoID \notin PayloadIDs

VARIABLES state,     \* where each call is
          attempt,   \* the attempts it has made
          payloadID, \* the X-LaunchDarkly-Payload-ID header it sends
          response,  \* what client.Do will return to it
          result,    \* what it has returned
          usedIDs,   \* the UUIDs uuid.NewRandom has returned
          network,   \* requests sent, not yet handled by the server and not lost
          accepted,  \* requests the server has processed
          clock      \* the server's clock

callVars == <<state, attempt, payloadID, response, result, usedIDs>>
serverVars == <<network, accepted, clock>>
vars == <<callVars, serverVars>>

States == {"idle", "posted", "answered", "delaying", "returned"}
Request == [call : Calls, id : PayloadIDs \cup {NoID}, attempt : 1 .. 2]
Response == [status : Statuses \cup {0}, date : Nat]
NoResponse == [status |-> 0, date |-> 0]
Result == [success : BOOLEAN, mustShutDown : BOOLEAN, timeFromServer : Nat]

\* EventSenderResult{}: not delivered, but later payloads may be.
Failure == [success |-> FALSE, mustShutDown |-> FALSE, timeFromServer |-> 0]

TypeOK ==
  /\ state \in [Calls -> States]
  /\ attempt \in [Calls -> 0 .. 2]
  /\ payloadID \in [Calls -> PayloadIDs \cup {NoID}]
  /\ response \in [Calls -> Response]
  /\ result \in [Calls -> Result]
  /\ usedIDs \subseteq PayloadIDs
  /\ network \subseteq Request
  /\ accepted \subseteq Request
  /\ clock \in Nat

Init ==
  /\ state = [c \in Calls |-> "idle"]
  /\ attempt = [c \in Calls |-> 0]
  /\ payloadID = [c \in Calls |-> NoID]
  /\ response = [c \in Calls |-> NoResponse]
  /\ result = [c \in Calls |-> Failure]
  /\ usedIDs = {} /\ network = {} /\ accepted = {}
  /\ clock = 1
-----------------------------------------------------------------------------
(* Statuses.                                                               *)

Successful(status) == status >= 200 /\ status < 300

\* isHTTPErrorRecoverable.
IsHTTPErrorRecoverable(status) ==
  (status >= 400 /\ status < 500) => status \in {400, 408, 429}

\* An unrecoverable status stops the SDK, except Request Entity Too Large.
MustShutDown(status) == status # 413
-----------------------------------------------------------------------------
(* The caller's side.                                                      *)

\* The request of attempt number n.  (Faulty: the retry has an ID of its own.)
RequestWithoutID(c, n) ==
  [call |-> c, id |-> IF n = 1 THEN payloadID'[c] ELSE NoID, attempt |-> n]
RequestOf(c, n) == [call |-> c, id |-> payloadID'[c], attempt |-> n]

\* attempt++.  (Faulty: the attempt is not counted.)
NotCounted(c) == IF attempt[c] = 0 THEN 1 ELSE attempt[c]
NextAttempt(c) == attempt[c] + 1

\* client.Do: the request goes out and the call waits.
Post(c) ==
  /\ state' = [state EXCEPT ![c] = "posted"]
  /\ attempt' = [attempt EXCEPT ![c] = NextAttempt(c)]
  /\ network' = network \cup {RequestOf(c, NextAttempt(c))}

\* The first pass through the loop, which ends at once if there is no request.
FirstAttempt(c) ==
  \/ /\ c \in BadURI
     /\ state' = [state EXCEPT ![c] = "returned"]
     /\ UNCHANGED <<attempt, network>>
  \/ /\ c \notin BadURI
     /\ Post(c)

\* An unknown kind of data is refused; analytics data gets a payload ID.
SendEventData(c) ==
  /\ state[c] = "idle"
  /\ \/ /\ Kind[c] = "other"
        /\ state' = [state EXCEPT ![c] = "returned"]
        /\ UNCHANGED <<attempt, payloadID, usedIDs, network>>
     \/ /\ Kind[c] = "diagnostic"
        /\ UNCHANGED <<payloadID, usedIDs>>
        /\ FirstAttempt(c)
     \/ /\ Kind[c] = "analytics"
        /\ \E id \in PayloadIDs \ usedIDs :
             /\ payloadID' = [payloadID EXCEPT ![c] = id]
             /\ usedIDs' = usedIDs \cup {id}
        /\ FirstAttempt(c)
  /\ UNCHANGED <<response, result, accepted, clock>>

Return(c, r) ==
  /\ state' = [state EXCEPT ![c] = "returned"]
  /\ result' = [result EXCEPT ![c] = r]

\* The loop goes on after a failure that may pass: once more, or no more.
\* (Faulty: one attempt too many, or no retry.)
TwoRetries(c) == attempt[c] < 3
MayRetry(c) == attempt[c] < 2
NoRetry(c) == Return(c, Failure)
TryAgain(c) ==
  \/ /\ MayRetry(c)
     /\ state' = [state EXCEPT ![c] = "delaying"]
     /\ UNCHANGED result
  \/ /\ ~MayRetry(c)
     /\ Return(c, Failure)

\* client.Do returns an error: the request or its response is lost, or is late.
\* (Faulty: taken for a success, as no status says otherwise.)
ErrorTakenForSuccess(c) == Return(c, [Failure EXCEPT !.success = TRUE])
AfterTransportError(c) == TryAgain(c)

TransportError(c) ==
  /\ state[c] \in {"posted", "answered"}
  /\ AfterTransportError(c)
  /\ response' = [response EXCEPT ![c] = NoResponse]
  /\ UNCHANGED <<attempt, payloadID, usedIDs, serverVars>>

\* client.Do returns a response.
HandleResponse(c) ==
  LET status == response[c].status
  IN  /\ state[c] = "answered"
      /\ \/ /\ Successful(status)
            /\ Return(c, [success |-> TRUE, mustShutDown |-> FALSE,
                          timeFromServer |-> response[c].date])
         \/ /\ ~Successful(status) /\ IsHTTPErrorRecoverable(status)
            /\ TryAgain(c)
         \/ /\ ~Successful(status) /\ ~IsHTTPErrorRecoverable(status)
            /\ Return(c, [Failure EXCEPT !.mustShutDown = MustShutDown(status)])
      /\ UNCHANGED <<attempt, payloadID, response, usedIDs, serverVars>>

\* config.RetryDelay is over.
Retry(c) ==
  /\ state[c] = "delaying"
  /\ UNCHANGED <<payloadID, usedIDs>>
  /\ Post(c)
  /\ response' = [response EXCEPT ![c] = NoResponse]
  /\ UNCHANGED <<result, accepted, clock>>
-----------------------------------------------------------------------------
(* The server and the network.                                             *)

\* The server handles a request, however late; its response, with or without a
\* Date, reaches the call if that still waits for this attempt.
ServerHandles(r) ==
  /\ r \in network
  /\ network' = network \ {r}
  /\ \E status \in Statuses, date \in {0, clock} :
       /\ accepted' = IF Successful(status) THEN accepted \cup {r} ELSE accepted
       /\ IF state[r.call] = "posted" /\ attempt[r.call] = r.attempt
          THEN /\ state' = [state EXCEPT ![r.call] = "answered"]
               /\ response' = [response EXCEPT ![r.call] = [status |-> status, date |-> date]]
          ELSE UNCHANGED <<state, response>>
  /\ UNCHANGED <<attempt, payloadID, result, usedIDs, clock>>

ServerClock ==
  /\ clock < MaxClock
  /\ clock' = clock + 1
  /\ UNCHANGED <<callVars, network, accepted>>

CallStep(c) == SendEventData(c) \/ TransportError(c) \/ HandleResponse(c) \/ Retry(c)

Next ==
  \/ \E c \in Calls : CallStep(c)
  \/ \E r \in network : ServerHandles(r)
  \/ ServerClock

Spec == Init /\ [][Next]_vars

\* A call goes on: client.Do returns some day, with a response or an error, and
\* the retry delay ends.
Fairness == \A c \in Calls : WF_vars(TransportError(c) \/ HandleResponse(c) \/ Retry(c))

FairSpec == Spec /\ Fairness
=============================================================================
