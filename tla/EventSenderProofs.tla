------------------------- MODULE EventSenderProofs -------------------------
(***************************************************************************)
(* Proofs about the sender, for any number of calls, IDs and statuses.     *)
(* SenderInvariant is inductive; it has one lemma per action.              *)
(***************************************************************************)
EXTENDS EventSenderProperties, TLAPS
-----------------------------------------------------------------------------
\* Failure and NoResponse are well-formed.
LEMMA Constants == Failure \in Result /\ NoResponse \in Response
  BY DEF Failure, Result, NoResponse, Response

\* What a new request does: it carries the ID of its call, which waits for it.
LEMMA PostEffect ==
  ASSUME TypeOK, NEW c \in Calls, Post(c), attempt[c] \in 0 .. 1,
         payloadID' \in [Calls -> PayloadIDs \cup {NoID}]
  PROVE  /\ state' \in [Calls -> States] /\ state'[c] = "posted"
         /\ attempt' \in [Calls -> 0 .. 2] /\ attempt'[c] \in 1 .. 2
         /\ attempt'[c] = attempt[c] + 1
         /\ \A d \in Calls \ {c} : state'[d] = state[d] /\ attempt'[d] = attempt[d]
         /\ network' \subseteq Request
         /\ \A r \in network' :
              \/ r \in network
              \/ r.call = c /\ r.id = payloadID'[c] /\ r.attempt = attempt'[c]
<1> DEFINE r0 == RequestOf(c, NextAttempt(c))
<1>1. /\ state' = [state EXCEPT ![c] = "posted"]
      /\ attempt' = [attempt EXCEPT ![c] = attempt[c] + 1]
      /\ network' = network \cup {r0}
  BY DEF Post, NextAttempt
<1>2. /\ r0 \in Request /\ r0.call = c /\ r0.id = payloadID'[c]
      /\ r0.attempt = attempt[c] + 1
  BY DEF RequestOf, NextAttempt, Request
<1> HIDE DEF r0
<1>3. state' \in [Calls -> States] /\ state'[c] = "posted"
  BY <1>1 DEF TypeOK, States
<1>4. /\ attempt' \in [Calls -> 0 .. 2] /\ attempt'[c] \in 1 .. 2
      /\ attempt'[c] = attempt[c] + 1
  BY <1>1 DEF TypeOK
<1>5. \A d \in Calls \ {c} : state'[d] = state[d] /\ attempt'[d] = attempt[d]
  BY <1>1 DEF TypeOK
<1>6. /\ network' \subseteq Request
      /\ \A r \in network' :
           \/ r \in network
           \/ r.call = c /\ r.id = payloadID'[c] /\ r.attempt = attempt'[c]
  BY <1>1, <1>2, <1>4 DEF TypeOK
<1> QED
  BY <1>3, <1>4, <1>5, <1>6

\* A new request is the next attempt of its call; the server has seen none like it.
LEMMA NewRequestIsAttempt ==
  ASSUME TypeOK, RequestsAreAttempts, NEW c \in Calls,
         attempt' \in [Calls -> 0 .. 2], attempt[c] <= attempt'[c],
         \A d \in Calls \ {c} : attempt'[d] = attempt[d],
         \A r \in network' :
           r \in network \/ (r.call = c /\ r.attempt = attempt'[c] /\ attempt[c] < attempt'[c]),
         accepted' = accepted
  PROVE  RequestsAreAttempts'
<1>1. \A r \in network \cup accepted :
        r.call \in Calls /\ r.attempt \in 1 .. 2 /\ r.attempt <= attempt[r.call]
  BY DEF TypeOK, Request, RequestsAreAttempts
<1>2. attempt \in [Calls -> 0 .. 2]
  BY DEF TypeOK
<1>3. \A d \in Calls : attempt[d] <= attempt'[d]
  BY <1>2
<1>4. \A r \in network' \cup accepted' : r.attempt <= attempt'[r.call]
  <2> SUFFICES ASSUME NEW r \in network' \cup accepted'
               PROVE  r.attempt <= attempt'[r.call]
    OBVIOUS
  <2>1. CASE r \in network \cup accepted
    BY <1>1, <1>2, <1>3, <2>1
  <2>2. CASE r.call = c /\ r.attempt = attempt'[c]
    BY <2>2
  <2> QED
    BY <2>1, <2>2
<1>5. ASSUME NEW r \in network', r \in accepted
      PROVE  FALSE
  <2>1. r \notin network
    BY <1>5 DEF RequestsAreAttempts
  <2>2. r.call = c /\ r.attempt = attempt'[c] /\ attempt[c] < attempt'[c]
    BY <2>1
  <2> QED
    BY <1>1, <1>2, <1>5, <2>2
<1> QED
  BY <1>4, <1>5 DEF RequestsAreAttempts

\* A call begins: it gets its ID, if it needs one, and makes its first request or none.
LEMMA SendEventDataPreserves ==
  ASSUME SenderInvariant, NEW c \in Calls, SendEventData(c)
  PROVE  SenderInvariant'
<1> USE SenderAssumption
<1>1. /\ TypeOK /\ state[c] = "idle" /\ attempt[c] = 0 /\ payloadID[c] = NoID
      /\ result[c] = Failure
  BY DEF SenderInvariant, AttemptsCounted, SendEventData
<1>2. UNCHANGED <<response, result, accepted, clock>>
  BY DEF SendEventData
<1>3. /\ payloadID' \in [Calls -> PayloadIDs \cup {NoID}] /\ usedIDs' \subseteq PayloadIDs
      /\ usedIDs \subseteq usedIDs'
      /\ \A d \in Calls \ {c} : payloadID'[d] = payloadID[d]
      /\ payloadID'[c] # NoID => payloadID'[c] \in usedIDs' \ usedIDs
      /\ Kind[c] = "analytics" => payloadID'[c] # NoID
  <2>1. CASE Kind[c] = "analytics"
    <3>1. PICK id \in PayloadIDs \ usedIDs :
            payloadID' = [payloadID EXCEPT ![c] = id] /\ usedIDs' = usedIDs \cup {id}
      BY <2>1 DEF SendEventData
    <3> QED
      BY <1>1, <3>1 DEF TypeOK
  <2>2. CASE Kind[c] # "analytics"
    BY <1>1, <2>2 DEF SendEventData, TypeOK
  <2> QED
    BY <2>1, <2>2
<1>4. /\ state' \in [Calls -> States] /\ state'[c] \in {"posted", "returned"}
      /\ attempt' \in [Calls -> 0 .. 2]
      /\ state'[c] = "posted" => attempt'[c] \in 1 .. 2
      /\ state'[c] = "returned" => Kind[c] = "other" \/ c \in BadURI
      /\ \A d \in Calls \ {c} : state'[d] = state[d] /\ attempt'[d] = attempt[d]
      /\ network' \subseteq Request
      /\ \A r \in network' :
           \/ r \in network
           \/ /\ r.call = c /\ r.id = payloadID'[c]
              /\ r.attempt = attempt'[c] /\ attempt[c] < attempt'[c]
  <2>1. CASE Post(c)
    BY <1>1, <1>3, <2>1, PostEffect
  <2>2. CASE /\ Kind[c] = "other" \/ c \in BadURI
             /\ state' = [state EXCEPT ![c] = "returned"] /\ UNCHANGED <<attempt, network>>
    BY <1>1, <2>2 DEF TypeOK, States
  <2> QED
    BY <2>1, <2>2 DEF SendEventData, FirstAttempt
<1>5. TypeOK'
  BY <1>1, <1>2, <1>3, <1>4 DEF TypeOK
<1>6. AttemptsCounted'
  BY <1>2, <1>3, <1>4 DEF SenderInvariant, AttemptsCounted
<1>7. IDsAreFresh'
  BY <1>1, <1>3, <1>4 DEF SenderInvariant, IDsAreFresh
<1>8. RequestsCarryIDs'
  <2> SUFFICES ASSUME NEW r \in network' \cup accepted'
               PROVE  r.id = payloadID'[r.call] /\ state'[r.call] # "idle"
    BY DEF RequestsCarryIDs
  <2>1. CASE r \in network \cup accepted
    <3>1. r.id = payloadID[r.call] /\ state[r.call] # "idle" /\ r.call \in Calls
      BY <1>1, <2>1 DEF SenderInvariant, RequestsCarryIDs, TypeOK, Request
    <3> QED
      BY <1>1, <1>3, <1>4, <3>1
  <2>2. CASE r.call = c /\ r.id = payloadID'[c]
    BY <1>4, <2>2
  <2> QED
    BY <1>2, <1>4, <2>1, <2>2
<1>9. RequestsAreAttempts'
  BY <1>1, <1>2, <1>4, NewRequestIsAttempt DEF SenderInvariant
<1>10. state'[c] = "returned" => ~result'[c].success
  BY <1>1, <1>2 DEF Failure
<1>11. SuccessIsReal' /\ GivenUpAfterRetry'
  BY <1>2, <1>4, <1>10 DEF SenderInvariant, SuccessIsReal, GivenUpAfterRetry
<1> QED
  BY <1>5, <1>6, <1>7, <1>8, <1>9, <1>11 DEF SenderInvariant

\* A failed attempt: the call waits for another, or gives up after the second.
LEMMA TryAgainEffect ==
  ASSUME TypeOK, NEW c \in Calls, attempt[c] \in 1 .. 2, TryAgain(c)
  PROVE  /\ state' \in [Calls -> States] /\ result' \in [Calls -> Result]
         /\ \A d \in Calls \ {c} : state'[d] = state[d] /\ result'[d] = result[d]
         /\ \/ state'[c] = "delaying" /\ attempt[c] = 1
            \/ state'[c] = "returned" /\ attempt[c] = 2 /\ result'[c] = Failure
  BY Constants DEF TryAgain, MayRetry, Return, TypeOK, States

\* The network and the server are not part of the step of a call that hears from
\* them: what its own state becomes decides whether the invariant is preserved.
LEMMA HearingPreserves ==
  ASSUME SenderInvariant, NEW c \in Calls, state[c] \in {"posted", "answered"},
         UNCHANGED <<attempt, payloadID, usedIDs, serverVars>>,
         state' \in [Calls -> States], result' \in [Calls -> Result],
         response' \in [Calls -> Response],
         \A d \in Calls \ {c} :
           state'[d] = state[d] /\ result'[d] = result[d] /\ response'[d] = response[d],
         \/ state'[c] = "delaying" /\ attempt[c] = 1
         \/ /\ state'[c] = "returned"
            /\ result'[c].success => \E r \in accepted : r.call = c
            /\ \/ result'[c].success \/ result'[c].mustShutDown
               \/ attempt[c] = 2 \/ response'[c].status = 413
  PROVE  SenderInvariant'
<1>1. TypeOK'
  BY DEF SenderInvariant, TypeOK, serverVars
<1>2. AttemptsCounted'
  BY DEF SenderInvariant, AttemptsCounted, serverVars
<1>3. IDsAreFresh' /\ RequestsCarryIDs'
  <2>1. \A d \in Calls : state[d] = "idle" <=> state'[d] = "idle"
    OBVIOUS
  <2>2. \A r \in network \cup accepted : r.call \in Calls
    BY DEF SenderInvariant, TypeOK, Request
  <2> QED
    BY <2>1, <2>2 DEF SenderInvariant, IDsAreFresh, RequestsCarryIDs, serverVars
<1>4. SuccessIsReal'
  BY DEF SenderInvariant, SuccessIsReal, serverVars
<1>5. GivenUpAfterRetry'
  BY DEF SenderInvariant, GivenUpAfterRetry, serverVars
<1>6. RequestsAreAttempts'
  BY DEF SenderInvariant, RequestsAreAttempts, serverVars
<1> QED
  BY <1>1, <1>2, <1>3, <1>4, <1>5, <1>6 DEF SenderInvariant

\* An attempt that ends in an error is repeated once.
LEMMA TransportErrorPreserves ==
  ASSUME SenderInvariant, NEW c \in Calls, TransportError(c)
  PROVE  SenderInvariant'
<1>1. /\ state[c] \in {"posted", "answered"} /\ TryAgain(c)
      /\ response' = [response EXCEPT ![c] = NoResponse]
      /\ UNCHANGED <<attempt, payloadID, usedIDs, serverVars>>
  BY DEF TransportError, AfterTransportError
<1>2. TypeOK /\ attempt[c] \in 1 .. 2
  BY <1>1 DEF SenderInvariant, AttemptsCounted
<1>3. /\ response' \in [Calls -> Response]
      /\ \A d \in Calls \ {c} : response'[d] = response[d]
  BY <1>1, <1>2, Constants DEF TypeOK
<1>4. ~Failure.success
  BY DEF Failure
<1> QED
  BY <1>1, <1>2, <1>3, <1>4, TryAgainEffect, HearingPreserves

\* A response is a success, a reason to try again, or a reason to stop.
LEMMA HandleResponsePreserves ==
  ASSUME SenderInvariant, NEW c \in Calls, HandleResponse(c)
  PROVE  SenderInvariant'
<1> DEFINE status == response[c].status
<1>1. state[c] = "answered" /\ UNCHANGED <<attempt, payloadID, response, usedIDs, serverVars>>
  BY DEF HandleResponse
<1>2. /\ TypeOK /\ attempt[c] \in 1 .. 2 /\ response[c] \in Response
      /\ response' \in [Calls -> Response]
      /\ \A d \in Calls \ {c} : response'[d] = response[d]
  BY <1>1 DEF SenderInvariant, AttemptsCounted, TypeOK
<1>3. ASSUME NEW r \in Result, Return(c, r)
      PROVE  /\ state' \in [Calls -> States] /\ result' \in [Calls -> Result]
             /\ \A d \in Calls \ {c} : state'[d] = state[d] /\ result'[d] = result[d]
             /\ state'[c] = "returned" /\ result'[c] = r
  BY <1>2, <1>3 DEF Return, TypeOK, States
<1>4. CASE Successful(status)
  <2> DEFINE r == [success |-> TRUE, mustShutDown |-> FALSE, timeFromServer |-> response[c].date]
  <2>1. Return(c, r) /\ r \in Result /\ r.success
    BY <1>2, <1>4 DEF HandleResponse, Result, Response
  <2>2. \E q \in accepted : q.call = c
    BY <1>1, <1>4 DEF SenderInvariant, SuccessIsReal
  <2> HIDE DEF r
  <2> QED
    BY <1>1, <1>2, <1>3, <2>1, <2>2, HearingPreserves
<1>5. CASE TryAgain(c)
  <2>1. ~Failure.success
    BY DEF Failure
  <2> QED
    BY <1>1, <1>2, <1>5, <2>1, TryAgainEffect, HearingPreserves
<1>6. CASE Return(c, [Failure EXCEPT !.mustShutDown = MustShutDown(status)])
  <2> DEFINE r == [Failure EXCEPT !.mustShutDown = MustShutDown(status)]
  <2>1. r \in Result /\ ~r.success /\ (r.mustShutDown \/ response'[c].status = 413)
    BY <1>1 DEF Failure, Result, MustShutDown
  <2>2. Return(c, r)
    BY <1>6
  <2> HIDE DEF r
  <2> QED
    BY <1>1, <1>2, <1>3, <2>1, <2>2, HearingPreserves
<1> QED
  BY <1>4, <1>5, <1>6 DEF HandleResponse

\* The second attempt repeats the request with the same ID.
LEMMA RetryPreserves ==
  ASSUME SenderInvariant, NEW c \in Calls, Retry(c)
  PROVE  SenderInvariant'
<1>1. /\ TypeOK /\ state[c] = "delaying" /\ attempt[c] = 1 /\ Post(c)
      /\ payloadID' = payloadID
  BY DEF SenderInvariant, AttemptsCounted, Retry
<1>2. /\ UNCHANGED <<payloadID, usedIDs, result, accepted, clock>>
      /\ response' = [response EXCEPT ![c] = NoResponse]
  BY DEF Retry
<1>3. /\ state' \in [Calls -> States] /\ state'[c] = "posted"
      /\ attempt' \in [Calls -> 0 .. 2] /\ attempt'[c] \in 1 .. 2
      /\ \A d \in Calls \ {c} : state'[d] = state[d] /\ attempt'[d] = attempt[d]
      /\ network' \subseteq Request
      /\ \A r \in network' :
           \/ r \in network
           \/ /\ r.call = c /\ r.id = payloadID'[c]
              /\ r.attempt = attempt'[c] /\ attempt[c] < attempt'[c]
  <2>1. attempt[c] \in 0 .. 1 /\ payloadID' \in [Calls -> PayloadIDs \cup {NoID}]
    BY <1>1 DEF TypeOK
  <2> QED
    BY <1>1, <2>1, PostEffect
<1>4. /\ response' \in [Calls -> Response]
      /\ \A d \in Calls \ {c} : response'[d] = response[d]
  BY <1>1, <1>2, Constants DEF TypeOK
<1>5. TypeOK'
  BY <1>1, <1>2, <1>3, <1>4 DEF TypeOK
<1>6. AttemptsCounted'
  BY <1>1, <1>2, <1>3 DEF SenderInvariant, AttemptsCounted
<1>7. IDsAreFresh'
  BY <1>1, <1>2, <1>3 DEF SenderInvariant, IDsAreFresh
<1>8. RequestsCarryIDs'
  <2> SUFFICES ASSUME NEW r \in network' \cup accepted'
               PROVE  r.id = payloadID'[r.call] /\ state'[r.call] # "idle"
    BY DEF RequestsCarryIDs
  <2>1. CASE r \in network \cup accepted
    <3>1. r.id = payloadID[r.call] /\ state[r.call] # "idle" /\ r.call \in Calls
      BY <1>1, <2>1 DEF SenderInvariant, RequestsCarryIDs, TypeOK, Request
    <3> QED
      BY <1>1, <1>3, <3>1
  <2>2. CASE r.call = c /\ r.id = payloadID'[c]
    BY <1>3, <2>2
  <2> QED
    BY <1>2, <1>3, <2>1, <2>2
<1>9. SuccessIsReal' /\ GivenUpAfterRetry'
  BY <1>1, <1>2, <1>3, <1>4 DEF SenderInvariant, SuccessIsReal, GivenUpAfterRetry
<1>10. RequestsAreAttempts'
  BY <1>1, <1>2, <1>3, NewRequestIsAttempt DEF SenderInvariant
<1> QED
  BY <1>5, <1>6, <1>7, <1>8, <1>9, <1>10 DEF SenderInvariant

\* The server handles a request, for a call that still waits or too late for it.
LEMMA ServerHandlesPreserves ==
  ASSUME SenderInvariant, NEW r \in network, ServerHandles(r)
  PROVE  SenderInvariant'
<1> USE SenderAssumption
<1>1. TypeOK /\ r \in Request /\ r.call \in Calls
  BY DEF SenderInvariant, TypeOK, Request
<1> DEFINE c == r.call
<1>2. /\ network' = network \ {r}
      /\ UNCHANGED <<attempt, payloadID, result, usedIDs, clock>>
  BY DEF ServerHandles
<1>3. PICK status \in Statuses, date \in {0, clock} :
        /\ accepted' = IF Successful(status) THEN accepted \cup {r} ELSE accepted
        /\ IF state[c] = "posted" /\ attempt[c] = r.attempt
           THEN /\ state' = [state EXCEPT ![c] = "answered"]
                /\ response' = [response EXCEPT ![c] = [status |-> status, date |-> date]]
           ELSE UNCHANGED <<state, response>>
  BY DEF ServerHandles
<1>4. /\ accepted \subseteq accepted' /\ accepted' \subseteq accepted \cup {r}
      /\ Successful(status) => r \in accepted'
  BY <1>3
<1>5. /\ state' \in [Calls -> States] /\ response' \in [Calls -> Response]
      /\ \A d \in Calls :
           \/ state'[d] = state[d] /\ response'[d] = response[d]
           \/ /\ d = c /\ state[d] = "posted" /\ state'[d] = "answered"
              /\ response'[d].status = status
  <2>1. [status |-> status, date |-> date] \in Response
    BY <1>1 DEF Response, TypeOK
  <2> QED
    BY <1>1, <1>3, <2>1 DEF TypeOK, States
<1>6. TypeOK'
  BY <1>1, <1>2, <1>4, <1>5 DEF TypeOK
<1>7. AttemptsCounted' /\ IDsAreFresh'
  BY <1>2, <1>5 DEF SenderInvariant, AttemptsCounted, IDsAreFresh
<1>8. RequestsCarryIDs'
  <2>1. \A q \in network' \cup accepted' : q \in network \cup accepted /\ q.call \in Calls
    BY <1>1, <1>2, <1>4 DEF TypeOK, Request
  <2> QED
    BY <1>2, <1>5, <2>1 DEF SenderInvariant, RequestsCarryIDs
<1>9. SuccessIsReal'
  BY <1>1, <1>2, <1>4, <1>5 DEF SenderInvariant, SuccessIsReal
<1>10. GivenUpAfterRetry'
  BY <1>2, <1>5 DEF SenderInvariant, GivenUpAfterRetry
<1>11. RequestsAreAttempts'
  BY <1>2, <1>4 DEF SenderInvariant, RequestsAreAttempts
<1> QED
  BY <1>6, <1>7, <1>8, <1>9, <1>10, <1>11 DEF SenderInvariant
-----------------------------------------------------------------------------
(* The theorems.                                                           *)

\* Before the first call nothing has been sent.
LEMMA InitEstablishes == Init => SenderInvariant
<1> SUFFICES ASSUME Init PROVE SenderInvariant
  OBVIOUS
<1> USE SenderAssumption
<1>1. TypeOK
  BY Constants DEF Init, TypeOK, States
<1>2. AttemptsCounted /\ IDsAreFresh /\ RequestsCarryIDs /\ RequestsAreAttempts
  BY DEF Init, AttemptsCounted, IDsAreFresh, RequestsCarryIDs, RequestsAreAttempts
<1>3. SuccessIsReal /\ GivenUpAfterRetry
  BY DEF Init, SuccessIsReal, GivenUpAfterRetry
<1> QED
  BY <1>1, <1>2, <1>3 DEF SenderInvariant

\* Every step of a call, the network or the server preserves the invariant.
LEMMA NextPreserves == SenderInvariant /\ [Next]_vars => SenderInvariant'
<1> SUFFICES ASSUME SenderInvariant, [Next]_vars PROVE SenderInvariant'
  OBVIOUS
<1>1. CASE UNCHANGED vars
  BY <1>1 DEF vars, callVars, serverVars, SenderInvariant, TypeOK, AttemptsCounted,
     IDsAreFresh, RequestsCarryIDs, RequestsAreAttempts, SuccessIsReal, GivenUpAfterRetry
<1>2. ASSUME NEW c \in Calls, CallStep(c)
      PROVE  SenderInvariant'
  BY <1>2, SendEventDataPreserves, TransportErrorPreserves, HandleResponsePreserves,
     RetryPreserves DEF CallStep
<1>3. ASSUME NEW r \in network, ServerHandles(r)
      PROVE  SenderInvariant'
  BY <1>3, ServerHandlesPreserves
<1>4. CASE ServerClock
  <2>1. TypeOK'
    BY <1>4 DEF ServerClock, callVars, SenderInvariant, TypeOK
  <2> QED
    BY <1>4, <2>1 DEF ServerClock, callVars, SenderInvariant, AttemptsCounted,
       IDsAreFresh, RequestsCarryIDs, RequestsAreAttempts, SuccessIsReal, GivenUpAfterRetry
<1> QED
  BY <1>1, <1>2, <1>3, <1>4 DEF Next

\* Everything the proofs rely on holds in every reachable state.
THEOREM SenderInvariantHolds == Spec => []SenderInvariant
  BY InitEstablishes, NextPreserves, PTL DEF Spec

\* The state stays well-formed; in particular no call makes more than two attempts.
THEOREM SenderTypeCorrect == Spec => []TypeOK
<1>1. SenderInvariant => TypeOK
  BY DEF SenderInvariant
<1> QED
  BY <1>1, SenderInvariantHolds, PTL

\* The server can tell a retry from another payload by its ID, for any number of
\* calls and any delay of their requests.
THEOREM IDsIdentify == Spec => []IDsIdentifyPayloads
<1>1. SenderInvariant => IDsIdentifyPayloads
  <2> SUFFICES ASSUME SenderInvariant,
                      NEW r \in accepted, NEW s \in accepted,
                      Kind[r.call] = "analytics", Kind[s.call] = "analytics"
               PROVE  r.id = s.id <=> r.call = s.call
    BY DEF IDsIdentifyPayloads
  <2>1. /\ r.call \in Calls /\ r.id = payloadID[r.call] /\ state[r.call] # "idle"
        /\ s.call \in Calls /\ s.id = payloadID[s.call]
    BY DEF SenderInvariant, RequestsCarryIDs, TypeOK, Request
  <2> QED
    BY <2>1 DEF SenderInvariant, IDsAreFresh
<1> QED
  BY <1>1, SenderInvariantHolds, PTL

\* A reported success is one that the server knows of.
THEOREM SuccessIsAccepted == Spec => []SuccessMeansAccepted
<1>1. SenderInvariant => SuccessMeansAccepted
  BY DEF SenderInvariant, SuccessIsReal, SuccessMeansAccepted
<1> QED
  BY <1>1, SenderInvariantHolds, PTL

\* No payload is given up, while later ones are still sent, before its second
\* attempt, unless it is too large.
THEOREM TwoAttemptsBeforeGivingUp == Spec => []GivenUpAfterRetry
<1>1. SenderInvariant => GivenUpAfterRetry
  BY DEF SenderInvariant
<1> QED
  BY <1>1, SenderInvariantHolds, PTL
-----------------------------------------------------------------------------
(* The refinement: what a step is for DeliveryAttempts.                    *)

\* A call is over for the specification when it has returned, and its result says how.
LEMMA OutcomeIs ==
  ASSUME NEW c \in Calls
  PROVE  /\ Outcome(c) = "open" <=> state[c] # "returned"
         /\ state[c] = "returned" /\ result[c].success => Outcome(c) = "success"
         /\ state[c] = "returned" /\ ~result[c].success /\ result[c].mustShutDown
              => Outcome(c) = "stop"
         /\ state[c] = "returned" /\ ~result[c].success /\ ~result[c].mustShutDown
              => Outcome(c) = "failure"
  BY DEF Outcome

\* A step of one call leaves the outcomes of the others.
LEMMA OneOutcomeChanges ==
  ASSUME NEW c \in Calls,
         \A d \in Calls \ {c} : state'[d] = state[d] /\ result'[d] = result[d]
  PROVE  [d \in Calls |-> Outcome(d)]' = [[d \in Calls |-> Outcome(d)] EXCEPT ![c] = Outcome(c)']
<1>1. \A d \in Calls \ {c} : Outcome(d)' = Outcome(d)
  BY DEF Outcome
<1> QED
  BY <1>1

\* No step of a call changes what the server has processed.
LEMMA ProcessedStays ==
  ASSUME accepted' = accepted
  PROVE  [c \in Calls |-> ProcessedAttempts(c)]' = [c \in Calls |-> ProcessedAttempts(c)]
  BY DEF ProcessedAttempts

\* At the start nothing has been sent.
LEMMA AttemptsInit == Init => Attempts!Init
<1> SUFFICES ASSUME Init PROVE Attempts!Init
  OBVIOUS
<1>1. \A c \in Calls : Outcome(c) = "open"
  BY OutcomeIs DEF Init
<1>2. \A c \in Calls : ProcessedAttempts(c) = {}
  BY DEF Init, ProcessedAttempts
<1> QED
  BY <1>1, <1>2 DEF Init, Attempts!Init

\* A new request is a copy of the payload.
LEMMA PostIsCopy ==
  ASSUME SenderInvariant, NEW c \in Calls, Post(c), state[c] \in {"idle", "delaying"},
         result' = result, accepted' = accepted
  PROVE  Attempts!SendCopy(c)
<1>1. TypeOK /\ attempt[c] < 2
  BY DEF SenderInvariant, TypeOK, AttemptsCounted
<1>2. /\ state' = [state EXCEPT ![c] = "posted"]
      /\ attempt' = [attempt EXCEPT ![c] = attempt[c] + 1]
  BY DEF Post, NextAttempt
<1>3. state'[c] = "posted" /\ \A d \in Calls \ {c} : state'[d] = state[d]
  BY <1>1, <1>2 DEF TypeOK
<1>4. Outcome(c) = "open"
  BY OutcomeIs
<1>5. \A d \in Calls : Outcome(d)' = Outcome(d)
  BY <1>3 DEF Outcome
<1>6. [d \in Calls |-> Outcome(d)]' = [d \in Calls |-> Outcome(d)]
  BY <1>5
<1> QED
  BY <1>1, <1>2, <1>4, <1>6, ProcessedStays DEF Attempts!SendCopy

\* A call that returns has a reason: a copy was processed, or nothing was promised.
LEMMA ReturnIsOutcome ==
  ASSUME SenderInvariant, NEW c \in Calls, state[c] # "returned", state'[c] = "returned",
         \A d \in Calls \ {c} : state'[d] = state[d] /\ result'[d] = result[d],
         attempt' = attempt, accepted' = accepted,
         result'[c] \in Result,
         result'[c].success => \E r \in accepted : r.call = c,
         result'[c].mustShutDown => attempt[c] > 0
  PROVE  Attempts!Succeed(c) \/ Attempts!Fail(c) \/ Attempts!Refuse(c)
<1> DEFINE outcomes == [d \in Calls |-> Outcome(d)]
<1>1. outcomes' = [outcomes EXCEPT ![c] = Outcome(c)'] /\ outcomes[c] = "open"
  BY OneOutcomeChanges, OutcomeIs
<1>2. result'[c].success \in BOOLEAN /\ result'[c].mustShutDown \in BOOLEAN
  BY DEF Result
<1>3. CASE result'[c].success
  <2>1. Outcome(c)' = "success"
    BY <1>3 DEF Outcome
  <2>2. ProcessedAttempts(c) # {}
    BY <1>3 DEF ProcessedAttempts
  <2> QED
    BY <1>1, <2>1, <2>2, ProcessedStays DEF Attempts!Succeed
<1>4. CASE ~result'[c].success /\ result'[c].mustShutDown
  <2>1. Outcome(c)' = "stop"
    BY <1>4 DEF Outcome
  <2> QED
    BY <1>1, <1>4, <2>1, ProcessedStays DEF Attempts!Refuse
<1>5. CASE ~result'[c].success /\ ~result'[c].mustShutDown
  <2>1. Outcome(c)' = "failure"
    BY <1>5 DEF Outcome
  <2> QED
    BY <1>1, <2>1, ProcessedStays DEF Attempts!Fail
<1> QED
  BY <1>2, <1>3, <1>4, <1>5

\* A step that neither sends, nor processes, nor returns is a stutter.
LEMMA OtherIsStutter ==
  ASSUME attempt' = attempt, accepted' = accepted,
         \A d \in Calls : \/ state'[d] = state[d] /\ result'[d] = result[d]
                          \/ state[d] # "returned" /\ state'[d] # "returned"
  PROVE  UNCHANGED Attempts!vars
<1>1. \A d \in Calls : Outcome(d)' = Outcome(d)
  BY DEF Outcome
<1>2. [d \in Calls |-> Outcome(d)]' = [d \in Calls |-> Outcome(d)]
  BY <1>1
<1> QED
  BY <1>2, ProcessedStays DEF Attempts!vars

\* A call begins with a copy, or returns at once.
LEMMA SendEventDataIsStep ==
  ASSUME SenderInvariant, NEW c \in Calls, SendEventData(c)
  PROVE  [Attempts!Next]_(Attempts!vars)
<1>1. /\ state[c] = "idle" /\ TypeOK /\ result[c] = Failure
      /\ UNCHANGED <<result, accepted>>
  BY DEF SendEventData, SenderInvariant, AttemptsCounted
<1>2. CASE Post(c)
  BY <1>1, <1>2, PostIsCopy DEF Attempts!Next
<1>3. CASE state' = [state EXCEPT ![c] = "returned"] /\ UNCHANGED attempt
  <2>1. /\ state'[c] = "returned" /\ \A d \in Calls \ {c} : state'[d] = state[d]
        /\ result'[c] \in Result /\ ~result'[c].success /\ ~result'[c].mustShutDown
    BY <1>1, <1>3, Constants DEF TypeOK, Failure
  <2> QED
    BY <1>1, <1>3, <2>1, ReturnIsOutcome DEF Attempts!Next
<1> QED
  BY <1>2, <1>3 DEF SendEventData, FirstAttempt

\* What TryAgain does for a call: it waits for the second attempt, or fails.
LEMMA TryAgainIsStep ==
  ASSUME SenderInvariant, NEW c \in Calls, state[c] \in {"posted", "answered"}, TryAgain(c),
         attempt' = attempt, accepted' = accepted
  PROVE  [Attempts!Next]_(Attempts!vars)
<1>1. TypeOK /\ attempt[c] \in 1 .. 2
  BY DEF SenderInvariant, AttemptsCounted
<1>2. /\ result' \in [Calls -> Result]
      /\ \A d \in Calls \ {c} : state'[d] = state[d] /\ result'[d] = result[d]
      /\ state'[c] = "delaying" \/ (state'[c] = "returned" /\ result'[c] = Failure)
  BY <1>1, TryAgainEffect
<1>3. CASE state'[c] = "delaying"
  BY <1>2, <1>3, OtherIsStutter
<1>4. CASE state'[c] = "returned" /\ result'[c] = Failure
  <2>1. ~result'[c].success /\ ~result'[c].mustShutDown
    BY <1>4 DEF Failure
  <2> QED
    BY <1>2, <1>4, <2>1, ReturnIsOutcome DEF Attempts!Next
<1> QED
  BY <1>2, <1>3, <1>4

\* A response is the outcome, or a reason for the second copy.
LEMMA HandleResponseIsStep ==
  ASSUME SenderInvariant, NEW c \in Calls, HandleResponse(c)
  PROVE  [Attempts!Next]_(Attempts!vars)
<1> DEFINE status == response[c].status
           success == [success |-> TRUE, mustShutDown |-> FALSE,
                       timeFromServer |-> response[c].date]
           refusal == [Failure EXCEPT !.mustShutDown = MustShutDown(status)]
<1>1. /\ state[c] = "answered" /\ UNCHANGED <<attempt, accepted>>
      /\ \/ Successful(status) /\ Return(c, success)
         \/ TryAgain(c)
         \/ Return(c, refusal)
  BY DEF HandleResponse, serverVars
<1>2. TypeOK /\ attempt[c] \in 1 .. 2 /\ response[c] \in Response
  BY <1>1 DEF SenderInvariant, AttemptsCounted, TypeOK
<1>3. success \in Result /\ success.success /\ ~success.mustShutDown
  BY <1>2 DEF Result, Response
<1>4. refusal \in Result /\ ~refusal.success
  BY DEF Failure, Result, MustShutDown
<1>5. Successful(status) => \E r \in accepted : r.call = c
  BY <1>1 DEF SenderInvariant, SuccessIsReal
<1> HIDE DEF success, refusal
<1>6. ASSUME NEW r \in Result, Return(c, r), r.success => \E q \in accepted : q.call = c
      PROVE  Attempts!Next
  <2>1. /\ state'[c] = "returned" /\ result'[c] = r
        /\ \A d \in Calls \ {c} : state'[d] = state[d] /\ result'[d] = result[d]
    BY <1>2, <1>6 DEF Return, TypeOK
  <2> QED
    BY <1>1, <1>2, <1>6, <2>1, ReturnIsOutcome DEF Attempts!Next
<1> QED
  BY <1>1, <1>3, <1>4, <1>5, <1>6, TryAgainIsStep

\* The server processes one copy, which it has not processed before; or refuses it.
LEMMA ServerHandlesIsStep ==
  ASSUME SenderInvariant, NEW r \in network, ServerHandles(r)
  PROVE  [Attempts!Next]_(Attempts!vars)
<1> DEFINE c == r.call
           processed == [d \in Calls |-> ProcessedAttempts(d)]
<1>1. /\ TypeOK /\ r \in Request /\ c \in Calls /\ r.attempt \in 1 .. 2
      /\ r.attempt <= attempt[c] /\ r \notin accepted
  BY DEF SenderInvariant, TypeOK, Request, RequestsAreAttempts
<1>2. /\ UNCHANGED <<attempt, result>>
      /\ accepted' = accepted \cup {r} \/ accepted' = accepted
      /\ \/ state' = state
         \/ state[c] = "posted" /\ state' = [state EXCEPT ![c] = "answered"]
  BY DEF ServerHandles
<1>3. \A d \in Calls : \/ state'[d] = state[d]
                       \/ state[d] # "returned" /\ state'[d] # "returned"
  BY <1>1, <1>2 DEF TypeOK
<1>4. CASE accepted' = accepted
  BY <1>2, <1>3, <1>4, OtherIsStutter
<1>5. CASE accepted' = accepted \cup {r}
  <2>1. r.attempt \notin ProcessedAttempts(c)
    <3> SUFFICES ASSUME NEW q \in accepted, q.call = c, q.attempt = r.attempt
                 PROVE  FALSE
      BY DEF ProcessedAttempts
    <3>1. q \in Request /\ q.id = r.id
      BY DEF SenderInvariant, TypeOK, RequestsCarryIDs
    <3>2. q = r
      BY <1>1, <3>1 DEF Request
    <3> QED
      BY <1>1, <3>2
  <2>2. /\ ProcessedAttempts(c)' = ProcessedAttempts(c) \cup {r.attempt}
        /\ \A d \in Calls \ {c} : ProcessedAttempts(d)' = ProcessedAttempts(d)
    BY <1>5 DEF ProcessedAttempts
  <2>3. processed' = [processed EXCEPT ![c] = processed[c] \cup {r.attempt}]
    BY <1>1, <2>2
  <2>4. [d \in Calls |-> Outcome(d)]' = [d \in Calls |-> Outcome(d)]
    BY <1>2, <1>3 DEF Outcome
  <2>5. r.attempt \in 1 .. attempt[c] /\ r.attempt \notin processed[c]
    BY <1>1, <2>1 DEF TypeOK
  <2>6. Attempts!Process(c, r.attempt)
    BY <1>2, <2>3, <2>4, <2>5 DEF Attempts!Process
  <2> QED
    BY <1>1, <2>6 DEF Attempts!Next
<1> QED
  BY <1>2, <1>4, <1>5

\* Every step of the sender, the network or the server is one of the specification.
LEMMA AttemptsNext ==
  ASSUME SenderInvariant, [Next]_vars
  PROVE  [Attempts!Next]_(Attempts!vars)
<1>1. ASSUME NEW c \in Calls, TransportError(c)
      PROVE  [Attempts!Next]_(Attempts!vars)
  BY <1>1, TryAgainIsStep DEF TransportError, AfterTransportError, serverVars
<1>2. ASSUME NEW c \in Calls, Retry(c)
      PROVE  [Attempts!Next]_(Attempts!vars)
  BY <1>2, PostIsCopy DEF Retry, Attempts!Next
<1>3. CASE ServerClock \/ UNCHANGED vars
  BY <1>3, OtherIsStutter DEF ServerClock, vars, callVars, serverVars
<1> QED
  BY <1>1, <1>2, <1>3, SendEventDataIsStep, HandleResponseIsStep, ServerHandlesIsStep
  DEF Next, CallStep

\* The loop of SendEventDataWithRetry implements DeliveryAttempts over a network that
\* loses and delays, for any number of calls at once and any statuses.
THEOREM ImplementsAttempts == Spec => AttemptsAsPromised
  BY AttemptsInit, AttemptsNext, SenderInvariantHolds, PTL
     DEF Spec, AttemptsAsPromised, Attempts!Spec
=============================================================================
