---------------------------- MODULE MCEventSender ---------------------------
(***************************************************************************)
(* Instances of EventSender for TLC.                                       *)
(***************************************************************************)
EXTENDS EventSenderProperties, TLC

CONSTANTS id1, id2

\* Two payloads of analytics data, a diagnostic event whose URI does not parse, and a
\* call with a wrong kind.
MixedKinds ==
  [c \in Calls |-> CASE c = "badURI" -> "diagnostic"
                     [] c = "wrong" -> "other"
                     [] OTHER -> "analytics"]

Symmetry == Permutations(PayloadIDs)
=============================================================================
