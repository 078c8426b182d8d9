SPECIFICATION FairSpec
CONSTANTS
  id1 = id1  id2 = id2
  NoID = NoID
  Calls = {"first", "second", "wrong", "badURI"}
  Kind <- MixedKinds
  BadURI = {"badURI"}
  PayloadIDs = {id1, id2}
  Statuses = {202, 401, 413, 503}
  MaxClock = 2
CHECK_DEADLOCK FALSE
INVARIANTS TypeOK IDsIdentifyPayloads SuccessMeansAccepted GivenUpAfterRetry
PROPERTIES CallsReturn AttemptsAsPromised
