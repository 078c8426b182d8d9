SPECIFICATION Spec
CONSTANTS
  e1 = e1  e2 = e2  e3 = e3  e4 = e4  ctx1 = ctx1  ctx2 = ctx2  w1 = w1  w2 = w2
  NoEvent = NoEvent  NoCaller = NoCaller
  Events = {e1, e2}
  Input <- MixedInput
  Contexts = {ctx1}
  Capacity = 1
  UserKeysCapacity = 1
  ClientTimes = {0}
  Workers = {w1, w2}
  Flushers = {"flusher"}
  TimedFlushers = {"flusher"}
  Syncers = {}
  Closers = {"closer"}
  Diagnostics = FALSE
  MaxServerTime = 0
SYMMETRY Symmetry
CHECK_DEADLOCK FALSE
INVARIANTS TypeOK WorkersGroupExact ShutdownQuiescent NothingSentTwice NoCallForgotten ReplyFindsReader
PROPERTIES ReplyMeansSettled DeliversAsPromised
