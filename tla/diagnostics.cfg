SPECIFICATION Spec
CONSTANTS
  e1 = e1  e2 = e2  e3 = e3  e4 = e4  ctx1 = ctx1  ctx2 = ctx2  w1 = w1  w2 = w2
  NoEvent = NoEvent  NoCaller = NoCaller
  Events = {e1, e3}
  Input <- RichInput
  Contexts = {ctx1, ctx2}
  Capacity = 1
  UserKeysCapacity = 1
  ClientTimes = {0}
  Workers = {w1}
  Flushers = {}
  TimedFlushers = {}
  Syncers = {"syncer"}
  Closers = {}
  Diagnostics = TRUE
  MaxServerTime = 1
CHECK_DEADLOCK FALSE
INVARIANTS WorkersGroupExact NoDropReportedTwice WaitBlockedByResultsOnly
PROPERTIES ReplyMeansSettled
