SPECIFICATION FairSpec
CONSTANTS
  c1 = c1  c2 = c2
  i1 = i1
  f1 = f1  f2 = f2  f3 = f3
  ask = ask  result = result
  NoCall = NoCall  NoFrame = NoFrame  NoId = NoId  NoTag = NoTag
  Call = {c1, c2}
  Id = {i1}
  Tag = {ask, result}
  Frame = {f1, f2, f3}
  BadFrame = {f3}
  OwnContext = {c2}
  IdOf <- SameId
  SentTag <- BothAsk
  FrameId <- ReplyAndRequests
  FrameTag <- ReplyAndRequestsTag
  HasCancel = FALSE
  KeepAlive = TRUE
  ReuseInFlight = FALSE
INVARIANTS
  TypeOK
  NoCallForgotten
  RepliesMatch
  RouteLeavesNothing
  QueueServed
PROPERTIES
  KeepsPromise
  RouteReturns
  ReadErrorFailsCalls
CHECK_DEADLOCK FALSE
