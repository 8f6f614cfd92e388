SPECIFICATION FairSpec
CONSTANTS
  c1 = c1  c2 = c2
  i1 = i1
  f1 = f1  f2 = f2  f3 = f3
  ask = ask  result = result
  NoCall = NoCall  NoFrame = NoFrame  NoId = NoId  NoTag = NoTag
  Call = {c1}
  Id = {i1}
  Tag = {ask, result}
  Frame = {f1, f2}
  BadFrame = {f1}
  OwnContext = {c1}
  IdOf <- OneId
  SentTag <- OneAsk
  FrameId <- ReplyAndRequest
  FrameTag <- ReplyAndRequestTag
  HasCancel = FALSE
  KeepAlive = TRUE
  ReuseInFlight = FALSE
PROPERTIES
  CallFailsWithConnection
CHECK_DEADLOCK FALSE
