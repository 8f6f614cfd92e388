SPECIFICATION FairSpec
CONSTANTS
  c1 = c1
  i1 = i1
  f1 = f1  f2 = f2  f3 = f3
  r1 = r1  r2 = r2
  ask = ask  result = result
  NoCall = NoCall  NoFrame = NoFrame  NoId = NoId  NoTag = NoTag
  Call = {c1}
  Id = {i1}
  Tag = {ask, result}
  Frame = {f1, f2, f3}
  Receiver = {r1, r2}
  BadFrame = {f3}
  IdOf <- OneCall
  SentTag <- OneAsk
  FrameId <- ReplyAndOwn
  FrameTag <- ReplyAndOwnTag
  HasCancel = TRUE
  KeepAlive = TRUE
  ReuseInFlight = FALSE
INVARIANTS
  TypeOK
  DeadReaderLeavesNoCall
  CancelFollowsCall
  EachFrameOnce
  NoLostWakeup
PROPERTIES
  ReceiversLearnOfEnd
  SilentPeerDetected
  KeepsPromise
