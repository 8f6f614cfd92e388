SPECIFICATION FairRuntimes
CONSTANTS
  c1 = c1  c2 = c2
  i1 = i1
  f1 = f1  f2 = f2
  ask = ask  result = result
  NoCall = NoCall  NoFrame = NoFrame  NoId = NoId  NoTag = NoTag  Sentinel = Sentinel
  Call = {c1, c2}
  Id = {i1}
  Tag = {ask, result}
  Frame = {f1, f2}
  BadFrame = {f2}
  IdOf <- OneId
  SentTag <- BothAsk
  FrameId <- Ids
  FrameTag <- Tags
  HasCancel = TRUE
  ReuseHooked = FALSE
  InPlace = FALSE
INVARIANTS
  TypeOK
  NoCallForgotten
  CancelNamesItsCall
PROPERTIES
  CallsEnd
  ReceiverTold
  KeepsPromise
CHECK_DEADLOCK FALSE
