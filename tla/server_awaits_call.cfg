SPECIFICATION FairRuntimes
CONSTANTS
  c1 = c1  c2 = c2
  i1 = i1
  f1 = f1  f2 = f2
  ask = ask  result = result
  NoCall = NoCall  NoFrame = NoFrame  NoId = NoId  NoTag = NoTag  Sentinel = Sentinel
  Call = {c1}
  Id = {i1}
  Tag = {ask, result}
  Frame = {f1, f2}
  BadFrame = {}
  IdOf <- OneCall
  SentTag <- OneAsk
  FrameId <- Ids
  FrameTag <- Tags
  HasCancel = TRUE
  ReuseHooked = FALSE
  InPlace = TRUE
PROPERTIES
  CallsEnd
CHECK_DEADLOCK FALSE
