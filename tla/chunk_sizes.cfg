SPECIFICATION FairSpec
CONSTANTS
  m1 = m1  m2 = m2  m3 = m3  m4 = m4
  NoMsg = NoMsg
  Msg = {m1, m2, m3, m4}
  Parts <- Sizes
  Binary = {m4}
  ChunkBytes = 2
  Threshold = 4
  Limit = 6
  Retain = 4
INVARIANTS
  TypeOK
  ArriveWhole
  OnlyTooBigRejected
  AssemblyBounded

  
CHECK_DEADLOCK FALSE
