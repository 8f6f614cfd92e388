SPECIFICATION FairSpec
CONSTANTS
  text = text  wide = wide  bad = bad  odd = odd  err = err
  s1 = s1  s2 = s2
  Pairs <- SomePairs
  Event = {text, wide, bad, odd, err}
  Wide = {wide}
  Long = {odd}
  Unencodable = {bad}
  Unnamed = {odd}
  Misnamed = {odd}
  Reserved = {err}
  Sender = {s1, s2}
  MaxEvents = 2
  MaxPings = 1
INVARIANTS
  TypeOK
  PingsEndWithRoute
PROPERTIES
  HandlerReleased
  KeepsPromise
CHECK_DEADLOCK FALSE
