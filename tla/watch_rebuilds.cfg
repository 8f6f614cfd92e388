SPECIFICATION EitherSpec
CONSTANTS
  d = d  t1 = t1  t2 = t2  bad = bad
  Whole = Whole  Handmade = Handmade  Tampered = Tampered  Torn = Torn
  Nothing = Nothing  Toml = Toml
  Group = {d}
  Text = {t1, t2, bad}
  Broken = bad
  Config = {"c1", "c2"}
  Tool = {"v1"}
  Reads <- Alone
  Refs <- Alone
  Acts = {"schema", "config"}
  Meanwhile = TRUE
  CanFail = TRUE
  Racy = 0
  Settle = 0
  EarlyEdits = FALSE
  MaxTime = 1
  MaxActs = 3
PROPERTIES
  WatchConverges
  MockConverges
CHECK_DEADLOCK FALSE
