SPECIFICATION Spec
CONSTANTS
  a = a  g2 = g2  t1 = t1  t2 = t2  bad = bad
  c1 = c1  c2 = c2  v1 = v1  v2 = v2
  Whole = Whole  Handmade = Handmade  Tampered = Tampered  Torn = Torn
  Nothing = Nothing
  Group = {a, g2}
  Text = {t1, t2, bad}
  Broken = bad
  Config = {c1}
  Tool = {v1}
  Reads <- Uses
  Refs <- Inlined
  Acts = {"schema"}
  Meanwhile = FALSE
  CanFail = FALSE
  Racy = 0
  MaxTime = 0
  MaxActs = 1
PROPERTIES
  MatchesFullBuild
