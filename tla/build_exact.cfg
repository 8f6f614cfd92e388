SPECIFICATION Spec
CONSTANTS
  a = a  g2 = g2  t1 = t1  t2 = t2  bad = bad
  c1 = c1  c2 = c2  v1 = v1  v2 = v2
  Whole = Whole  Handmade = Handmade  Tampered = Tampered  Torn = Torn
  Nothing = Nothing
  Group = {a, g2}
  Text = {t1, t2, bad}
  Broken = bad
  Config = {c1, c2}
  Tool = {v1, v2}
  Reads <- Uses
  Refs <- Uses
  Acts = {"schema", "output", "config", "tool"}
  Meanwhile = FALSE
  CanFail = TRUE
  Racy = 0
  MaxTime = 1
  MaxActs = 2
SYMMETRY Alike
INVARIANTS
  TypeOK
PROPERTIES
  MatchesFullBuild
  UnchangedIsSkipped
  ManifestComplete
