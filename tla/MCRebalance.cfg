SPECIFICATION EditingSpec
CONSTANTS
  Author = {c1}
  Scene = {s1, s2, s3}
  Text = {x}
  STEP = 8
  MaxEdits = 7
  MaxVersions = 0
  Track = {t1}
  Clip = {}
  ZIndex = {1}
  Cut = {1}
  NoEdit = NoEdit
INVARIANTS
  RebalanceFits
CHECK_DEADLOCK FALSE
