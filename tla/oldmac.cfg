SPECIFICATION Spec
CONSTANTS
  u1 = u1
  u2 = u2
  u3 = u3
  u4 = u4
  u5 = u5
  u6 = u6
  Uuids <- SixIds
  Started = "oldmac"
  Editor = "none"
  Texts <- StartedTexts
  Saved <- EditorTexts
  Runs <- One
  MaxSaves = 0
  Failures = FALSE
INVARIANTS StillParses
