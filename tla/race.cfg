SPECIFICATION Spec
CONSTANTS
  u1 = u1
  u2 = u2
  u3 = u3
  u4 = u4
  u5 = u5
  u6 = u6
  Uuids <- SixIds
  Started = "two"
  Editor = "saved"
  Texts <- StartedTexts
  Saved <- EditorTexts
  Runs <- Two
  MaxSaves = 2
  Failures = TRUE
INVARIANTS NeverMixed ReportIsCurrent
