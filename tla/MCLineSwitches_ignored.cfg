SPECIFICATION SwitchesSpec
CONSTANTS
  r = r
  s = s
  u = u
  Lines = 3
  Width = 2
  RuleNames = {r, s}
  AllNames = {r, s, u}
  CommentLists <- OneRule
  FindingSets <- LineFindings
INVARIANTS DisablesUntilEnabled
CHECK_DEADLOCK FALSE
