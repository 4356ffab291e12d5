SPECIFICATION LintSpec
CONSTANTS
  a = a
  b = b
  c = c
  Files = {a, b, c}
  Texts <- MCTexts
  Frames = {1, 2}
  Undefined = Undefined
  Damaged = {"damaged", "broken"}
  Valid = {"one", "two", "three", "damaged"}
  FixesOf <- MCFixesOf
  Disks <- MCDisks
  ImportMaps <- MCImportMaps
  ProjectLists <- MCProjectLists
  Processed = {a}
  OptionSets <- MCOptionSets
INVARIANTS FixesFit
CHECK_DEADLOCK FALSE
