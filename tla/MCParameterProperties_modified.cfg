SPECIFICATION RuleSpec
CONSTANTS
  Classes <- Modified
  Modes = {"when-possible"}
PROPERTIES KeepsSemantics
CHECK_DEADLOCK FALSE
