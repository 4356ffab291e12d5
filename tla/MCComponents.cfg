SPECIFICATION AnySpec
CONSTANTS
  N = 4
  FixLists <- MCFixLists
  r = r
  s = s
  u = u
  Lines = 3
  Width = 2
  RuleNames = {r, s}
  AllNames = {r, s, u}
  CommentLists <- MCCommentLists
  FindingSets <- MCFindingSets
  Components <- VueComponents
  Insertions <- MCInsertions
  MaxFixes = 2
  Classes <- MCClasses
  Modes = {"never", "consistent", "when-possible"}
  Nestings <- MCNestings
  Places <- MCPlaces
  Expressions <- MCExpressions
  PropertyNames = {"a", "b"}
  Objects <- MCObjects
  tsFile = tsFile
  jsFile = jsFile
  prefix = prefix
  sub = sub
  root = root
  proc = proc
  Undefined = Undefined
  Off = Off
  Error = Error
  Broken = Broken
  Pending = Pending
  Dirs = {sub, root}
  ParentDir <- MCParentDir
  Targets = {tsFile, jsFile}
  CoreRules = {"x", "t"}
  TypedRules = {"t"}
  ConfigInstances <- MCConfigInstances
  TslintInstances <- MCTslintInstances
  JavaScript = {jsFile}
  Idle = Idle
  Arguments <- MCArguments
  Yamls <- MCYamls
  Trimmed <- MCTrimmed
  Sanitized <- MCSanitized
  Items <- MCItems
  NumberOf <- MCNumberOf
  Dates = {"2001-01-01"}
  Dashed <- MCDashed
  Thrown = Thrown
  src1 = src1
  src2 = src2
  Suites <- MCSuites
  TestOptions <- MCTestOptions
  NoResult = NoResult
INVARIANTS OutputSound DisablesExactly DeletingUselessIsSafe ScriptMapsBack JumpsKeepTargets AnswersAreFresh ConfigurationMeans TslintApplies SaveKeepsOptions BaselinesRight
PROPERTIES Terminates FixesStayInScript FixesConverge RulesAgree OverriddenIsUseless LoadEnds
CHECK_DEADLOCK FALSE
