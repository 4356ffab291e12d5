SPECIFICATION AnySpec
CONSTANTS
  a = a
  b = b
  c = c
  Files = {a, b, c}
  Texts <- MCTexts
  Frames = {1}
  Undefined = Undefined
  Damaged = {"damaged", "broken"}
  Valid = {"one", "two", "three", "damaged"}
  FixesOf <- MCFixesOf
  Disks <- MCDisks
  ImportMaps <- MCImportMaps
  ProjectLists <- MCProjectLists
  Processed = {b}
  OptionSets <- MCOptionSets
  Instances <- MCInstances
  OptionsOf <- MCOptionsOf
  LibDirectory <- LibDir
  OtherLookups <- MCOtherLookups
  Absent = Absent
  Invalid = Invalid
  root = root
  dir = dir
  entry = entry
  Paths = {root, dir, entry}
  Root = root
  Parent <- MCParent
  Up <- MCUp
  Recursive = {TRUE, FALSE}
  Trees <- MCTrees
  Error = Error
  None = None
  one = one
  two = two
  r1 = r1
  r2 = r2
  OpenFiles = {one, two}
  MaxVersion = 2
  MaxProjectVersion = 3
  Imported <- MCImported
  Setups <- MCSetups
  Findings <- ServiceFindings
  FixPositions = {1}
  Nothing = Nothing
  Throwing = Throwing
INVARIANTS FindingsCurrent HostInSync SelectsFiles FailsWithReason NamesMapBack CachesCurrent ServesFresh
PROPERTIES ResultsFitProgram LintingEnds ProjectsEnd ImplementsFileSystem SameFindings
