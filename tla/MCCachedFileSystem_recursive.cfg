SPECIFICATION CSpec
CONSTANTS
  root = root
  dir = dir
  entry = entry
  Paths = {root, dir, entry}
  Root = root
  Parent <- MCParent
  Up <- MCUp
  Recursive = {TRUE}
  Trees <- MCTrees
  Error = Error
  None = None
INVARIANTS DirectoriesKnown
