SPECIFICATION RunnerSpec
CONSTANTS
  a = a
  b = b
  c = c
  s = s
  augmentations = augmentations
  Files = {a, b, c}
  Linted = {a, b}
  Versions <- MCVersions
  Specs = {s, augmentations}
  Configs = {"c1"}
  Envs <- MCEnvs
  Programs <- Augmented
  Null = Null
  NA = NA
  None = None
  Corrupt = Corrupt
INVARIANTS RemovedDependencyOutdates
