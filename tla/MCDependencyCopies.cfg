SPECIFICATION Spec
CONSTANTS
  a = a
  b = b
  c = c
  d = d
  e = e
  s = s
  Files = {a, b, c, d, e}
  Versions <- Contents
  Specs = {s}
  Envs <- MCEnvs
  Programs <- AllPrograms
  Instances <- Copies
  Null = Null
  NA = NA
  None = None
INVARIANTS UpToDateHasSameDeps
