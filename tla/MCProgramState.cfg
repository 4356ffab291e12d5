SPECIFICATION AnySpec
CONSTANTS
  Files <- ABC
  Linted = {"a", "b"}
  Versions <- MCVersions
  Specs = {"s"}
  Configs = {"c1", "c2"}
  Envs <- AllEnvs
  Programs <- AllPrograms
  Null = Null
  NA = NA
  None = None
  Corrupt = Corrupt
INVARIANTS IInv NoStaleReuse
PROPERTIES SaveIsCurrent KeepsValidResults NoNeedlessLint MovedKeepsState
