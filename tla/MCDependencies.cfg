SPECIFICATION AnySpec
CONSTANTS
  a = a
  b = b
  c = c
  d = d
  s = s
  t = t
  Files = {a, b, c, d}
  Versions <- Contents
  Specs = {s, t}
  Envs <- MCEnvs
  Programs <- AllPrograms
  Instances <- MCInstances
  Null = Null
  NA = NA
  None = None
  importer = importer
  declarer = declarer
  imported = imported
  out = out
  SourceNames = {importer, declarer, imported, out}
  ModuleNames = {"./c", "m", "wx", "w*", "wx*"}
  Patterns = {"w*", "wx*"}
  ResolvedName <- MCResolvedName
  Matches <- MCMatches
  PrefixLength <- MCPrefixLength
  ProjectOf <- MCProjectOf
  SourceOf <- MCSourceOf
  OutFileOf <- MCOutFileOf
  RedirectToSource = TRUE
  TextsOf <- MCTextsOf
  Unresolved = Unresolved
  Self = Self
  NotAsked = NotAsked
INVARIANTS StatusesTrue StacksAligned ResolverCachesFresh
PROPERTIES Terminates RefinesWalk ImplementsFreshResolver
