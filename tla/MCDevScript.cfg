SPECIFICATION ScriptSpec
CONSTANTS
  Packages = {"worker", "idp", "api", "library"}
  Others = {"nobody"}
  Texts <- MCTexts
  Number <- MCNumber
  Parsed <- MCParsed
  Workspaces <- MCWorkspaces
  Shells <- MCShells
  Unset = Unset
  Order <- MCOrder
  N = 3
  Http = {2, 3}
INVARIANTS
  
  SharedPortsHaveACause
  ListsWhatItUses
  TypeOK
  NoneLeftBehind
  OnlyReadyIsStale
  KillReachesTheGroup
PROPERTIES
  StopIsFinite
  EndsWithTheLast
  ReportComes
CHECK_DEADLOCK FALSE
