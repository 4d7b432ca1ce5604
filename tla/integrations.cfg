SPECIFICATION MCSpec
CONSTANTS
  MaxRows = 2
  Limits = {1, 2}
  Secrets = {"s", "t"}
  Keys = {"k", "l"}
  Names = {"a", "b"}
  Release <- MCRelease
  Clones = 2
  Calls = {c1, c2}
  Host = {"lab", "prod"}
  Addr = {"a1", "a3"}
  Metadata = {"a3"}
  Local = {"a1"}
  Allowances <- MCAllowances
  WebHost = {"lab"}
  WebAddr = {"a1", "a3"}
  MaxRedirects = 2
  Sources = 2
  Entries <- MCEntries
  Versions = {"v1", "v2"}
  MaxShown = 1
  Runs = {cron, hand}
  Days = 2
  MaxTurns = 2
  Within = 1
  MaxVersion = 2
INVARIANTS
  TypesOK
  NothingLeftRunning
  SandboxIsClean
  RefsResolve
  ContainersAreRemoved
  DenyWins
  NothingIsLeftOut
  TrailAgrees
  EveryHopIsAuthorized
  ReportsAddUp
  ReportedIsPublished
PROPERTIES
  CallReturns
CHECK_DEADLOCK FALSE
