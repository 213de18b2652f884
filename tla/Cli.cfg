CONSTANTS
  Dashboards = {"d1"}
  Channel <- MCChannel
  Platforms <- MCPlatforms
  Cli = "cli"
  CliChannel = "uat"
  MaxJobs = 2
  MaxRetained = 1
  Attempts = 3
  MaxFaults = 3
  None = None
  Releases = {"r1", "r2"}
  ReleaseChannel <- MCReleaseChannel
  Environments = {"main"}
  Configs <- MCConfigs
  Private = {"https", "local"}
  DefaultServer = "https"
  TokenIsSet = TRUE
  Number <- MCNumber
  Lines <- MCLines
  Percents <- MCPercents
  Minimums <- MCMinimums
  Absent <- MCAbsent
  Requests = {"q1"}
  Pages = {"p1"}
  MaxRuns = 2
  Nobody = "nobody"
  Laptop = "laptop"
  CI = "ci"
  Files = {"Main.kt", "build/out.o", "local.properties"}
  Output = {"build/out.o"}
  Local = {"local.properties"}
  Contents = {c1, c2}
  NoFile = NoFile
SPECIFICATION MCSpec
CHECK_DEADLOCK FALSE
INVARIANTS
  ShipsItsOwnBuild
  ReportedIsServed
  LaptopAndCiAgree
PROPERTIES
  EveryJobEnds
  ChangesAsAsked
