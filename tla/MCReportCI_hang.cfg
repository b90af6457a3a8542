\* A walk over xUnit reports under the script's own fairness; the service may never answer.
CONSTANTS
  p1 = p1
  p2 = p2
  p3 = p3
  pMissing = pMissing
  NoFileList = NoFileList
  NoFramework = NoFramework
  None = None
  Running = Running
  Paths <- MCPaths
  WalkOrder <- MCWalkOrder
  Dirs <- MCDirs
  GitPrefixed <- MCGitPrefixed
  RootArgs <- PlainRoot
  MissingPath = pMissing
  Contents <- XunitFamilyContents
  MTimes = {1}
  ExcludeChoices = {FALSE}
  FileListArgs <- NoListArgs
  FrameworkArgs <- AutoOnly
SPECIFICATION FairSpec
CHECK_DEADLOCK FALSE
PROPERTY Terminates
