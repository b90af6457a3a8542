\* -f go over a directory of go test -json output.
CONSTANTS
  p1 = p1
  p2 = p2
  p3 = p3
  pMissing = pMissing
  NoFileList = NoFileList
  NoFramework = NoFramework
  None = None
  Running = Running
  Paths <- MCPaths
  WalkOrder <- MCWalkOrder
  Dirs <- MCDirs
  GitPrefixed <- MCGitPrefixed
  RootArgs <- PlainRoot
  MissingPath = pMissing
  Contents <- GoContents
  MTimes = {1}
  ExcludeChoices = {FALSE}
  FileListArgs <- NoListArgs
  FrameworkArgs <- GoChosen
SPECIFICATION Spec
CHECK_DEADLOCK FALSE
INVARIANT ExplicitAgreesWithDetection
