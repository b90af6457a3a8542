\* JUnit, xUnit and .trx reports with two mtimes; no -f, -f boost or -f mstest.
CONSTANTS
  p1 = p1
  p2 = p2
  p3 = p3
  pMissing = pMissing
  NoFileList = NoFileList
  NoFramework = NoFramework
  None = None
  Running = Running
  Paths <- MCPaths
  WalkOrder <- MCWalkOrder
  Dirs <- MCDirs
  GitPrefixed <- MCGitPrefixed
  RootArgs <- PlainRoot
  MissingPath = pMissing
  Contents <- ComposeContents
  MTimes = {1, 2}
  ExcludeChoices = {FALSE}
  FileListArgs <- NoListArgs
  FrameworkArgs <- ComposeFrameworkArgs
SPECIFICATION Spec
CHECK_DEADLOCK FALSE
INVARIANT ComposedAsSpecified
