\* Auto-detection from a walk or an explicit list, through publish, where the code meets the spec.
CONSTANTS
  p1 = p1
  p2 = p2
  p3 = p3
  pMissing = pMissing
  NoFileList = NoFileList
  NoFramework = NoFramework
  None = None
  Running = Running
  Paths <- MCPaths
  WalkOrder <- MCWalkOrder
  Dirs <- MCDirs
  GitPrefixed <- MCGitPrefixed
  RootArgs <- PlainRoot
  MissingPath = pMissing
  Contents <- AutoContents
  MTimes = {1}
  ExcludeChoices = {FALSE, TRUE}
  FileListArgs <- AutoListArgs
  FrameworkArgs <- AutoFrameworkArgs
SPECIFICATION Spec
CONSTRAINT ListedFilesSelected
CHECK_DEADLOCK FALSE
INVARIANT TypeOK
PROPERTY ImplementsDetection
