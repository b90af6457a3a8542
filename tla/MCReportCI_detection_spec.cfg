\* A walk from a root under .gitlab-runner with a report under .github, or an explicit
\* -l list naming a file twice or files the globs do not match; Latin-1 reports.
CONSTANTS
  p1 = p1
  p2 = p2
  p3 = p3
  pMissing = pMissing
  NoFileList = NoFileList
  NoFramework = NoFramework
  None = None
  Running = Running
  Paths <- MCPaths
  WalkOrder <- MCWalkOrder
  Dirs <- GithubDirs
  GitPrefixed <- MCGitPrefixed
  RootArgs <- AnyRoot
  MissingPath = pMissing
  Contents <- DivergentContents
  MTimes = {1}
  ExcludeChoices = {FALSE, TRUE}
  FileListArgs <- WalkOrListed
  FrameworkArgs <- AutoOnly
SPECIFICATION Spec
CHECK_DEADLOCK FALSE
PROPERTY ImplementsDetection
