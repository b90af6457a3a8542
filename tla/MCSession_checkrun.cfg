\* Report steps of two jobs, in fresh and inherited workspaces, every answer.
CONSTANTS
  c1 = c1
  c2 = c2
  None = None
  Commits <- MCCommits
  CheckRunArgs <- NoCheckRunArg
  KeepChoices <- FreshOrKept
  MaxJobs = 2
  MaxInvocations = 4
  MaxRuns = 3
SPECIFICATION Spec
CHECK_DEADLOCK FALSE
INVARIANT OwnCheckRunPerJob
