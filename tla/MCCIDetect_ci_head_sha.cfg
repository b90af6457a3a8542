\* Every CI's own environment, each option, every kind of GitHub clone: the commit sent.
CONSTANTS
  None = None
  Envs <- WellFormedEnvs
  ArgChoices <- MCArgChoices
  Gits <- GitHubClones
  DefaultName = "JUnit"
  CommitIds <- MCCommitIds
SPECIFICATION Spec
CHECK_DEADLOCK FALSE
INVARIANT HeadShaIsCommitId
