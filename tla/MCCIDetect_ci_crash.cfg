\* Adds Greenhouse, GitLab without CI_BUILD_ID, and a clone with no GitHub remote.
CONSTANTS
  None = None
  Envs <- AllEnvs
  ArgChoices <- MCArgChoices
  Gits <- AllClones
  DefaultName = "JUnit"
  CommitIds <- MCCommitIds
SPECIFICATION Spec
CHECK_DEADLOCK FALSE
INVARIANT DiscoveryNeverRaises
