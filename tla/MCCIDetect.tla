----------------------------- MODULE MCCIDetect -----------------------------
(***************************************************************************)
(* One environment per CI the cascade knows, with the variables that CI    *)
(* sets for a build and the ones its branch reads; command lines that      *)
(* override each input once; working copies with each kind of origin.     *)
(***************************************************************************)
EXTENDS CIDetect

(* The repository is o/r; git knows commit sha9 and the top directory w.  *)
Slug   == <<"o", "r">>
Ref    == <<"refs", "heads", "main">>
Dir    == <<"home", "w">>

Data(names) == [n \in names |-> "v"]

E(ci, vs) == [ci |-> ci, vars |-> vs]

GitHubEnv == E("github", ("CI" :> "true") @@ ("GITHUB_ACTIONS" :> "true") @@ ("GITHUB_REF" :> Ref)
  @@ ("GITHUB_SHA" :> "sha1") @@ ("GITHUB_REPOSITORY" :> Slug) @@ Data({"GITHUB_RUN_ID"}))
JenkinsEnv == E("jenkins", ("JENKINS_URL" :> "v") @@ ("GIT_COMMIT" :> "sha1")
  @@ ("WORKSPACE" :> Dir) @@ Data({"GIT_BRANCH", "BUILD_NUMBER"}))
TravisEnv == E("travis-ci", ("CI" :> "true") @@ ("TRAVIS" :> "true") @@ ("TRAVIS_COMMIT" :> "sha1")
  @@ ("TRAVIS_REPO_SLUG" :> Slug) @@ ("TRAVIS_BUILD_DIR" :> Dir) @@ ("TRAVIS_PULL_REQUEST" :> "false")
  @@ ("TRAVIS_OS_NAME" :> "linux")
  @@ Data({"TRAVIS_JOB_NUMBER", "TRAVIS_JOB_ID", "TRAVIS_BRANCH"}))
(* Docker Hub's DOCKER_REPO is registry/owner/repo.                       *)
DockerEnv == E("docker", ("DOCKER_REPO" :> <<"index.docker.io", "o", "r">>)
  @@ ("SOURCE_COMMIT" :> "sha1") @@ Data({"SOURCE_BRANCH", "CACHE_TAG"}))
CodeshipEnv == E("codeship", ("CI" :> "true") @@ ("CI_NAME" :> "codeship")
  @@ ("CI_COMMIT_ID" :> "sha1") @@ Data({"CI_BRANCH", "CI_BUILD_NUMBER"}))
CodefreshEnv == E("codefresh", ("CI" :> "true") @@ ("CF_REVISION" :> "sha1")
  @@ Data({"CF_BUILD_URL", "CF_BUILD_ID", "CF_BRANCH"}))
TeamCityEnv == E("teamcity", ("BUILD_VCS_NUMBER" :> "sha1")
  @@ Data({"TEAMCITY_VERSION", "TEAMCITY_BUILD_BRANCH", "TEAMCITY_BUILD_ID"}))
CircleEnv == E("circle-ci", ("CI" :> "true") @@ ("CIRCLECI" :> "true") @@ ("CIRCLE_SHA1" :> "sha1")
  @@ ("CIRCLE_WORKING_DIRECTORY" :> <<"~", "project">>)
  @@ ("CIRCLE_PROJECT_USERNAME" :> <<"o">>) @@ ("CIRCLE_PROJECT_REPONAME" :> <<"r">>)
  @@ Data({"CIRCLE_BRANCH", "CIRCLE_BUILD_NUM", "CIRCLE_NODE_INDEX"}))
BuddybuildEnv == E("buddybuild", Data({"BUDDYBUILD_BRANCH", "BUDDYBUILD_BUILD_NUMBER"}))
BitriseEnv == E("bitrise", ("CI" :> "true") @@ ("BITRISE_IO" :> "true")
  @@ ("GIT_CLONE_COMMIT_HASH" :> "sha1") @@ Data({"BITRISE_GIT_BRANCH", "BITRISE_BUILD_NUMBER"}))
SemaphoreEnv == E("semaphore", ("CI" :> "true") @@ ("SEMAPHORE" :> "true") @@ ("REVISION" :> "sha1")
  @@ ("SEMAPHORE_REPO_SLUG" :> Slug)
  @@ Data({"BRANCH_NAME", "SEMAPHORE_BUILD_NUMBER", "SEMAPHORE_CURRENT_THREAD"}))
BuildkiteEnv == E("buildkite", ("CI" :> "true") @@ ("BUILDKITE" :> "true")
  @@ ("BUILDKITE_COMMIT" :> "sha1") @@ ("BUILDKITE_PULL_REQUEST" :> "false")
  @@ Data({"BUILDKITE_BRANCH", "BUILDKITE_BUILD_NUMBER", "BUILDKITE_JOB_ID"}))
(* Drone exports no variable the branch reads as the commit.             *)
DroneEnv == E("drone.io", ("CI" :> "drone") @@ ("DRONE" :> "true")
  @@ Data({"DRONE_BRANCH", "DRONE_BUILD_NUMBER", "DRONE_JOB_NUMBER"}))
HerokuEnv == E("heroku", ("CI" :> "true") @@ Data({"HEROKU_TEST_RUN_BRANCH", "HEROKU_TEST_RUN_ID"}))
AppveyorEnv == E("appveyor", ("CI" :> "True") @@ ("APPVEYOR" :> "True")
  @@ ("APPVEYOR_REPO_COMMIT" :> "sha1") @@ ("APPVEYOR_REPO_NAME" :> Slug)
  @@ ("APPVEYOR_BUILD_FOLDER" :> Dir)
  @@ Data({"APPVEYOR_REPO_BRANCH", "APPVEYOR_BUILD_ID", "APPVEYOR_ACCOUNT_NAME"}))
WerckerEnv == E("wercker", ("CI" :> "true") @@ ("WERCKER_GIT_COMMIT" :> "sha1")
  @@ Data({"WERCKER_GIT_BRANCH", "WERCKER_MAIN_PIPELINE_STARTED"}))
MagnumEnv == E("magnum", ("CI" :> "true") @@ ("MAGNUM" :> "true") @@ ("CI_COMMIT" :> "sha1")
  @@ Data({"CI_BRANCH", "CI_BUILD_NUMBER"}))
(* Shippable sets TRAVIS=true too, which the Travis test guards against.  *)
ShippableEnv == E("shippable", ("CI" :> "true") @@ ("SHIPPABLE" :> "true") @@ ("TRAVIS" :> "true")
  @@ ("COMMIT" :> "sha1") @@ ("REPO_FULL_NAME" :> Slug) @@ Data({"BUILD_NUMBER"}))
SolanoEnv == E("solano", ("TDDIUM" :> "true") @@ ("TDDIUM_CURRENT_COMMIT" :> "sha1")
  @@ Data({"TDDIUM_CURRENT_BRANCH", "TDDIUM_TID"}))
GreenhouseEnv == E("greenhouse", ("CI" :> "true") @@ ("GREENHOUSE" :> "true")
  @@ Data({"GREENHOUSE_BRANCH", "GREENHOUSE_EXPORT_DIR"}))
(* GitLab before 9.0 exported CI_BUILD_ID; later releases only CI_JOB_ID. *)
GitLabEnv == E("gitlab", ("CI" :> "true") @@ ("GITLAB_CI" :> "true") @@ ("CI_COMMIT_SHA" :> "sha1")
  @@ Data({"CI_BUILD_ID", "CI_JOB_ID", "CI_REPOSITORY_URL"}))
GitLabJobIdOnlyEnv == E("gitlab", ("CI" :> "true") @@ ("GITLAB_CI" :> "true")
  @@ ("CI_COMMIT_SHA" :> "sha1") @@ Data({"CI_JOB_ID", "CI_REPOSITORY_URL"}))
AzureEnv == E("azure_pipelines", ("TF_BUILD" :> "True") @@ ("BUILD_SOURCEVERSION" :> "sha1")
  @@ Data({"SYSTEM_TEAMFOUNDATIONSERVERURI", "BUILD_BUILDNUMBER", "BUILD_BUILDID",
           "BUILD_SOURCEBRANCHNAME"}))
LocalEnv == E(None, ("REPORT_CI_TOKEN" :> "tok"))

(* Every CI whose branch runs to completion on the variables it sets.     *)
WellFormedEnvs ==
  {GitHubEnv, JenkinsEnv, TravisEnv, DockerEnv, CodeshipEnv, CodefreshEnv, TeamCityEnv,
   CircleEnv, BuddybuildEnv, BitriseEnv, SemaphoreEnv, BuildkiteEnv, DroneEnv, HerokuEnv,
   AppveyorEnv, WerckerEnv, MagnumEnv, ShippableEnv, SolanoEnv, GitLabEnv, AzureEnv,
   LocalEnv}

AllEnvs == WellFormedEnvs \cup {GreenhouseEnv, GitLabJobIdOnlyEnv}

NoArgs == [sha |-> None, root_dir |-> None, name |-> None, token |-> None, check_run |-> None,
           ci_system |-> None, preset |-> None, define |-> None, merge |-> None]

(* No option; then each of -a, -r, -n, -t, -p, and a check-run id alone. *)
MCArgChoices ==
  {NoArgs, [NoArgs EXCEPT !.sha = "sha2"], [NoArgs EXCEPT !.root_dir = <<"home", "x">>],
   [NoArgs EXCEPT !.name = "nightly"], [NoArgs EXCEPT !.token = "tok"],
   [NoArgs EXCEPT !.check_run = "7"], [NoArgs EXCEPT !.preset = "p"]}

Git(inRepo, origin) == [repo |-> inRepo, remote |-> origin, head |-> "sha9", top |-> Dir, coords |-> Slug]

(* The CIs name sha1, -a names sha2, git's HEAD is sha9.                   *)
MCCommitIds == {"sha1", "sha2", "sha9"}

GitHubClones == {Git(TRUE, r) : r \in {"https", "ssh", "scp"}} \cup {Git(FALSE, "none")}
AllClones == GitHubClones \cup {Git(TRUE, "gitlab")}
=============================================================================
