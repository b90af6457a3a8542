------------------------------ MODULE CIDetect ------------------------------
(***************************************************************************)
(* CI discovery and the upload query of reportci.py: the token default     *)
(* (lines 62-63), the provider cascade (lines 88-351), the commit, root    *)
(* and project fallbacks through git (lines 353-385), and the run name,    *)
(* query and route of the upload (lines 809-853).                          *)
(*                                                                         *)
(* The environment is a function from variable names to values.  Values   *)
(* are strings, except where the code splits or joins on "/": a ref, a    *)
(* slug or a directory is the sequence of its "/"-separated segments, so   *)
(* split("/") and "a" + "/" + "b" are modelled by what they do.            *)
(***************************************************************************)
EXTENDS Integers, Sequences, SequencesExt

CONSTANTS
  Envs,          \* [ci |-> the CI that made it (or None), vars |-> environment]
  ArgChoices,    \* records of -a, -r, -n, -t, -s, -p, -D, -m, and the check-run id
                 \* (-c or the id file)
  Gits,          \* [repo |-> BOOLEAN, remote |-> kind of origin URL]
  DefaultName,   \* the run name the composer chose (lines 671-802)
  CommitIds,     \* the commit ids the CI, -a and git may name
  None

VARIABLES
  env,       \* os.environ
  running,   \* the CI that produced env: not visible to the script
  args,
  git,       \* the working copy the git subprocesses see
  pc,        \* "detect", "git", "project", "query", "done", "crashed"
  service,
  meta,      \* branch, commit, build, build_id, pr, slug, root_dir, os_name, account_name
  token,
  owner, repo,
  query,     \* the query of the request, key |-> value
  url,       \* "publish" or the route "publish/<service>"
  crash      \* the exception that ended the script, or None

vars == <<env, running, args, git, pc, service, meta, token, owner, repo, query, url, crash>>

Get(v) == IF v \in DOMAIN env THEN env[v] ELSE None
Has(v) == v \in DOMAIN env
(* Python truth of a str, and of a path kept as its list of segments.     *)
Truthy(x) == x \notin {None, ""}
NonEmpty(p) == p # None /\ p # << >>

(* if A in env: x = env[A] elif B in env: ... (or the last one read with  *)
(* env.get): the value of the first of vs that is set.                     *)
FirstOf(vs) ==
  LET set == SelectSeq(vs, Has) IN IF set = << >> THEN None ELSE env[Head(set)]

MetaFields == {"branch", "commit", "build", "build_id", "pr", "slug", "root_dir",
               "os_name", "account_name"}
NoMeta == [f \in MetaFields |-> None]

(* A branch of the cascade: its elif condition, the fields it assigns     *)
(* (the others keep their initial None, lines 75-89), and whether one of  *)
(* its assignments raises.                                                 *)
(* Mutant: the None initialisations of lines 75-89 are missing.         *)
Provider_noDefaults(name, on, assigns, raises) ==
  [service |-> name, on |-> on, meta |-> assigns, raises |-> raises]

Provider(name, on, assigns, raises) ==
  [service |-> name, on |-> on, meta |-> assigns @@ NoMeta, raises |-> raises]

(* None.split, os.path.expanduser(None) and None + str raise.             *)
GitHub == Provider("github", Has("GITHUB_ACTIONS"),
  [branch |-> IF Has("GITHUB_REF") THEN Last(Get("GITHUB_REF")) ELSE None,
   commit |-> Get("GITHUB_SHA"), build |-> Get("GITHUB_RUN_ID"),
   slug |-> Get("GITHUB_REPOSITORY")],
  ~Has("GITHUB_REF"))

Jenkins == Provider("jenkins", Has("JENKINS_URL"),
  [branch |-> FirstOf(<<"ghprbSourceBranch", "GIT_BRANCH", "BRANCH_NAME">>),
   commit |-> FirstOf(<<"ghprbActualCommit", "GIT_COMMIT">>),
   pr |-> FirstOf(<<"ghprbPullId", "CHANGE_ID">>),
   root_dir |-> FirstOf(<<"WORKSPACE">>), build |-> Get("BUILD_NUMBER")], FALSE)

(* Mutant: the Shippable exclusion of line 125 is dropped.                *)
TravisOn_noShippableGuard == Get("CI") = "true" /\ Get("TRAVIS") = "true"

TravisOn == Get("CI") = "true" /\ Get("TRAVIS") = "true" /\ Get("SHIPPABLE") # "true"

Travis == Provider("travis-ci", TravisOn,
  [commit |-> Get("TRAVIS_COMMIT"), build |-> Get("TRAVIS_JOB_NUMBER"),
   pr |-> Get("TRAVIS_PULL_REQUEST"), build_id |-> Get("TRAVIS_JOB_ID"),
   slug |-> Get("TRAVIS_REPO_SLUG"), root_dir |-> Get("TRAVIS_BUILD_DIR"),
   os_name |-> Get("TRAVIS_OS_NAME"),
   branch |-> IF Get("TRAVIS_BRANCH") # Get("TRAVIS_TAG") THEN Get("TRAVIS_BRANCH") ELSE None],
  FALSE)

Docker == Provider("docker", Has("DOCKER_REPO"),
  [branch |-> Get("SOURCE_BRANCH"), commit |-> Get("SOURCE_COMMIT"),
   slug |-> Get("DOCKER_REPO")], FALSE)

Codeship == Provider("codeship", Get("CI") = "true" /\ Get("CI_NAME") = "codeship",
  [branch |-> Get("CI_BRANCH"), build |-> Get("CI_BUILD_NUMBER"),
   commit |-> Get("CI_COMMIT_ID")], FALSE)

Codefresh == Provider("codefresh", Has("CF_BUILD_URL") /\ Has("CF_BUILD_ID"),
  [branch |-> Get("CF_BRANCH"), build |-> Get("CF_BUILD_ID"),
   commit |-> Get("CF_REVISION")], FALSE)

TeamCity == Provider("teamcity", Has("TEAMCITY_VERSION"),
  [branch |-> Get("TEAMCITY_BUILD_BRANCH"), build |-> Get("TEAMCITY_BUILD_ID"),
   commit |-> FirstOf(<<"TEAMCITY_BUILD_COMMIT", "BUILD_VCS_NUMBER">>)], FALSE)

(* expanduser replaces a leading "~" by the home directory.               *)
ExpandUser(d) == IF Head(d) = "~" THEN <<"home">> \o Tail(d) ELSE d

Circle == Provider("circle-ci", Has("CI") /\ Has("CIRCLECI"),
  [branch |-> Get("CIRCLE_BRANCH"), build_id |-> Get("CIRCLE_BUILD_NUM"),
   pr |-> Get("CIRCLE_PR_NUMBER"), commit |-> Get("CIRCLE_SHA1"),
   root_dir |-> IF Has("CIRCLE_WORKING_DIRECTORY")
                THEN ExpandUser(Get("CIRCLE_WORKING_DIRECTORY")) ELSE None,
   slug |-> IF Has("CIRCLE_PROJECT_USERNAME") /\ Has("CIRCLE_PROJECT_REPONAME")
            THEN Get("CIRCLE_PROJECT_USERNAME") \o Get("CIRCLE_PROJECT_REPONAME") ELSE None],
  ~({"CIRCLE_WORKING_DIRECTORY", "CIRCLE_PROJECT_USERNAME", "CIRCLE_PROJECT_REPONAME"}
      \subseteq DOMAIN env))

Buddybuild == Provider("buddybuild", Has("BUDDYBUILD_BRANCH"),
  [branch |-> Get("BUDDYBUILD_BRANCH"), build |-> Get("BUDDYBUILD_BUILD_NUMBER")], FALSE)

Bitrise == Provider("bitrise", Get("CI") = "true" /\ Get("BITRISE_IO") = "true",
  [branch |-> Get("BITRISE_GIT_BRANCH"), build |-> Get("BITRISE_BUILD_NUMBER"),
   pr |-> Get("BITRISE_PULL_REQUEST"), commit |-> FirstOf(<<"GIT_CLONE_COMMIT_HASH">>)], FALSE)

Semaphore == Provider("semaphore", Has("CI") /\ Has("SEMAPHORE"),
  [branch |-> Get("BRANCH_NAME"), build |-> Get("SEMAPHORE_BUILD_NUMBER"),
   build_id |-> Get("SEMAPHORE_CURRENT_THREAD"), pr |-> Get("PULL_REQUEST_NUMBER"),
   slug |-> Get("SEMAPHORE_REPO_SLUG"), commit |-> Get("REVISION")], FALSE)

Buildkite == Provider("buildkite", Get("CI") = "true" /\ Truthy(Get("BUILDKITE")),
  [branch |-> Get("BUILDKITE_BRANCH"), build |-> Get("BUILDKITE_BUILD_NUMBER"),
   build_id |-> Get("BUILDKITE_JOB_ID"), slug |-> Get("BUILDKITE_PROJECT_SLUG"),
   commit |-> Get("BUILDKITE_COMMIT"),
   pr |-> IF Get("BUILDKITE_PULL_REQUEST") # "false" THEN Get("BUILDKITE_PULL_REQUEST") ELSE None],
  FALSE)

Drone == Provider("drone.io", Get("CI") = "drone" \/ Get("DRONE") = "true",
  [branch |-> Get("DRONE_BRANCH"), build_id |-> Get("DRONE_BUILD_NUMBER"),
   pr |-> Get("DRONE_PULL_REQUEST")], FALSE)

Heroku == Provider("heroku", Has("HEROKU_TEST_RUN_BRANCH"),
  [branch |-> Get("HEROKU_TEST_RUN_BRANCH"), build_id |-> Get("HEROKU_TEST_RUN_ID")], FALSE)

Appveyor == Provider("appveyor", Get("CI") = "True" /\ Get("APPVEYOR") = "True",
  [branch |-> FirstOf(<<"APPVEYOR_PULL_REQUEST_HEAD_REPO_BRANCH", "APPVEYOR_REPO_BRANCH">>),
   build_id |-> Get("APPVEYOR_BUILD_ID"), pr |-> Get("APPVEYOR_PULL_REQUEST_NUMBER"),
   commit |-> Get("APPVEYOR_REPO_COMMIT"), slug |-> Get("APPVEYOR_REPO_NAME"),
   account_name |-> Get("APPVEYOR_ACCOUNT_NAME"),
   root_dir |-> Get("APPVEYOR_BUILD_FOLDER")], FALSE)

Wercker == Provider("wercker", Get("CI") = "true" /\ Has("WERCKER_GIT_BRANCH"),
  [branch |-> Get("WERCKER_GIT_BRANCH"), build |-> Get("WERCKER_MAIN_PIPELINE_STARTED"),
   commit |-> Get("WERCKER_GIT_COMMIT")], FALSE)

Magnum == Provider("magnum", Get("CI") = "true" /\ Get("MAGNUM") = "true",
  [branch |-> Get("CI_BRANCH"), build |-> Get("CI_BUILD_NUMBER"),
   commit |-> Get("CI_COMMIT")], FALSE)

Shippable == Provider("shippable", Get("SHIPPABLE") = "true",
  [build |-> Get("BUILD_NUMBER"), pr |-> Get("PULL_REQUEST"),
   slug |-> Get("REPO_FULL_NAME"), commit |-> Get("COMMIT")], FALSE)

Solano == Provider("solano", Get("TDDIUM") = "true",
  [commit |-> Get("TDDIUM_CURRENT_COMMIT"), branch |-> Get("TDDIUM_CURRENT_BRANCH"),
   build |-> Get("TDDIUM_TID"), pr |-> Get("TDDIUM_PR_ID")], FALSE)

(* search_in is still None here: None + " " raises whatever is set.       *)
Greenhouse == Provider("greenhouse", Get("GREENHOUSE") = "true",
  [branch |-> "$GREENHOUSE_BRANCH", build |-> "$GREENHOUSE_BUILD_NUMBER",
   pr |-> "$GREENHOUSE_PULL_REQUEST", commit |-> "$GREENHOUSE_COMMIT"], TRUE)

GitLab == Provider("gitlab", Has("GITLAB_CI"),
  [build |-> <<Get("CI_BUILD_ID"), Get("CI_JOB_ID")>>, commit |-> Get("CI_COMMIT_SHA")],
  ~Has("CI_BUILD_ID") \/ ~Has("CI_JOB_ID"))

Azure == Provider("azure_pipelines", Has("SYSTEM_TEAMFOUNDATIONSERVERURI"),
  [commit |-> Get("BUILD_SOURCEVERSION"), build |-> Get("BUILD_BUILDNUMBER"),
   pr |-> IF Has("PULL_REQUEST_NUMBER") THEN Get("PULL_REQUEST_ID")
          ELSE Get("PULL_REQUEST_NUMBER"),
   branch |-> Get("BUILD_SOURCEBRANCHNAME")], FALSE)

NoCI == Provider(None, TRUE, NoMeta, FALSE)

(* The if/elif cascade, top to bottom; "No CI detected" last.             *)
Providers ==
  << GitHub, Jenkins, Travis, Docker, Codeship, Codefresh, TeamCity, Circle,
     Buddybuild, Bitrise, Semaphore, Buildkite, Drone, Heroku, Appveyor, Wercker,
     Magnum, Shippable, Solano, Greenhouse, GitLab, Azure, NoCI >>

Detected == Providers[CHOOSE i \in DOMAIN Providers :
                        Providers[i].on /\ \A j \in 1 .. i - 1 : ~Providers[j].on]

-----------------------------------------------------------------------------
Init ==
  /\ \E e \in Envs : env = e.vars /\ running = e.ci
  /\ args \in ArgChoices
  /\ git \in Gits
  /\ pc = "detect"
  /\ service = None
  /\ meta = NoMeta
  /\ token = None
  /\ owner = None /\ repo = None
  /\ query = << >>
  /\ url = None
  /\ crash = None

(* Lines 62-63 and 88-351.  Every branch assigns service first, so it is  *)
(* known even when a later assignment of the branch raises.               *)
Detect ==
  /\ pc = "detect"
  /\ token' = IF Has("REPORT_CI_TOKEN") /\ args.token = None
              THEN Get("REPORT_CI_TOKEN") ELSE args.token
  /\ service' = Detected.service
  /\ IF Detected.raises
       THEN pc' = "crashed" /\ crash' = "env_error" /\ UNCHANGED meta
       ELSE pc' = "git" /\ meta' = Detected.meta /\ UNCHANGED crash
  /\ UNCHANGED <<env, running, args, git, owner, repo, query, url>>

(* git rev-parse HEAD: check_output(...).decode() keeps the newline git   *)
(* prints; --show-toplevel has it removed by replace('\n', '').  Both      *)
(* raise CalledProcessError outside a working copy.                       *)
RevParseHead == git.head \o "\n"

(* Lines 353-362: -r and -a override the provider; what is still empty    *)
(* comes from git.                                                         *)
GitFallback ==
  /\ pc = "git"
  /\ LET root == IF NonEmpty(args.root_dir) THEN args.root_dir ELSE meta.root_dir
         sha  == IF Truthy(args.sha) THEN args.sha ELSE meta.commit
     IN  IF (~Truthy(sha) \/ ~NonEmpty(root)) /\ ~git.repo
           THEN pc' = "crashed" /\ crash' = "git_error" /\ UNCHANGED meta
           ELSE /\ meta' = [meta EXCEPT !.commit = IF Truthy(sha) THEN sha ELSE RevParseHead,
                                        !.root_dir = IF NonEmpty(root) THEN root ELSE git.top]
                /\ pc' = "project" /\ UNCHANGED crash
  /\ UNCHANGED <<env, running, args, git, service, token, owner, repo, query, url>>

(* The remote regexes of lines 378 and 383 match https://github.com/,     *)
(* ssh://git@github.com/ and git@github.com: origins.                      *)
(* Mutant: the git@github.com: form of line 383 is not tried.             *)
GitHubRemotes_noScp == {"https", "ssh"}

GitHubRemotes == {"https", "ssh", "scp"}

(* Mutant: the first two parts of any slug are taken.                     *)
SplitSlug_firstTwo(slug) == IF NonEmpty(slug) /\ Len(slug) >= 2 THEN SubSeq(slug, 1, 2) ELSE <<None, None>>

(* (owner, repo) = slug.split('/') unpacks exactly two parts.             *)
SplitSlug(slug) == IF NonEmpty(slug) /\ Len(slug) = 2 THEN slug ELSE <<None, None>>

(* Lines 364-385: owner and repo from the slug, else from `git remote -v`; *)
(* with no GitHub remote match is None and match.group raises.            *)
Project ==
  /\ pc = "project"
  /\ LET coords == SplitSlug(meta.slug)
     IN  IF Truthy(coords[1]) /\ Truthy(coords[2])
           THEN owner' = coords[1] /\ repo' = coords[2] /\ pc' = "query" /\ UNCHANGED crash
         ELSE IF ~git.repo
           THEN pc' = "crashed" /\ crash' = "git_error" /\ UNCHANGED <<owner, repo>>
         ELSE IF git.remote \notin GitHubRemotes
           THEN pc' = "crashed" /\ crash' = "no_remote" /\ UNCHANGED <<owner, repo>>
         ELSE owner' = git.coords[1] /\ repo' = git.coords[2] /\ pc' = "query"
              /\ UNCHANGED crash
  /\ UNCHANGED <<env, running, args, git, service, meta, token, query, url>>

(* Lines 809-813: without -n the default name gets " [service, os]".      *)
RunName ==
  LET name == IF Truthy(args.name) THEN args.name ELSE DefaultName
  IN  IF service # None /\ ~Truthy(args.name) /\ Truthy(name)
        THEN name \o " [" \o service
                  \o (IF Truthy(meta.os_name) THEN ", " \o meta.os_name ELSE "") \o "]"
        ELSE name

(* Lines 841-843: tokenless uploads of these CIs go to a route that the   *)
(* service checks against the CI's build id.                              *)
Routed == service \in {"travis-ci", "appveyor", "circle-ci"} /\ token = None

(* Lines 815-853: the query, the route, and run-name dropped from a PATCH *)
(* of an existing check run unless -n was given.                          *)
Query ==
  /\ pc = "query"
  /\ LET base == [owner |-> owner, repo |-> repo, head_sha |-> meta.commit,
                  root_dir |-> meta.root_dir, branch |-> meta.branch,
                  account_name |-> meta.account_name]
         named == IF Truthy(RunName) /\ ~(Truthy(args.check_run) /\ ~Truthy(args.name))
                  THEN "run_name" :> RunName ELSE << >>
         check == IF Truthy(args.check_run) THEN "check_run_id" :> args.check_run ELSE << >>
         build == IF Routed THEN "build_id" :> meta.build_id ELSE << >>
         extra == [o \in {o \in {"preset", "define", "merge"} : Truthy(args[o])} |-> args[o]]
     IN  query' = base @@ named @@ check @@ extra @@ build
  /\ url' = IF Routed THEN <<"publish", service>> ELSE <<"publish">>
  /\ pc' = "done"
  /\ UNCHANGED <<env, running, args, git, service, meta, token, owner, repo, crash>>

Next == Detect \/ GitFallback \/ Project \/ Query

Spec == Init /\ [][Next]_vars

-----------------------------------------------------------------------------
TypeOK ==
  /\ pc \in {"detect", "git", "project", "query", "done", "crashed"}
  /\ crash \in {None, "env_error", "git_error", "no_remote"}
  /\ service \in {Providers[i].service : i \in DOMAIN Providers}
  /\ DOMAIN meta = MetaFields
  /\ (pc = "done") = (DOMAIN query # {})

(* The cascade names the CI the script runs on: no earlier elif of        *)
(* lines 88-351 claims another CI's environment (Shippable also sets      *)
(* TRAVIS=true, most CIs set CI=true).                                    *)
DetectsRunningCI == pc # "detect" => service = running

(* No provider branch and no fallback raises: the script only stops in    *)
(* discovery when a git command it needs fails outside a working copy.    *)
DiscoveryNeverRaises == crash \in {None, "git_error"}

(* The owner and repo sent are the repository's, whichever of the CI's    *)
(* slug or the origin remote they come from.                              *)
QueryIdentifiesRepository ==
  pc = "done" => <<query.owner, query.repo>> = git.coords

(* Spec 6: the query carries the build's commit.  Whichever of the CI, -a  *)
(* or `git rev-parse HEAD` (line 359) supplies it, head-sha is a commit id *)
(* as they name it, the same on every CI.                                 *)
HeadShaIsCommitId == pc = "done" => query.head_sha \in CommitIds

=============================================================================
