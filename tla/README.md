# TLA+ models of reportci.py

`src/reportci.py` is a single-threaded Python script run as one step of a CI
job. It finds test-result files, works out which test framework wrote them,
builds one upload body and publishes it to report.ci. This directory holds
TLA+ modules of that script, TLC configurations that check them, and
`PROJECT.json`, the machine-readable index: components, runs, mutants, the
map from definitions to source lines, findings and hazards.

## 1. Inventory

### Components (in the order the script runs them)

| Component | Lines | State it keeps | Operations |
|---|---|---|---|
| Argument parsing | 37-60 | `args` | argparse; `-f` restricted to a fixed choice list (46-48) |
| Check-run id file | 62-69, 848-864 | `.report-ci-id.json` on disk, persisted across runs | read at start; written after a successful publish |
| CI environment discovery | 71-351 | `service, branch, commit, build, pr, slug, root_dir, os_name, ...` | one `if/elif` cascade over environment variables, first provider wins |
| Commit / root / slug fallback | 353-388 | `commit, root_dir, owner, repo` | `git rev-parse`, `git remote -v` plus a regex |
| File selector | 390-447 | `file_list` | `os.walk` with a `*/.git*` skip, or the `-l` list (a missing path is fatal); `match_file` include/exclude globs |
| Content decoder | 452-466 | (per file) `content` | ascii, then utf-8, then utf-16, dropping non-ASCII; otherwise skip the file |
| Signature classifier | 468-570 | the framework lists (`boost_test`, `junit_test`, ...), counters `phpunit`, `pytest`, `ava`, `complete_content` | per extension, a first-match cascade of `re.match` / `find` / JSON-key tests; append to one list |
| Framework resolver | 573-669 | `framework` | explicit `-f` verbatim, else the first non-empty list in a fixed priority, else `exit(1)` |
| Payload composer | 671-807 | `upload_content, content_type, run_name` | a branch per framework (XML wrapper, JSON array, joined text, newest `.trx`, Go object), then the `strip()` / empty check |
| Run naming and query | 809-853 | `run_name, query, url` | service suffix, query dict, drop run-name when a check-run id is known |
| Upload coordinator | 834-872 | the exit status, the id file | redirect probe, POST or PATCH, exception handler |

### How the components interact

Everything runs in sequence on one thread. The components communicate
through module-level variables. The selector fills `file_list`. The loop
decodes and classifies each file and appends it to one framework list. The
resolver reads the lists and counters. The composer reads the chosen lists
(for junit/xunit/go it also reads `file_list`). The publisher reads the body
and the CI metadata. The only state that outlives a run is the check-run id
file: one invocation writes it and later invocations read it.

### What is hard here

There is no concurrency. The hard parts are:

- **Cascades and precedence.** The per-extension classification cascade and
  the resolver order decide the outcome when several signatures or lists
  apply. Anchored regexes can make a branch dead.
- **Accumulation across iterations.** Lists and counters build up over the
  loop, then two tables that must agree read them: the resolver's detection
  table and the composer's table.
- **Boundaries.** An empty list, zero `.trx` files, blank files, and a
  framework name with no composer branch.
- **Partial failure at the end.** A publish that succeeds while the id
  write fails, an HTTP error, a network error. Each takes a different exit
  path through a bare `except`.
- **Persisted state across runs.** A stale check-run id is reused by a later
  invocation.
- **Decoding.** Bytes the cascade "decodes" into text that no signature
  matches.
- **Blocking network calls.** The redirect probe and the upload wait with
  no timeout.
- **Output of subprocesses.** git's output goes into the query as printed,
  trailing newline included.

### Properties that make each component correct

- Selector: an explicit list is used as given (no glob filtering). A missing
  listed file is fatal before anything else happens.
- Decoder and classifier: each file lands in at most one list, namely the
  one spec 4.3's rule table gives it. Specific signatures win over generic
  ones.
- Resolver: with no `-f`, the framework is the highest-priority one that some
  file was claimed for. Naming that framework with `-f` changes nothing.
- Composer: the body carries exactly the files of the chosen framework's
  lists, in walk order. MSTest uploads the newest `.trx`. An empty bucket is
  fatal ("no test data"), never an empty upload. Composition never crashes.
- Publisher: status 0 means the report was published. The id file then names
  this run's check run.
- CI discovery: the first provider whose variables are present wins. No
  provider branch raises on a missing optional variable. The head-sha sent
  is the commit id, wherever it came from.

## 2. Modules

| Module | Models | Notes |
|---|---|---|
| `ReportFormats` | decoder and classifier (452-570) as pure operators | contents abstracted to (extension, encoding, head, marks); rule tables in code order |
| `ReportCI` | one invocation from selection to exit (390-872) | actions `Walk`, `ListFiles`, `SkipUnmatched`, `ClassifyFile`, `EndClassify`, `Resolve`, `ComposeUpload`, `Probe`, `Answer` |
| `FormatsSpec` | spec 4.2 decoding and spec 4.3's rule table | `SpecDecode`, `SpecClassify`: written from the spec, not the code |
| `Detection` | what selection, classification and resolution promise (spec 3, 4.1-4.4), from the spec alone | abstract: `Select`, then `ClassifyAll` judges every candidate in one step, then `Resolve` |
| `Session` | several invocations sharing the check-run id file (62-69, 848-872) | actions `NewJob`, `Invoke`; the service is the list of check runs it created |
| `CIDetect` | token default, CI cascade, git fallback, run name and query (62-63, 71-853) | actions `Detect`, `GitFallback`, `Project`, `Query`; one `Provider` record per `elif` |
| `MCReportFormats` | the classifier against spec 4.3's rule table | the state is the file classified; the universe of contents comes from the cfg |
| `MCReportCI` | bounds for `ReportCI` | three files, representative contents, command lines, roots |
| `MCSession` | bounds for `Session` | two commits, two jobs, four invocations, three check runs |
| `MCCIDetect` | bounds for `CIDetect` | one environment per CI, each option once, each kind of origin remote |

### Correspondence with the code (`ReportCI`)

- `disk[p]` is a file's content, its mtime, and whether some include glob and
  some exclude glob match it. `inc` is tied to the extension, because the
  default globs are `*.xml *.json *.trx *.tap`. `args` holds `-l`, `-f` and
  the root directory. Both are chosen in `Init` and never change.
- Each file lies in a directory `Dirs[p]` below the root, kept as its list of
  names. `VcsSkipped` is the `fnmatch(path, "*/.git*")` of line 435, applied
  to the absolute path, so the root's own names count as well.
- `file_list`, `buckets` (the framework lists by their Python names),
  `counts` (`phpunit`, `pytest`, `ava`), `complete_content` and `framework`
  are the script's variables.
- `pc` is the stage and `k` the index of the `for abs_file in file_list`
  loop. `ClassifyFile` is one iteration: it decodes
  (`DecodeOutcomes`, nondeterministic for Latin-1 input), appends to
  `complete_content`, then appends to the list of the first rule that
  fires. An undecodable file takes the `continue` at line 466.
- `Resolve` is lines 576-669. `Priority` and `DetectedBy` are its cascade.
- `ComposeUpload` is lines 671-807. `Composition` is the composer's branch
  table: per framework, the envelope kind (which fixes `content_type`), the
  lists joined in order, the `<file>` trail and the default run name. `MsTestPick` is the loop at 789-794, including its
  `time_ = time` slip. The `TypeError` of line 796 is `reason = "crash"`.
  `EmptyBody` is the strip check: XML, JSON and Go envelopes are never
  empty.
- `Probe` is lines 834-856 and is the network's step. The script waits in
  the redirect probe (`pc = "probe"`). The probe either raises, or it
  answers and the request is built and sent, and the script waits in
  `urlopen` (`pc = "await"`).
  `Answer` is lines 858-872 and is the service's step: one of four answers,
  then the id write of line 864, with three outcomes (`IdWrites`). The
  write succeeds. Or `open` raises, and the script exits 1. Or the write is
  lost: `open(..., 'w')` has truncated the file, the unreferenced file
  object is closed later, and CPython swallows an error in that flush, so
  the script still exits 0 with an empty id file. After an `HTTPError` the
  body is printed and the final `exit(1)` runs.
- Payloads are sequences of paths (the files whose text is joined), plus the
  `<file>` trail of `file_list`. The text itself is left out.

### Refinement (`ReportCI` implements `Detection`)

`Detection` is written from the spec alone: `FormatsSpec` holds spec 4.2's
decoding (`SpecDecode`: only BOM-less UTF-16 is garbled; anything else
decodes permissively, its ASCII markers intact) and spec 4.3's rule table
(`SpecClassify`). Nothing in it reuses the code's cascade or tables, so the
refinement compares two independent descriptions.

- `Select` takes the walk minus the files under a `.git*` directory below
  the root and minus what the globs drop; or the `-l` list as given, each
  file once; or fails on a missing path.
- `ClassifyAll` judges every candidate in one step. Each bucket is the
  subsequence of candidates judged to it, and each counter the number
  counted by it.
- `Resolve` takes `-f`, else the first framework of spec 4.4's order whose
  bucket or counter is non-empty.

`ReportCI` instantiates it as `Abstract`. The mapping:

- the phase comes from `pc`;
- the candidates are `SelectSeq(file_list, match_file)`, the files the loop
  does not skip;
- the lists and counters are hidden while the loop runs and revealed by
  `EndClassify`.

So TLC checks that the state the loop built one file at a time, with the
code's decode cascade, rule order and priority, equals the spec's one-shot
judgement. That is `ImplementsDetection == Abstract!Spec`. The `auto` run
checks it where the code should meet the spec. The `detection_spec` run
checks it where the code leaves the spec.

### `Session`

`job` and `head` are the current CI job and the commit it builds. `idFile`
is the id in `.report-ci-id.json`, and `runs[i]` is the commit of check
run `i` on the service.

- `NewJob` starts the next job in a fresh checkout, or in the old workspace
  with its id file.
- `Invoke` is one invocation that sends its report:
  - `CheckRun` is lines 65-69;
  - `Method` is lines 855-856;
  - the answer is one of the four, and a URLError may follow a request the
    service processed;
  - the id is written only after an answer with an id, with the three
    outcomes of `IdWrites` (line 864). A lost write empties the id file and
    still exits 0.
- Each request is logged with its job, its method, the run it landed in and
  its exit status.

### `CIDetect`

`env` is `os.environ` and `running` is the CI that produced it (the script
cannot see it). Values are strings, except refs, slugs and directories,
which are lists of their `/`-separated parts, so that `split('/')` and
`+ "/" +` are modelled by what they do.

- Each `elif` of lines 88-351 is a `Provider`: its condition, the fields it
  assigns, and whether one of its assignments raises (`None.split`,
  `expanduser(None)`, `None + str`).
- `Detect` takes the first provider whose condition holds.
- `GitFallback` is lines 353-364. `git rev-parse HEAD` keeps its newline
  (`RevParseHead`).
- `Project` is lines 369-385: the slug split, then the two remote regexes.
  An origin not on GitHub raises AttributeError.
- `Query` is lines 809-853: the query dict, `-p/-D/-m`, the build-id route
  and the run-name deletion.

## 3. Runs

The ReportCI runs use three files under the root, walked in the order
p1, p2, p3. Three is the smallest number that exercises a mix and an order:
two frameworks present plus an unmatched or garbled file, JUnit before and
after xUnit, and three `.trx` files with a newest one in every position.

The Session runs use two jobs, which is enough for one to inherit the
other's workspace. They use four invocations, so a job can make a second
report step after a failed one. Three check runs are enough that a second
POST of a job can create a new run.

CIDetect takes one environment per CI, which is what the cascade
discriminates. The clones cover each kind of GitHub origin (https, ssh,
scp-like), a directory that is not a working copy, and a GitLab origin.

| Run | Cfg | Expect | What it shows |
|---|---|---|---|
| auto | `MCReportCI_auto.cfg` | pass (120,152 states) | `ImplementsDetection`: the refinement above. The directory mixes ten representative contents, a BOM-less UTF-16 report among them, each file optionally excluded, under a plain root. Runs use a walk and explicit lists (two files, and a missing path). `CONSTRAINT ListedFilesSelected` keeps to lists the globs select, where spec and code should agree. |
| formats_json | `MCReportFormats_json.cfg` | pass (368 states) | For `.json`/`.trx` files of every head and every combination of Go/RSpec/Mocha keys, the code's cascade agrees with spec 4.3. |
| formats_spec | `MCReportFormats_spec.cfg` | violation | `.xml`/`.tap` against spec 4.3. Three defects: `org\testng` is not recognised (line 490); `<QTVERSION>` is not matched (476); AVA is never detected (565). TLC reports the first it meets. |
| compose_spec | `MCReportCI_compose_spec.cfg` | violation | `ComposedAsSpecified` compares the body with a reference composer from spec 4.5 and 5. It finds four defects. Each was confirmed alone while modelling, with a configuration narrowed in its contents or `-f`. Those configurations are not kept as runs; TLC reports the first defect it meets. `-f mstest` without `.trx` files raises `TypeError` (787, 796). `-f boost` with no Boost file uploads `<root></root>` (689, 804), where spec 7-8 requires "no test data". The newest `.trx` is not uploaded: the last one walked is (794). A JUnit report walked before a plain xUnit one comes after it in the body (677), although spec 5 keeps the walk order. |
| detection_spec | `MCReportCI_detection_spec.cfg` | violation | `ImplementsDetection` where the code leaves the spec. A root under `~/.gitlab-runner` skips every directory (line 435). A path given twice on `-l` is classified twice (443). `-l` files are still glob-filtered (451). A Latin-1 report fails the strict UTF-8 decode and is garbled or dropped (459), where spec 4.2 decodes permissively. Each was confirmed alone while modelling with a narrowed configuration; a `.github` directory under a plain root passes. |
| hang | `MCReportCI_hang.cfg` | violation | `Terminates`: neither the redirect probe (line 837) nor the upload (859) has a timeout. An unanswered request leaves the script waiting forever. |
| go_alias | `MCReportCI_go_alias.cfg` | violation | `-f go` never uploads Go output: the composer knows only `go-test` (lines 47, 799). |
| session | `MCSession_session.cfg` | pass (2,036 states) | `TypeOK` over report steps of two jobs with every answer and every id-file outcome. Session's claim about check runs does not hold, and is the next run. |
| session_checkrun | `MCSession_checkrun.cfg` | violation | `OwnCheckRunPerJob` (spec 6). A job in an inherited workspace PATCHes the previous job's run (line 67). An accepted POST whose id was not recorded is followed by a second POST (line 864). So is a lost id-file write, after which the script exited 0. |
| ci_detect | `MCCIDetect_ci_detect.cfg` | pass (2,965 states) | On every CI's own environment and with every option, the cascade names the running CI (Shippable sets `TRAVIS=true`), no branch raises, and the query names the repository from the slug or the origin remote. |
| ci_crash | `MCCIDetect_ci_crash.cfg` | violation | Greenhouse always raises (`None + " "`, line 328). GitLab raises without `CI_BUILD_ID` (334). An origin not on GitHub raises AttributeError (384). |
| ci_head_sha | `MCCIDetect_ci_head_sha.cfg` | violation | `HeadShaIsCommitId`: a local run, or a CI that exports no commit (Drone, Heroku, Buddybuild), sends `git rev-parse HEAD` with its trailing newline (line 359). |

Each property of a passing run has a mutant in `PROJECT.json`: a plausible
slip in the code, which TLC then reports as a violation.

- `AutoFramework_listName` returns the list name, not the framework.
- `Priority_xunitFirst` tries xUnit before PHPUnit and pytest, so a mixed
  directory resolves against spec 4.4's order.
- `JsonRules_mochaFirst` swaps the RSpec and Mocha tests.
- `Landed_offByOne` miscounts the new run's id.
- `Provider_noDefaults` drops the `None` initialisations.
- `TravisOn_noShippableGuard` drops the Shippable exclusion.
- `GitHubRemotes_noScp` forgets the `git@github.com:` regex.
- `SplitSlug_firstTwo` accepts a three-part slug.

**Fairness.** `ReportCI`'s `FairSpec` is weak fairness on `ScriptStep`, the
steps the script takes by itself. The script is one thread and nothing in
it waits on anything but I/O, so while it can take a step it eventually
does. `Probe` and `Answer` have no fairness: the service, or a proxy, may
accept the connection and never reply, and the script sets no timeout. So
`Terminates` does not hold. The other modules
check only safety. `Session` and `CIDetect` runs set `CHECK_DEADLOCK FALSE`
because the script and the sequence of jobs really do stop.

## 4. Not modelled and why

- Glob matching itself: abstracted to one boolean per file for include and
  one for exclude. fnmatch over path strings is out of TLC's reach, and
  nothing in the properties depends on which glob matched. Only the
  `*/.git*` directory test is modelled, over directory names.
- Regex and JSON parsing: abstracted to the head and marks of a content.
- Text of the body, URL encoding and the headers: formatting only. The
  content type follows from a composer's kind, and the default run name is
  in `Composition`.
- `-s` (ci_system) and `-b` (build_id) are parsed and never read again.
  The Azure branch reads the pull-request variable that is not set
  (343-346), but `pr` never reaches the query. The three are modelled as
  the code has them, and no run checks them: nothing observable depends
  on them.
