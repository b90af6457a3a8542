------------------------------ MODULE ReportCI ------------------------------
(***************************************************************************)
(* One invocation of reportci.py from file selection to the exit status:  *)
(* the file selector (lines 390-447), the per-file decode and classify    *)
(* loop (450-570), the framework resolver (573-669), the payload composer *)
(* with its empty-body check (671-807) and the publish step (809-872).    *)
(*                                                                         *)
(* The script is single-threaded; each action is one stage, or one       *)
(* iteration of the classification loop.  The file system and the command *)
(* line are chosen in Init and never change.  Payloads are kept as the    *)
(* sequence of files whose text they carry, not as text.                  *)
(***************************************************************************)
EXTENDS Integers, Sequences, SequencesExt, TLC, ReportFormats

CONSTANTS
  Paths,          \* regular files under the root directory
  WalkOrder,      \* the order os.walk yields Paths in
  Dirs,           \* [Paths -> the file's directory below the root, as names]
  GitPrefixed,    \* the directory names that begin with ".git"
  RootArgs,       \* the directories the walk may start from (root_dir)
  MissingPath,    \* a path that is not a regular file
  Contents,       \* the contents a file may have
  MTimes,         \* the modification times a file may have
  ExcludeChoices, \* whether an exclude glob may match a file
  FileListArgs,   \* the possible -l arguments: NoFileList or path sequences
  FrameworkArgs,  \* the possible -f arguments: NoFramework or a name
  NoFileList, NoFramework, None,
  Running         \* the exit status of a process that has not exited

ASSUME WalkOrder \in Seq(Paths) /\ Range(WalkOrder) = Paths
ASSUME Contents \subseteq Content /\ MTimes \subseteq Nat

VARIABLES
  disk,             \* [Paths -> the file's content, mtime and glob matches]
  args,             \* the -l and -f arguments and root_dir
  pc,               \* the stage the script is in
  file_list,        \* the candidate paths (file_list)
  k,                \* the loop index into file_list
  buckets,          \* [Buckets -> Seq(Paths)], the framework lists
  counts,           \* [Counters -> Nat], phpunit, pytest and ava
  complete_content, \* the texts of every matched, decoded file
  framework,
  upload,           \* the composed body
  sent,             \* the publish request has been sent
  published,        \* the service accepted the upload
  exitCode,
  reason            \* why the script exited

vars == <<disk, args, pc, file_list, k, buckets, counts, complete_content,
          framework, upload, sent, published, exitCode, reason>>

DefaultIncludeExts == {".xml", ".json", ".trx", ".tap"}

(* A file on disk: its content, its mtime, and whether some include and   *)
(* some exclude glob matches its relative or absolute path.  The default  *)
(* include globs *.xml *.json *.trx *.tap match by extension.             *)
FileState == [content : Contents, mtime : MTimes, inc : BOOLEAN, exc : ExcludeChoices]
Disks == {d \in [Paths -> FileState] :
            \A p \in Paths : d[p].inc = (d[p].content.ext \in DefaultIncludeExts)}

-----------------------------------------------------------------------------
(* Resolver tables (lines 579-662): the priority order and what makes each *)
(* framework detected.                                                     *)
(* Mutant: the generic xUnit list is tested before the PHPUnit and PyTest *)
(* counters.                                                               *)
Priority_xunitFirst == << "testng", "junit", "bandit", "xunit", "phpunit", "pytest",
               "boost", "criterion", "catch", "cxxtest", "qtest", "go-test",
               "testunit", "mstest", "nunit", "xunitnet", "rspec", "mocha",
               "ava", "tap", "doctest" >>

Priority == << "testng", "junit", "bandit", "phpunit", "pytest", "xunit",
               "boost", "criterion", "catch", "cxxtest", "qtest", "go-test",
               "testunit", "mstest", "nunit", "xunitnet", "rspec", "mocha",
               "ava", "tap", "doctest" >>

DetectedBy ==
  ("testng" :> "testng_test") @@ ("junit" :> "junit_test") @@ ("bandit" :> "bandit")
  @@ ("phpunit" :> "phpunit") @@ ("pytest" :> "pytest") @@ ("xunit" :> "xunit_test")
  @@ ("boost" :> "boost_test") @@ ("criterion" :> "criterion_test")
  @@ ("catch" :> "catch_test") @@ ("cxxtest" :> "cxxtest") @@ ("qtest" :> "qtest")
  @@ ("go-test" :> "go_test") @@ ("testunit" :> "testunit") @@ ("mstest" :> "mstest")
  @@ ("nunit" :> "nunit") @@ ("xunitnet" :> "xunitnet") @@ ("rspec" :> "rspec")
  @@ ("mocha" :> "mocha") @@ ("ava" :> "ava") @@ ("tap" :> "tap_test")
  @@ ("doctest" :> "doctest")

(* Composer table (lines 671-802): the envelope kind, the lists whose     *)
(* texts are concatenated in this order, whether a <file> element or a    *)
(* "files" entry is added for every path of file_list, and the default    *)
(* run name (run_name is args.name, line 82, and -n is not given here).   *)
(* The kind fixes content_type: xml and raw text/xml, json and go         *)
(* application/json, text text/plain.                                     *)
Compose(kind, from, trail, name) == [kind |-> kind, from |-> from, trail |-> trail, name |-> name]
XmlOf(b, name) == Compose("xml", <<b>>, FALSE, name)
XunitOf(name) == XmlOf("xunit_test", name)
TapOf(name) == Compose("text", <<"tap_test">>, FALSE, name)

Composition ==
  ("testng" :> XmlOf("testng_test", "TestNG"))
  @@ ("junit" :> Compose("xml", <<"xunit_test", "junit_test">>, TRUE, "JUnit"))
  @@ ("bandit" :> XmlOf("bandit", "Bandit"))
  @@ ("xunit" :> Compose("xml", <<"xunit_test", "junit_test">>, TRUE, "xUnit"))
  @@ ("boost" :> XmlOf("boost_test", "boost.test"))
  @@ ("cmocka" :> XunitOf("CMocka"))
  @@ ("criterion" :> XmlOf("criterion_test", "Criterion"))
  @@ ("catch" :> XmlOf("catch_test", "Catch"))
  @@ ("unity" :> Compose("text", <<"complete_content">>, FALSE, "Unity"))
  @@ ("cpputest" :> XunitOf("CppUTest")) @@ ("minitest" :> XunitOf("Minitest"))
  @@ ("cute" :> XunitOf("Cute"))
  @@ ("doctest" :> XmlOf("doctest", "Doctest"))
  @@ ("cxxtest" :> Compose("xml", <<"cxxtest", "xunit_test">>, FALSE, "CxxTest"))
  @@ ("gtest" :> XunitOf("GoogleTest"))
  @@ ("qtest" :> XmlOf("qtest", "QTest")) @@ ("testunit" :> XmlOf("testunit", "TestUnit"))
  @@ ("rspec" :> Compose("json", <<"rspec">>, FALSE, "RSpec"))
  @@ ("mocha" :> Compose("json", <<"mocha">>, FALSE, "Mocha"))
  @@ ("xunitnet" :> XmlOf("xunitnet", "XUnit.Net")) @@ ("nunit" :> XmlOf("nunit", "NUnit"))
  @@ ("phpunit" :> XunitOf("PHPUnit")) @@ ("pytest" :> XunitOf("PyTest"))
  @@ ("pyunit" :> XunitOf("PyUnit"))
  @@ ("ava" :> TapOf("Ava")) @@ ("qunit" :> TapOf("QUnit"))
  @@ ("tap" :> TapOf("Tap")) @@ ("tape" :> TapOf("Tape"))
  @@ ("mstest" :> Compose("raw", <<"mstest">>, FALSE, "MSTest"))
  @@ ("go-test" :> Compose("go", <<"go_test">>, TRUE, "Go"))

(* Names accepted by -f (line 46) and produced by the resolver.           *)
ChoiceNames == {"boost", "junit", "testng", "xunit", "cmocka", "unity", "criterion",
                "bandit", "catch", "cpputest", "cute", "cxxtest", "gtest", "qtest",
                "go", "testunit", "rspec", "minitest", "unit", "mstest", "xunitnet",
                "phpunit", "pytest", "pyunit", "mocha", "ava", "tap", "tape",
                "qunit", "doctest"}
FrameworkNames == ChoiceNames \cup Range(Priority)

NoBody == [kind |-> "none", frags |-> << >>, trail |-> << >>, name |-> None]
Bodies == [kind : {"xml", "json", "text", "raw", "go", "none"},
           frags : Seq(Paths), trail : Seq(Paths),
           name : {Composition[f].name : f \in DOMAIN Composition} \cup {None}]

-----------------------------------------------------------------------------
Init ==
  /\ disk \in Disks
  /\ args \in [file_list : FileListArgs, framework : FrameworkArgs, root_dir : RootArgs]
  /\ pc = "select"
  /\ file_list = << >>
  /\ k = 1
  /\ buckets = [b \in Buckets |-> << >>]
  /\ counts = [c \in Counters |-> 0]
  /\ complete_content = << >>
  /\ framework = None
  /\ upload = NoBody
  /\ sent = FALSE
  /\ published = FALSE
  /\ exitCode = Running
  /\ reason = None

Exit(code, why) ==
  /\ pc' = "done"
  /\ exitCode' = code
  /\ reason' = why

(* Line 435: fnmatch(path, "*/.git*") on the absolute path of a walked   *)
(* directory, the root's own components included; "*" also matches "/",  *)
(* so the pattern holds when some component begins with ".git".  The     *)
(* continue skips the directory's files, not its subdirectories, whose     *)
(* paths match as well.                                                    *)
VcsSkipped(root, p) == \E c \in Range(root \o Dirs[p]) : c \in GitPrefixed

(* Lines 432-439: the files os.walk(root_dir) yields, in walk order.      *)
WalkedFiles(a) == SelectSeq(WalkOrder, LAMBDA p : ~VcsSkipped(a.root_dir, p))

Walk ==
  /\ pc = "select" /\ args.file_list = NoFileList
  /\ file_list' = WalkedFiles(args)
  /\ pc' = "classify"
  /\ UNCHANGED <<disk, args, k, buckets, counts, complete_content, framework,
                 upload, sent, published, exitCode, reason>>

(* Lines 440-447: the explicit list; a path that is not a file ends the   *)
(* run at once.                                                           *)
ListFiles ==
  /\ pc = "select" /\ args.file_list # NoFileList
  /\ IF MissingPath \in Range(args.file_list)
       THEN Exit(1, "missing_file") /\ UNCHANGED file_list
       ELSE file_list' = args.file_list /\ pc' = "classify" /\ UNCHANGED <<exitCode, reason>>
  /\ UNCHANGED <<disk, args, k, buckets, counts, complete_content, framework,
                 upload, sent, published>>

(* Lines 391-404: some include glob matches and no exclude glob does.     *)
match_file(p) == disk[p].inc /\ ~disk[p].exc

(* Lines 450-570, one iteration: skip an unmatched file, skip a file no   *)
(* encoding decodes, or keep its text and append it to the first bucket   *)
(* whose signature fires.                                                 *)
SkipUnmatched ==
  /\ pc = "classify" /\ k <= Len(file_list)
  /\ ~match_file(file_list[k])
  /\ k' = k + 1
  /\ UNCHANGED <<disk, args, pc, file_list, buckets, counts, complete_content,
                 framework, upload, sent, published, exitCode, reason>>

AddTo(bs, b, p) == IF b \in DOMAIN bs THEN [bs EXCEPT ![b] = Append(@, p)] ELSE bs
Bump(cs, c) == IF c \in DOMAIN cs THEN [cs EXCEPT ![c] = @ + 1] ELSE cs

ClassifyFile ==
  /\ pc = "classify" /\ k <= Len(file_list)
  /\ LET p == file_list[k] IN
     /\ match_file(p)
     /\ \E text \in DecodeOutcomes(disk[p].content) :
          IF text = Undecodable
            THEN UNCHANGED <<buckets, counts, complete_content>>
            ELSE LET r == Classify(text) IN
                 /\ complete_content' = Append(complete_content, p)
                 /\ buckets' = AddTo(buckets, r.to, p)
                 /\ counts' = Bump(counts, r.count)
  /\ k' = k + 1
  /\ UNCHANGED <<disk, args, pc, file_list, framework, upload, sent, published,
                 exitCode, reason>>

EndClassify ==
  /\ pc = "classify" /\ k > Len(file_list)
  /\ pc' = "resolve"
  /\ UNCHANGED <<disk, args, file_list, k, buckets, counts, complete_content,
                 framework, upload, sent, published, exitCode, reason>>

(* Lines 576-669: an explicit -f is taken verbatim; otherwise the first  *)
(* framework of Priority whose list, or counter, is not empty; otherwise   *)
(* exit(1).                                                                *)
Detected(f) ==
  IF DetectedBy[f] \in Counters THEN counts[DetectedBy[f]] > 0
  ELSE buckets[DetectedBy[f]] # << >>

(* Mutant: the resolver returns the list it tested, not the framework.   *)
AutoFramework_listName ==
  LET hits == {i \in 1 .. Len(Priority) : Detected(Priority[i])}
  IN  IF hits = {} THEN None ELSE DetectedBy[Priority[Min(hits)]]

AutoFramework ==
  LET hits == {i \in 1 .. Len(Priority) : Detected(Priority[i])}
  IN  IF hits = {} THEN None ELSE Priority[Min(hits)]

Resolve ==
  /\ pc = "resolve"
  /\ LET f == IF args.framework # NoFramework THEN args.framework ELSE AutoFramework
     IN  IF f = None
           THEN Exit(1, "no_framework") /\ UNCHANGED framework
           ELSE framework' = f /\ pc' = "compose" /\ UNCHANGED <<exitCode, reason>>
  /\ UNCHANGED <<disk, args, file_list, k, buckets, counts, complete_content,
                 upload, sent, published>>

(* The texts a composer list stands for.                                   *)
Texts(b) == IF b = "complete_content" THEN complete_content ELSE buckets[b]

(* Lines 784-796.  The loop is meant to keep the newest file, but line 794 *)
(* assigns time_ = time instead of time = time_, so time stays None and    *)
(* every iteration replaces the pick.                                      *)
MsTestStep(acc, p) ==
  IF acc.time = None \/ disk[p].mtime > acc.time
    THEN [time |-> acc.time, pick |-> p]
    ELSE acc
MsTestPick(s) == FoldLeft(MsTestStep, [time |-> None, pick |-> None], s).pick

Body(f) ==
  IF f \notin DOMAIN Composition THEN NoBody
  ELSE LET c == Composition[f] IN
       [kind  |-> c.kind,
        frags |-> IF c.kind = "raw"
                    THEN IF buckets["mstest"] = << >> THEN << >> ELSE << MsTestPick(buckets["mstest"]) >>
                    ELSE FlattenSeq([i \in 1 .. Len(c.from) |-> Texts(c.from[i])]),
        trail |-> IF c.trail THEN file_list ELSE << >>,
        name  |-> c.name]

Blank(p) == disk[p].content.head = "blank"

(* Line 804-805: upload_content.strip() is empty.  The xml, json and go   *)
(* envelopes always carry text; joined plain text is empty when every     *)
(* piece is whitespace; no branch (for "go", "unit") leaves "".           *)
EmptyBody(u) ==
  /\ u.kind \in {"text", "raw", "none"}
  /\ \A i \in 1 .. Len(u.frags) : Blank(u.frags[i])

(* Lines 671-807: compose the body for the framework, then the strip and   *)
(* empty check.  For mstest with no .trx file the print at line 796        *)
(* concatenates a str and the tuple ("",) of line 787: a TypeError.        *)
ComposeUpload ==
  /\ pc = "compose"
  /\ upload' = Body(framework)
  /\ CASE framework = "mstest" /\ buckets["mstest"] = << >> -> Exit(1, "crash")
       [] EmptyBody(Body(framework))                        -> Exit(1, "no_data")
       [] OTHER -> pc' = "probe" /\ UNCHANGED <<exitCode, reason>>
  /\ UNCHANGED <<disk, args, file_list, k, buckets, counts, complete_content,
                 framework, sent, published>>

(* Lines 834-856.  The redirect probe of line 837 is a GET that blocks   *)
(* until the service or a proxy answers, with no timeout (the default      *)
(* socket timeout is None).  An error raises, uncaught; an answer lets the *)
(* script build the request and send it, blocking again in urlopen at     *)
(* line 859.  The step is the network's: nothing makes it happen.         *)
Probe ==
  /\ pc = "probe"
  /\ \/ /\ Exit(1, "probe_failed")
        /\ UNCHANGED sent
     \/ /\ sent' = TRUE
        /\ pc' = "await"
        /\ UNCHANGED <<exitCode, reason>>
  /\ UNCHANGED <<disk, args, file_list, k, buckets, counts, complete_content,
                 framework, upload, published>>

(* Lines 858-872.  The answer: accepted with an "id", accepted without    *)
(* one (KeyError), an HTTPError, or a URLError.  Writing the id file at   *)
(* line 864 may raise (open fails: exit 1), or succeed, or lose its      *)
(* data: the file object is closed when it is collected, and an error of  *)
(* that final flush is swallowed, so exit(0) follows a truncated file.  In the handler, e.read() raises AttributeError for all but an    *)
(* HTTPError and the bare except exits 1; after an HTTPError the body is   *)
(* printed and the final exit(1) runs.                                     *)
Responses == {"ok_id", "ok_noid", "http_error", "url_error"}
IdWrites == {"ok", "open_fails", "lost"}

Answer ==
  /\ pc = "await"
  /\ \E resp \in Responses, write \in IdWrites :
       /\ published' = (resp \in {"ok_id", "ok_noid"})
       /\ IF resp = "ok_id" /\ write # "open_fails" THEN Exit(0, "published")
          ELSE Exit(1, "publish_failed")
  /\ UNCHANGED <<disk, args, file_list, k, buckets, counts, complete_content,
                 framework, upload, sent>>

(* The steps the script takes by itself; Probe and Answer are the         *)
(* network's.                                                              *)
ScriptStep ==
  \/ Walk \/ ListFiles
  \/ SkipUnmatched \/ ClassifyFile \/ EndClassify
  \/ Resolve \/ ComposeUpload

Next == ScriptStep \/ Probe \/ Answer

Spec == Init /\ [][Next]_vars

(* One thread that runs until it exits or blocks in urlopen: while it can *)
(* take a step it eventually does.  Nothing makes the service answer.     *)
FairSpec == Spec /\ WF_vars(ScriptStep)

-----------------------------------------------------------------------------
(***************************************************************************)
(* Properties                                                              *)
(***************************************************************************)
Stages == {"select", "classify", "resolve", "compose", "probe", "await", "done"}

TypeOK ==
  /\ disk \in Disks
  /\ pc \in Stages
  /\ file_list \in Seq(Paths \cup {MissingPath})
  /\ k \in 1 .. Len(file_list) + 1
  /\ buckets \in [Buckets -> Seq(Paths)]
  /\ counts \in [Counters -> Nat]
  /\ complete_content \in Seq(Paths)
  /\ framework \in FrameworkNames \cup {None}
  /\ upload \in Bodies
  /\ sent \in BOOLEAN /\ published \in BOOLEAN
  /\ exitCode \in {Running, 0, 1}

-----------------------------------------------------------------------------
(***************************************************************************)
(* What the spec, the help text and the code's own intent say, checked    *)
(* against what the code does.                                             *)
(***************************************************************************)

(* Spec 4.5 and 5 as a reference composer.  The fragments of a body are *)
(* the files of the framework's lists in classification order, which is   *)
(* the walk or -l order ("this order is preserved into composition");     *)
(* mstest keeps the single .trx with the latest mtime, the earliest seen  *)
(* on a tie; an empty bucket has no body.                                  *)
FirstIndex(s, x) == CHOOSE i \in DOMAIN s : s[i] = x /\ \A j \in 1 .. i - 1 : s[j] # x
Newest(s) ==
  CHOOSE p \in Range(s) : \A q \in Range(s) :
    \/ disk[q].mtime < disk[p].mtime
    \/ disk[q].mtime = disk[p].mtime /\ FirstIndex(s, p) <= FirstIndex(s, q)
SpecFrags(f) ==
  IF f \notin DOMAIN Composition THEN << >>
  ELSE IF Composition[f].kind = "raw"
    THEN IF buckets["mstest"] = << >> THEN << >> ELSE << Newest(buckets["mstest"]) >>
  ELSE SelectSeq(file_list,
         LAMBDA p : \E b \in Range(Composition[f].from) : p \in Range(Texts(b)))

(* Spec 4.5, 5, 7 and 8: composition ends in one of two ways, an upload   *)
(* whose fragments are the reference composer's, or the fatal "no test     *)
(* data to upload" ("never a silent empty upload").  The junit and xunit  *)
(* bodies of line 677 join lists, not files; the MSTest loop of lines     *)
(* 789-794 never updates time; the strip check of lines 804-807 sees the  *)
(* envelope; an empty MSTest list reaches the print of line 796.           *)
ComposedAsSpecified ==
  /\ reason # "crash"
  /\ sent => upload.frags = SpecFrags(framework) /\ upload.frags # << >>

(* -f accepts "go" (line 46) for the framework the resolver calls         *)
(* "go-test".  Naming the framework auto-detection would pick anyway must  *)
(* give the same upload (spec 4.4: the explicit name is used verbatim).   *)
Alias(f) == IF f = "go" THEN "go-test" ELSE f
ExplicitAgreesWithDetection ==
  (pc = "done" /\ args.framework # NoFramework /\ Alias(args.framework) = AutoFramework) =>
    /\ reason \notin {"no_data", "crash"}
    /\ upload = Body(AutoFramework)

-----------------------------------------------------------------------------
(***************************************************************************)
(* Refinement.  Detection is spec 4.1-4.4 written from the spec alone.    *)
(* The candidates are the files the loop reads (file_list without those   *)
(* match_file drops at line 451); the lists and counters are hidden while *)
(* the loop runs and revealed when it ends (EndClassify).                 *)
(***************************************************************************)
DetectionPhase ==
  CASE pc \in {"select", "classify", "resolve"} -> pc
    [] pc \in {"compose", "probe", "await"}      -> "resolved"
    [] OTHER -> IF reason \in {"missing_file", "no_framework"} THEN "failed" ELSE "resolved"

LoopRunning == pc \in {"select", "classify"}

Abstract == INSTANCE Detection WITH
  phase      <- DetectionPhase,
  candidates <- SelectSeq(file_list, match_file),
  lists      <- IF LoopRunning THEN [b \in Buckets |-> << >>] ELSE buckets,
  counters   <- IF LoopRunning THEN [c \in Counters |-> 0] ELSE counts

(* Spec 3 and 4.1-4.4: every behaviour of the script, from selection to  *)
(* resolution, is one the spec allows.  The files read are the ones spec  *)
(* 4.1 selects, each once; the lists and counters the loop builds file by *)
(* file, through the code's decode cascade and if-chains, are spec 4.2    *)
(* and 4.3's judgement of those files; the resolver's elif chain picks    *)
(* spec 4.4's framework.                                                  *)
ImplementsDetection == Abstract!Spec

-----------------------------------------------------------------------------
(* Spec 5: "the process either completes a stage or exits non-zero".      *)
(* Every invocation ends with an exit status, whatever the service does.  *)
Terminates == <>(pc = "done")

=============================================================================
