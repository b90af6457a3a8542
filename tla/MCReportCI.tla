----------------------------- MODULE MCReportCI -----------------------------
(***************************************************************************)
(* Model-checking instances of ReportCI: three files under the root, a    *)
(* handful of representative report contents, and command lines.          *)
(***************************************************************************)
EXTENDS ReportCI

CONSTANTS p1, p2, p3, pMissing

MCPaths == {p1, p2, p3}
MCWalkOrder == <<p1, p2, p3>>

(* The reports lie in one directory under the root; .github, .git and a  *)
(* runner's .gitlab-runner are the names that begin with ".git".          *)
MCDirs == [p \in MCPaths |-> <<"reports">>]
MCGitPrefixed == {".git", ".github", ".gitlab-runner"}
Workspace == <<"home", "w">>
PlainRoot == {Workspace}

(* The selection run adds a report under .github and a build directory   *)
(* under the runner's .gitlab-runner.                                     *)
GithubDirs == [MCDirs EXCEPT ![p3] = <<".github", "reports">>]
AnyRoot == {Workspace, <<"home", ".gitlab-runner", "builds">>}

C(ext, enc, head, marks) == [ext |-> ext, enc |-> enc, head |-> head, marks |-> marks]

JUnitXml    == C(".xml", "ascii", "testsuite", {"java.version", "org.junit"})
PhpXml      == C(".xml", "ascii", "testsuite", {".php"})
PlainXunit  == C(".xml", "utf8", "testsuite", {})
BoostXml    == C(".xml", "utf16", "boost", {})
Latin1Xunit == C(".xml", "latin1", "testsuite", {})
NoBomXunit  == C(".xml", "utf16_nobom", "testsuite", {})
TapFile     == C(".tap", "ascii", "TAP", {})
GoJson      == C(".json", "ascii", "json_lines", {"goKeys"})
RSpecJson   == C(".json", "utf8", "json_doc", {"rspecKeys"})
TrxFile     == C(".trx", "ascii", "TestRun", {})
BlankTxt    == C(".txt", "ascii", "blank", {})

(* Auto-detection over a mixed directory and explicit lists, where the     *)
(* code agrees with the spec: no Latin-1 file, no duplicate on -l, and     *)
(* (ListedFilesSelected) no listed file the globs would drop.  The         *)
(* detection_spec run takes those cases.                                   *)
AutoContents == {JUnitXml, PhpXml, PlainXunit, BoostXml, NoBomXunit,
                 TapFile, GoJson, RSpecJson, TrxFile, BlankTxt}
AutoListArgs == {NoFileList, <<p1, p3>>, <<p1, pMissing>>}
ListedFilesSelected ==
  args.file_list # NoFileList =>
    \A p \in Range(args.file_list) \ {MissingPath} : match_file(p)
AutoFrameworkArgs == {NoFramework}

UnityLog    == C(".txt", "ascii", "xml_other", {})

(* Bounds of the runs that look for one disagreement each.                *)
NoListArgs == {NoFileList}
WalkOrListed == {NoFileList, <<p1, p2>>, <<p2, p2>>}
AutoOnly   == {NoFramework}
BoostChosen  == {"boost"}
GoChosen     == {"go"}
MsTestChosen == {"mstest"}
EmptyBucketChosen == BoostChosen \cup MsTestChosen
XunitFamilyContents == {JUnitXml, PlainXunit}
(* The composer run: JUnit and plain xUnit reports and .trx files with    *)
(* two mtimes, auto-detected or named by -f boost or -f mstest.           *)
ComposeContents == XunitFamilyContents \cup {TrxFile}
ComposeFrameworkArgs == AutoOnly \cup EmptyBucketChosen
DivergentContents == {PlainXunit, UnityLog, Latin1Xunit}
GoContents == {GoJson}

=============================================================================
