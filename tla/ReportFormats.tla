--------------------------- MODULE ReportFormats ---------------------------
(***************************************************************************)
(* The content decoder and the signature classifier of reportci.py         *)
(* (lines 452-570) as pure operators.                                      *)
(*                                                                         *)
(* A file's content is abstracted to what the classifier looks at:         *)
(*   ext   the lower-cased extension (os.path.splitext(...)[1].lower()),   *)
(*   enc   how its bytes are encoded on disk,                              *)
(*   head  which anchored re.match signature its text starts with (after   *)
(*         the optional <?xml ...?> prolog the regexes all allow), or the  *)
(*         JSON shape of a .json file,                                     *)
(*   marks the substrings content.find(...) / "key in data" look for.      *)
(* A classification rule is a row of a table, as the code's if-cascade is  *)
(* read top to bottom: the first row that fires claims the file.           *)
(***************************************************************************)
EXTENDS Naturals, Sequences, FiniteSetsExt

Exts == {".xml", ".json", ".trx", ".tap", ".txt"}

(* ascii: 7-bit clean; utf8: valid UTF-8 with non-ASCII characters;       *)
(* utf16: UTF-16 with a byte-order mark; utf16_nobom: UTF-16LE of ASCII   *)
(* text without a BOM; latin1: 8-bit text that is not valid UTF-8.        *)
Encodings == {"ascii", "utf8", "utf16", "utf16_nobom", "latin1"}

XmlHeads  == {"boost", "TestCase", "criterion", "testsuite", "Catch", "stream",
              "test-results", "test-run2", "assemblies", "doctest", "xml_other"}
(* json_lines: several lines, each a JSON value; json_line: one line that  *)
(* is a JSON value; json_doc: parses only as a whole; json_bad: starts     *)
(* with { or [ but never parses; not_json: does not start with { or [.     *)
JsonHeads == {"json_lines", "json_line", "json_doc", "json_bad", "not_json"}
TrxHeads  == {"TestRun", "trx_other"}
TapHeads  == {"TAP", "ava_cli", "tap_other"}
(* blank: whitespace only; garbled: what a mis-decoding leaves.           *)
Heads == XmlHeads \cup JsonHeads \cup TrxHeads \cup TapHeads \cup {"blank", "garbled"}

Marks == {"<QtVersion>", "<qtversion>", "<QTVERSION>", "java.version",
          "org.junit", "org/junit", "org\\junit",
          "org.testng", "org/testng", "org\\testng",
          "bandit_suite", ".php", ".py",
          "goKeys", "rspecKeys", "mochaKeys", "ava_marker"}

Content == [ext : Exts, enc : Encodings, head : Heads, marks : SUBSET Marks]

Buckets == {"boost_test", "junit_test", "xunit_test", "testng_test",
            "criterion_test", "bandit", "catch_test", "cxxtest", "qtest",
            "go_test", "testunit", "rspec", "mocha", "tap_test", "mstest",
            "xunitnet", "nunit", "doctest"}
Counters == {"phpunit", "pytest", "ava"}

Undecodable == [failed |-> "undecodable"]

-----------------------------------------------------------------------------
(***************************************************************************)
(* Content decoder (lines 455-466): ascii, else utf-8 dropping non-ASCII,  *)
(* else utf-16 dropping non-ASCII, else skip the file.  ASCII-only         *)
(* markers survive the first three.  A BOM-less UTF-16LE file of ASCII     *)
(* text is all bytes < 128, so the ascii decode succeeds with a NUL after  *)
(* every character and no signature matches.  Latin-1 bytes fail utf-8;    *)
(* utf-16 then fails on odd length or an unpaired surrogate, or succeeds   *)
(* with unrelated characters: either outcome is possible.                  *)
(***************************************************************************)
Garbled(c) == IF c.head = "blank" THEN c ELSE [c EXCEPT !.head = "garbled", !.marks = {}]

DecodeOutcomes(c) ==
  CASE c.enc \in {"ascii", "utf8", "utf16"} -> {c}
    [] c.enc = "utf16_nobom"                -> {Garbled(c)}
    [] c.enc = "latin1"                     -> {Garbled(c), Undecodable}

-----------------------------------------------------------------------------
(***************************************************************************)
(* A signature rule: the file's head is one of heads, it contains every    *)
(* mark of all, at least one of any (if any is not empty) and none of      *)
(* none.  It appends the file to bucket to and increments counter count.   *)
(***************************************************************************)
Rule(heads, all, any, none, to, count) ==
  [heads |-> heads, all |-> all, any |-> any, none |-> none, to |-> to, count |-> count]

Fires(c, r) ==
  /\ c.head \in r.heads
  /\ r.all \subseteq c.marks
  /\ r.any = {} \/ r.any \cap c.marks # {}
  /\ r.none \cap c.marks = {}

(* The TestNG path markers as the code spells them: the third literal is  *)
(* 'org\    estng', a backslash and four spaces, not org\testng.          *)
JUnitMarks  == {"org.junit", "org/junit", "org\\junit"}
TestNGMarks == {"org.testng", "org/testng", "org\\    estng"}
QtMarks     == {"<QtVersion>", "<qtversion>"}

XmlRules ==
  << Rule({"boost"},     {}, {}, {}, "boost_test", "none"),
     Rule({"TestCase"},  {}, QtMarks, {}, "qtest", "none"),
     Rule({"criterion"}, {}, {}, {}, "criterion_test", "none"),
     Rule({"testsuite"}, {"java.version"}, JUnitMarks, {}, "junit_test", "none"),
     Rule({"testsuite"}, {"java.version"}, TestNGMarks, {}, "testng_test", "none"),
     Rule({"testsuite"}, {"bandit_suite"}, {}, {"java.version"}, "bandit", "none"),
     Rule({"testsuite"}, {".php"}, {}, {}, "xunit_test", "phpunit"),
     Rule({"testsuite"}, {".py"}, {}, {}, "xunit_test", "pytest"),
     Rule({"testsuite"}, {}, {}, {}, "xunit_test", "none"),
     Rule({"Catch"},     {}, {}, {}, "catch_test", "none"),
     Rule({"stream"},    {}, {}, {}, "testunit", "none"),
     Rule({"test-results", "test-run2"}, {}, {}, {}, "nunit", "none"),
     Rule({"assemblies"}, {}, {}, {}, "xunitnet", "none"),
     Rule({"doctest"},   {}, {}, {}, "doctest", "none") >>

(* Only files starting with { or [ are tried; line mode first, then the   *)
(* whole file.                                                            *)
(* Mutant: the Mocha rule is tried before the RSpec rule.                *)
JsonRules_mochaFirst ==
  << Rule({"json_lines", "json_line"}, {"goKeys"}, {}, {}, "go_test", "none"),
     Rule({"json_line", "json_doc"}, {"mochaKeys"}, {}, {}, "mocha", "none"),
     Rule({"json_line", "json_doc"}, {"rspecKeys"}, {}, {}, "rspec", "none") >>

JsonRules ==
  << Rule({"json_lines", "json_line"}, {"goKeys"}, {}, {}, "go_test", "none"),
     Rule({"json_line", "json_doc"}, {"rspecKeys"}, {}, {}, "rspec", "none"),
     Rule({"json_line", "json_doc"}, {"mochaKeys"}, {}, {}, "mocha", "none") >>

TrxRules == << Rule({"TestRun"}, {}, {}, {}, "mstest", "none") >>

(* Both tap rules are anchored re.match calls on the same text: the AVA   *)
(* test asks the text to start with ava/cli.js inside the branch that     *)
(* already required it to start with "TAP version".                       *)
TapRules ==
  << Rule({"TAP"} \cap {"ava_cli"}, {}, {}, {}, "tap_test", "ava"),
     Rule({"TAP"}, {}, {}, {}, "tap_test", "none") >>

RulesFor(ext) ==
  CASE ext = ".xml"  -> XmlRules
    [] ext = ".json" -> JsonRules
    [] ext = ".trx"  -> TrxRules
    [] ext = ".tap"  -> TapRules
    [] OTHER         -> << >>

NoMatch == [to |-> "none", count |-> "none"]

(* The first rule of the cascade that fires, or NoMatch.                  *)
FirstFiring(c, rules) ==
  LET hits == {i \in 1 .. Len(rules) : Fires(c, rules[i])}
  IN  IF hits = {} THEN NoMatch
      ELSE [to |-> rules[Min(hits)].to, count |-> rules[Min(hits)].count]

Classify(c) == FirstFiring(c, RulesFor(c.ext))

=============================================================================
