----------------------------- MODULE FormatsSpec -----------------------------
(***************************************************************************)
(* Spec 4.2 and 4.3 as written, over the contents of ReportFormats: what   *)
(* decoding must yield and which bucket and counter each content belongs   *)
(* to.  MCReportFormats holds the code's classifier against SpecClassify;  *)
(* Detection builds the spec's file selection and resolution on both.      *)
(***************************************************************************)
EXTENDS ReportFormats

(* Spec 4.2: strict 7-bit first, then permissive UTF-8 and UTF-16 decodes *)
(* that drop what they cannot represent; "only structural markers ... are *)
(* inspected", so the ASCII markers survive.  A BOM-less UTF-16 file of   *)
(* ASCII text passes the strict 7-bit decode, NULs and all.               *)
SpecDecode(c) == IF c.enc = "utf16_nobom" THEN Garbled(c) ELSE c

(***************************************************************************)
(* Spec 4.3, read as written.                                              *)
(***************************************************************************)
Has(c, m) == m \in c.marks
HasAny(c, ms) == ms \cap c.marks # {}
Result(to, count) == [to |-> to, count |-> count]

(* "a case-insensitive <QtVersion> marker"                                *)
QtVersionAnyCase == {"<QtVersion>", "<qtversion>", "<QTVERSION>"}
(* "a JUnit package marker", "a TestNG package marker", in any path form  *)
JUnitPackage  == {"org.junit", "org/junit", "org\\junit"}
TestNGPackage == {"org.testng", "org/testng", "org\\testng"}

SpecXunitFamily(c) ==
  CASE Has(c, "java.version") /\ HasAny(c, JUnitPackage)      -> Result("junit_test", "none")
    [] Has(c, "java.version") /\ HasAny(c, TestNGPackage)     -> Result("testng_test", "none")
    [] ~Has(c, "java.version") /\ Has(c, "bandit_suite")      -> Result("bandit", "none")
    [] Has(c, ".php")                                         -> Result("xunit_test", "phpunit")
    [] Has(c, ".py")                                          -> Result("xunit_test", "pytest")
    [] OTHER                                                  -> Result("xunit_test", "none")

SpecXml(c) ==
  CASE c.head = "boost"                                   -> Result("boost_test", "none")
    [] c.head = "TestCase" /\ HasAny(c, QtVersionAnyCase) -> Result("qtest", "none")
    [] c.head = "criterion"                               -> Result("criterion_test", "none")
    [] c.head = "testsuite"                               -> SpecXunitFamily(c)
    [] c.head = "Catch"                                   -> Result("catch_test", "none")
    [] c.head = "stream"                                  -> Result("testunit", "none")
    [] c.head \in {"test-results", "test-run2"}           -> Result("nunit", "none")
    [] c.head = "assemblies"                              -> Result("xunitnet", "none")
    [] c.head = "doctest"                                 -> Result("doctest", "none")
    [] OTHER                                              -> NoMatch

(* Line-delimited mode first, then the whole-file parse.                  *)
LinesParse(c) == c.head \in {"json_lines", "json_line"}
WholeParses(c) == c.head \in {"json_line", "json_doc"}
SpecJson(c) ==
  CASE LinesParse(c) /\ Has(c, "goKeys")     -> Result("go_test", "none")
    [] WholeParses(c) /\ Has(c, "rspecKeys") -> Result("rspec", "none")
    [] WholeParses(c) /\ Has(c, "mochaKeys") -> Result("mocha", "none")
    [] OTHER                                 -> NoMatch

(* "first line matches TAP version: ava if content matches an AVA CLI     *)
(* marker pattern, else generic tap; either way appended to the tap list" *)
SpecTap(c) ==
  IF c.head # "TAP" THEN NoMatch
  ELSE Result("tap_test", IF Has(c, "ava_marker") THEN "ava" ELSE "none")

SpecClassify(c) ==
  CASE c.ext = ".xml"  -> SpecXml(c)
    [] c.ext = ".json" -> SpecJson(c)
    [] c.ext = ".trx"  -> IF c.head = "TestRun" THEN Result("mstest", "none") ELSE NoMatch
    [] c.ext = ".tap"  -> SpecTap(c)
    [] OTHER           -> NoMatch

=============================================================================
