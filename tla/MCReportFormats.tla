--------------------------- MODULE MCReportFormats ---------------------------
(***************************************************************************)
(* The signature classifier of ReportFormats (reportci.py lines 470-570)   *)
(* checked against the rule table of spec section 4.3 over every content   *)
(* of a bounded universe.  The state is the file being classified; a step *)
(* moves on to any other file of the universe.                             *)
(***************************************************************************)
EXTENDS FormatsSpec

CONSTANTS
  UniverseExts,   \* the extensions of the files classified
  UniverseMarks   \* the substrings those files may contain

VARIABLE file

Universe == [ext : UniverseExts, enc : {"ascii"}, head : Heads, marks : SUBSET UniverseMarks]

Init == file \in Universe
Next == \E f \in Universe : file' = f
Spec == Init /\ [][Next]_file

(* The code's first-match cascade assigns every file the bucket and the   *)
(* counter the spec's rule table assigns it.                              *)
ClassifiedAsSpecified == Classify(file) = SpecClassify(file)

(* Universes of the runs.                                                 *)
JsonKeys == {"goKeys", "rspecKeys", "mochaKeys"}
XunitMarks == {"java.version", "org.junit", "org/testng", "org\\testng",
               "bandit_suite", ".php", ".py"}
QtCaseMarks == {"<QtVersion>", "<qtversion>", "<QTVERSION>"}
SignatureMarks == XunitMarks \cup QtCaseMarks \cup {"ava_marker"}

=============================================================================
