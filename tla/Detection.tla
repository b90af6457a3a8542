------------------------------ MODULE Detection ------------------------------
(***************************************************************************)
(* What file selection, decoding, classification and framework resolution *)
(* promise (spec 3 and 4.1-4.4), written from the spec's text and tables  *)
(* alone: nothing here is taken from the code.                             *)
(*                                                                         *)
(*   Select    the candidates: the walk, minus the files under a          *)
(*             ".git*" directory and the files the include and exclude    *)
(*             globs drop; or the explicit list, as given ("bypasses      *)
(*             include/exclude entirely"), each file once (spec 3: a file *)
(*             contributes to at most one bucket).  A listed path that is *)
(*             not a file fails the run.                                   *)
(*   Classify  in ONE step, every candidate is decoded (SpecDecode) and   *)
(*             judged by spec 4.3's rule table (SpecClassify).  Each       *)
(*             bucket is the subsequence of candidates judged to it, and  *)
(*             each counter the number of candidates counted by it.       *)
(*   Resolve   the explicit name, else the first framework of spec 4.4's  *)
(*             order whose bucket or counter is not empty, else failure.  *)
(***************************************************************************)
EXTENDS Integers, Sequences, SequencesExt, FormatsSpec

CONSTANTS
  WalkOrder,    \* the files below the root, in the order the walk visits them
  Dirs,         \* [file -> its directory below the root, as names]
  GitPrefixed,  \* the directory names that match ".git*"
  MissingPath,  \* a path that is not a regular file
  NoFileList, NoFramework, None

VARIABLES
  disk,        \* each file's content and glob matches
  args,        \* the -l and -f arguments
  phase,       \* "select", "classify", "resolve", "resolved", "failed"
  candidates,
  lists,       \* [Buckets -> Seq of paths]
  counters,    \* [Counters -> Nat]
  framework

vars == <<disk, args, phase, candidates, lists, counters, framework>>

(* Spec 4.1: a file matches when some include glob and no exclude glob     *)
(* matches it.                                                             *)
GlobSelected(p) == disk[p].inc /\ ~disk[p].exc

(* Spec 4.1: the walk skips every directory below the root with a path    *)
(* component matching ".git*".                                            *)
SpecWalk == SelectSeq(WalkOrder, LAMBDA p : ~\E c \in Range(Dirs[p]) : c \in GitPrefixed)

(* The sequence without its repetitions, first occurrences kept.          *)
Distinct(s) == FoldLeft(LAMBDA acc, x : IF x \in Range(acc) THEN acc ELSE Append(acc, x), << >>, s)

Verdict(p) == SpecClassify(SpecDecode(disk[p].content))

(* The candidates whose verdict satisfies test, in candidate order.        *)
Judged(test(_)) == SelectSeq(candidates, LAMBDA p : test(Verdict(p)))

(* Spec 4.4: the preference order, and the bucket or counter that makes   *)
(* each framework detected ("phpunit(count)" and the like are counters).  *)
SpecPreference ==
  << "testng", "junit", "bandit", "phpunit", "pytest", "xunit", "boost",
     "criterion", "catch", "cxxtest", "qtest", "go-test", "testunit", "mstest",
     "nunit", "xunitnet", "rspec", "mocha", "ava", "tap", "doctest" >>

SpecBucket(f) ==
  CASE f \in Counters -> f
    [] f \in {"testng", "junit", "xunit", "boost", "criterion", "catch"} -> f \o "_test"
    [] f = "go-test" -> "go_test"
    [] f = "tap"     -> "tap_test"
    [] OTHER         -> f

Found(f) ==
  IF SpecBucket(f) \in Counters THEN counters[SpecBucket(f)] > 0
  ELSE lists[SpecBucket(f)] # << >>

Init ==
  /\ phase = "select"
  /\ candidates = << >>
  /\ lists = [b \in Buckets |-> << >>]
  /\ counters = [c \in Counters |-> 0]
  /\ framework = None

Select ==
  /\ phase = "select"
  /\ \/ /\ args.file_list = NoFileList
        /\ candidates' = SelectSeq(SpecWalk, GlobSelected)
        /\ phase' = "classify"
     \/ /\ args.file_list # NoFileList /\ MissingPath \notin Range(args.file_list)
        /\ candidates' = Distinct(args.file_list)
        /\ phase' = "classify"
     \/ /\ args.file_list # NoFileList /\ MissingPath \in Range(args.file_list)
        /\ phase' = "failed"
        /\ UNCHANGED candidates
  /\ UNCHANGED <<disk, args, lists, counters, framework>>

ClassifyAll ==
  /\ phase = "classify"
  /\ lists' = [b \in Buckets |-> Judged(LAMBDA v : v.to = b)]
  /\ counters' = [c \in Counters |-> Len(Judged(LAMBDA v : v.count = c))]
  /\ phase' = "resolve"
  /\ UNCHANGED <<disk, args, candidates, framework>>

Resolve ==
  /\ phase = "resolve"
  /\ LET found == SelectSeq(SpecPreference, Found)
         f == IF args.framework # NoFramework THEN args.framework
              ELSE IF found = << >> THEN None ELSE Head(found)
     IN  IF f = None THEN phase' = "failed" /\ UNCHANGED framework
         ELSE framework' = f /\ phase' = "resolved"
  /\ UNCHANGED <<disk, args, candidates, lists, counters>>

Next == Select \/ ClassifyAll \/ Resolve

Spec == Init /\ [][Next]_vars

=============================================================================
