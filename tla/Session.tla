------------------------------ MODULE Session ------------------------------
(***************************************************************************)
(* Several invocations of reportci.py in one workspace, and the check-run  *)
(* id file they share (lines 62-69 and 848-872).                           *)
(*                                                                         *)
(* A CI job runs the script once per report step; the jobs of a project   *)
(* follow one another, each at its own head commit.  A job either starts   *)
(* in a fresh checkout or in the workspace the previous job left (Jenkins  *)
(* and self-hosted runners keep it), id file included.                     *)
(*                                                                         *)
(* The service is abstracted to the check runs it has created: runs[i] is  *)
(* the head-sha check run i was created for.  A request it accepts may     *)
(* still reach the script as an error: a URLError (e.g. a read timeout)    *)
(* after the service processed it.                                         *)
(***************************************************************************)
EXTENDS Naturals, Sequences

CONSTANTS
  Commits,       \* head commits the jobs build
  CheckRunArgs,  \* values of -c: None, or ids the user passes
  KeepChoices,   \* whether a new job inherits the workspace: subset of BOOLEAN
  MaxJobs,
  MaxInvocations,
  MaxRuns,       \* check runs the service creates in a behaviour
  None

VARIABLES
  job,       \* number of the current job
  head,      \* its head commit
  idFile,    \* the id in .report-ci-id.json, or None (no file)
  runs,      \* runs[i]: head commit of check run i on the service
  log        \* one record per request the script sent

vars == <<job, head, idFile, runs, log>>

RunIds == 1 .. MaxRuns

Methods == {"POST", "PATCH"}

(* What the script learns of a request.  ok_id: a JSON answer with "id";  *)
(* ok_noid: an answer json.loads or ["id"] rejects; http_error: the        *)
(* service refused; url_error: no answer, whether or not it processed it. *)
Answers == {"ok_id", "ok_noid", "http_error", "url_error"}

Init ==
  /\ job = 1
  /\ head \in Commits
  /\ idFile = None
  /\ runs = << >>
  /\ log = << >>

(* A new job starts at some commit, in the old workspace or a fresh one.  *)
NewJob ==
  /\ job < MaxJobs
  /\ job' = job + 1
  /\ \E c \in Commits, keep \in KeepChoices :
       /\ head' = c
       /\ idFile' = IF keep THEN idFile ELSE None
  /\ UNCHANGED <<runs, log>>

(* Lines 65-69: without -c the id is read from the id file; a missing or  *)
(* unreadable file is ignored by the bare except.                          *)
CheckRun(cArg) == IF cArg # None THEN cArg ELSE idFile

(* Lines 855-856: a known check-run id turns the request into a PATCH.         *)
Method(checkRun) == IF checkRun # None THEN "PATCH" ELSE "POST"

(* The service's side: a POST creates the next check run for the head     *)
(* commit sent as head-sha; a PATCH of an existing run updates it.  The   *)
(* id it answers with is the run the upload landed in.                    *)
Accepts(method, checkRun) ==
  IF method = "POST" THEN Len(runs) < MaxRuns ELSE checkRun \in DOMAIN runs

(* Mutant: the new run's id is counted one too far.                      *)
Landed_offByOne(method, checkRun) ==
  IF method = "POST" THEN Len(runs) + 2 ELSE checkRun

Landed(method, checkRun) == IF method = "POST" THEN Len(runs) + 1 ELSE checkRun

AnswersFor(accepted) ==
  IF accepted THEN {"ok_id", "ok_noid", "url_error"} ELSE {"http_error", "url_error"}

(***************************************************************************)
(* One invocation that gets as far as sending its report (lines 65-69 and  *)
(* 855-872).  Invocations that stop earlier (a selection, detection or     *)
(* composition error, or the redirect probe of line 837 raising) send      *)
(* nothing and touch neither the id file nor the service.  On an answer    *)
(* with an id, open(args.id_file, 'w').write(response) (line 864): open    *)
(* may raise, leaving the file as it was, and the script exits 1; or the  *)
(* write reaches the file and exit(0) follows; or open truncates the file *)
(* and the data is lost when the unreferenced file object is closed, an   *)
(* error CPython swallows, and exit(0) still follows with an empty file,  *)
(* which the next read at line 67 ignores.  Every other answer leaves the *)
(* file alone and exits 1.                                                 *)
(***************************************************************************)
IdWrites == {"ok", "open_fails", "lost"}


Invoke ==
  /\ Len(log) < MaxInvocations
  /\ \E cArg \in CheckRunArgs, write \in IdWrites :
       LET checkRun == CheckRun(cArg)
           method   == Method(checkRun)
           accepted == Accepts(method, checkRun)
           target   == Landed(method, checkRun)
       IN  \E answer \in AnswersFor(accepted) :
             LET finished == answer = "ok_id" /\ write # "open_fails"
             IN  /\ runs' = IF accepted /\ method = "POST" THEN Append(runs, head) ELSE runs
                 /\ idFile' = CASE answer = "ok_id" /\ write = "ok"   -> target
                               [] answer = "ok_id" /\ write = "lost" -> None
                               [] OTHER                              -> idFile
                 /\ log' = Append(log,
                             [job |-> job, head |-> head, cArg |-> cArg, method |-> method,
                              target |-> IF accepted THEN target ELSE None,
                              exit |-> IF finished THEN 0 ELSE 1])
  /\ UNCHANGED <<job, head>>

Next == NewJob \/ Invoke

Spec == Init /\ [][Next]_vars

-----------------------------------------------------------------------------
TypeOK ==
  /\ job \in 1 .. MaxJobs
  /\ head \in Commits
  /\ idFile \in RunIds \cup {None}
  /\ runs \in Seq(Commits)
  /\ \A i \in DOMAIN log :
       /\ log[i].method \in Methods
       /\ log[i].target \in RunIds \cup {None}
       /\ log[i].exit \in {0, 1}

(* Spec 6: "On successful upload, a persisted local record maps to a      *)
(* check-run identifier for later update".  The id file ties the report   *)
(* steps of a job to one check run, the one that job created: whatever    *)
(* a job's requests landed in is a single run, made by a POST of the job. *)
(* Three ways to break it: a job that inherits an id file PATCHes another *)
(* job's run; an accepted POST whose id was not recorded is followed by a *)
(* second POST; and an upload that exits 0 with an emptied id file is     *)
(* followed by a second POST.                                             *)
OwnCheckRunPerJob ==
  \A i, j \in DOMAIN log :
    (log[i].job = log[j].job /\ log[i].target # None /\ log[j].target # None) =>
      /\ log[i].target = log[j].target
      /\ \E h \in DOMAIN log :
           log[h].job = log[i].job /\ log[h].method = "POST" /\ log[h].target = log[i].target

=============================================================================
