----------------------------- MODULE MCSession -----------------------------
(* Two jobs at two commits, four report steps, three check runs.          *)
EXTENDS Session

CONSTANTS c1, c2

MCCommits == {c1, c2}

(* Every step relies on the id file; no -c on the command line.           *)
NoCheckRunArg == {None}

FreshOrKept == BOOLEAN
=============================================================================
