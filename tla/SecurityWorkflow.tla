-------------------------- MODULE SecurityWorkflow --------------------------
(* A security workflow (security/workflow.ts) and its verification           *)
(* (security/verifyRun.ts) under the guarded scan (guardedScan.ts,           *)
(* suppressionGuard.ts, remediation/evasion.ts).  The workflow is one file,  *)
(* replaced as a whole; the command line and the MCP server may verify it at *)
(* the same time, while an agent goes on editing the workspace.              *)
EXTENDS Naturals, FiniteSets

CONSTANTS
  Verifiers,
  MaxEdits          \* bound: how often the workspace changes

VARIABLES
  code,             \* what the workspace is like against the workflow's start
  edits,
  file,             \* the workflow file
  run,              \* per verifier: its step, its copy of the workflow, what it saw
  issued            \* the fix record the last step issued, if it did

vars == <<code, edits, file, run, issued>>

(* The ways a change can fall short; each is a reason of its own, so one at  *)
(* a time is enough.  Hidden: the target is there, but a marker or an ignore *)
(* entry of the change itself silences it.  Evaded: the scan is clean, the   *)
(* diff shows a sink of the same family, a deleted test or target file, or   *)
(* lost assertions.  Moved is no fault: a finding of the first scan that is  *)
(* no target is on another line, and has another fingerprint by it.          *)
Committed == {"hidden, committed", "evaded, committed"}
Hidden == {"hidden", "hidden, committed"}
Evaded == {"evaded", "evaded, committed"}
Codes == {"clean", "target", "introduced", "broken", "moved"} \cup Hidden \cup Evaded

Coverages == {"complete", "partial"}
NoRecord == [issued |-> FALSE, verified |-> FALSE, targets |-> FALSE, introduced |-> FALSE,
             beforeCoverage |-> "unknown", afterCoverage |-> "unknown", schema |-> "v2",
             about |-> "clean", steady |-> FALSE]
NoFile == [exists |-> FALSE, state |-> "passed", found |-> FALSE, targets |-> FALSE,
           initialCoverage |-> "unknown", coverage |-> "unknown", gateBlocks |-> FALSE,
           base |-> "none", accepted |-> "none", threshold |-> FALSE]
Idle == [step |-> "idle", view |-> NoFile, scanned |-> "clean", at |-> 0, looked |-> "nowhere",
         checks |-> "none"]

Init ==
  /\ code = "target" /\ edits = 0 /\ file = NoFile
  /\ run = [v \in Verifiers |-> Idle] /\ issued = NoRecord

-----------------------------------------------------------------------------
(* createSecurityWorkflow.  A scan with a hole may not see the target; a     *)
(* threshold of none blocks on nothing.                                      *)
Create(coverage, sees, threshold, base, accepted) ==
  /\ ~file.exists
  /\ coverage = "complete" => sees
  /\ LET blocks == sees /\ threshold
     IN  file' = [exists |-> TRUE, state |-> IF blocks THEN "needs_work" ELSE "passed", found |-> sees,
                  targets |-> blocks, initialCoverage |-> coverage, coverage |-> coverage,
                  gateBlocks |-> blocks, base |-> base, accepted |-> accepted, threshold |-> threshold]
  /\ issued' = NoRecord /\ UNCHANGED <<code, edits, run>>

(* executeSecurityScan of the command line: the commit the workspace is at   *)
(* goes into the workflow; a finding above the threshold may be no target    *)
(* because the baseline has it, or because the configuration suppresses it   *)
(* and the workflow is made of what is left.  Bound: a threshold of none, or *)
(* an accepted finding, only with a complete scan in a repository, and not   *)
(* both.                                                                     *)
ScanCommand ==
  \E coverage \in Coverages, sees, threshold \in BOOLEAN, base \in {"none", "start"},
     accepted \in {"none", "baseline", "suppressed"} :
    /\ accepted # "none" => threshold
    /\ accepted # "none" \/ ~threshold => coverage = "complete" /\ base = "start"
    /\ Create(coverage, sees, threshold, base, accepted)

(* dvalin_begin_verification of the MCP server hands no commit over, and may *)
(* have scanned a diff only; what a verification measures against is then    *)
(* the HEAD of its own day.                                                  *)
BeginVerification ==
  \E coverage \in Coverages, sees \in BOOLEAN, base \in {"none", "HEAD"} :
    Create(coverage, sees, TRUE, base, "none")

(* The agent's work, which it may commit; that matters to a change that is   *)
(* measured against HEAD.                                                    *)
Edit(to) ==
  /\ file.exists /\ edits < MaxEdits
  /\ to \in Committed => file.base = "HEAD"
  /\ code' = to /\ edits' = edits + 1
  /\ issued' = NoRecord /\ UNCHANGED <<file, run>>

(* loadSecurityWorkflow.                                                     *)
Loaded(w) == [Idle EXCEPT !.step = "scan", !.view = w]

(* dvalin verify, and dvalin_verify_findings of the MCP server, up to the    *)
(* run_start in the audit log.                                               *)
Verify(v) ==
  /\ file.exists /\ run[v].step = "idle"
  /\ run' = [run EXCEPT ![v] = Loaded(file)]
  /\ issued' = NoRecord /\ UNCHANGED <<code, edits, file>>

(* Mutant: the workspace is scanned as it is.                                *)
MarkersStay(r) == FALSE

(* What git says changed, which is what there is to undo and to look at.     *)
InDiff(r) == r.view.base = "start" \/ (r.view.base = "HEAD" /\ r.scanned \notin Committed)

(* The suppressions of the change are undone in a copy, which is what is     *)
(* scanned.                                                                  *)
MarkersUndone(r) == r.scanned \in Hidden /\ InDiff(r)

(* What the scanners report.  The configuration's suppressions are not       *)
(* applied, and a line number is part of a fingerprint: an old finding is    *)
(* seen, by the one or by the other, that the first scan does not list.      *)
Sees(r) ==
  IF r.looked = "past it" THEN {}
  ELSE (IF r.scanned = "target" \/ MarkersUndone(r) THEN {"target"} ELSE {})
       \cup (IF r.scanned = "introduced" THEN {"introduced"} ELSE {})
       \cup (IF r.scanned = "moved" \/ r.view.accepted = "suppressed" THEN {"old"} ELSE {})

CoverageOf(r) == IF r.looked = "everywhere" THEN "complete" ELSE "partial"

(* detectEvasion; without a base commit it is not known.                     *)
Evasion(r) ==
  IF r.view.base = "none" THEN "unknown" ELSE IF r.scanned \in Evaded /\ InDiff(r) THEN "some" ELSE "none"

(* guardedScan.  An engine that does not complete may miss anything.         *)
GuardedScan(v, looked) ==
  /\ run[v].step = "scan"
  /\ run' = [run EXCEPT ![v].step = "check", ![v].scanned = code, ![v].at = edits, ![v].looked = looked]
  /\ issued' = NoRecord /\ UNCHANGED <<code, edits, file>>

(* runProjectVerification; a project may have no check at all.               *)
Check(v, has) ==
  /\ run[v].step = "check"
  /\ run' = [run EXCEPT ![v].step = "mark",
               ![v].checks = IF ~has THEN "none" ELSE IF code = "broken" THEN "failed" ELSE "passed"]
  /\ issued' = NoRecord /\ UNCHANGED <<code, edits, file>>

(* transitionSecurityWorkflow: the copy that was loaded, now verifying, is   *)
(* written over whatever the file has become.  Every state this code leaves  *)
(* in the file may go to verifying.                                          *)
MarkVerifying(v) ==
  /\ run[v].step = "mark"
  /\ run' = [run EXCEPT ![v].step = "record", ![v].view.state = "verifying"]
  /\ file' = IF run[v].view.state = "verifying" THEN file ELSE run'[v].view
  /\ issued' = NoRecord /\ UNCHANGED <<code, edits>>

(* Mutant: the gate of the last verification is what was to be repaired.     *)
LastGateTargets(w) == w.gateBlocks

(* originalGate: the gate as it stood when the workflow was created.         *)
OriginalTargets(w) == w.targets

(* Mutant: whatever the verification finds was introduced.                   *)
FoundIsNew(r) == Sees(r)

(* Every finding the first scan does not list.                               *)
NewFindings(r) == Sees(r) \ (IF r.view.found THEN {"target"} ELSE {})

(* evaluateWorkflowVerificationGate.  An old finding that was not accepted   *)
(* and is no target is one below the threshold.                              *)
Remaining(r) == r.view.threshold /\ OriginalTargets(r.view) /\ "target" \in Sees(r)
Introduced(r) ==
  r.view.threshold /\ NewFindings(r) \ (IF r.view.accepted = "none" THEN {"old"} ELSE {}) # {}

(* buildFixRecord and the verdict of its schema.                             *)
Verdict(r) ==
  /\ ~Remaining(r) /\ ~Introduced(r)
  /\ r.checks = "passed"
  /\ Evasion(r) # "some"

(* What the scan before the repair is said to have covered is what the file  *)
(* holds, which the last verification has overwritten.                       *)
RecordOf(r, steady) ==
  [issued |-> TRUE, verified |-> Verdict(r), targets |-> OriginalTargets(r.view),
   introduced |-> NewFindings(r) # {}, beforeCoverage |-> r.view.coverage, afterCoverage |-> CoverageOf(r),
   schema |-> IF Evasion(r) = "unknown" THEN "v2" ELSE "v3",
   about |-> r.scanned, steady |-> steady]

(* verifySecurityWorkflow, from the record on, and saveFixRecord.            *)
Commit(v) ==
  /\ run[v].step = "record"
  /\ LET r == run[v]
         made == RecordOf(r, edits = r.at)
     IN  /\ file' = [r.view EXCEPT !.state = IF made.verified THEN "passed" ELSE "needs_work",
                       !.coverage = CoverageOf(r), !.gateBlocks = Remaining(r) \/ Introduced(r)]
         /\ issued' = made
  /\ run' = [run EXCEPT ![v] = Idle]
  /\ UNCHANGED <<code, edits>>

(* A scan, a check or a write throws, or the process ends.                   *)
Stop(v) ==
  /\ run[v].step # "idle"
  /\ run' = [run EXCEPT ![v] = Idle]
  /\ issued' = NoRecord /\ UNCHANGED <<code, edits, file>>

Next ==
  \/ ScanCommand \/ BeginVerification
  \/ \E to \in Codes : Edit(to)
  \/ \E v \in Verifiers :
       \/ Verify(v) \/ MarkVerifying(v) \/ Commit(v) \/ Stop(v)
       \/ \E looked \in {"everywhere", "in part", "past it"} : GuardedScan(v, looked)
       \/ \E has \in BOOLEAN : Check(v, has)

Spec == Init /\ [][Next]_vars

-----------------------------------------------------------------------------
(* A verified record of schema v3 whose scan covered everything, and under   *)
(* which nobody edited, is about a workspace without any of the faults, the  *)
(* hidden and the evaded ones included, whoever else verifies meanwhile; but *)
(* for a change committed under a workflow of the MCP server.                *)
RecordIsTrue ==
  issued.verified /\ issued.schema = "v3" /\ issued.afterCoverage = "complete" /\ issued.steady
    /\ file.threshold =>
      issued.about \in {"clean", "moved"} \cup (IF file.base = "HEAD" THEN Committed ELSE {})

(* However often the workflow is verified, and whichever copy of it wins, a  *)
(* record names the targets the workflow was created with.                   *)
TargetsStay == issued.issued => issued.targets = file.targets

(* The coverage a record gives for the scan before the repair is the         *)
(* coverage of that scan.                                                    *)
BeforeIsTheOriginalScan == issued.issued => issued.beforeCoverage = file.initialCoverage

(* A record blames the repair only for what the repair introduced, and for   *)
(* old findings in the three cases where the first scan does not list them   *)
(* as the verification finds them: it did not look there, the configuration  *)
(* suppressed them, or they moved.                                           *)
BlamesTheRepair ==
  issued.introduced =>
    \/ issued.about \in {"introduced", "moved"}
    \/ file.initialCoverage = "partial" \/ file.accepted = "suppressed"

(* A workflow's record is true of the code and about the workflow's targets, *)
(* and blames the repair for nothing else.                                   *)
WorkflowIsTrue == RecordIsTrue /\ TargetsStay /\ BlamesTheRepair
=============================================================================
