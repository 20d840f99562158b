--------------------------- MODULE MCRemediation ---------------------------
(* The parts of remediation and security whose specifications stand on      *)
(* their own, in one state space: a behaviour is one of each subject in     *)
(* turn, never an interleaving, so that the state spaces add up.            *)
EXTENDS Naturals, FiniteSets, TLC

CONSTANTS
  Issues, Contents, OldStatuses, WebOps,  \* RemediationRun
  Files, MaxConflictRounds, MaxMoves,       \* Rebase
  Lines, Selections,                        \* SecurityScan
  Verifiers, MaxEdits,                      \* SecurityWorkflow
  Targets, Fix                              \* Reverify

VARIABLES
  subject,
  pc, plan, found, targets, queue, work, place, judged, record, saved, published, exit,
  file, torn, io, asks, proven,
  at, upstream, target, base, branch, worktree, todo, replayed, unmerged, marked, attempt,
  baseCommit, baselineOf, result, asked,
  stage, tree, installed, request, outcome, report, accepted, judgement,
  code, edits, workflow, run, issued,
  step, world, seen, engines, scratch, secrets, exposed, reverted, unreverted, repro,
  checks, verdict

runVars == <<pc, plan, found, targets, queue, work, place, judged, record, saved, published,
             exit, file, torn, io, asks, proven>>
syncVars == <<at, upstream, target, base, branch, worktree, todo, replayed, unmerged, marked,
              attempt, baseCommit, baselineOf, result, asked>>
scanVars == <<stage, tree, installed, request, outcome, report, accepted, judgement>>
flowVars == <<code, edits, workflow, run, issued>>
verifyVars == <<step, world, seen, engines, scratch, secrets, exposed, reverted, unreverted,
                repro, checks, verdict>>

Run == INSTANCE RemediationRun WITH Findings <- Issues
Sync == INSTANCE Rebase WITH pc <- at, tree <- worktree
Scan == INSTANCE SecurityScan
Flow == INSTANCE SecurityWorkflow WITH file <- workflow
Verify == INSTANCE Reverify WITH todo <- unreverted, report <- verdict

Subjects == {"run", "rebase", "scan", "workflow", "reverify"}

Init ==
  /\ subject \in Subjects
  /\ Run!Init /\ Sync!Init /\ Scan!Init /\ Flow!Init /\ Verify!Init

Next ==
  /\ UNCHANGED subject
  /\ \/ subject = "run" /\ Run!Next /\ UNCHANGED <<syncVars, scanVars, flowVars, verifyVars>>
     \/ subject = "rebase" /\ Sync!Next /\ UNCHANGED <<runVars, scanVars, flowVars, verifyVars>>
     \/ subject = "scan" /\ Scan!Next /\ UNCHANGED <<runVars, syncVars, flowVars, verifyVars>>
     \/ subject = "workflow" /\ Flow!Next /\ UNCHANGED <<runVars, syncVars, scanVars, verifyVars>>
     \/ subject = "reverify" /\ Verify!Next /\ UNCHANGED <<runVars, syncVars, scanVars, flowVars>>

Spec == Init /\ [][Next]_<<subject, runVars, syncVars, scanVars, flowVars, verifyVars>>

(* The other subjects' variables keep their initial values, so the subject's *)
(* own tell the states of a behaviour apart.                                 *)
View ==
  CASE subject = "run" -> <<subject, runVars>>
    [] subject = "rebase" -> <<subject, syncVars>>
    [] subject = "scan" -> <<subject, scanVars>>
    [] subject = "workflow" -> <<subject, flowVars>>
    [] subject = "reverify" -> <<subject, verifyVars>>

Symmetry == Permutations(Verifiers)

(* Bound: of two verifications of a workflow, one at a time has a scan that  *)
(* did not cover everything.                                                 *)
OneHole == \E v \in Verifiers : \A w \in Verifiers \ {v} : run[w].looked \in {"nowhere", "everywhere"}

(* What the dvalin command reports, and what it leaves in the case file, is *)
(* what its judgement proved (RemediationRun; commands/dvalin.ts).          *)
RemediationIsHonest == subject = "run" => Run!RemediationIsHonest

(* A rebase loses no work of the executor, and the loop judges the change   *)
(* on the commit it stands on (Rebase; remediation/rebase.ts).              *)
RebaseKeepsWork == subject = "rebase" => Sync!RebaseKeepsWork

(* A gate passes, and a finding counts as resolved, only on engines that    *)
(* looked (SecurityScan; remediation/scannerSuite.ts).                      *)
ScanIsComplete == subject = "scan" => Scan!ScanIsComplete

(* A workflow's verified record is about its own targets and true of the    *)
(* code it names (SecurityWorkflow; security/workflow.ts).                  *)
WorkflowIsTrue == subject = "workflow" => Flow!WorkflowIsTrue

(* A claim that passes re-verification was re-derived, and the check leaves *)
(* the workspace as it was (Reverify; security/reverify.ts).                *)
ReverifyIsSound == subject = "reverify" => Verify!ReverifyIsSound
=============================================================================
