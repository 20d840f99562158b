--------------------------- MODULE RemediationRun ---------------------------
(* `dvalincode dvalin [--fix ...]` (commands/dvalin.ts) and the case file it *)
(* shares with the web server (remediation/cases.ts, routes/remediation.ts). *)
(* Every change of the case file is a read, a truncation and a write, with   *)
(* no lock between the two processes.  The fix loop is module FixLoop; here  *)
(* it is one step with any end it may have.                                  *)
EXTENDS Naturals, FiniteSets

CONSTANTS
  Findings,
  Contents,     \* what a new file may hold
  OldStatuses,  \* statuses an earlier run may have left the cases with
  WebOps        \* bound: what the web client asks for

VARIABLES
  pc, plan,      \* where the command is, and what its options ask for
  found,         \* findings of the last scan the command looks at
  targets,       \* those sent to remediation
  queue,         \* cases still to be updated in this phase
  work,          \* the working tree the executor edits: what changed in it
  place,         \* that tree: "root" or "worktree"
  judged,        \* what the judgement objected to
  record, saved, \* the fix record, and whether it is in the store
  published,     \* a draft pull request was asked for
  exit,          \* exit code
  file, torn,    \* the cases' statuses; whether the file cannot be parsed
  io,            \* per process: the case operation under way
  asks,          \* operations the web client may still ask for
  proven         \* history: targets a verified record of this run is about

cli == <<pc, plan, found, targets, queue>>
trees == <<work, place>>
outputs == <<judged, record, saved, published, exit, proven>>
store == <<file, torn, io, asks>>
vars == <<cli, trees, outputs, store>>

Processes == {"cli", "web"}
None == "none"
Untouched == [edited |-> "no", added |-> "no"]
Works == [edited : {"no", "edit"}, added : {"no"} \cup Contents]

-----------------------------------------------------------------------------
(* Options.                                                                 *)

Flags == {"fix", "verify", "draftPr", "untilClean", "inPlace", "rebaseOnto", "scoped", "json"}

ShouldFix(o) == o \cap {"fix", "verify", "draftPr", "untilClean"} # {}
ShouldVerify(o) == o \cap {"verify", "draftPr", "untilClean"} # {}

Refused(o) ==
  \/ "rebaseOnto" \in o /\ ("untilClean" \notin o \/ "inPlace" \in o)
  \/ {"draftPr", "inPlace"} \subseteq o
  \/ ShouldFix(o) /\ o \cap {"json", "scoped"} # {}

PlanOf(o) == [fix |-> ShouldFix(o), verify |-> ShouldVerify(o), loop |-> "untilClean" \in o,
              publish |-> "draftPr" \in o, inPlace |-> "inPlace" \in o]
NoPlan == PlanOf({})

(* What a change of untracked files adds to the hash: `git diff --no-index  *)
(* /dev/null .` refuses to compare a file with a directory, and its failure *)
(* is caught as no output.                                                  *)
DiffHash(w) == w.edited

NoRecord == [verified |-> FALSE, of |-> Untouched, hash |-> None]

-----------------------------------------------------------------------------
(* The case file.                                                           *)

Idle == [step |-> "idle", kind |-> None, cases |-> {}, status |-> None, view |-> <<>>, over |-> FALSE]
Unread == [f \in Findings |-> "absent"]

Begin(p, kind, cases, status) ==
  /\ io[p].step = "idle"
  /\ io' = [io EXCEPT ![p] = [step |-> "read", kind |-> kind, cases |-> cases, status |-> status,
                              view |-> IF torn THEN Unread ELSE file, over |-> FALSE]]

NotFound(p) ==
  io[p].step = "read" /\ io[p].kind = "update" /\ \E f \in io[p].cases : io[p].view[f] = "absent"

(* An upsert keeps the status a case had; an update replaces it.            *)
Rewritten(p) ==
  [f \in Findings |->
     IF f \notin io[p].cases THEN io[p].view[f]
     ELSE IF io[p].kind = "update" THEN io[p].status
     ELSE IF io[p].view[f] = "absent" THEN "open" ELSE io[p].view[f]]

Truncate(p) ==
  /\ io[p].step = "read" /\ ~NotFound(p)
  /\ io' = [io EXCEPT ![p].step = "write"]
  /\ torn' = TRUE
  /\ UNCHANGED <<file, asks>>

(* Both writers start at offset 0.  A longer write that ended after this    *)
(* one's truncation leaves its tail behind, and the file does not parse.    *)
Fill(p) ==
  /\ io[p].step = "write"
  /\ file' = Rewritten(p)
  /\ torn' \in IF io[p].over THEN BOOLEAN ELSE {FALSE}
  /\ io' = [q \in Processes |->
              IF q = p THEN Idle
              ELSE IF io[q].step = "write" THEN [io[q] EXCEPT !.over = TRUE] ELSE io[q]]
  /\ UNCHANGED asks

-----------------------------------------------------------------------------
(* The command.                                                             *)

Init ==
  /\ pc = "start" /\ plan = NoPlan /\ found = {} /\ targets = {} /\ queue = {}
  /\ work = Untouched /\ place = "root"
  /\ judged = {} /\ record = NoRecord /\ saved = FALSE /\ published = FALSE /\ exit = None
  /\ file = Unread /\ torn = FALSE /\ io = [p \in Processes |-> Idle] /\ asks = WebOps
  /\ proven = {}

Throw ==
  /\ pc' = "ended" /\ exit' = "error"
  /\ UNCHANGED <<plan, found, targets, queue>>

(* The action handler up to the first scan.  A case file may be left by an  *)
(* earlier run.                                                             *)
Invoke(o, unavailable, old) ==
  /\ pc = "start"
  /\ file' = [f \in Findings |-> old]
  /\ IF Refused(o) \/ (ShouldFix(o) /\ unavailable)
     THEN Throw
     ELSE /\ pc' = "scan" /\ plan' = PlanOf(o)
          /\ UNCHANGED <<found, targets, queue, exit>>
  /\ UNCHANGED <<trees, judged, record, saved, published, proven, torn, io, asks>>

Scan(now) ==
  /\ pc = "scan"
  /\ found' = now
  /\ IF plan.fix /\ now # {}
     THEN \E some \in (SUBSET now) \ {{}} : targets' = some /\ pc' = "upsert"
     ELSE pc' = "finish" /\ UNCHANGED targets
  /\ UNCHANGED <<plan, queue, trees, outputs, store>>

UpsertCases ==
  /\ pc = "upsert" /\ Begin("cli", "upsert", targets, None)
  /\ pc' = "place"
  /\ UNCHANGED <<plan, found, targets, queue, trees, outputs, file, torn, asks>>

Settled == io["cli"].step = "idle"

(* createRemediationWorktree, or the clean tree --in-place insists on.      *)
PrepareTree(dirty, added) ==
  /\ pc = "place" /\ Settled
  /\ IF (IF plan.inPlace THEN dirty ELSE ~added)
     THEN Throw /\ UNCHANGED place
     ELSE /\ place' = (IF plan.inPlace THEN "root" ELSE "worktree")
          /\ queue' = targets
          /\ pc' = (IF plan.inPlace THEN "fixing" ELSE "ready")
          /\ UNCHANGED <<plan, found, targets, exit>>
  /\ UNCHANGED <<work, judged, record, saved, published, proven, store>>

(* `for (const remediationCase of cases) await updateRemediationCase(...)`  *)
StatusOf(phase) == CASE phase = "ready" -> "worktree_ready" [] phase = "fixing" -> "fixing"
                     [] phase = "verified" -> "verified"
AfterPhase(phase) == CASE phase = "ready" -> "fixing" [] phase = "fixing" -> "fix"
                       [] phase = "verified" -> IF plan.publish THEN "publish" ELSE "finish"

MarkNext ==
  /\ pc \in {"ready", "fixing", "verified"} /\ Settled
  /\ IF queue = {}
     THEN /\ pc' = AfterPhase(pc) /\ queue' = targets
          /\ UNCHANGED <<io>>
     ELSE /\ \E f \in queue : Begin("cli", "update", {f}, StatusOf(pc)) /\ queue' = queue \ {f}
          /\ UNCHANGED pc
  /\ UNCHANGED <<plan, found, targets, trees, outputs, file, torn, asks>>

CaseMissing ==
  /\ NotFound("cli")
  /\ io' = [io EXCEPT !["cli"] = Idle]
  /\ Throw
  /\ UNCHANGED <<trees, judged, record, saved, published, proven, file, torn, asks>>

(* What a judgement may object to; no check at all is an objection too.     *)
(* One objection is as good as several.                                     *)
Objections == {"remaining", "introduced", "checks", "evaded"}
Judgements == {{}} \cup {{o} : o \in Objections}

LeftBy(j) == IF "remaining" \in j THEN targets ELSE {}

RecordOf(w, j) == [verified |-> j = {}, of |-> w, hash |-> DiffHash(w)]

(* The single round: the executor's turn.                                   *)
FixTurn(edit) ==
  /\ pc = "fix" /\ ~plan.loop
  /\ work' = edit
  /\ pc' = (IF plan.verify THEN "judge" ELSE "rescan")
  /\ UNCHANGED <<plan, found, targets, queue, place, outputs, store>>

Rescan(now) ==
  /\ pc = "rescan"
  /\ found' = now /\ pc' = "finish"
  /\ UNCHANGED <<plan, targets, queue, trees, outputs, store>>

(* Checks, the guarded scan, the gate and the record, which is issued       *)
(* whatever the gate says.  The gate also wants a change, and its own view  *)
(* of the findings has no evasions in it.                                   *)
GateFails == judged \ {"evaded"} # {} \/ work = Untouched

Judge(j) ==
  /\ pc = "judge"
  /\ judged' = j /\ found' = LeftBy(j)
  /\ record' = RecordOf(work, j) /\ saved' = TRUE
  /\ pc' = "decide"
  /\ UNCHANGED <<plan, targets, queue, trees, published, exit, proven, store>>

(* Mutant: only the older gate is asked, not the record.                    *)
DecideByGate ==
  /\ pc = "decide"
  /\ IF GateFails
     THEN Throw /\ UNCHANGED proven
     ELSE /\ pc' = "verified" /\ queue' = targets /\ proven' = targets
          /\ UNCHANGED <<plan, found, targets, exit>>
  /\ UNCHANGED <<trees, judged, record, saved, published, store>>

Decide ==
  /\ pc = "decide"
  /\ IF GateFails \/ ~record.verified
     THEN Throw /\ UNCHANGED proven
     ELSE /\ pc' = "verified" /\ queue' = targets /\ proven' = targets
          /\ UNCHANGED <<plan, found, targets, exit>>
  /\ UNCHANGED <<trees, judged, record, saved, published, store>>

(* Mutant: a loop that stopped is reported, and the command goes on.        *)
RunLoopReported(edit, outcome, j, issues) ==
  /\ pc = "fix" /\ plan.loop
  /\ outcome = "verified" => j = {} /\ issues
  /\ work' = edit
  /\ judged' = j /\ found' = LeftBy(j)
  /\ record' = (IF issues THEN RecordOf(edit, j) ELSE record)
  /\ saved' = issues
  /\ IF outcome = "verified"
     THEN pc' = "verified" /\ queue' = targets /\ proven' = targets
     ELSE pc' = "finish" /\ UNCHANGED <<queue, proven>>
  /\ UNCHANGED <<plan, targets, place, published, exit, store>>

(* runFixLoop, and what the command does with what it returns: a record may *)
(* come without a verified outcome, never the other way round.              *)
RunLoop(edit, outcome, j, issues) ==
  /\ pc = "fix" /\ plan.loop
  /\ outcome = "verified" => j = {} /\ issues
  /\ work' = edit
  /\ judged' = j /\ found' = LeftBy(j)
  /\ record' = (IF issues THEN RecordOf(edit, j) ELSE record)
  /\ saved' = issues
  /\ IF outcome = "verified"
     THEN pc' = "verified" /\ queue' = targets /\ proven' = targets /\ UNCHANGED exit
     ELSE pc' = "ended" /\ exit' = "error" /\ UNCHANGED <<queue, proven>>
  /\ UNCHANGED <<plan, targets, place, published, store>>

(* The executor runs again, in the tree the record describes, to commit,    *)
(* push and open the pull request; its answer must hold the request's URL.  *)
Publish(edit, url) ==
  /\ pc = "publish"
  /\ work' = edit
  /\ published' = TRUE
  /\ IF url THEN pc' = "finish" /\ UNCHANGED exit ELSE pc' = "ended" /\ exit' = "error"
  /\ UNCHANGED <<plan, found, targets, queue, place, judged, record, saved, proven, store>>

(* --sarif, then --fail-on.                                                 *)
Finish(failOn) ==
  /\ pc = "finish"
  /\ pc' = "ended"
  /\ exit' = IF failOn /\ found # {} THEN "gate" ELSE "ok"
  /\ UNCHANGED <<plan, found, targets, queue, trees, judged, record, saved, published, proven, store>>

(* Any await of the command may reject, and the person may stop it.         *)
Interrupted ==
  /\ pc \notin {"start", "ended"}
  /\ Throw
  /\ io' = [io EXCEPT !["cli"] = Idle]
  /\ UNCHANGED <<trees, judged, record, saved, published, proven, file, torn, asks>>

-----------------------------------------------------------------------------
(* The web server: POST /suite and /cases upsert, PATCH /cases/:id and POST *)
(* /worktree update.  The web client sets no other status.                  *)
WebAsk(kind, cases, status) ==
  /\ pc # "start" /\ asks > 0
  /\ kind = "update" => Cardinality(cases) = 1
  /\ Begin("web", kind, cases, status)
  /\ asks' = asks - 1
  /\ UNCHANGED <<cli, trees, outputs, file, torn>>

(* 404.                                                                     *)
WebMissing ==
  /\ NotFound("web")
  /\ io' = [io EXCEPT !["web"] = Idle]
  /\ UNCHANGED <<cli, trees, outputs, file, torn, asks>>

CaseIO(p) == (Truncate(p) \/ Fill(p)) /\ UNCHANGED <<cli, trees, outputs>>

Next ==
  \/ \E o \in SUBSET Flags, unavailable \in BOOLEAN, old \in OldStatuses :
       Invoke(o, unavailable, old)
  \/ \E now \in SUBSET Findings : Scan(now) \/ Rescan(now)
  \/ UpsertCases
  \/ \E dirty, added \in BOOLEAN : PrepareTree(dirty, added)
  \/ MarkNext \/ CaseMissing
  \/ \E edit \in Works : FixTurn(edit)
  \/ \E j \in Judgements : Judge(j)
  \/ Decide
  \/ \E edit \in Works, outcome \in {"verified", "stopped"}, j \in Judgements, issues \in BOOLEAN :
       RunLoop(edit, outcome, j, issues)
  \/ \E edit \in Works, url \in BOOLEAN : Publish(edit, url)
  \/ \E failOn \in BOOLEAN : Finish(failOn)
  \/ Interrupted
  \/ \E cases \in (SUBSET Findings) \ {{}} :
       \/ WebAsk("upsert", cases, None)
       \/ \E status \in {"fixing", "worktree_ready"} : WebAsk("update", cases, status)
  \/ WebMissing
  \/ \E p \in Processes : CaseIO(p)

Spec == Init /\ [][Next]_vars

-----------------------------------------------------------------------------
(* However reads, truncations and writes of the two processes interleave,   *)
(* whatever the web client asks for and wherever the command is stopped, a  *)
(* case the file shows as verified is a target of a saved record of this    *)
(* run that verified it.                                                    *)
VerifiedIsProven ==
  \A f \in Findings :
    file[f] = "verified" => f \in proven /\ saved /\ record.verified /\ judged = {}

(* Nothing is published, and no run that was to verify a repair exits well, *)
(* without such a record for every target.                                  *)
ExitIsHonest ==
  published \/ (exit \in {"ok", "gate"} /\ plan.verify /\ targets # {})
    => proven = targets /\ saved /\ record.verified /\ judged = {}

(* The hash of a record tells the repair it describes from every other      *)
(* repair, as changesFrom (commands/dvalin.ts) says.                        *)
HashTellsRepairsApart ==
  record # NoRecord => \A w \in Works : w # record.of => DiffHash(w) # record.hash

(* What the case file shows and what the command reports are both proven.   *)
RemediationIsHonest == VerifiedIsProven /\ ExitIsHonest
=============================================================================
