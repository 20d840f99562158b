------------------------------ MODULE FixLoop ------------------------------
(* runFixLoop (remediation/fixLoop.ts) and its caller in commands/dvalin.ts: *)
(* an executor edits, the change is rebased, scanned and checked, and a stop *)
(* rule decides.  A change is the set of what is wrong with it: findings,    *)
(* and marks for suppressions, evasions and altered reproduction tests.      *)
(* One action per await: the executor's turn, a rebase, an observation, its  *)
(* confirmation, the record.  Each of them may also throw (Fail).            *)
EXTENDS Integers, FiniteSets

CONSTANTS
  Asked,       \* findings the loop is asked to close
  Code,        \* those that are code findings: they can be reproduced by a test
  Others,      \* any other finding a change or upstream may bring
  Minor,       \* findings below the gate's threshold
  Hidden,      \* findings in files a narrowed scan does not look at, such as
               \* ignored ones; the files of the targets are always looked at
  Engines, EngineOf,
  MaxRounds, MaxAttempts,   \* maxRounds; reproduce.rounds, 0 without reproduce
  Rebases,     \* --rebase-onto
  FullScans,   \* --full-rescan
  MaxMoves     \* bound: how often upstream moves

Findings == Asked \cup Others
Marks == {"suppression", "evasion", "tampered"}
Kinds == {"project", "reproduce"}

ASSUME FixLoopAssumption ==
  /\ Code \subseteq Asked /\ Minor \subseteq Others /\ Hidden \subseteq Others
  /\ EngineOf \in [Findings -> Engines] /\ Findings \cap Marks = {}
  /\ MaxRounds \in Nat \ {0} /\ MaxAttempts \in Nat /\ MaxMoves \in Nat
  /\ Rebases \in BOOLEAN /\ FullScans \in BOOLEAN

VARIABLES
  pc, audit,     \* where the loop is; run_start and run_end
  targets,       \* the findings asked for that an edit can fix
  tree,          \* what is wrong with the working tree
  base,          \* the findings at input.baseCommit
  baseline,      \* baselineSnapshots: what a scan of the base reported
  repro,         \* a reproduction was accepted
  attempt, round,
  obs,           \* the last observation
  previous,      \* previous.open
  best, flat,    \* best and roundsWithoutImprovement
  stop, outcome, record,
  closed,        \* the remediation cases set to "verified"
  moves,         \* how often upstream moved
  real           \* history: previous, best and flat as full scans give them,
                 \* and whether every round's scan so far saw all there was

judged == <<previous, best, flat, real>>
issued == <<stop, outcome, record, closed>>
change == <<targets, tree, base, baseline>>
vars == <<pc, audit, change, repro, attempt, round, obs, judged, issued, moves>>

-----------------------------------------------------------------------------
(* Scans and observations.                                                  *)

(* An engine reports only what it completes, a narrowed scan only what is   *)
(* in the files it was given.  Suppressed findings are reported: the scan   *)
(* runs on a copy without the suppressions the change added.                *)
Reports(found, up, narrowed) ==
  {f \in found \cap Findings : EngineOf[f] \in up /\ ~(narrowed /\ f \in Hidden)}

TargetEngines(t) == {EngineOf[f] : f \in t}

Observation(found, up, narrowed, ran, failed) ==
  [scan |-> Reports(found, up, narrowed),
   down |-> TargetEngines(targets) \ up,
   marks |-> (found \cap Marks) \ (IF repro THEN {} ELSE {"tampered"}),
   ran |-> ran, failed |-> failed, narrowed |-> narrowed]

(* Mutant: a confirmation trusts the engines of the narrowed scan.          *)
RescannedSameEngines(o, found, up) ==
  [o EXCEPT !.scan = Reports(found, up, FALSE), !.narrowed = FALSE]
(* observe(..., reuse): only the scan is new.                               *)
Rescanned(o, found, up) ==
  [o EXCEPT !.scan = Reports(found, up, FALSE), !.narrowed = FALSE,
            !.down = TargetEngines(targets) \ up]

Remaining(o) == targets \cap o.scan
Introduced(o) == o.scan \ baseline
(* Mutant: introduced findings below the threshold block as well.           *)
Blocking(o) == Introduced(o) \ Minor

Tagged(tag, set) == {<<tag, x>> : x \in set}

Open(o) ==
  Tagged("target", Remaining(o)) \cup Tagged("introduced", Blocking(o))
    \cup Tagged("check", o.failed) \cup Tagged("mark", o.marks) \cup Tagged("engine", o.down)
    \cup Tagged("checks", IF o.ran = {} THEN {"none"} ELSE {})

(* What a full scan with every engine would have left open.                 *)
RealOpen(o) == Open(Rescanned(o, tree, Engines))

-----------------------------------------------------------------------------
(* decide: the stop rule that fires, or "none".                             *)

Beats(open, limit) == Cardinality(open) < limit

(* Mutant: one round without improvement ends the loop.                     *)
RuleNoPatience(o) ==
  IF Open(o) = {} THEN "clean"
  ELSE IF o.down # {} THEN "engine-incomplete"
  ELSE IF o.ran = {} THEN "no-checks"
  ELSE IF Open(o) = previous THEN "no-change"
  ELSE IF ~Beats(Open(o), best) THEN "oscillating"
  ELSE IF round >= MaxRounds THEN "budget" ELSE "none"
Rule(o) ==
  IF Open(o) = {} THEN "clean"
  ELSE IF o.down # {} THEN "engine-incomplete"
  ELSE IF o.ran = {} THEN "no-checks"
  ELSE IF Open(o) = previous THEN "no-change"
  ELSE IF ~Beats(Open(o), best) /\ flat >= 1 THEN "oscillating"
  ELSE IF round >= MaxRounds THEN "budget" ELSE "none"

Outcome(rule) ==
  CASE rule = "clean" -> "verified"
    [] rule \in {"engine-incomplete", "no-checks"} -> "unverifiable"
    [] rule \in {"no-change", "oscillating"} -> "stalled"
    [] rule = "budget" -> "budget-exhausted"

(* evaluateFixVerdictV3 over the record of an observation.                  *)
(* Mutant: any new finding, minor or not, refutes the repair.               *)
VerdictStrict(o) ==
  /\ Remaining(o) = {} /\ o.ran # {} /\ o.failed = {}
  /\ Introduced(o) = {} /\ "evasion" \notin o.marks
Verdict(o) ==
  /\ Remaining(o) = {} /\ o.ran # {} /\ o.failed = {}
  /\ Blocking(o) = {} /\ "evasion" \notin o.marks

(* issueRecord with reproductionEvidence; `missing` is the scan's coverage. *)
Record(o) ==
  [issued |-> TRUE, verified |-> Verdict(o), missing |-> o.down,
   reproduced |-> repro /\ {"reproduce", "tampered"} \cap (o.failed \cup o.marks) = {}]
NoRecord == [issued |-> FALSE, verified |-> FALSE, missing |-> {}, reproduced |-> FALSE]

-----------------------------------------------------------------------------
Items ==
  Tagged("target", Asked) \cup Tagged("introduced", Findings) \cup Tagged("check", Kinds)
    \cup Tagged("mark", Marks) \cup Tagged("engine", Engines) \cup Tagged("checks", {"none"})
Infinity == Cardinality(Items) + 1
NoObs == [scan |-> {}, down |-> {}, marks |-> {}, ran |-> {}, failed |-> {},
          narrowed |-> FALSE]

(* The scan the loop answers found every finding asked for.                 *)
Init ==
  /\ pc = "start" /\ audit = "none"
  /\ targets \in SUBSET Asked
  /\ \E found \in SUBSET Findings, up \in SUBSET Engines :
       /\ Asked \subseteq Reports(found, up, FALSE)
       /\ base = found /\ tree = found /\ baseline = Reports(found, up, FALSE)
  /\ repro = FALSE /\ attempt = 1 /\ round = 1 /\ obs = NoObs
  /\ previous = {} /\ best = Infinity /\ flat = 0
  /\ real = [open |-> {}, best |-> Infinity, flat |-> 0, full |-> TRUE]
  /\ stop = "none" /\ outcome = "none" /\ record = NoRecord /\ closed = {}
  /\ moves = 0

(* Whatever an executor's turn may leave behind.                            *)
Edits == SUBSET (Findings \cup (Marks \ (IF repro THEN {} ELSE {"tampered"})))

Finish(result) ==
  /\ outcome' = result /\ pc' = "finished"
  /\ audit' = IF audit = "open" THEN "closed" ELSE audit

NothingFixable ==
  /\ pc = "start" /\ targets = {}
  /\ Finish("not-auto-fixable")
  /\ UNCHANGED <<change, repro, attempt, round, obs, judged, stop, record, closed, moves>>

Start ==
  /\ pc = "start" /\ targets # {}
  /\ pc' = "syncing" /\ audit' = "open"
  /\ UNCHANGED <<change, repro, attempt, round, obs, judged, issued, moves>>

(* sync: before the first turn, and after every fix turn.                   *)
AfterSync ==
  IF pc = "resyncing" THEN "observing"
  ELSE IF targets \cap Code # {} /\ MaxAttempts > 0 THEN "reproducing" ELSE "editing"

UpToDate ==
  /\ pc \in {"syncing", "resyncing"}
  /\ pc' = AfterSync
  /\ UNCHANGED <<audit, change, repro, attempt, round, obs, judged, issued, moves>>

(* git's three-way merge: what the change did not touch follows upstream.   *)
Merged(upstream) ==
  (tree \ Findings) \cup {f \in Findings : IF (f \in tree) = (f \in base)
                                             THEN f \in upstream ELSE f \in tree}

NewBaseline(upstream, up) == Reports(upstream, up, FALSE)

(* Upstream moved.  The change is merged, or its conflicts are resolved by  *)
(* the executor; scanAt measures the new base.                              *)
Rebase ==
  /\ pc \in {"syncing", "resyncing"} /\ Rebases /\ moves < MaxMoves
  /\ \E upstream \in SUBSET Findings, up \in SUBSET Engines :
       /\ base' = upstream /\ baseline' = NewBaseline(upstream, up)
       /\ tree' \in {Merged(upstream)} \cup Edits
  /\ moves' = moves + 1 /\ pc' = AfterSync
  /\ UNCHANGED <<audit, targets, repro, attempt, round, obs, judged, issued>>

Conflict ==
  /\ pc \in {"syncing", "resyncing"} /\ Rebases /\ moves < MaxMoves
  /\ Finish("rebase-conflict") /\ moves' = moves + 1
  /\ UNCHANGED <<change, repro, attempt, round, obs, judged, stop, record, closed>>

(* A reproduction attempt: accepted if only tests changed, and they fail.   *)
(* The tests may bring findings and marks of their own.                     *)
Reproduce ==
  /\ pc = "reproducing"
  /\ tree' \in Edits /\ tree' \cap Asked = base \cap Asked
  /\ repro' = TRUE /\ pc' = "editing"
  /\ UNCHANGED <<audit, targets, base, baseline, attempt, round, obs, judged, issued, moves>>

(* Mutant: a failed attempt is not counted.                                 *)
AttemptAgain ==
  /\ pc = "reproducing" /\ tree' \in Edits
  /\ UNCHANGED <<pc, audit, targets, base, baseline, repro, attempt, round, obs, judged, issued, moves>>
FailToReproduce ==
  /\ pc = "reproducing" /\ tree' \in Edits
  /\ IF attempt < MaxAttempts
       THEN attempt' = attempt + 1 /\ UNCHANGED <<pc, audit, outcome>>
       ELSE Finish("not-reproduced") /\ UNCHANGED attempt
  /\ UNCHANGED <<targets, base, baseline, repro, round, obs, judged, stop, record, closed, moves>>

(* executor.run of a fix round.                                             *)
Edit ==
  /\ pc = "editing"
  /\ tree' \in Edits /\ pc' = "resyncing"
  /\ UNCHANGED <<audit, targets, base, baseline, repro, attempt, round, obs, judged, issued, moves>>

(* The end of a round: bookkeeping, then another round or the record.       *)
Conclude(o) ==
  /\ previous' = Open(o)
  /\ IF Beats(Open(o), best) THEN best' = Cardinality(Open(o)) /\ flat' = 0
                             ELSE best' = best /\ flat' = flat + 1
  /\ LET better == Beats(RealOpen(o), real.best)
     IN real' = [open |-> RealOpen(o), full |-> real.full /\ o.scan = Reports(tree, Engines, FALSE),
                 best |-> IF better THEN Cardinality(RealOpen(o)) ELSE real.best,
                 flat |-> IF better THEN 0 ELSE real.flat + 1]
  /\ IF Rule(o) = "none"
       THEN pc' = "editing" /\ round' = round + 1 /\ obs' = NoObs /\ stop' = stop
       ELSE pc' = "issuing" /\ stop' = Rule(o) /\ obs' = o /\ round' = round

(* Mutant: only a narrowed scan that would verify is confirmed.             *)
ConfirmsVerified(o) == o.narrowed /\ Rule(o) = "clean"
NeedsConfirmation(o) == o.narrowed /\ Rule(o) # "none"

Kept == <<audit, change, repro, attempt, outcome, record, closed, moves>>

(* The checks that ran are the project's, if any can run, and with a        *)
(* reproduction its tests.  A narrowed scan is a full one if there is       *)
(* nothing, or too much, to narrow to.                                      *)
Observe ==
  /\ pc = "observing"
  /\ \E up \in SUBSET Engines, narrowed \in IF FullScans THEN {FALSE} ELSE BOOLEAN,
        ran \in {r \in SUBSET Kinds : "reproduce" \in r <=> repro} :
       \E failed \in SUBSET ran :
         LET o == Observation(tree, up, narrowed, ran, failed)
         IN IF NeedsConfirmation(o)
              THEN /\ obs' = o /\ pc' = "confirming"
                   /\ UNCHANGED <<judged, round, stop>>
              ELSE Conclude(o)
  /\ UNCHANGED Kept

(* The full scan of the same tree that decides instead.                     *)
Confirm ==
  /\ pc = "confirming"
  /\ \E up \in SUBSET Engines : Conclude(Rescanned(obs, tree, up))
  /\ UNCHANGED Kept

Issue ==
  /\ pc = "issuing"
  /\ record' = Record(obs) /\ Finish(Outcome(stop))
  /\ UNCHANGED <<change, repro, attempt, round, obs, judged, stop, closed, moves>>

(* The executor, git, an engine or a check throws.                          *)
Fail ==
  /\ pc \in {"syncing", "reproducing", "editing", "resyncing", "observing", "confirming", "issuing"}
  /\ Finish("error")
  /\ UNCHANGED <<change, repro, attempt, round, obs, judged, stop, record, closed, moves>>

(* dvalin.ts: verified closes every case, any other outcome throws.         *)
CloseCases ==
  /\ pc = "finished" /\ outcome = "verified"
  /\ closed' = Asked /\ pc' = "closed"
  /\ UNCHANGED <<audit, change, repro, attempt, round, obs, judged, stop, outcome, record, moves>>

Next ==
  \/ NothingFixable \/ Start \/ UpToDate \/ Rebase \/ Conflict
  \/ Reproduce \/ FailToReproduce \/ Edit \/ Observe \/ Confirm \/ Issue
  \/ Fail \/ CloseCases

Spec == Init /\ [][Next]_vars

(* The executor, the engines and the checks settle: engines and checks have *)
(* timeouts, the agent has budgets.                                         *)
FairSpec == Spec /\ WF_vars(Next)

-----------------------------------------------------------------------------
(* Properties.                                                              *)

Observations ==
  [scan : SUBSET Findings, down : SUBSET Engines, marks : SUBSET Marks,
   ran : SUBSET Kinds, failed : SUBSET Kinds, narrowed : BOOLEAN]
Rules == {"clean", "engine-incomplete", "no-checks", "no-change", "oscillating", "budget"}
Outcomes == {"verified", "unverifiable", "stalled", "budget-exhausted",
             "not-auto-fixable", "not-reproduced", "rebase-conflict", "error"}
Working == {"syncing", "reproducing", "editing", "resyncing", "observing",
            "confirming", "issuing"}

(* Types; a round is open in the audit log exactly while the loop works, on *)
(* every path out of it (try/finally around run_start and run_end).         *)
TypeOK ==
  /\ pc \in Working \cup {"start", "finished", "closed"}
  /\ audit \in {"none", "open", "closed"} /\ (audit = "open" <=> pc \in Working)
  /\ targets \subseteq Asked /\ tree \subseteq Findings \cup Marks
  /\ base \subseteq Findings /\ baseline \subseteq Findings
  /\ repro \in BOOLEAN /\ attempt \in Nat /\ round \in Nat /\ moves \in Nat
  /\ obs \in Observations /\ previous \subseteq Items /\ best \in Nat /\ flat \in Nat
  /\ stop \in Rules \cup {"none"} /\ outcome \in Outcomes \cup {"none"}
  /\ record.missing \subseteq Engines /\ closed \subseteq Asked

(* What a person could hold against the change: a target, a mark, or a new  *)
(* finding at the gate that an engine of the targets knows.                 *)
Objections ==
  (targets \cap tree) \cup (tree \cap Marks)
    \cup {f \in (tree \cap Findings) \ (base \cup Minor) : EngineOf[f] \in TargetEngines(targets)}

Promise == INSTANCE RepairPromise
             WITH Verdicts <- Outcomes, objections <- Objections, verdict <- outcome

(* The loop implements RepairPromise: one verdict, and "verified" only for  *)
(* a change nothing can be held against, on the base it was rebased to,     *)
(* whatever the narrowed rounds saw and whichever engines failed in them.   *)
ImplementsPromise == Promise!Spec

(* decide and deriveFixVerdict are written apart; a verified loop issues a  *)
(* verified record, with the reproduction confirmed if there is one.        *)
RecordAgrees ==
  outcome = "verified" => record.verified /\ (repro => record.reproduced)

(* No turn beyond the budget: `decide` stops on the last round, so the loop *)
(* never falls through to `result!` without a result.                       *)
BudgetHolds == pc \in Working => round <= MaxRounds

(* "only the full scan decides the outcome and goes into the record", and   *)
(* it decides for the tree as it is.                                        *)
FullScanDecides ==
  pc = "issuing" =>
    /\ ~obs.narrowed
    /\ \E up \in SUBSET Engines : obs = Observation(tree, up, FALSE, obs.ran, obs.failed)

(* "stalled": the round left the same problems open, or the two last rounds *)
(* did not beat the best before, counted on what a full scan with every     *)
(* engine shows.  decide can promise it only while no round's scan missed a *)
(* finding: a narrowed scan may, and so does an engine of no target when it *)
(* fails, which the record does not hold against a round.                   *)
StallIsReal ==
  [][stop = "none" /\ stop' \in {"no-change", "oscillating"} /\ real'.full =>
       \/ RealOpen(obs') = real.open
       \/ ~Beats(RealOpen(obs'), real.best) /\ real.flat >= 1]_vars

(* At any time the loop still comes to an outcome, with no audit run left   *)
(* open behind it.                                                          *)
LoopEnds == []<>(outcome # "none" /\ audit # "open")

-----------------------------------------------------------------------------
(* What the specification of the record says and the code does not do.      *)

(* FV-22: a finding absent from a scan whose producing engine did not       *)
(* complete must not be reported as resolved.                               *)
RecordLookedForTargets == record.verified => record.missing = {}
=============================================================================
