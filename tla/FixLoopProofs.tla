--------------------------- MODULE FixLoopProofs ---------------------------
(* For every set of findings, engines and limits: the fix loop keeps the    *)
(* RepairPromise, whatever its executor, engines and upstream do.           *)
EXTENDS FixLoop, TLAPS

(* What the loop believes of the base is true of the base it stands on now. *)
Grounded ==
  /\ targets \subseteq Asked /\ tree \subseteq Findings \cup Marks
  /\ base \subseteq Findings /\ baseline \subseteq base
  /\ (~repro => "tampered" \notin tree)

(* An observation that will decide is one of the tree as it is.             *)
Current(o) ==
  \E up \in SUBSET Engines :
    /\ o.scan = Reports(tree, up, o.narrowed)
    /\ o.down = TargetEngines(targets) \ up
    /\ o.marks = (tree \cap Marks) \ (IF repro THEN {} ELSE {"tampered"})
CurrentObs == pc \in {"confirming", "issuing"} => Current(obs)

(* The rule that stops the loop was evaluated on a full scan.               *)
Decided ==
  pc = "issuing" =>
    stop \in Rules /\ obs.narrowed = FALSE /\ (stop = "clean" => Open(obs) = {})

(* There is no verdict before the end.                                      *)
Ended ==
  /\ (pc \in Working \cup {"start"} => outcome = "none")
  /\ (pc \in {"finished", "closed"} => outcome \in Outcomes)
  /\ pc \in Working \cup {"start", "finished", "closed"}

IInv == Grounded /\ obs \in Observations /\ CurrentObs /\ Decided /\ Ended

USE FixLoopAssumption DEF Working

LEMMA InitIInv == Init => IInv
<1> SUFFICES ASSUME Init PROVE IInv
  OBVIOUS
<1>1. PICK found \in SUBSET Findings, up \in SUBSET Engines :
        base = found /\ tree = found /\ baseline = Reports(found, up, FALSE)
  BY DEF Init
<1>2. Grounded
  BY <1>1 DEF Init, Grounded, Reports, Marks
<1>3. obs \in Observations
  BY DEF Init, NoObs, Observations
<1> QED
  BY <1>2, <1>3 DEF Init, IInv, CurrentObs, Decided, Ended

(* Grounded survives every step: the executor leaves findings and marks, a  *)
(* merge keeps them apart, and a rebase moves base and baseline together.   *)
LEMMA EditGrounded ==
  ASSUME Grounded, NEW t \in Edits
  PROVE  t \subseteq Findings \cup Marks /\ (~repro => "tampered" \notin t)
  BY DEF Edits, Grounded, Marks

LEMMA MergeGrounded ==
  ASSUME Grounded, NEW u \in SUBSET Findings
  PROVE  /\ Merged(u) \subseteq Findings \cup Marks
         /\ (~repro => "tampered" \notin Merged(u))
  BY DEF Grounded, Merged, Marks

LEMMA GroundedStep == Grounded /\ [Next]_vars => Grounded'
<1> SUFFICES ASSUME Grounded, [Next]_vars PROVE Grounded'
  OBVIOUS
<1>1. CASE UNCHANGED vars \/ NothingFixable \/ Start \/ UpToDate \/ Conflict \/ Observe
           \/ Confirm \/ Issue \/ Fail \/ CloseCases
  BY <1>1 DEF Grounded, vars, change, Kept, NothingFixable, Start, UpToDate, Conflict,
     Observe, Confirm, Issue, Fail, CloseCases
<1>2. CASE Edit \/ FailToReproduce
  <2>1. tree' \in Edits /\ UNCHANGED <<targets, base, baseline, repro>>
    BY <1>2 DEF Edit, FailToReproduce
  <2> QED
    BY <2>1, EditGrounded DEF Grounded
<1>3. CASE Reproduce
  <2>1. tree' \in Edits /\ repro' = TRUE /\ UNCHANGED <<targets, base, baseline>>
    BY <1>3 DEF Reproduce
  <2> QED
    BY <2>1, EditGrounded DEF Grounded
<1>4. CASE Rebase
  <2>1. PICK u \in SUBSET Findings, up \in SUBSET Engines :
          /\ base' = u /\ baseline' = Reports(u, up, FALSE)
          /\ tree' \in {Merged(u)} \cup Edits
    BY <1>4 DEF Rebase, NewBaseline
  <2>2. UNCHANGED <<targets, repro>>
    BY <1>4 DEF Rebase
  <2>3. baseline' \subseteq base' /\ base' \subseteq Findings
    BY <2>1 DEF Reports
  <2>4. tree' \subseteq Findings \cup Marks /\ (~repro => "tampered" \notin tree')
    BY <2>1, EditGrounded, MergeGrounded
  <2> QED
    BY <2>2, <2>3, <2>4 DEF Grounded
<1> QED
  BY <1>1, <1>2, <1>3, <1>4 DEF Next

(* What the end of a round leaves, given an observation of this tree.       *)
LEMMA Concluded ==
  ASSUME NEW o, Current(o), Conclude(o), UNCHANGED Kept, pc \in {"observing", "confirming"},
         o.narrowed = FALSE \/ Rule(o) = "none",
         pc \in Working => outcome = "none"
  PROVE  CurrentObs' /\ Decided' /\ Ended'
<1>1. UNCHANGED <<tree, targets, base, baseline, repro, outcome>>
  BY DEF Kept, change
<1>2. CASE Rule(o) = "none"
  <2>1. pc' = "editing"
    BY <1>2 DEF Conclude
  <2> QED
    BY <2>1, <1>1 DEF CurrentObs, Decided, Ended
<1>3. CASE Rule(o) # "none"
  <2>1. pc' = "issuing" /\ stop' = Rule(o) /\ obs' = o
    BY <1>3 DEF Conclude
  <2>2. Current(o)'
    BY <1>1 DEF Current, Reports, TargetEngines
  <2>3. stop' \in Rules
    BY <1>3, <2>1 DEF Rule, Rules
  <2>4. stop' = "clean" => Open(o) = {}
    BY <2>1 DEF Rule
  <2>5. Open(o)' = Open(o)
    BY <1>1 DEF Open, Remaining, Blocking, Introduced
  <2>6. CurrentObs'
    BY <2>1, <2>2 DEF CurrentObs
  <2>7. Decided'
    BY <1>3, <2>1, <2>3, <2>4, <2>5 DEF Decided
  <2> QED
    BY <2>1, <2>6, <2>7, <1>1 DEF Ended
<1> QED
  BY <1>2, <1>3

(* What an observation is made of.                                          *)
LEMMA ObserveResult ==
  ASSUME Observe
  PROVE  \E up \in SUBSET Engines, narrowed \in BOOLEAN, ran \in SUBSET Kinds, failed \in SUBSET Kinds : \E o :
           /\ o = Observation(tree, up, narrowed, ran, failed)
           /\ IF NeedsConfirmation(o)
                THEN obs' = o /\ pc' = "confirming"
                ELSE Conclude(o)
<1>1. PICK up \in SUBSET Engines, narrowed \in IF FullScans THEN {FALSE} ELSE BOOLEAN,
           ran \in {r \in SUBSET Kinds : "reproduce" \in r <=> repro} :
        \E failed \in SUBSET ran :
          LET o == Observation(tree, up, narrowed, ran, failed)
          IN  IF NeedsConfirmation(o)
                THEN /\ obs' = o /\ pc' = "confirming"
                     /\ UNCHANGED <<judged, round, stop>>
                ELSE Conclude(o)
  BY DEF Observe
<1>4. PICK failed \in SUBSET ran :
        LET o == Observation(tree, up, narrowed, ran, failed)
        IN  IF NeedsConfirmation(o)
              THEN /\ obs' = o /\ pc' = "confirming"
                   /\ UNCHANGED <<judged, round, stop>>
              ELSE Conclude(o)
  BY <1>1
<1> DEFINE o == Observation(tree, up, narrowed, ran, failed)
<1>2. IF NeedsConfirmation(o) THEN obs' = o /\ pc' = "confirming" ELSE Conclude(o)
  BY <1>4
<1>3. narrowed \in BOOLEAN /\ ran \in SUBSET Kinds /\ failed \in SUBSET Kinds
  OBVIOUS
<1> QED
  BY <1>2, <1>3

LEMMA ObserveStep == IInv /\ Observe => CurrentObs' /\ Decided' /\ Ended'
<1> SUFFICES ASSUME IInv, Observe PROVE CurrentObs' /\ Decided' /\ Ended'
  OBVIOUS
<1>0. PICK up \in SUBSET Engines, narrowed \in BOOLEAN, ran \in SUBSET Kinds,
           failed \in SUBSET Kinds : \E o :
        /\ o = Observation(tree, up, narrowed, ran, failed)
        /\ IF NeedsConfirmation(o)
             THEN obs' = o /\ pc' = "confirming"
             ELSE Conclude(o)
  BY ObserveResult
<1>1. PICK o :
        /\ o = Observation(tree, up, narrowed, ran, failed)
        /\ IF NeedsConfirmation(o)
             THEN obs' = o /\ pc' = "confirming"
             ELSE Conclude(o)
  BY <1>0
<1>2. pc = "observing" /\ UNCHANGED Kept
  BY DEF Observe
<1>3. o.scan = Reports(tree, up, o.narrowed) /\ o.down = TargetEngines(targets) \ up
      /\ o.marks = (tree \cap Marks) \ (IF repro THEN {} ELSE {"tampered"})
      /\ o.narrowed = narrowed
  BY <1>1 DEF Observation
<1>4. Current(o)
  BY <1>3 DEF Current
<1>5. UNCHANGED <<tree, targets, repro, outcome>> /\ outcome = "none"
  BY <1>2 DEF Kept, change, IInv, Ended
<1>6. CASE NeedsConfirmation(o)
  <2>1. obs' = o /\ pc' = "confirming"
    BY <1>1, <1>6
  <2>2. Current(o)'
    BY <1>4, <1>5 DEF Current, Reports, TargetEngines
  <2> QED
    BY <2>1, <2>2, <1>5 DEF CurrentObs, Decided, Ended
<1>7. CASE ~NeedsConfirmation(o)
  <2>1. Conclude(o)
    BY <1>1, <1>7
  <2>2. o.narrowed = FALSE \/ Rule(o) = "none"
    BY <1>3, <1>7 DEF NeedsConfirmation
  <2> QED
    BY <2>1, <2>2, <1>2, <1>4, <1>5, Concluded
<1> QED
  BY <1>6, <1>7

LEMMA ConfirmStep == IInv /\ Confirm => CurrentObs' /\ Decided' /\ Ended'
<1> SUFFICES ASSUME IInv, Confirm PROVE CurrentObs' /\ Decided' /\ Ended'
  OBVIOUS
<1>0. PICK up \in SUBSET Engines : \E o : o = Rescanned(obs, tree, up) /\ Conclude(o)
  BY DEF Confirm
<1>1. PICK o : o = Rescanned(obs, tree, up) /\ Conclude(o)
  BY <1>0
<1>2. pc = "confirming" /\ UNCHANGED Kept /\ outcome = "none"
  BY DEF Confirm, IInv, Ended
<1>3. Current(obs)
  BY <1>2 DEF IInv, CurrentObs
<1>4. obs \in Observations
  BY DEF IInv
<1>5. o.scan = Reports(tree, up, FALSE) /\ o.down = TargetEngines(targets) \ up
      /\ o.marks = obs.marks /\ o.narrowed = FALSE
  BY <1>1, <1>4 DEF Rescanned, Observations
<1>6. Current(o)
  BY <1>3, <1>5 DEF Current
<1> QED
  BY <1>1, <1>2, <1>5, <1>6, Concluded

LEMMA OtherSteps ==
  ASSUME IInv, [Next]_vars, ~Observe, ~Confirm
  PROVE  CurrentObs' /\ Decided' /\ Ended'
<1>1. CASE UNCHANGED vars
  <2>1. UNCHANGED <<pc, obs, stop, outcome, targets, tree, base, baseline, repro>>
    BY <1>1 DEF vars, change, issued
  <2>2. CurrentObs' = CurrentObs
    BY <2>1 DEF CurrentObs, Current, Reports, TargetEngines
  <2>3. Open(obs)' = Open(obs)
    BY <2>1 DEF Open, Remaining, Blocking, Introduced
  <2> QED
    BY <2>1, <2>2, <2>3 DEF IInv, Decided, Ended
<1>6. CASE CloseCases
  BY <1>6 DEF CloseCases, IInv, CurrentObs, Decided, Ended
<1>2. CASE Start \/ UpToDate \/ Rebase \/ Reproduce \/ Edit
  <2>1. outcome' = outcome
    BY <1>2 DEF Start, UpToDate, Rebase, Reproduce, Edit, issued
  <2>2. pc \in Working \cup {"start"}
    BY <1>2 DEF Start, UpToDate, Rebase, Reproduce, Edit
  <2>3. pc' \in {"syncing", "reproducing", "editing", "resyncing", "observing"}
    BY <1>2 DEF Start, UpToDate, Rebase, Reproduce, Edit, AfterSync
  <2> QED
    BY <2>1, <2>2, <2>3 DEF IInv, CurrentObs, Decided, Ended
<1>3. CASE NothingFixable \/ Conflict \/ Fail
  BY <1>3 DEF NothingFixable, Conflict, Fail, Finish, CurrentObs, Decided, Ended, Outcomes
<1>4. CASE FailToReproduce
  BY <1>4 DEF FailToReproduce, Finish, IInv, CurrentObs, Decided, Ended, Outcomes
<1>5. CASE Issue
  <2>1. stop \in Rules
    BY <1>5 DEF Issue, IInv, Decided
  <2>2. Outcome(stop) \in Outcomes
    BY <2>1 DEF Outcome, Outcomes, Rules
  <2> QED
    BY <1>5, <2>2 DEF Issue, Finish, CurrentObs, Decided, Ended
<1> QED
  BY <1>1, <1>2, <1>3, <1>4, <1>5, <1>6 DEF Next

LEMMA EnginesKnown ==
  ASSUME NEW t \in SUBSET Asked
  PROVE  TargetEngines(t) \subseteq Engines
  BY DEF TargetEngines, Findings

(* The last observation is one, with every field.                           *)
LEMMA ObsTyped == IInv /\ [Next]_vars => obs' \in Observations
<1> SUFFICES ASSUME IInv, [Next]_vars PROVE obs' \in Observations
  OBVIOUS
<1>1. NoObs \in Observations
  BY DEF NoObs, Observations
<1>2. CASE Observe
  <2>0. PICK up \in SUBSET Engines, narrowed \in BOOLEAN, ran \in SUBSET Kinds,
             failed \in SUBSET Kinds : \E o :
          /\ o = Observation(tree, up, narrowed, ran, failed)
          /\ IF NeedsConfirmation(o) THEN obs' = o /\ pc' = "confirming" ELSE Conclude(o)
    BY <1>2, ObserveResult
  <2>1. PICK o :
          /\ o = Observation(tree, up, narrowed, ran, failed)
          /\ IF NeedsConfirmation(o) THEN obs' = o ELSE Conclude(o)
    BY <2>0
  <2>3. obs' \in {NoObs, o}
    BY <2>1 DEF Conclude
  <2>4. /\ Reports(tree, up, narrowed) \subseteq Findings
        /\ TargetEngines(targets) \ up \subseteq Engines
    BY EnginesKnown DEF Reports, IInv, Grounded
  <2>2. o \in Observations
    BY <2>1, <2>4 DEF Observation, Observations
  <2> QED
    BY <1>1, <2>2, <2>3
<1>3. CASE Confirm
  <2>0. PICK up \in SUBSET Engines : \E o : o = Rescanned(obs, tree, up) /\ Conclude(o)
    BY <1>3 DEF Confirm
  <2>1. PICK o : o = Rescanned(obs, tree, up) /\ Conclude(o)
    BY <2>0
  <2>3. obs' \in {NoObs, o}
    BY <2>1 DEF Conclude
  <2>4. /\ Reports(tree, up, FALSE) \subseteq Findings
        /\ TargetEngines(targets) \ up \subseteq Engines
    BY EnginesKnown DEF Reports, IInv, Grounded
  <2>5. obs \in Observations
    BY DEF IInv
  <2>2. o \in Observations
    BY <2>1, <2>4, <2>5 DEF Rescanned, Observations
  <2> QED
    BY <1>1, <2>2, <2>3
<1>4. CASE ~Observe /\ ~Confirm
  BY <1>4 DEF Next, vars, NothingFixable, Start, UpToDate, Rebase, Conflict, Reproduce,
     FailToReproduce, Edit, Issue, Fail, CloseCases, IInv
<1> QED
  BY <1>2, <1>3, <1>4

LEMMA NextIInv == IInv /\ [Next]_vars => IInv'
<1> SUFFICES ASSUME IInv, [Next]_vars PROVE IInv'
  OBVIOUS
<1>1. Grounded'
  BY GroundedStep DEF IInv
<1>2. CurrentObs' /\ Decided' /\ Ended'
  BY ObserveStep, ConfirmStep, OtherSteps
<1> QED
  BY <1>1, <1>2, ObsTyped DEF IInv

THEOREM Invariance == Spec => []IInv
  BY InitIInv, NextIInv, PTL DEF Spec

LEMMA UntaggedEmpty ==
  ASSUME NEW tag, NEW set, Tagged(tag, set) = {}
  PROVE  set = {}
  BY DEF Tagged

(* Nothing open: every part of the open set is empty, and a check ran.      *)
LEMMA NothingOpen ==
  ASSUME Open(obs) = {}
  PROVE  /\ Remaining(obs) = {} /\ Blocking(obs) = {}
         /\ obs.failed = {} /\ obs.marks = {} /\ obs.down = {} /\ obs.ran # {}
<1>1. /\ Tagged("target", Remaining(obs)) = {} /\ Tagged("introduced", Blocking(obs)) = {}
      /\ Tagged("check", obs.failed) = {} /\ Tagged("mark", obs.marks) = {}
      /\ Tagged("engine", obs.down) = {}
      /\ Tagged("checks", IF obs.ran = {} THEN {"none"} ELSE {}) = {}
  BY DEF Open
<1>2. (IF obs.ran = {} THEN {"none"} ELSE {}) = {}
  BY <1>1, UntaggedEmpty
<1> QED
  BY <1>1, <1>2, UntaggedEmpty

(* A loop that stopped on "clean" leaves nothing to object to: the deciding *)
(* scan was full, of this tree, and every engine of the targets completed,  *)
(* so it would have reported a target or a new finding of theirs.           *)
LEMMA CleanIsClean ==
  ASSUME IInv, pc = "issuing", stop = "clean"
  PROVE  Objections = {}
<1>1. Current(obs) /\ obs.narrowed = FALSE /\ Open(obs) = {}
  BY DEF IInv, CurrentObs, Decided
<1>2. PICK up \in SUBSET Engines :
        /\ obs.scan = Reports(tree, up, FALSE)
        /\ obs.down = TargetEngines(targets) \ up
        /\ obs.marks = (tree \cap Marks) \ (IF repro THEN {} ELSE {"tampered"})
  BY <1>1 DEF Current
<1>3. obs.down = {} /\ obs.marks = {} /\ Remaining(obs) = {} /\ Blocking(obs) = {}
  BY <1>1, NothingOpen
<1>4. Grounded
  BY DEF IInv
<1>5. \A f \in tree \cap Findings : EngineOf[f] \in TargetEngines(targets) => f \in obs.scan
  BY <1>2, <1>3 DEF Reports
<1>6. targets \cap tree = {}
  BY <1>3, <1>4, <1>5 DEF Remaining, Grounded, Findings, TargetEngines
<1>7. tree \cap Marks = {}
  BY <1>2, <1>3, <1>4 DEF Grounded
<1>8. \A f \in (tree \cap Findings) \ (base \cup Minor) :
        EngineOf[f] \notin TargetEngines(targets)
  BY <1>3, <1>4, <1>5 DEF Blocking, Introduced, Grounded
<1> QED
  BY <1>6, <1>7, <1>8 DEF Objections

LEMMA PromiseStep ==
  ASSUME IInv, [Next]_vars
  PROVE  [Promise!Next]_<<Objections, outcome>>
<1>1. CASE UNCHANGED vars \/ CloseCases
  <2>1. UNCHANGED <<targets, tree, base, outcome>>
    BY <1>1 DEF vars, change, issued, CloseCases
  <2>2. Objections' = Objections
    BY <2>1 DEF Objections, TargetEngines
  <2> QED
    BY <2>1, <2>2
<1>2. CASE Start \/ UpToDate \/ Rebase \/ Reproduce \/ Edit \/ Observe \/ Confirm
  <2>1. outcome' = outcome
    BY <1>2 DEF Start, UpToDate, Rebase, Reproduce, Edit, Observe, Confirm, issued, Kept
  <2>2. outcome = "none"
    BY <1>2 DEF Start, UpToDate, Rebase, Reproduce, Edit, Observe, Confirm, IInv, Ended
  <2> QED
    BY <2>1, <2>2 DEF Promise!Next, Promise!Work
<1>3. CASE NothingFixable \/ Conflict \/ Fail
  <2>1. outcome = "none"
    BY <1>3 DEF NothingFixable, Conflict, Fail, IInv, Ended
  <2>2. outcome' \in Outcomes \ {"verified"}
    BY <1>3 DEF NothingFixable, Conflict, Fail, Finish, Outcomes
  <2> QED
    BY <2>1, <2>2 DEF Promise!Next, Promise!Judge
<1>4. CASE FailToReproduce
  <2>1. outcome = "none"
    BY <1>4 DEF FailToReproduce, IInv, Ended
  <2>2. outcome' = "none" \/ outcome' = "not-reproduced"
    BY <1>4, <2>1 DEF FailToReproduce, Finish
  <2>3. "not-reproduced" \in Outcomes \ {"verified"}
    BY DEF Outcomes
  <2> QED
    BY <2>1, <2>2, <2>3 DEF Promise!Next, Promise!Judge, Promise!Work
<1>5. CASE Issue
  <2>1. outcome = "none" /\ pc = "issuing" /\ stop \in Rules
    BY <1>5 DEF Issue, IInv, Ended, Decided
  <2>2. outcome' = Outcome(stop)
    BY <1>5 DEF Issue, Finish
  <2>3. outcome' \in Outcomes /\ (outcome' = "verified" => stop = "clean")
    BY <2>1, <2>2 DEF Outcome, Outcomes, Rules
  <2>4. UNCHANGED <<targets, tree, base>>
    BY <1>5 DEF Issue, change
  <2>5. Objections' = Objections
    BY <2>4 DEF Objections, TargetEngines
  <2>6. outcome' = "verified" => Objections = {} /\ Objections' = {}
    BY <2>1, <2>3, <2>5, CleanIsClean
  <2> QED
    BY <2>1, <2>3, <2>6 DEF Promise!Next, Promise!Judge
<1> QED
  BY <1>1, <1>2, <1>3, <1>4, <1>5 DEF Next

(* The loop implements RepairPromise: one verdict, and "verified" only when *)
(* the change, as it sits on the current base, leaves no target, no mark    *)
(* and no new finding at the gate that an engine of the targets knows.      *)
THEOREM LoopKeepsPromise == Spec => ImplementsPromise
<1>1. Init => Promise!Init
  BY DEF Init, Promise!Init
<1>2. IInv /\ [Next]_vars => [Promise!Next]_<<Objections, outcome>>
  BY PromiseStep
<1> QED
  BY <1>1, <1>2, Invariance, PTL DEF Spec, ImplementsPromise, Promise!Spec

(* The scan that decides, and goes into the record, is a full scan of the   *)
(* tree as it is.                                                           *)
THEOREM DecisionIsFull == Spec => []FullScanDecides
<1>1. IInv => FullScanDecides
  <2> SUFFICES ASSUME IInv, pc = "issuing"
               PROVE  /\ ~obs.narrowed
                      /\ \E up \in SUBSET Engines :
                           obs = Observation(tree, up, FALSE, obs.ran, obs.failed)
    BY DEF FullScanDecides
  <2>1. obs.narrowed = FALSE /\ Current(obs) /\ obs \in Observations
    BY DEF IInv, CurrentObs, Decided
  <2>2. PICK up \in SUBSET Engines :
          /\ obs.scan = Reports(tree, up, FALSE)
          /\ obs.down = TargetEngines(targets) \ up
          /\ obs.marks = (tree \cap Marks) \ (IF repro THEN {} ELSE {"tampered"})
    BY <2>1 DEF Current
  <2>3. obs = Observation(tree, up, FALSE, obs.ran, obs.failed)
    BY <2>1, <2>2 DEF Observations, Observation
  <2> QED
    BY <2>1, <2>3
<1> QED
  BY <1>1, Invariance, PTL

(* decide and the record's verdict agree on every repair called verified.   *)
THEOREM RecordsAgree == Spec => []RecordAgrees
<1>1. Init => RecordAgrees
  BY DEF Init, RecordAgrees
<1>2. IInv /\ RecordAgrees /\ [Next]_vars => RecordAgrees'
  <2> SUFFICES ASSUME IInv, RecordAgrees, [Next]_vars, outcome' = "verified"
               PROVE  record'.verified /\ (repro' => record'.reproduced)
    BY DEF RecordAgrees
  <2>1. CASE UNCHANGED vars \/ CloseCases
    BY <2>1 DEF RecordAgrees, vars, issued, CloseCases
  <2>2. CASE Issue
    <3>1. stop \in Rules /\ (stop = "clean" => Open(obs) = {}) /\ outcome' = Outcome(stop)
      BY <2>2 DEF Issue, Finish, IInv, Decided
    <3>2. stop = "clean"
      BY <3>1 DEF Outcome, Rules
    <3>3. Verdict(obs) /\ obs.failed = {} /\ obs.marks = {}
      BY <3>1, <3>2, NothingOpen DEF Verdict
    <3>4. record' = Record(obs) /\ repro' = repro
      BY <2>2 DEF Issue
    <3> QED
      BY <3>3, <3>4 DEF Record
  <2>3. CASE NothingFixable \/ Conflict \/ Fail \/ FailToReproduce
    <3>1. outcome = "none"
      BY <2>3 DEF NothingFixable, Conflict, Fail, FailToReproduce, IInv, Ended
    <3> QED
      BY <2>3, <3>1 DEF NothingFixable, Conflict, Fail, FailToReproduce, Finish
  <2>4. CASE Start \/ UpToDate \/ Rebase \/ Reproduce \/ Edit \/ Observe \/ Confirm
    <3>1. outcome' = outcome
      BY <2>4 DEF Start, UpToDate, Rebase, Reproduce, Edit, Observe, Confirm, issued, Kept
    <3>2. outcome = "none"
      BY <2>4 DEF Start, UpToDate, Rebase, Reproduce, Edit, Observe, Confirm, IInv, Ended
    <3> QED
      BY <3>1, <3>2
  <2> QED
    BY <2>1, <2>2, <2>3, <2>4 DEF Next
<1> QED
  BY <1>1, <1>2, Invariance, PTL DEF Spec

(* The round the loop is in is one of the budget.                           *)
Rounds == round \in 1 .. MaxRounds /\ attempt \in Nat

LEMMA InitRounds == Init => Rounds
  BY DEF Init, Rounds

(* A round that is concluded is followed by one the budget still has.       *)
LEMMA ConcludedRound ==
  ASSUME Rounds, NEW o, Conclude(o)
  PROVE  \/ pc' = "editing" /\ round' = round + 1 /\ round < MaxRounds
         \/ pc' = "issuing" /\ round' = round
<1>1. Rule(o) = "none" => round < MaxRounds
  BY DEF Rounds, Rule
<1> QED
  BY <1>1 DEF Conclude

LEMMA RoundEnds ==
  ASSUME Rounds, Observe \/ Confirm
  PROVE  /\ pc \in {"observing", "confirming"} /\ attempt' = attempt
         /\ \/ pc = "observing" /\ pc' = "confirming" /\ round' = round
            \/ pc' = "editing" /\ round' = round + 1 /\ round < MaxRounds
            \/ pc' = "issuing" /\ round' = round
<1>1. pc \in {"observing", "confirming"} /\ attempt' = attempt
  BY DEF Observe, Confirm, Kept
<1>2. CASE Observe
  <2>1. PICK o : Conclude(o) \/ (round' = round /\ pc' = "confirming")
    BY <1>2 DEF Observe
  <2>2. pc = "observing"
    BY <1>2 DEF Observe
  <2> QED
    BY <1>1, <2>1, <2>2, ConcludedRound
<1>3. CASE Confirm
  <2>1. PICK o : Conclude(o)
    BY <1>3 DEF Confirm
  <2> QED
    BY <1>1, <2>1, ConcludedRound
<1> QED
  BY <1>2, <1>3

LEMMA RoundsStep == Rounds /\ [Next]_vars => Rounds'
<1> SUFFICES ASSUME Rounds, [Next]_vars PROVE Rounds'
  OBVIOUS
<1>1. CASE Observe \/ Confirm
  <2>1. attempt' = attempt /\ (round' = round \/ (round' = round + 1 /\ round < MaxRounds))
    BY <1>1, RoundEnds
  <2> QED
    BY <2>1 DEF Rounds
<1>2. CASE ~Observe /\ ~Confirm
  <2>1. round' = round /\ (attempt' = attempt \/ attempt' = attempt + 1)
    BY <1>2 DEF Next, vars, NothingFixable, Start, UpToDate, Rebase, Conflict, Reproduce,
       FailToReproduce, Edit, Issue, Fail, CloseCases
  <2> QED
    BY <2>1 DEF Rounds
<1> QED
  BY <1>1, <1>2

(* `decide` always stops on the last round.                                 *)
THEOREM StopsInBudget == Spec => []BudgetHolds
<1>1. Rounds => BudgetHolds
  BY DEF Rounds, BudgetHolds
<1> QED
  BY <1>1, InitRounds, RoundsStep, PTL DEF Spec

(* What is left of the loop: the rounds and attempts of the budgets, and the *)
(* steps of a round that are still ahead.                                    *)
StepsAhead ==
  CASE pc = "start" -> 9 [] pc = "syncing" -> 8 [] pc = "reproducing" -> 7 [] pc = "editing" -> 6
    [] pc = "resyncing" -> 5 [] pc = "observing" -> 4 [] pc = "confirming" -> 3
    [] pc = "issuing" -> 2 [] pc = "finished" -> 1 [] OTHER -> 0
AttemptsLeft == IF attempt < MaxAttempts THEN MaxAttempts - attempt ELSE 0
RoundsLeft == 10 * (MaxRounds - round)
Fuel == RoundsLeft + AttemptsLeft + StepsAhead

LEMMA AttemptsCost ==
  ASSUME Rounds
  PROVE  /\ AttemptsLeft \in Nat
         /\ attempt' = attempt => AttemptsLeft' = AttemptsLeft
         /\ attempt < MaxAttempts /\ attempt' = attempt + 1 => AttemptsLeft' < AttemptsLeft
  BY DEF Rounds, AttemptsLeft

LEMMA RoundCosts ==
  ASSUME Rounds
  PROVE  /\ RoundsLeft \in Nat
         /\ round' = round => RoundsLeft' = RoundsLeft
         /\ round < MaxRounds /\ round' = round + 1 => RoundsLeft' = RoundsLeft - 10
<1>1. PICK m \in Nat, r \in Nat : m = MaxRounds /\ r = round /\ r <= m
  BY DEF Rounds
<1>2. RoundsLeft = 10 * (m - r)
  BY <1>1 DEF RoundsLeft
<1>3. \A n : n = round' => RoundsLeft' = 10 * (m - n)
  BY <1>1 DEF RoundsLeft
<1>4. 10 * (m - r) \in Nat /\ 10 * (m - (r + 1)) = 10 * (m - r) - 10
  BY <1>1
<1> QED
  BY <1>1, <1>2, <1>3, <1>4

LEMMA SumsFall ==
  ASSUME NEW r \in Nat, NEW a \in Nat, NEW s \in Nat, NEW q \in Nat, NEW b \in Nat, NEW t \in Nat,
         \/ q = r /\ b = a /\ t < s
         \/ q = r /\ b < a /\ t = s
         \/ q = r - 10 /\ b = a /\ t < s + 10
  PROVE  q + b + t >= 0 /\ q + b + t < r + a + s
  OBVIOUS

(* A step within a round is a step further, or one attempt less.            *)
LEMMA StepsFall ==
  ASSUME Rounds, Next, ~Observe, ~Confirm
  PROVE  /\ round' = round /\ StepsAhead \in 0 .. 9 /\ StepsAhead' \in 0 .. 9
         /\ \/ attempt' = attempt /\ StepsAhead' < StepsAhead
            \/ attempt < MaxAttempts /\ attempt' = attempt + 1 /\ StepsAhead' = StepsAhead
<1>1. CASE NothingFixable \/ Start \/ Edit \/ Issue \/ CloseCases
  BY <1>1 DEF NothingFixable, Start, Edit, Issue, CloseCases, Finish, StepsAhead
<1>2. CASE UpToDate \/ Rebase \/ Conflict
  BY <1>2 DEF UpToDate, Rebase, Conflict, AfterSync, Finish, StepsAhead
<1>3. CASE Reproduce \/ FailToReproduce
  BY <1>3 DEF Reproduce, FailToReproduce, Finish, StepsAhead
<1>4. CASE Fail
  BY <1>4 DEF Fail, Finish, StepsAhead
<1> QED
  BY <1>1, <1>2, <1>3, <1>4 DEF Next

(* Every step of the loop, whatever the executor, git, the engines and the  *)
(* checks do in it, takes it nearer to its end: it makes no more than ten   *)
(* steps for a round and one for an attempt to reproduce (fixLoop.ts).      *)
THEOREM LoopIsBounded == Spec => [][Fuel' >= 0 /\ Fuel' < Fuel]_vars
<1>1. Rounds /\ Rounds' /\ Next => Fuel' >= 0 /\ Fuel' < Fuel
  <2> SUFFICES ASSUME Rounds, Rounds', Next PROVE Fuel' >= 0 /\ Fuel' < Fuel
    OBVIOUS
  <2>1. /\ AttemptsLeft \in Nat /\ AttemptsLeft' \in Nat
        /\ MaxRounds \in Nat /\ round \in 1 .. MaxRounds /\ round' \in 1 .. MaxRounds
    <3>1. (Rounds => AttemptsLeft \in Nat)'
      BY AttemptsCost, PTL
    <3> QED
      BY <3>1, AttemptsCost DEF Rounds
  <2>2. /\ RoundsLeft \in Nat /\ RoundsLeft' \in Nat
        /\ Fuel = RoundsLeft + AttemptsLeft + StepsAhead
        /\ Fuel' = RoundsLeft' + AttemptsLeft' + StepsAhead'
    <3>1. (Rounds => RoundsLeft \in Nat)'
      BY RoundCosts, PTL
    <3> QED
      BY <3>1, RoundCosts DEF Fuel
  <2> SUFFICES /\ StepsAhead \in Nat /\ StepsAhead' \in Nat
               /\ \/ RoundsLeft' = RoundsLeft /\ AttemptsLeft' = AttemptsLeft /\ StepsAhead' < StepsAhead
                  \/ RoundsLeft' = RoundsLeft /\ AttemptsLeft' < AttemptsLeft /\ StepsAhead' = StepsAhead
                  \/ RoundsLeft' = RoundsLeft - 10 /\ AttemptsLeft' = AttemptsLeft
                       /\ StepsAhead' < StepsAhead + 10
    BY <2>1, <2>2, SumsFall
  <2>3. CASE Observe \/ Confirm
    <3>1. AttemptsLeft' = AttemptsLeft
      BY <2>3, RoundEnds, AttemptsCost
    <3>2. \/ round' = round /\ StepsAhead' < StepsAhead
          \/ round' = round + 1 /\ StepsAhead' < StepsAhead + 10
      BY <2>3, RoundEnds DEF StepsAhead
    <3>3. StepsAhead \in 0 .. 9 /\ StepsAhead' \in 0 .. 9
      BY <2>3, RoundEnds DEF StepsAhead
    <3>4. \/ RoundsLeft' = RoundsLeft /\ StepsAhead' < StepsAhead
          \/ RoundsLeft' = RoundsLeft - 10 /\ StepsAhead' < StepsAhead + 10
      <4>1. round' = round \/ (round' = round + 1 /\ round < MaxRounds)
        BY <2>1, <3>2
      <4>2. CASE round' = round
        <5>1. round' # round + 1
          BY <2>1, <4>2
        <5> QED
          BY <3>2, <4>2, <5>1, RoundCosts
      <4>3. CASE round' = round + 1 /\ round < MaxRounds
        <5>1. RoundsLeft' = RoundsLeft - 10
          BY <4>3, RoundCosts
        <5>2. round' # round
          BY <2>1, <4>3
        <5> QED
          BY <3>2, <5>1, <5>2
      <4> QED
        BY <4>1, <4>2, <4>3
    <3> QED
      BY <3>1, <3>3, <3>4
  <2>4. CASE ~Observe /\ ~Confirm
    <3>1. /\ round' = round /\ StepsAhead \in 0 .. 9 /\ StepsAhead' \in 0 .. 9
          /\ \/ attempt' = attempt /\ StepsAhead' < StepsAhead
             \/ attempt < MaxAttempts /\ attempt' = attempt + 1 /\ StepsAhead' = StepsAhead
      BY <2>4, StepsFall
    <3>2. \/ AttemptsLeft' = AttemptsLeft /\ StepsAhead' < StepsAhead
          \/ AttemptsLeft' < AttemptsLeft /\ StepsAhead' = StepsAhead
      BY <3>1, AttemptsCost
    <3>3. RoundsLeft' = RoundsLeft
      BY <3>1, RoundCosts
    <3> QED
      BY <3>1, <3>2, <3>3
  <2> QED
    BY <2>3, <2>4
<1>2. Rounds /\ Rounds' /\ [Next]_vars => [Fuel' >= 0 /\ Fuel' < Fuel]_vars
  BY <1>1
<1> QED
  BY <1>2, InitRounds, RoundsStep, PTL DEF Spec


(* As long as every scan saw all there was, what the loop remembers of the  *)
(* rounds is what full scans with every engine would have counted.          *)
Counted ==
  stop = "none" /\ real.full => real.open = previous /\ real.best = best /\ real.flat = flat

LEMMA RealFields ==
  ASSUME IInv, NEW o \in Observations
  PROVE  LET r == Rescanned(o, tree, Engines)
         IN  /\ r.scan = Reports(tree, Engines, FALSE) /\ r.down = {}
             /\ r.marks = o.marks /\ r.ran = o.ran /\ r.failed = o.failed
<1>1. TargetEngines(targets) \subseteq Engines
  BY EnginesKnown DEF IInv, Grounded
<1>2. TargetEngines(targets) \ Engines = {}
  BY <1>1
<1> QED
  BY <1>2 DEF Rescanned, Observations

(* A scan that saw all there was, with every engine of the targets: nothing *)
(* more was open than it says.                                              *)
LEMMA OpenIsReal ==
  ASSUME IInv, NEW o \in Observations, o.scan = Reports(tree, Engines, FALSE), o.down = {}
  PROVE  RealOpen(o) = Open(o)
<1> DEFINE r == Rescanned(o, tree, Engines)
<1>1. /\ r.scan = o.scan /\ r.down = o.down /\ r.marks = o.marks
      /\ r.ran = o.ran /\ r.failed = o.failed
  BY RealFields
<1> HIDE DEF r
<1>2. Open(r) = Open(o)
  BY <1>1 DEF Open, Remaining, Introduced, Blocking
<1> QED
  BY <1>2 DEF RealOpen, r

(* Only the end of a round touches the judgement and the stop rule.         *)
LEMMA Judging ==
  ASSUME IInv, [Next]_vars
  PROVE  UNCHANGED <<judged, stop>> \/ \E o \in Observations : Conclude(o)
<1>1. CASE Observe
  <2>1. PICK up \in SUBSET Engines, narrowed \in IF FullScans THEN {FALSE} ELSE BOOLEAN,
             ran \in {r \in SUBSET Kinds : "reproduce" \in r <=> repro} :
          \E failed \in SUBSET ran :
            LET o == Observation(tree, up, narrowed, ran, failed)
            IN  IF NeedsConfirmation(o)
                  THEN /\ obs' = o /\ pc' = "confirming"
                       /\ UNCHANGED <<judged, round, stop>>
                  ELSE Conclude(o)
    BY <1>1 DEF Observe
  <2>2. PICK failed \in SUBSET ran :
          LET o == Observation(tree, up, narrowed, ran, failed)
          IN  IF NeedsConfirmation(o)
                THEN /\ obs' = o /\ pc' = "confirming"
                     /\ UNCHANGED <<judged, round, stop>>
                ELSE Conclude(o)
    BY <2>1
  <2>3. /\ Reports(tree, up, narrowed) \subseteq Findings
        /\ TargetEngines(targets) \ up \subseteq Engines /\ narrowed \in BOOLEAN
        /\ (tree \cap Marks) \ (IF repro THEN {} ELSE {"tampered"}) \subseteq Marks
    BY EnginesKnown DEF Reports, IInv, Grounded
  <2>4. Observation(tree, up, narrowed, ran, failed) \in Observations
    BY <2>3 DEF Observation, Observations
  <2> DEFINE o == Observation(tree, up, narrowed, ran, failed)
  <2>5. UNCHANGED <<judged, stop>> \/ Conclude(o)
    BY <2>2
  <2> QED
    BY <2>4, <2>5
<1>2. CASE Confirm
  <2>1. PICK up \in SUBSET Engines : Conclude(Rescanned(obs, tree, up))
    BY <1>2 DEF Confirm
  <2>2. /\ Reports(tree, up, FALSE) \subseteq Findings
        /\ TargetEngines(targets) \ up \subseteq Engines
    BY EnginesKnown DEF Reports, IInv, Grounded
  <2>3. Rescanned(obs, tree, up) \in Observations
    BY <2>2 DEF Rescanned, Observations, IInv
  <2> QED
    BY <2>1, <2>3
<1>3. CASE ~Observe /\ ~Confirm
  BY <1>3 DEF Next, vars, issued, NothingFixable, Start, UpToDate, Rebase, Conflict,
     Reproduce, FailToReproduce, Edit, Issue, Fail, CloseCases
<1> QED
  BY <1>1, <1>2, <1>3

LEMMA CountedStep == IInv /\ Counted /\ [Next]_vars => Counted'
<1> SUFFICES ASSUME IInv, Counted, [Next]_vars, stop' = "none", real'.full
             PROVE  real'.open = previous' /\ real'.best = best' /\ real'.flat = flat'
  BY DEF Counted
<1>1. CASE UNCHANGED <<judged, stop>>
  BY <1>1 DEF Counted, judged
<1>2. CASE \E o \in Observations : Conclude(o)
  <2>1. PICK o \in Observations : Conclude(o)
    BY <1>2
  <2>2. Rule(o) = "none" /\ stop = "none"
    BY <2>1 DEF Conclude, Rule
  <2>3. real.full /\ o.scan = Reports(tree, Engines, FALSE)
    BY <2>1 DEF Conclude
  <2>4. o.down = {}
    BY <2>2 DEF Rule
  <2>5. RealOpen(o) = Open(o)
    BY <2>3, <2>4, OpenIsReal
  <2>6. real.best = best /\ real.flat = flat
    BY <2>2, <2>3 DEF Counted
  <2>7. previous' = Open(o) /\ real'.open = Open(o)
    BY <2>1, <2>5 DEF Conclude
  <2>8. CASE Beats(Open(o), best)
    BY <2>1, <2>5, <2>6, <2>7, <2>8 DEF Conclude
  <2>9. CASE ~Beats(Open(o), best)
    BY <2>1, <2>5, <2>6, <2>7, <2>9 DEF Conclude
  <2> QED
    BY <2>8, <2>9
<1> QED
  BY <1>1, <1>2, Judging

(* A loop that gives up as stalled has seen no progress: the same problems  *)
(* twice, or two rounds in a row without beating the best.                  *)
THEOREM StallsOnlyWhenStuck == Spec => StallIsReal
<1> DEFINE Stuck ==
      stop = "none" /\ stop' \in {"no-change", "oscillating"} /\ real'.full =>
        \/ RealOpen(obs') = real.open
        \/ ~Beats(RealOpen(obs'), real.best) /\ real.flat >= 1
<1>1. Init => Counted
  BY DEF Init, Counted
<1>2. IInv /\ Counted /\ [Next]_vars => [Stuck]_vars
  <2> SUFFICES ASSUME IInv, Counted, [Next]_vars, stop = "none",
                      stop' \in {"no-change", "oscillating"}, real'.full
               PROVE  \/ RealOpen(obs') = real.open
                      \/ ~Beats(RealOpen(obs'), real.best) /\ real.flat >= 1
    OBVIOUS
  <2>1. PICK o \in Observations : Conclude(o)
    BY Judging
  <2>2. Rule(o) \in {"no-change", "oscillating"} /\ obs' = o
    BY <2>1 DEF Conclude
  <2>3. real.full /\ o.scan = Reports(tree, Engines, FALSE)
    BY <2>1 DEF Conclude
  <2>4. o.down = {}
    BY <2>2 DEF Rule
  <2>5. RealOpen(o) = Open(o)
    BY <2>3, <2>4, OpenIsReal
  <2>6. real.open = previous /\ real.best = best /\ real.flat = flat
    BY <2>3 DEF Counted
  <2>7. Open(o) = previous \/ (~Beats(Open(o), best) /\ flat >= 1)
    BY <2>2 DEF Rule
  <2> QED
    BY <2>2, <2>5, <2>6, <2>7
<1> QED
  BY <1>1, <1>2, CountedStep, Invariance, PTL DEF Spec, StallIsReal
=============================================================================
