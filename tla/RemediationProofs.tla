------------------------- MODULE RemediationProofs -------------------------
(* Proofs about the parts of remediation whose specifications stand on their *)
(* own: re-verification (Reverify), the rebase onto upstream (Rebase), the   *)
(* scanner suite (SecurityScan), the security workflow (SecurityWorkflow)    *)
(* and the command with its case file (RemediationRun).                      *)
(* Each has an inductive invariant of its own, of the instance MCRemediation *)
(* makes of its module; the theorems at the end state, for every value of    *)
(* the constants, the invariants the remediation run checks.                 *)
EXTENDS MCRemediation, Sequences, TLAPS

(* Re-verification (Reverify).                                               *)

ReverifyOutside == {"start", "base", "head", "withhold", "judge", "done", "threw", "threw-unrestored"}
ReverifyInside == {"checks", "repro", "revert", "put-back", "undo", "unrestored", "restore-env"}
ReverifyOutcomes == {"unknown", "passed", "failed"}
ReverifyStatuses == {"none", "not-attempted", "not-confirmed", "confirmed"}

ReverifyTypeOK ==
  /\ step \in ReverifyOutside \cup ReverifyInside
  /\ world \in Verify!Worlds
  /\ seen \in [base : SUBSET Targets, head : SUBSET Targets]
  /\ engines \in [base : BOOLEAN, head : BOOLEAN]
  /\ reverted \in SUBSET Fix /\ unreverted \in SUBSET Fix
  /\ repro \in [without : ReverifyOutcomes, with : ReverifyOutcomes, status : ReverifyStatuses]
  /\ checks \in {"none", "passed", "failed"}
  /\ verdict \in {"none", "ok", "refused"}

(* The credentials are out of the environment exactly while code of the      *)
(* change may run, and the worktree is there only for the scan of the base.  *)
ReverifyWithheld ==
  /\ ~exposed
  /\ secrets <=> step \in ReverifyOutside
  /\ scratch => step = "base"

(* Which files are reverted: those that are done on the way there, at most   *)
(* those that are left on the way back, and none elsewhere.                  *)
ReverifySited ==
  /\ step = "revert" => Fix # {} /\ reverted = Fix \ unreverted
  /\ step \in {"put-back", "undo"} => reverted \subseteq unreverted
  /\ step \notin {"revert", "put-back", "undo", "unrestored", "threw-unrestored"} => reverted = {}

(* What the scans, the checks and the tests said is what is so.              *)
ReverifyObserved ==
  /\ seen.base \subseteq world.base
  /\ engines.head => seen.head = Verify!StillThere
  /\ checks = "passed" => world.fault # "broken"
  /\ repro.with = "passed" => world.fault # "broken"
  /\ step \in {"revert", "put-back"} => world.runner
  /\ repro.without = "failed" => world.testsFail /\ world.runner
  /\ repro.status = "confirmed" => repro.without = "failed"
  /\ step = "start" => engines.head = FALSE /\ seen.base = {} /\ checks = "none" /\ repro = Verify!Nothing
  /\ step = "base" => engines.head = FALSE

(* The report is the last thing written.                                     *)
ReverifyReported == Verify!OkIsEarned /\ (verdict # "none" => step = "done")

ReverifyIInv == ReverifyTypeOK /\ ReverifyWithheld /\ ReverifySited /\ ReverifyObserved /\ ReverifyReported

-----------------------------------------------------------------------------
LEMMA ReverifyInitHolds == Verify!Init => ReverifyIInv
BY DEF Verify!Init, ReverifyIInv, ReverifyTypeOK, ReverifyOutside, ReverifyInside,
   ReverifyOutcomes, ReverifyStatuses, Verify!Worlds, Verify!Claims, Verify!Faults, Verify!NoWorld,
       Verify!Nothing, ReverifyWithheld, ReverifySited, ReverifyObserved, ReverifyReported, Verify!OkIsEarned

(* A report that says ok is drawn from observations that show it.            *)
LEMMA ReverifyJudgeEarns == ReverifyIInv /\ Verify!Judge => Verify!OkIsEarned'
<1> SUFFICES ASSUME ReverifyIInv, Verify!Judge, verdict' = "ok"
             PROVE  Verify!OkIsEarned'
  BY DEF Verify!OkIsEarned
<1> DEFINE claimed == world.claim.targets
<1>1. /\ claimed \subseteq seen.base /\ Verify!KnownGone /\ Verify!RecordVerified
      /\ Verify!ClaimHolds(world.claim, world.keys)
      /\ world.claim.repro # "none" => repro.status = "confirmed"
      /\ world' = world
  BY DEF Verify!Judge
<1>2. claimed \subseteq world.base
  BY <1>1 DEF ReverifyIInv, ReverifyObserved
<1>3. world.fault \notin {"evaded", "broken"}
  BY <1>1 DEF ReverifyIInv, ReverifyObserved, Verify!RecordVerified
<1>4. claimed # {} => world.fault = "none"
  <2> SUFFICES ASSUME claimed # {} PROVE world.fault = "none"
    OBVIOUS
  <2>1. Verify!Reproduced = claimed
    BY <1>1 DEF Verify!Reproduced
  <2>2. engines.head
    BY <1>1, <2>1 DEF Verify!KnownGone
  <2>3. seen.head = Verify!StillThere
    BY <2>2 DEF ReverifyIInv, ReverifyObserved
  <2>4. world.fault # "introduced"
    BY <1>1, <2>2 DEF Verify!RecordVerified
  <2>5. world.fault \notin {"target", "hidden"}
    BY <1>1, <1>2, <2>1, <2>3 DEF Verify!RecordVerified, Verify!StillThere
  <2>6. world.fault \in Verify!Faults
    BY DEF ReverifyIInv, ReverifyTypeOK, Verify!Worlds
  <2> QED BY <1>3, <2>4, <2>5, <2>6 DEF Verify!Faults
<1>5. world.claim.sound /\ (world.keys => world.claim.signed = "trusted")
  BY <1>1 DEF Verify!ClaimHolds, Verify!SignaturesHold
<1>6. world.claim.repro # "none" => world.testsFail /\ world.runner
  BY <1>1 DEF ReverifyIInv, ReverifyObserved
<1> QED BY <1>1, <1>2, <1>3, <1>4, <1>5, <1>6 DEF Verify!OkIsEarned

-----------------------------------------------------------------------------
LEMMA ReverifyTypesKept == ReverifyTypeOK /\ [Verify!Next]_Verify!vars => ReverifyTypeOK'
<1> SUFFICES ASSUME ReverifyTypeOK, [Verify!Next]_Verify!vars PROVE ReverifyTypeOK'
  OBVIOUS
<1> USE DEF ReverifyTypeOK, ReverifyOutside, ReverifyInside, ReverifyOutcomes, ReverifyStatuses
<1>1. ASSUME NEW w \in Verify!Worlds, NEW resolves \in BOOLEAN, Verify!Start(w, resolves) PROVE ReverifyTypeOK'
  <2>1. CASE resolves
    BY <1>1, <2>1 DEF Verify!Start, Verify!env, Verify!reproduction
  <2>2. CASE ~resolves
    BY <1>1, <2>2 DEF Verify!Start, Verify!env, Verify!reproduction
  <2> QED BY <2>1, <2>2
<1>2. ASSUME NEW b \in BOOLEAN, Verify!ScanBase(b) PROVE ReverifyTypeOK'
  <2>1. world.base \in SUBSET Targets
    BY DEF Verify!Worlds
  <2> QED BY <1>2, <2>1 DEF Verify!ScanBase, Verify!env, Verify!reproduction
<1>3. ASSUME NEW b \in BOOLEAN, Verify!ScanHead(b) PROVE ReverifyTypeOK'
  <2>1. Verify!StillThere \in SUBSET Targets
    BY DEF Verify!Worlds, Verify!StillThere
  <2> QED BY <1>3, <2>1 DEF Verify!ScanHead, Verify!env, Verify!reproduction
<1>4. ASSUME NEW b \in BOOLEAN, Verify!Checks(b) PROVE ReverifyTypeOK'
  BY <1>4 DEF Verify!Checks, Verify!RunsCode, Verify!scan, Verify!reproduction
<1>5. ASSUME NEW b \in BOOLEAN, Verify!RunWithout(b) PROVE ReverifyTypeOK'
  BY <1>5 DEF Verify!RunWithout, Verify!RunsCode, Verify!TestsNow, Verify!scan
<1>6. CASE Verify!Withhold
  BY <1>6 DEF Verify!Withhold, Verify!scan, Verify!reproduction
<1>7. CASE Verify!Capture
  BY <1>7 DEF Verify!Capture, Verify!scan, Verify!env
<1>8. CASE Verify!RestoreFails
  BY <1>8 DEF Verify!RestoreFails, Verify!scan, Verify!env, Verify!reproduction
<1>9. CASE Verify!RunWith
  BY <1>9 DEF Verify!RunWith, Verify!RunsCode, Verify!TestsNow, Verify!scan
<1>10. CASE Verify!RestoreEnv
  BY <1>10 DEF Verify!RestoreEnv, Verify!scan, Verify!reproduction
<1>11. CASE Verify!Judge
  BY <1>11 DEF Verify!Judge, Verify!scan, Verify!env, Verify!reproduction
<1>12. CASE Verify!Throw
  BY <1>12 DEF Verify!Throw, Verify!reproduction
<1>13. ASSUME NEW f \in Fix, Verify!RestoreFile(f) PROVE ReverifyTypeOK'
  BY <1>13 DEF Verify!RestoreFile, Verify!scan, Verify!env
<1>14. ASSUME NEW f \in Fix, NEW fails \in BOOLEAN, Verify!RevertFile(f, fails) PROVE ReverifyTypeOK'
  BY <1>14 DEF Verify!RevertFile, Verify!scan, Verify!env
<1>15. CASE UNCHANGED Verify!vars
  BY <1>15 DEF Verify!vars, Verify!scan, Verify!env, Verify!reproduction
<1> HIDE DEF ReverifyTypeOK, ReverifyOutside, ReverifyInside, ReverifyOutcomes, ReverifyStatuses
<1> QED
  BY <1>1, <1>2, <1>3, <1>4, <1>5, <1>6, <1>7, <1>8, <1>9, <1>10, <1>11, <1>12, <1>13, <1>14,
     <1>15 DEF Verify!Next

(* The credentials and the worktree.                                         *)
LEMMA ReverifyWithheldKept ==
  ReverifyTypeOK /\ ReverifyWithheld /\ [Verify!Next]_Verify!vars => ReverifyWithheld'
<1> SUFFICES ASSUME ReverifyTypeOK, ReverifyWithheld, [Verify!Next]_Verify!vars PROVE ReverifyWithheld'
  OBVIOUS
<1> USE DEF ReverifyTypeOK, ReverifyWithheld, ReverifyOutside, ReverifyInside
<1>1. ASSUME NEW w \in Verify!Worlds, NEW resolves \in BOOLEAN, Verify!Start(w, resolves) PROVE ReverifyWithheld'
  BY <1>1 DEF Verify!Start, Verify!env
<1>2. ASSUME NEW b \in BOOLEAN, Verify!ScanBase(b) PROVE ReverifyWithheld'
  BY <1>2 DEF Verify!ScanBase, Verify!env
<1>3. ASSUME NEW b \in BOOLEAN, Verify!ScanHead(b) PROVE ReverifyWithheld'
  BY <1>3 DEF Verify!ScanHead, Verify!env
<1>4. ASSUME NEW b \in BOOLEAN, Verify!Checks(b) PROVE ReverifyWithheld'
  BY <1>4 DEF Verify!Checks, Verify!RunsCode, Verify!scan
<1>5. ASSUME NEW b \in BOOLEAN, Verify!RunWithout(b) PROVE ReverifyWithheld'
  BY <1>5 DEF Verify!RunWithout, Verify!RunsCode, Verify!scan
<1>6. CASE Verify!Withhold
  BY <1>6 DEF Verify!Withhold, Verify!scan
<1>7. CASE Verify!Capture
  BY <1>7 DEF Verify!Capture, Verify!scan, Verify!env
<1>8. CASE Verify!RestoreFails
  BY <1>8 DEF Verify!RestoreFails, Verify!scan, Verify!env
<1>9. CASE Verify!RunWith
  BY <1>9 DEF Verify!RunWith, Verify!RunsCode, Verify!scan
<1>10. CASE Verify!RestoreEnv
  BY <1>10 DEF Verify!RestoreEnv, Verify!scan
<1>11. CASE Verify!Judge
  BY <1>11 DEF Verify!Judge, Verify!scan, Verify!env
<1>12. CASE Verify!Throw
  BY <1>12 DEF Verify!Throw
<1>13. ASSUME NEW f \in Fix, Verify!RestoreFile(f) PROVE ReverifyWithheld'
  BY <1>13 DEF Verify!RestoreFile, Verify!scan, Verify!env
<1>14. ASSUME NEW f \in Fix, NEW fails \in BOOLEAN, Verify!RevertFile(f, fails) PROVE ReverifyWithheld'
  BY <1>14 DEF Verify!RevertFile, Verify!scan, Verify!env
<1>15. CASE UNCHANGED Verify!vars
  BY <1>15 DEF Verify!vars, Verify!scan, Verify!env
<1> HIDE DEF ReverifyTypeOK, ReverifyWithheld, ReverifyOutside, ReverifyInside
<1> QED
  BY <1>1, <1>2, <1>3, <1>4, <1>5, <1>6, <1>7, <1>8, <1>9, <1>10, <1>11, <1>12, <1>13, <1>14,
     <1>15 DEF Verify!Next

(* The files of the fix.                                                     *)
LEMMA ReverifySitedKept ==
  ReverifyTypeOK /\ ReverifySited /\ [Verify!Next]_Verify!vars => ReverifySited'
<1> SUFFICES ASSUME ReverifyTypeOK, ReverifySited, [Verify!Next]_Verify!vars PROVE ReverifySited'
  OBVIOUS
<1> USE DEF ReverifyTypeOK, ReverifySited
<1>1. ASSUME NEW w \in Verify!Worlds, NEW resolves \in BOOLEAN, Verify!Start(w, resolves) PROVE ReverifySited'
  BY <1>1 DEF Verify!Start, Verify!reproduction
<1>2. ASSUME NEW b \in BOOLEAN, Verify!ScanBase(b) PROVE ReverifySited'
  BY <1>2 DEF Verify!ScanBase, Verify!reproduction
<1>3. ASSUME NEW b \in BOOLEAN, Verify!ScanHead(b) PROVE ReverifySited'
  BY <1>3 DEF Verify!ScanHead, Verify!reproduction
<1>4. ASSUME NEW b \in BOOLEAN, Verify!Checks(b) PROVE ReverifySited'
  BY <1>4 DEF Verify!Checks, Verify!reproduction
<1>5. ASSUME NEW b \in BOOLEAN, Verify!RunWithout(b) PROVE ReverifySited'
  BY <1>5 DEF Verify!RunWithout
<1>6. CASE Verify!Withhold
  BY <1>6 DEF Verify!Withhold, Verify!reproduction
<1>7. CASE Verify!Capture
  BY <1>7 DEF Verify!Capture
<1>8. CASE Verify!RestoreFails
  BY <1>8 DEF Verify!RestoreFails, Verify!reproduction
<1>9. CASE Verify!RunWith
  BY <1>9 DEF Verify!RunWith
<1>10. CASE Verify!RestoreEnv
  BY <1>10 DEF Verify!RestoreEnv, Verify!reproduction
<1>11. CASE Verify!Judge
  BY <1>11 DEF Verify!Judge, Verify!reproduction
<1>12. CASE Verify!Throw
  BY <1>12 DEF Verify!Throw, Verify!reproduction
<1>13. ASSUME NEW f \in Fix, Verify!RestoreFile(f) PROVE ReverifySited'
  BY <1>13 DEF Verify!RestoreFile
<1>14. ASSUME NEW f \in Fix, NEW fails \in BOOLEAN, Verify!RevertFile(f, fails) PROVE ReverifySited'
  BY <1>14 DEF Verify!RevertFile
<1>15. CASE UNCHANGED Verify!vars
  BY <1>15 DEF Verify!vars, Verify!reproduction
<1> HIDE DEF ReverifyTypeOK, ReverifySited
<1> QED
  BY <1>1, <1>2, <1>3, <1>4, <1>5, <1>6, <1>7, <1>8, <1>9, <1>10, <1>11, <1>12, <1>13, <1>14,
     <1>15 DEF Verify!Next

(* The observations.                                                         *)
LEMMA ReverifyObservedKept ==
  ReverifyTypeOK /\ ReverifySited /\ ReverifyObserved /\ [Verify!Next]_Verify!vars => ReverifyObserved'
<1> SUFFICES ASSUME ReverifyTypeOK, ReverifySited, ReverifyObserved, [Verify!Next]_Verify!vars PROVE ReverifyObserved'
  OBVIOUS
<1> USE DEF ReverifyTypeOK, ReverifyObserved, Verify!StillThere
<1>1. ASSUME NEW w \in Verify!Worlds, NEW resolves \in BOOLEAN, Verify!Start(w, resolves) PROVE ReverifyObserved'
  BY <1>1 DEF Verify!Start, Verify!reproduction, Verify!Nothing
<1>2. ASSUME NEW b \in BOOLEAN, Verify!ScanBase(b) PROVE ReverifyObserved'
  BY <1>2 DEF Verify!ScanBase, Verify!reproduction
<1>3. ASSUME NEW b \in BOOLEAN, Verify!ScanHead(b) PROVE ReverifyObserved'
  BY <1>3 DEF Verify!ScanHead, Verify!reproduction
<1>4. ASSUME NEW b \in BOOLEAN, Verify!Checks(b) PROVE ReverifyObserved'
  BY <1>4 DEF Verify!Checks, Verify!scan, Verify!reproduction
<1>5. ASSUME NEW b \in BOOLEAN, Verify!RunWithout(b) PROVE ReverifyObserved'
  BY <1>5 DEF Verify!RunWithout, Verify!TestsNow, ReverifySited, Verify!scan
<1>6. CASE Verify!Withhold
  BY <1>6 DEF Verify!Withhold, Verify!scan, Verify!reproduction
<1>7. CASE Verify!Capture
  BY <1>7 DEF Verify!Capture, Verify!scan
<1>8. CASE Verify!RestoreFails
  BY <1>8 DEF Verify!RestoreFails, Verify!scan, Verify!reproduction
<1>9. CASE Verify!RunWith
  BY <1>9 DEF Verify!RunWith, Verify!TestsNow, ReverifySited, Verify!scan
<1>10. CASE Verify!RestoreEnv
  BY <1>10 DEF Verify!RestoreEnv, Verify!scan, Verify!reproduction
<1>11. CASE Verify!Judge
  BY <1>11 DEF Verify!Judge, Verify!scan, Verify!reproduction
<1>12. CASE Verify!Throw
  BY <1>12 DEF Verify!Throw, Verify!reproduction
<1>13. ASSUME NEW f \in Fix, Verify!RestoreFile(f) PROVE ReverifyObserved'
  BY <1>13 DEF Verify!RestoreFile, Verify!scan
<1>14. ASSUME NEW f \in Fix, NEW fails \in BOOLEAN, Verify!RevertFile(f, fails) PROVE ReverifyObserved'
  BY <1>14 DEF Verify!RevertFile, Verify!scan
<1>15. CASE UNCHANGED Verify!vars
  BY <1>15 DEF Verify!vars, Verify!scan, Verify!reproduction
<1> HIDE DEF ReverifyTypeOK, ReverifyObserved, Verify!StillThere
<1> QED
  BY <1>1, <1>2, <1>3, <1>4, <1>5, <1>6, <1>7, <1>8, <1>9, <1>10, <1>11, <1>12, <1>13, <1>14,
     <1>15 DEF Verify!Next

(* The report: once it is there, nothing it rests on changes.                *)
LEMMA ReverifyReportedKept == ReverifyIInv /\ [Verify!Next]_Verify!vars => ReverifyReported'
<1> SUFFICES ASSUME ReverifyIInv, [Verify!Next]_Verify!vars PROVE ReverifyReported'
  OBVIOUS
<1>1. CASE Verify!Judge
  BY <1>1, ReverifyJudgeEarns DEF ReverifyReported, Verify!Judge
<1>2. CASE UNCHANGED Verify!vars
  BY <1>2 DEF Verify!vars, ReverifyIInv, ReverifyReported, Verify!OkIsEarned
<1>3. CASE Verify!Next /\ ~Verify!Judge
  <2>1. step # "done" /\ UNCHANGED verdict
    BY <1>3 DEF Verify!Next, Verify!Start, Verify!ScanBase, Verify!ScanHead, Verify!Checks,
       Verify!RunWithout, Verify!Withhold, Verify!Capture, Verify!RestoreFails,
                Verify!RunWith, Verify!RestoreEnv, Verify!Throw, Verify!RestoreFile, Verify!RevertFile
  <2> QED BY <2>1 DEF ReverifyIInv, ReverifyReported, Verify!OkIsEarned
<1> QED BY <1>1, <1>2, <1>3

LEMMA ReverifyIInvKept == ReverifyIInv /\ [Verify!Next]_Verify!vars => ReverifyIInv'
BY ReverifyTypesKept, ReverifyWithheldKept, ReverifySitedKept, ReverifyObservedKept,
   ReverifyReportedKept DEF ReverifyIInv

LEMMA ReverifyEarns == ReverifyIInv => Verify!ReverifyIsSound
BY DEF ReverifyIInv, ReverifyTypeOK, ReverifyWithheld, ReverifySited, ReverifyReported,
   Verify!ReverifyIsSound, Verify!LeavesNoTrace, ReverifyOutside

-----------------------------------------------------------------------------
(* The rebase onto upstream (Rebase).                                        *)

RebaseResults == {"none", "up-to-date", "conflict", "threw", "rebased"}
RebaseStages == {"work", "replay", "stopped", "rescan", "synced", "ended"}
RebaseAsked == [base : Nat, branch : Seq(Sync!Commits), tree : SUBSET Files]

RebaseTypeOK ==
  /\ at \in RebaseStages /\ upstream \in Nat /\ target \in Nat /\ base \in Nat
  /\ branch \in Seq(Sync!Commits) /\ worktree \in SUBSET Files
  /\ todo \in Seq(Sync!Commits) /\ replayed \in Seq(Sync!Commits)
  /\ marked \in SUBSET Files
  /\ baseCommit[1] = base /\ baseCommit[2] \in Seq(Sync!Commits)
  /\ result \in RebaseResults /\ asked \in RebaseAsked

(* The executor's own commits only; or its own and one of any kind on top.   *)
RebaseOwnOnly(s) == \A i \in 1 .. Len(s) : s[i].by = Sync!Own
RebaseOwnBelow(s) == \A i \in 1 .. Len(s) : i < Len(s) => s[i].by = Sync!Own

(* What a sync begins to replay.                                             *)
RebaseWipped(s, w) == Append(s, [by |-> Sync!Wip, changes |-> w])
RebaseTemporary == IF asked.tree = {} THEN asked.branch ELSE RebaseWipped(asked.branch, asked.tree)

(* Between two syncs nothing of one is left.                                 *)
RebaseResting ==
  /\ RebaseOwnOnly(baseCommit[2])
  /\ at \in {"work", "synced", "rescan"} => RebaseOwnOnly(branch) /\ todo = <<>> /\ marked = {}
  /\ at \in {"work", "synced", "replay", "stopped"} => baselineOf = baseCommit
  /\ at = "synced" => target <= base
  /\ at \in {"work", "replay", "stopped", "rescan"} => result = "none"
  /\ at = "synced" => result \in {"up-to-date", "rebased"}
  /\ at = "ended" => result \in {"conflict", "threw"}

(* While git replays, the branch is what it was, with the work on top.       *)
RebaseReplaying ==
  /\ at \in {"replay", "stopped"} =>
       /\ worktree = {} /\ base = asked.base /\ branch = RebaseTemporary /\ target > base
       /\ RebaseOwnBelow(todo) /\ RebaseOwnBelow(replayed) /\ (todo # <<>> => RebaseOwnOnly(replayed))
       /\ RebaseOwnOnly(asked.branch)
  /\ at = "replay" => marked = {}
  /\ at = "stopped" => todo # <<>>
  /\ at = "rescan" => base > asked.base /\ target <= base

RebaseStopped ==
  /\ at = "ended" /\ result = "conflict" =>
       \/ todo = <<>> /\ base = asked.base /\ branch = asked.branch /\ worktree = asked.tree
       \/ todo # <<>> /\ branch = RebaseTemporary /\ worktree = {}
  /\ at = "ended" /\ result = "threw" => base > asked.base \/ (branch = RebaseTemporary /\ worktree = {})

RebaseIInv == RebaseTypeOK /\ RebaseResting /\ RebaseReplaying /\ RebaseStopped

-----------------------------------------------------------------------------
LEMMA RebaseLastPlace ==
  ASSUME NEW S, NEW s \in Seq(S), s # <<>> PROVE Len(s) \in 1 .. Len(s)
OBVIOUS

LEMMA RebaseAppended ==
  ASSUME NEW S, NEW s \in Seq(S), NEW e \in S
  PROVE  Append(s, e) \in Seq(S) /\ Append(s, e) # <<>>
<1>1. Append(s, e) \in Seq(S) /\ Len(Append(s, e)) = Len(s) + 1 /\ Len(s) \in Nat
  OBVIOUS
<1>2. Len(Append(s, e)) # 0
  BY <1>1
<1> QED BY <1>1, <1>2

LEMMA RebaseOwnIsNotWip ==
  ASSUME NEW s \in Seq(Sync!Commits), RebaseOwnOnly(s) PROVE ~Sync!WipOnTop(s)
<1> SUFFICES ASSUME s # <<>>, Sync!Last(s).by = Sync!Wip PROVE FALSE
  BY DEF Sync!WipOnTop
<1>1. Len(s) \in 1 .. Len(s)
  BY RebaseLastPlace
<1>2. s[Len(s)].by = Sync!Own
  BY <1>1 DEF RebaseOwnOnly
<1> QED BY <1>2 DEF Sync!Last, Sync!Own, Sync!Wip

LEMMA RebaseOnTop ==
  ASSUME NEW s \in Seq(Sync!Commits), NEW c \in Sync!Commits
  PROVE  /\ Append(s, c) \in Seq(Sync!Commits) /\ Append(s, c) # <<>>
         /\ Sync!Last(Append(s, c)) = c /\ Sync!Front(Append(s, c)) = s
         /\ RebaseOwnOnly(s) => RebaseOwnBelow(Append(s, c))
         /\ RebaseOwnOnly(s) /\ c.by = Sync!Own => RebaseOwnOnly(Append(s, c))
<1>1. Append(s, c) \in Seq(Sync!Commits) /\ Append(s, c) # <<>>
  BY RebaseAppended
<1>2. Sync!Last(Append(s, c)) = c
  BY DEF Sync!Last
<1>3. Sync!Front(Append(s, c)) = s
  BY DEF Sync!Front
<1>4. RebaseOwnOnly(s) => RebaseOwnBelow(Append(s, c))
  BY DEF RebaseOwnOnly, RebaseOwnBelow
<1>5. RebaseOwnOnly(s) /\ c.by = Sync!Own => RebaseOwnOnly(Append(s, c))
  BY DEF RebaseOwnOnly
<1> QED BY <1>1, <1>2, <1>3, <1>4, <1>5

LEMMA RebaseNextOne ==
  ASSUME NEW s \in Seq(Sync!Commits), s # <<>>, RebaseOwnBelow(s)
  PROVE  /\ Head(s) \in Sync!Commits /\ Tail(s) \in Seq(Sync!Commits) /\ RebaseOwnBelow(Tail(s))
         /\ Tail(s) # <<>> => Head(s).by = Sync!Own
<1>1. Head(s) \in Sync!Commits /\ Tail(s) \in Seq(Sync!Commits)
  OBVIOUS
<1>2. RebaseOwnBelow(Tail(s))
  BY DEF RebaseOwnBelow
<1>3. ASSUME Tail(s) # <<>> PROVE Head(s).by = Sync!Own
  <2>1. Len(s) > 1 /\ 1 \in 1 .. Len(s)
    BY <1>3
  <2>2. s[1].by = Sync!Own
    BY <2>1 DEF RebaseOwnBelow
  <2> QED BY <2>2
<1> QED BY <1>1, <1>2, <1>3

LEMMA RebaseTakenOff ==
  ASSUME NEW s \in Seq(Sync!Commits), RebaseOwnBelow(s)
  PROVE  /\ Sync!WipOnTop(s) => /\ Sync!Front(s) \in Seq(Sync!Commits) /\ RebaseOwnOnly(Sync!Front(s))
                                /\ Sync!Last(s).changes \in SUBSET Files
         /\ ~Sync!WipOnTop(s) => RebaseOwnOnly(s)
<1>1. ASSUME Sync!WipOnTop(s) PROVE Sync!Front(s) \in Seq(Sync!Commits) /\ RebaseOwnOnly(Sync!Front(s)) /\ Sync!Last(s).changes \in SUBSET Files
  <2>1. s # <<>>
    BY <1>1 DEF Sync!WipOnTop
  <2>2. Sync!Front(s) \in Seq(Sync!Commits)
    BY <2>1 DEF Sync!Front
  <2>3. RebaseOwnOnly(Sync!Front(s))
    BY <2>1 DEF Sync!Front, RebaseOwnOnly, RebaseOwnBelow
  <2>4. Sync!Last(s) \in Sync!Commits
    BY <2>1 DEF Sync!Last
  <2> QED BY <2>2, <2>3, <2>4 DEF Sync!Commits
<1>2. ASSUME ~Sync!WipOnTop(s) PROVE RebaseOwnOnly(s)
  <2> SUFFICES ASSUME NEW i \in 1 .. Len(s) PROVE s[i].by = Sync!Own
    BY DEF RebaseOwnOnly
  <2>1. CASE i < Len(s)
    BY <2>1 DEF RebaseOwnBelow
  <2>2. CASE i = Len(s)
    <3>1. s[i] \in Sync!Commits /\ s # <<>>
      OBVIOUS
    <3>2. s[i].by # Sync!Wip
      BY <1>2, <2>2, <3>1 DEF Sync!WipOnTop, Sync!Last
    <3> QED BY <3>1, <3>2 DEF Sync!Commits
  <2> QED BY <2>1, <2>2
<1> QED BY <1>1, <1>2

LEMMA RebaseInitHolds == Sync!Init => RebaseIInv
<1> SUFFICES ASSUME Sync!Init PROVE RebaseIInv
  OBVIOUS
<1>1. RebaseTypeOK
  BY DEF Sync!Init, RebaseTypeOK, RebaseStages, RebaseResults, RebaseAsked
<1>2. RebaseResting /\ RebaseReplaying /\ RebaseStopped
  BY DEF Sync!Init, RebaseResting, RebaseReplaying, RebaseStopped, RebaseOwnOnly
<1> QED BY <1>1, <1>2 DEF RebaseIInv

LEMMA RebaseEditKeeps ==
  ASSUME RebaseIInv, NEW files \in (SUBSET Files) \ {{}}, NEW commits \in BOOLEAN, Sync!Edit(files, commits)
  PROVE  RebaseIInv'
<1> USE DEF RebaseIInv, Sync!repo, Sync!loop
<1>1. /\ at = "work" /\ at' = "work" /\ RebaseOwnOnly(branch)
      /\ UNCHANGED <<upstream, target, base, todo, replayed, marked, baseCommit, baselineOf, result, asked>>
  BY DEF Sync!Edit, RebaseResting
<1>2. branch' \in Seq(Sync!Commits) /\ RebaseOwnOnly(branch') /\ worktree' \in SUBSET Files
  <2>1. CASE commits
    <3>1. PICK c \in Sync!Commits : c.by = Sync!Own /\ branch' = Append(branch, c)
      BY <2>1 DEF Sync!Edit, Sync!Commits
    <3> QED BY <1>1, <2>1, <3>1, RebaseOnTop DEF Sync!Edit, RebaseTypeOK
  <2>2. CASE ~commits
    BY <1>1, <2>2 DEF Sync!Edit, RebaseTypeOK
  <2> QED BY <2>1, <2>2
<1> HIDE DEF Sync!repo, Sync!loop
<1>3. RebaseTypeOK'
  BY <1>1, <1>2 DEF RebaseTypeOK
<1>4. RebaseResting' /\ RebaseReplaying' /\ RebaseStopped'
  BY <1>1, <1>2 DEF RebaseResting, RebaseReplaying, RebaseStopped
<1> QED BY <1>3, <1>4

LEMMA RebaseSyncKeeps ==
  ASSUME RebaseIInv, NEW fetches \in BOOLEAN, Sync!Sync(fetches)
  PROVE  RebaseIInv'
<1> USE DEF RebaseIInv
<1>1. /\ at = "work" /\ RebaseOwnOnly(branch) /\ todo = <<>> /\ marked = {} /\ result = "none"
      /\ baselineOf = baseCommit /\ RebaseOwnOnly(baseCommit[2])
      /\ UNCHANGED <<upstream, baseCommit, baselineOf>>
      /\ target' \in Nat /\ asked' = [base |-> base, branch |-> branch, tree |-> worktree]
  BY DEF Sync!Sync, RebaseResting, RebaseTypeOK, Sync!loop
<1>2. /\ asked' \in RebaseAsked /\ asked'.base = base /\ asked'.branch = branch /\ asked'.tree = worktree
  BY <1>1 DEF RebaseTypeOK, RebaseAsked
<1>3. CASE target' <= baseCommit[1]
  <2>1. /\ result' = "up-to-date" /\ at' = "synced" /\ UNCHANGED <<base, branch, worktree, todo, replayed, marked>>
    BY <1>3 DEF Sync!Sync, Sync!repo
  <2>2. RebaseTypeOK'
    BY <1>1, <1>2, <2>1 DEF RebaseTypeOK, RebaseStages, RebaseResults
  <2>3. RebaseResting' /\ RebaseReplaying' /\ RebaseStopped'
    BY <1>1, <1>2, <1>3, <2>1 DEF RebaseResting, RebaseReplaying, RebaseStopped, RebaseTypeOK
  <2> QED BY <2>2, <2>3
<1>4. CASE ~(target' <= baseCommit[1])
  <2> DEFINE temporary == IF worktree = {} THEN branch ELSE RebaseWipped(branch, worktree)
  <2>1. /\ branch' = temporary /\ worktree' = {} /\ todo' = temporary /\ replayed' = <<>>
        /\ at' = "replay" /\ UNCHANGED <<base, marked, result>>
    BY <1>4 DEF Sync!Sync, RebaseWipped
  <2>2. temporary \in Seq(Sync!Commits) /\ RebaseOwnBelow(temporary)
    <3>1. CASE worktree = {}
      BY <1>1, <3>1 DEF RebaseOwnOnly, RebaseOwnBelow, RebaseTypeOK
    <3>2. CASE worktree # {}
      <4>1. [by |-> Sync!Wip, changes |-> worktree] \in Sync!Commits
        BY <3>2 DEF Sync!Commits, RebaseTypeOK
      <4> QED BY <1>1, <3>2, <4>1, RebaseOnTop DEF RebaseWipped, RebaseTypeOK
    <3> QED BY <3>1, <3>2
  <2>3. temporary = RebaseTemporary'
    BY <1>2 DEF RebaseTemporary, RebaseWipped
  <2> HIDE DEF temporary
  <2>4. RebaseTypeOK'
    BY <1>1, <1>2, <2>1, <2>2 DEF RebaseTypeOK, RebaseStages
  <2>5. target' > base
    BY <1>1, <1>4 DEF RebaseTypeOK
  <2>6. RebaseResting' /\ RebaseStopped'
    BY <1>1, <2>1 DEF RebaseResting, RebaseStopped
  <2>7. RebaseOwnBelow(<<>>) /\ RebaseOwnOnly(<<>>)
    BY DEF RebaseOwnBelow, RebaseOwnOnly
  <2>8. RebaseReplaying'
    BY <1>1, <1>2, <2>1, <2>2, <2>3, <2>5, <2>7 DEF RebaseReplaying
  <2> QED BY <2>4, <2>6, <2>8
<1> QED BY <1>3, <1>4

(* A step that replays, drops or resolves the next commit, or stops on it.   *)
RebaseMoves ==
  /\ at \in {"replay", "stopped"} /\ todo # <<>>
  /\ UNCHANGED <<upstream, target, base, branch, worktree, baseCommit, baselineOf, result, asked>>
  /\ \/ /\ at' = "replay" /\ todo' = Tail(todo) /\ marked' = {}
        /\ replayed' = replayed \/ replayed' = Append(replayed, Head(todo))
     \/ at' = "stopped" /\ UNCHANGED <<todo, replayed>> /\ marked' \in SUBSET Files

LEMMA RebaseMovesKeep == ASSUME RebaseIInv, RebaseMoves PROVE RebaseIInv'
<1> USE DEF RebaseIInv, RebaseMoves
<1>1. /\ RebaseOwnBelow(todo) /\ RebaseOwnBelow(replayed) /\ RebaseOwnOnly(replayed) /\ todo \in Seq(Sync!Commits)
      /\ replayed \in Seq(Sync!Commits) /\ RebaseTemporary' = RebaseTemporary
  BY DEF RebaseReplaying, RebaseTypeOK, RebaseTemporary
<1>2. /\ todo' \in Seq(Sync!Commits) /\ replayed' \in Seq(Sync!Commits) /\ RebaseOwnBelow(todo') /\ RebaseOwnBelow(replayed')
      /\ todo' # <<>> => RebaseOwnOnly(replayed')
  <2>1. CASE UNCHANGED <<todo, replayed>>
    BY <1>1, <2>1
  <2>2. CASE todo' = Tail(todo) /\ replayed' = replayed
    BY <1>1, <2>2, RebaseNextOne
  <2>3. CASE todo' = Tail(todo) /\ replayed' = Append(replayed, Head(todo))
    <3>1. PICK c : c = Head(todo)
      OBVIOUS
    <3>2. c \in Sync!Commits /\ Tail(todo) \in Seq(Sync!Commits) /\ RebaseOwnBelow(Tail(todo)) /\ (Tail(todo) # <<>> => c.by = Sync!Own)
      BY <1>1, <3>1, RebaseNextOne
    <3> QED BY <1>1, <2>3, <3>1, <3>2, RebaseOnTop
  <2> QED BY <2>1, <2>2, <2>3
<1>3. RebaseTypeOK'
  BY <1>2 DEF RebaseTypeOK, RebaseStages
<1>4. RebaseResting' /\ RebaseStopped'
  BY DEF RebaseResting, RebaseStopped
<1>5. RebaseReplaying'
  BY <1>1, <1>2 DEF RebaseReplaying
<1> QED BY <1>3, <1>4, <1>5

LEMMA RebaseReplayMoves ==
  ASSUME RebaseIInv,
         \/ Sync!Drop
         \/ \E conflicts, unmarked \in SUBSET Files : Sync!Replay(conflicts, unmarked)
         \/ \E left \in SUBSET Files, empty \in BOOLEAN : Sync!Resolve(left, empty)
  PROVE  RebaseMoves
<1> USE DEF RebaseMoves, Sync!repo, Sync!loop
<1>1. CASE Sync!Drop
  BY <1>1 DEF Sync!Drop, Sync!InProgress, RebaseIInv, RebaseReplaying
<1>2. ASSUME NEW conflicts \in SUBSET Files, NEW unmarked \in SUBSET Files, Sync!Replay(conflicts, unmarked)
      PROVE  RebaseMoves
  BY <1>2 DEF Sync!Replay, Sync!Apply, Sync!InProgress, RebaseIInv, RebaseReplaying
<1>3. ASSUME NEW left \in SUBSET Files, NEW empty \in BOOLEAN, Sync!Resolve(left, empty)
      PROVE  RebaseMoves
  BY <1>3 DEF Sync!Resolve, RebaseIInv, RebaseReplaying
<1> QED BY <1>1, <1>2, <1>3

LEMMA RebaseThrowKeeps == ASSUME RebaseIInv, Sync!Throw PROVE RebaseIInv'
<1> USE DEF RebaseIInv, Sync!Throw, Sync!repo, Sync!loop
<1>1. RebaseTypeOK'
  BY DEF RebaseTypeOK, RebaseStages, RebaseResults
<1>2. RebaseTemporary' = RebaseTemporary
  BY DEF RebaseTemporary
<1>3. RebaseResting' /\ RebaseReplaying'
  BY DEF RebaseResting, RebaseReplaying
<1>4. RebaseStopped'
  BY <1>2 DEF RebaseReplaying, RebaseStopped
<1> QED BY <1>1, <1>3, <1>4

LEMMA RebaseGiveUpKeeps ==
  ASSUME RebaseIInv, NEW aborts \in BOOLEAN, Sync!GiveUp(aborts)
  PROVE  RebaseIInv'
<1> USE DEF RebaseIInv
<1>1. /\ at = "stopped" /\ at' = "ended" /\ result' = "conflict"
      /\ UNCHANGED <<upstream, target, base, baseCommit, baselineOf, asked>>
      /\ RebaseTemporary' = RebaseTemporary
  BY DEF Sync!GiveUp, Sync!loop, RebaseTemporary
<1>2. /\ base = asked.base /\ branch = RebaseTemporary /\ worktree = {} /\ todo # <<>>
      /\ RebaseOwnOnly(asked.branch) /\ asked.branch \in Seq(Sync!Commits) /\ asked.tree \in SUBSET Files
  BY <1>1 DEF RebaseReplaying, RebaseTypeOK, RebaseAsked
<1>3. CASE aborts
  <2>1. todo' = <<>> /\ replayed' = <<>> /\ marked' = {} /\ Sync!UndoWip(branch, {})
    BY <1>3 DEF Sync!GiveUp, Sync!Clear
  <2>2. branch' = asked.branch /\ worktree' = asked.tree
    <3>1. CASE asked.tree = {}
      BY <1>2, <2>1, <3>1, RebaseOwnIsNotWip DEF Sync!UndoWip, RebaseTemporary
    <3>2. CASE asked.tree # {}
      <4>1. PICK c \in Sync!Commits : c = [by |-> Sync!Wip, changes |-> asked.tree]
        BY <1>2, <3>2 DEF Sync!Commits
      <4>2. branch = Append(asked.branch, c)
        BY <1>2, <3>2, <4>1 DEF RebaseTemporary, RebaseWipped
      <4>3. Sync!Last(branch) = c /\ Sync!Front(branch) = asked.branch /\ branch # <<>>
        BY <1>2, <4>2, RebaseOnTop
      <4>4. Sync!WipOnTop(branch)
        BY <4>1, <4>3 DEF Sync!WipOnTop
      <4> QED BY <2>1, <4>1, <4>3, <4>4 DEF Sync!UndoWip
    <3> QED BY <3>1, <3>2
  <2>3. RebaseTypeOK'
    BY <1>1, <1>2, <2>1, <2>2 DEF RebaseTypeOK, RebaseStages, RebaseResults
  <2>4. RebaseResting' /\ RebaseReplaying' /\ RebaseStopped'
    BY <1>1, <1>2, <2>1, <2>2 DEF RebaseResting, RebaseReplaying, RebaseStopped
  <2> QED BY <2>3, <2>4
<1>4. CASE ~aborts
  <2>1. UNCHANGED <<branch, worktree, todo, replayed, marked>>
    BY <1>4 DEF Sync!GiveUp
  <2>2. RebaseTypeOK'
    BY <1>1, <2>1 DEF RebaseTypeOK, RebaseStages, RebaseResults
  <2>3. RebaseResting' /\ RebaseReplaying' /\ RebaseStopped'
    BY <1>1, <1>2, <2>1 DEF RebaseResting, RebaseReplaying, RebaseStopped
  <2> QED BY <2>2, <2>3
<1> QED BY <1>3, <1>4

LEMMA RebaseLandKeeps == ASSUME RebaseIInv, Sync!Land PROVE RebaseIInv'
<1> USE DEF RebaseIInv
<1>1. /\ at = "replay" /\ at' = "rescan" /\ todo' = <<>> /\ replayed' = <<>>
      /\ base' = target /\ Sync!UndoWip(replayed, {}) /\ baseCommit' = <<target, branch'>>
      /\ UNCHANGED <<upstream, target, marked, baselineOf, result, asked>>
  BY DEF Sync!Land, Sync!Clear
<1>2. base = asked.base /\ target > base /\ RebaseOwnBelow(replayed) /\ marked = {}
  BY <1>1 DEF RebaseReplaying
<1>3. RebaseOwnOnly(branch') /\ branch' \in Seq(Sync!Commits) /\ worktree' \in SUBSET Files
  BY <1>1, <1>2, RebaseTakenOff DEF Sync!UndoWip, RebaseTypeOK
<1>4. baseCommit'[1] = target /\ baseCommit'[2] = branch'
  BY <1>1
<1>5. RebaseTypeOK'
  BY <1>1, <1>3, <1>4 DEF RebaseTypeOK, RebaseStages
<1>6. RebaseOwnOnly(baseCommit[2])'
  BY <1>3, <1>4 DEF RebaseOwnOnly
<1>7. at' \in {"work", "replay", "stopped", "rescan"} => result' = "none"
  BY <1>1 DEF RebaseResting
<1>8. RebaseResting'
  BY <1>1, <1>2, <1>3, <1>6, <1>7 DEF RebaseResting
<1>9. RebaseReplaying' /\ RebaseStopped'
  BY <1>1, <1>2 DEF RebaseReplaying, RebaseStopped, RebaseTypeOK
<1> QED BY <1>5, <1>8, <1>9

LEMMA RebaseNextKeeps == RebaseIInv /\ [Sync!Next]_Sync!vars => RebaseIInv'
<1> SUFFICES ASSUME RebaseIInv, [Sync!Next]_Sync!vars PROVE RebaseIInv'
  OBVIOUS
<1>1. CASE Sync!UpstreamMoves \/ UNCHANGED Sync!vars
  <2>1. /\ upstream' \in Nat /\ RebaseTemporary' = RebaseTemporary
        /\ UNCHANGED <<at, target, base, branch, worktree, todo, replayed, marked, baseCommit, baselineOf, result, asked>>
    BY <1>1 DEF Sync!UpstreamMoves, Sync!vars, Sync!repo, Sync!loop, RebaseIInv, RebaseTypeOK,
       RebaseTemporary
  <2> QED BY <2>1 DEF RebaseIInv, RebaseTypeOK, RebaseResting, RebaseReplaying, RebaseStopped
<1>2. CASE Sync!Rescan \/ Sync!NextRound
  <2>1. /\ UNCHANGED <<upstream, target, base, branch, worktree, todo, replayed, marked, baseCommit, asked>>
        /\ \/ at = "rescan" /\ baselineOf' = baseCommit /\ result' = "rebased" /\ at' = "synced"
           \/ at = "synced" /\ at' = "work" /\ result' = "none" /\ baselineOf' = baselineOf
    BY <1>2 DEF Sync!Rescan, Sync!NextRound, Sync!repo, Sync!loop
  <2>2. RebaseTypeOK'
    BY <2>1 DEF RebaseIInv, RebaseTypeOK, RebaseStages, RebaseResults
  <2>3. at = "rescan" => target <= base
    BY DEF RebaseIInv, RebaseReplaying
  <2>4. RebaseResting' /\ RebaseReplaying' /\ RebaseStopped'
    BY <2>1, <2>3 DEF RebaseIInv, RebaseResting, RebaseReplaying, RebaseStopped
  <2> QED BY <2>2, <2>4 DEF RebaseIInv
<1> QED BY <1>1, <1>2, RebaseEditKeeps, RebaseSyncKeeps, RebaseReplayMoves, RebaseMovesKeep,
           RebaseThrowKeeps, RebaseGiveUpKeeps, RebaseLandKeeps DEF Sync!Next

LEMMA RebaseWorkKept == RebaseIInv => Sync!RebaseKeepsWork
<1> SUFFICES ASSUME RebaseIInv PROVE Sync!WorkSurvives /\ Sync!JudgedOnBase
  BY DEF Sync!RebaseKeepsWork
<1>1. Sync!JudgedOnBase
  BY RebaseOwnIsNotWip DEF RebaseIInv, Sync!JudgedOnBase, RebaseResting, RebaseTypeOK, RebaseStages
<1>2. Sync!WorkSurvives
  <2>1. at \in {"synced", "work"} => ~Sync!WipOnTop(branch) /\ marked = {} /\ ~Sync!InProgress
    BY RebaseOwnIsNotWip DEF RebaseIInv, RebaseResting, RebaseTypeOK, Sync!InProgress
  <2>2. ASSUME branch = RebaseTemporary, worktree = {}, worktree # asked.tree
        PROVE  Sync!WipOnTop(branch) /\ Sync!Last(branch).changes = asked.tree
    <3>1. asked.branch \in Seq(Sync!Commits) /\ asked.tree \in SUBSET Files /\ asked.tree # {}
      BY <2>2 DEF RebaseIInv, RebaseTypeOK, RebaseAsked
    <3>2. PICK c \in Sync!Commits : c = [by |-> Sync!Wip, changes |-> asked.tree]
      BY <3>1 DEF Sync!Commits
    <3>3. branch = Append(asked.branch, c)
      BY <2>2, <3>1, <3>2 DEF RebaseTemporary, RebaseWipped
    <3>4. Sync!Last(branch) = c /\ branch # <<>>
      BY <3>1, <3>3, RebaseOnTop
    <3> QED BY <3>2, <3>4 DEF Sync!WipOnTop
  <2>3. result \in {"conflict", "threw"} => at = "ended"
    BY DEF RebaseIInv, RebaseTypeOK, RebaseStages, RebaseResting
  <2>4. result = "conflict" /\ ~Sync!InProgress =>
          <<base, branch, worktree>> = <<asked.base, asked.branch, asked.tree>>
    BY <2>3 DEF RebaseIInv, RebaseStopped, Sync!InProgress
  <2>5. result \in {"conflict", "threw"} /\ base = asked.base /\ worktree # asked.tree =>
          Sync!WipOnTop(branch) /\ Sync!Last(branch).changes = asked.tree
    BY <2>2, <2>3 DEF RebaseIInv, RebaseStopped, RebaseTypeOK, RebaseAsked
  <2> QED BY <2>1, <2>4, <2>5 DEF Sync!WorkSurvives
<1> QED BY <1>1, <1>2

-----------------------------------------------------------------------------
(* The scanner suite (SecurityScan).                                         *)

(* The shapes of the records.                                                *)
ScanIsRequest(r) == r = [engines |-> r.engines, scope |-> r.scope]
ScanIsReport(r) ==
  r = [engines |-> r.engines, completed |-> r.completed, found |-> r.found, suppressed |-> r.suppressed,
       skipped |-> r.skipped, ignored |-> r.ignored, deferred |-> r.deferred, scoped |-> r.scoped]

(* What an engine that completed and held nothing back has found is all that *)
(* is there for it to find.                                                  *)
ScanSawAll(e, o) ==
  o.status = "completed" /\ ~o.skipped /\ ~o.ignored /\ ~o.deferred /\ request.scope = Lines
    => Scan!Of(e, tree) \subseteq o.found

(* The findings of the workspace are the selected engines'.                  *)
ScanTreeOK ==
  /\ tree \subseteq Scan!Findings
  /\ stage # "idle" => request.engines \subseteq Scan!Engines /\ \A f \in tree : f.engine \in request.engines

ScanOutcomes ==
  /\ outcome = [e \in Scan!Engines |-> outcome[e]]
  /\ stage = "scanning" => \A e \in request.engines : ScanSawAll(e, outcome[e])

(* A result that held nothing back has everything its completed engines      *)
(* could find.                                                               *)
ScanNothing(r) == ~r.skipped /\ ~r.ignored /\ ~r.deferred /\ ~r.scoped
ScanReportIsTrue ==
  /\ ScanIsReport(report) /\ report.engines = request.engines
  /\ ScanNothing(report) => \A f \in tree : f.engine \in report.completed => f \in report.found
ScanReported == stage \in {"scanned", "judged"} => ScanReportIsTrue

ScanJudged == stage # "judged" => judgement = Scan!NoJudgement

ScanIInv == ScanTreeOK /\ ScanOutcomes /\ ScanReported /\ ScanJudged /\ Scan!ScanIsComplete

-----------------------------------------------------------------------------
LEMMA ScanNothingJudged ==
  ASSUME judgement' = Scan!NoJudgement PROVE Scan!ScanIsComplete' /\ ScanJudged'
BY DEF Scan!NoJudgement, Scan!ScanIsComplete, Scan!PassIsClean, Scan!ResolvedIsGone, ScanJudged

LEMMA ScanInitHolds == Scan!Init => ScanIInv
<1> SUFFICES ASSUME Scan!Init PROVE ScanIInv
  OBVIOUS
<1>1. ScanTreeOK /\ ScanReported /\ ScanJudged
  BY DEF Scan!Init, ScanTreeOK, ScanReported, ScanJudged
<1>2. ScanOutcomes
  BY DEF Scan!Init, ScanOutcomes
<1>3. Scan!ScanIsComplete
  BY DEF Scan!Init, Scan!NoJudgement, Scan!ScanIsComplete, Scan!PassIsClean, Scan!ResolvedIsGone
<1> QED BY <1>1, <1>2, <1>3 DEF ScanIInv

LEMMA ScanInstallKeeps ==
  ASSUME ScanIInv, NEW e, NEW allowed, NEW works, Scan!Install(e, allowed, works) PROVE ScanIInv'
BY ScanNothingJudged DEF Scan!Install, ScanIInv, ScanTreeOK, ScanOutcomes, ScanReported, ScanJudged

LEMMA ScanRequestKeeps ==
  ASSUME ScanIInv, NEW chosen \in Selections, NEW scope,
         NEW present \in SUBSET {f \in Scan!Findings : f.engine \in chosen}, Scan!Request(chosen, scope, present)
  PROVE  ScanIInv'
<1>1. ScanTreeOK' /\ ScanReported'
  BY DEF Scan!Request, ScanTreeOK, ScanReported, Scan!Engines
<1>2. ScanOutcomes'
  <2>1. outcome' = [e \in Scan!Engines |-> Scan!Pending]
    BY DEF Scan!Request
  <2>2. \A e \in Scan!Engines : outcome'[e].status = "pending"
    BY <2>1 DEF Scan!Pending
  <2>3. request'.engines \subseteq Scan!Engines
    BY DEF Scan!Request, Scan!Engines
  <2> QED BY <2>1, <2>2, <2>3 DEF ScanOutcomes, ScanSawAll
<1>3. judgement' = Scan!NoJudgement
  BY DEF Scan!Request, ScanIInv, ScanJudged
<1> QED BY <1>1, <1>2, <1>3, ScanNothingJudged DEF ScanIInv

(* An engine answers: the others' outcomes stand.                            *)
LEMMA ScanAnswers ==
  ASSUME ScanIInv, NEW e, Scan!Awaited(e), NEW o, outcome' = [outcome EXCEPT ![e] = o], ScanSawAll(e, o),
         UNCHANGED <<stage, tree, installed, request, report, accepted, judgement>>
  PROVE  ScanIInv'
<1>1. judgement' = Scan!NoJudgement
  BY DEF ScanIInv, ScanJudged, Scan!Awaited
<1>2. ScanTreeOK' /\ ScanReported'
  BY DEF ScanIInv, ScanTreeOK, ScanReported, Scan!Awaited
<1>3. outcome' = [d \in Scan!Engines |-> outcome'[d]] /\ outcome'[e] = o
  BY DEF ScanIInv, ScanOutcomes, ScanTreeOK, Scan!Awaited
<1>4. ASSUME NEW d \in request.engines PROVE ScanSawAll(d, outcome[d])'
  <2>1. CASE d = e
    BY <1>3, <2>1 DEF ScanSawAll, Scan!Of
  <2>2. CASE d # e
    BY <1>3, <2>2 DEF ScanIInv, ScanOutcomes, ScanTreeOK, Scan!Awaited, ScanSawAll, Scan!Of
  <2> QED BY <2>1, <2>2
<1> QED BY <1>1, <1>2, <1>3, <1>4, ScanNothingJudged DEF ScanIInv, ScanOutcomes

LEMMA ScanBuiltinKeeps == ASSUME ScanIInv, NEW cut, Scan!Builtin(cut) PROVE ScanIInv'
<1> DEFINE inView == {f \in Scan!Of("builtin", tree) : f.line \in request.scope}
<1>1. PICK o : o = [Scan!Empty("completed") EXCEPT !.found = inView \ cut, !.skipped = cut # {}]
  OBVIOUS
<1>2. o.found = inView \ cut /\ (o.skipped <=> cut # {})
  BY <1>1 DEF Scan!Empty, Scan!Pending
<1>3. ScanSawAll("builtin", o)
  BY <1>2 DEF ScanSawAll, ScanIInv, ScanTreeOK, Scan!Findings, Scan!Of
<1> QED BY <1>1, <1>3, ScanAnswers DEF Scan!Builtin

LEMMA ScanEngineKeeps ==
  ASSUME ScanIInv, NEW e, NEW runs, NEW unseen, NEW cut, NEW ignored, Scan!Engine(e, runs, unseen, cut, ignored)
  PROVE  ScanIInv'
<1>1. PICK o : o = IF Scan!CommandOf(e) \notin installed THEN Scan!Empty("missing")
                   ELSE IF ~runs THEN Scan!Empty("error")
                   ELSE Scan!Parsed(Scan!Of(e, tree) \ unseen, cut, ignored, unseen # {})
  OBVIOUS
<1>2. ScanSawAll(e, o)
  <2>1. CASE o = Scan!Empty("missing") \/ o = Scan!Empty("error")
    BY <2>1 DEF ScanSawAll, Scan!Empty, Scan!Pending
  <2>2. CASE o = Scan!Parsed(Scan!Of(e, tree) \ unseen, cut, ignored, unseen # {})
    <3>1. /\ o.found = (Scan!Of(e, tree) \ unseen) \ (cut \cup ignored)
          /\ (o.skipped <=> cut # {}) /\ (o.ignored <=> ignored # {}) /\ (o.deferred <=> unseen # {})
      BY <2>2 DEF Scan!Parsed, Scan!Empty, Scan!Pending
    <3> QED BY <3>1 DEF ScanSawAll
  <2> QED BY <1>1, <2>1, <2>2
<1> QED BY <1>1, <1>2, ScanAnswers DEF Scan!Engine

LEMMA ScanStopsKeeps ==
  ASSUME ScanIInv, stage' = "idle", outcome' = [e \in Scan!Engines |-> Scan!Pending], judgement' = Scan!NoJudgement,
         UNCHANGED tree
  PROVE  ScanIInv'
<1>1. ScanTreeOK' /\ ScanReported'
  BY DEF ScanIInv, ScanTreeOK, ScanReported
<1>2. ScanOutcomes'
  BY DEF ScanOutcomes
<1> QED BY <1>1, <1>2, ScanNothingJudged DEF ScanIInv

LEMMA ScanAssembleKeeps == ASSUME ScanIInv, Scan!Assemble PROVE ScanIInv'
<1>1. judgement' = Scan!NoJudgement
  BY DEF ScanIInv, ScanJudged, Scan!Assemble
<1>2. ScanTreeOK' /\ ScanOutcomes'
  BY DEF ScanIInv, ScanTreeOK, ScanOutcomes, Scan!Assemble
<1>3. ScanIsReport(report') /\ report'.engines = request.engines
  BY DEF Scan!Assemble, ScanIsReport
<1>4. ASSUME ScanNothing(report'), NEW f \in tree, f.engine \in report'.completed PROVE f \in report'.found
  <2> DEFINE e == f.engine
  <2>1. e \in request.engines /\ outcome[e].status = "completed"
    BY <1>4 DEF Scan!Assemble
  <2>2. ~outcome[e].skipped /\ ~outcome[e].ignored /\ ~outcome[e].deferred /\ request.scope = Lines
    BY <1>4, <2>1 DEF Scan!Assemble, ScanNothing, Scan!Any
  <2>3. f \in outcome[e].found
    BY <2>1, <2>2 DEF Scan!Assemble, ScanIInv, ScanOutcomes, ScanSawAll, Scan!Of
  <2>4. f.line \in request.scope
    BY <2>2 DEF ScanIInv, ScanTreeOK, Scan!Findings
  <2> QED BY <2>1, <2>3, <2>4 DEF Scan!Assemble
<1>5. ScanReported'
  BY <1>3, <1>4 DEF ScanReported, ScanReportIsTrue, Scan!Assemble
<1> QED BY <1>1, <1>2, <1>5, ScanNothingJudged DEF ScanIInv

LEMMA ScanJudgeKeeps ==
  ASSUME ScanIInv, NEW mode \in {"all", "new"}, NEW threshold \in BOOLEAN, NEW active,
         Scan!Judge(mode, threshold, active)
  PROVE  ScanIInv'
<1>1. ScanTreeOK' /\ ScanOutcomes' /\ ScanReported'
  BY DEF ScanIInv, ScanTreeOK, ScanOutcomes, ScanReported, ScanReportIsTrue, Scan!Judge
<1>2. CASE mode = "new" /\ ~accepted.written
  BY <1>1, <1>2, ScanNothingJudged DEF ScanIInv, Scan!Judge
<1>3. CASE ~(mode = "new" /\ ~accepted.written)
  <2>1. PICK r : r = Scan!Suppress(active)
    OBVIOUS
  <2>2. /\ r.found = report.found \ active /\ r.suppressed = active /\ r.engines = report.engines
        /\ r.completed = report.completed /\ r.deferred = report.deferred /\ r.skipped = report.skipped
        /\ r.scoped = report.scoped /\ r.ignored = report.ignored
    BY <2>1 DEF Scan!Suppress, ScanIInv, ScanReported, ScanReportIsTrue, ScanIsReport, Scan!Judge
  <2>3. PICK j : j = [made |-> TRUE, mode |-> mode, threshold |-> threshold,
                    passed |-> threshold => Scan!Considered(r, mode) = {},
                    resolved |-> {f \in Scan!Unresolved(r) : mode = "new" /\ Scan!Covers(r, f)},
                    unknown |-> {f \in Scan!Unresolved(r) : mode = "new" /\ ~Scan!Covers(r, f)},
                    coverage |-> Scan!Coverage(r), excluded |-> Scan!Excluded(r)]
    OBVIOUS
  <2>4. judgement' = j /\ stage' = "judged" /\ active \subseteq report.found
    BY <1>3, <2>1, <2>3 DEF Scan!Judge
  <2>5. ScanJudged'
    BY <2>4 DEF ScanJudged
  <2>6. ASSUME NEW f \in tree, ScanNothing(report), f.engine \in report.completed PROVE f \in report.found
    BY <2>6 DEF ScanIInv, ScanReported, ScanReportIsTrue, Scan!Judge
  <2>7. ASSUME NEW f \in tree PROVE f.engine \in report.engines
    BY DEF ScanIInv, ScanTreeOK, ScanReported, ScanReportIsTrue, Scan!Judge
  <2>8. Scan!PassIsClean'
    <3> SUFFICES ASSUME j.passed, j.threshold, j.coverage = "complete", ~j.excluded, NEW f \in tree
                 PROVE  IF j.mode = "new" THEN f \in accepted.found ELSE FALSE
      BY <2>4 DEF Scan!PassIsClean, Scan!Judge
    <3>1. Scan!Considered(r, mode) = {} /\ Scan!Coverage(r) = "complete" /\ ~Scan!Excluded(r) /\ j.mode = mode
      BY <2>3
    <3>2. ScanNothing(report) /\ report.completed = report.engines /\ active = {}
      BY <3>1, <2>2 DEF Scan!Coverage, Scan!Excluded, ScanNothing
    <3>3. f \in r.found
      BY <2>2, <2>6, <2>7, <3>2
    <3>4. mode = "new" /\ f \in accepted.found
      BY <3>1, <3>3 DEF Scan!Considered, Scan!New, Scan!Reopened, Scan!Added
    <3> QED BY <3>1, <3>4
  <2>9. Scan!ResolvedIsGone'
    <3> SUFFICES ASSUME NEW f \in j.resolved
                 PROVE  /\ f.engine \in report.engines => f.engine \in report.completed
                        /\ f \in tree => report.scoped \/ report.skipped \/ report.ignored \/ report.deferred
      BY <2>4 DEF Scan!ResolvedIsGone, Scan!Judge
    <3>1. f \in Scan!Unresolved(r) /\ Scan!Covers(r, f)
      BY <2>3
    <3>2. f \notin report.found
      BY <3>1, <2>2, <2>4 DEF Scan!Unresolved
    <3>3. f.engine \in report.engines => f.engine \in report.completed
      BY <3>1, <2>2 DEF Scan!Covers, Scan!Hole
    <3> QED BY <3>2, <3>3, <2>6, <2>7 DEF ScanNothing
  <2> QED BY <1>1, <2>5, <2>8, <2>9 DEF ScanIInv, Scan!ScanIsComplete
<1> QED BY <1>2, <1>3

LEMMA ScanNextKeeps == ScanIInv /\ [Scan!Next]_Scan!vars => ScanIInv'
<1> SUFFICES ASSUME ScanIInv, [Scan!Next]_Scan!vars PROVE ScanIInv'
  OBVIOUS
<1>1. CASE Scan!BuiltinThrows
  BY <1>1, ScanStopsKeeps DEF Scan!BuiltinThrows, Scan!Awaited, ScanIInv, ScanJudged
<1>2. CASE Scan!Done
  BY <1>2, ScanStopsKeeps DEF Scan!Done
<1>3. ASSUME NEW active, Scan!WriteBaseline(active) PROVE ScanIInv'
  BY <1>3, ScanStopsKeeps DEF Scan!WriteBaseline, ScanIInv, ScanJudged
<1>4. CASE UNCHANGED Scan!vars
  BY <1>4 DEF Scan!vars, ScanIInv, ScanTreeOK, ScanOutcomes, ScanSawAll, ScanReported,
     ScanReportIsTrue, ScanJudged, Scan!ScanIsComplete,
              Scan!PassIsClean, Scan!ResolvedIsGone
<1> QED BY <1>1, <1>2, <1>3, <1>4, ScanInstallKeeps, ScanRequestKeeps, ScanBuiltinKeeps,
           ScanEngineKeeps, ScanAssembleKeeps,
           ScanJudgeKeeps DEF Scan!Next

-----------------------------------------------------------------------------
(* The security workflow (SecurityWorkflow).                                 *)

(* The shapes of a workflow and of a verification's state.                   *)
FlowIsWorkflow(w) ==
  w = [exists |-> w.exists, state |-> w.state, found |-> w.found, targets |-> w.targets,
       initialCoverage |-> w.initialCoverage, coverage |-> w.coverage, gateBlocks |-> w.gateBlocks,
       base |-> w.base, accepted |-> w.accepted, threshold |-> w.threshold]
FlowIsRun(r) ==
  r = [step |-> r.step, view |-> r.view, scanned |-> r.scanned, at |-> r.at, looked |-> r.looked,
       checks |-> r.checks]

(* What no verification of a workflow changes.                               *)
FlowSameAs(w, u) ==
  /\ w.exists = u.exists /\ w.found = u.found /\ w.targets = u.targets
  /\ w.initialCoverage = u.initialCoverage /\ w.base = u.base /\ w.accepted = u.accepted
  /\ w.threshold = u.threshold

(* A complete first scan found what was there, and the targets are what of   *)
(* it is above the threshold.                                                *)
FlowFormed(w) ==
  /\ w.targets <=> w.found /\ w.threshold
  /\ w.initialCoverage \in Flow!Coverages /\ (w.initialCoverage = "complete" => w.found)
  /\ w.base \in {"none", "start", "HEAD"}

FlowFileOK == FlowIsWorkflow(workflow) /\ (workflow.exists => FlowFormed(workflow))
FlowWorkspace == code \in Flow!Codes /\ edits \in Nat

(* A verification holds a copy of the workflow, and what it saw is what is   *)
(* there as long as nobody edited.                                           *)
FlowScanned(r) ==
  r.step \in {"check", "mark", "record"} =>
    r.at \in Nat /\ r.at <= edits /\ r.scanned \in Flow!Codes /\ (r.at = edits => r.scanned = code)
FlowChecked(r) ==
  r.step \in {"mark", "record"} /\ r.checks = "passed" /\ r.at = edits => code # "broken"
FlowHolds(r) ==
  /\ FlowIsRun(r) /\ FlowIsWorkflow(r.view) /\ FlowScanned(r) /\ FlowChecked(r)
  /\ r.step # "idle" => workflow.exists /\ FlowSameAs(r.view, workflow)
FlowVerifications == run = [v \in Verifiers |-> run[v]] /\ \A v \in Verifiers : FlowHolds(run[v])

FlowIInv == FlowFileOK /\ FlowWorkspace /\ FlowVerifications /\ Flow!WorkflowIsTrue

-----------------------------------------------------------------------------
LEMMA FlowNothingIssued ==
  ASSUME issued' = Flow!NoRecord PROVE Flow!WorkflowIsTrue'
BY DEF Flow!NoRecord, Flow!WorkflowIsTrue, Flow!RecordIsTrue, Flow!TargetsStay, Flow!BlamesTheRepair

LEMMA FlowIdleHolds == FlowHolds(Flow!Idle)
BY DEF FlowHolds, FlowIsRun, FlowIsWorkflow, Flow!Idle, Flow!NoFile, FlowScanned, FlowChecked

LEMMA FlowInitHolds == Flow!Init => FlowIInv
<1> SUFFICES ASSUME Flow!Init PROVE FlowIInv
  OBVIOUS
<1>1. FlowFileOK
  BY DEF Flow!Init, FlowFileOK, Flow!NoFile, FlowIsWorkflow
<1>2. FlowWorkspace
  BY DEF Flow!Init, FlowWorkspace, Flow!Codes
<1>3. FlowVerifications
  BY FlowIdleHolds DEF Flow!Init, FlowVerifications
<1>4. Flow!WorkflowIsTrue
  BY DEF Flow!Init, Flow!NoRecord, Flow!WorkflowIsTrue, Flow!RecordIsTrue, Flow!TargetsStay,
     Flow!BlamesTheRepair
<1> QED BY <1>1, <1>2, <1>3, <1>4 DEF FlowIInv

(* The others' states hold whatever one of them does to its own.             *)
LEMMA FlowOneVerification ==
  ASSUME FlowVerifications, NEW v \in Verifiers, NEW r, run' = [run EXCEPT ![v] = r],
         UNCHANGED <<code, edits>>, FlowHolds(r)',
         workflow.exists => workflow'.exists /\ FlowSameAs(workflow', workflow)
  PROVE  FlowVerifications'
<1>1. run' = [w \in Verifiers |-> run'[w]]
  BY DEF FlowVerifications
<1>2. run'[v] = r
  BY DEF FlowVerifications
<1>3. ASSUME NEW w \in Verifiers, w # v PROVE FlowHolds(run[w])'
  <2>1. run'[w] = run[w] /\ FlowHolds(run[w])
    BY <1>3 DEF FlowVerifications
  <2> QED BY <2>1 DEF FlowHolds, FlowSameAs, FlowScanned, FlowChecked
<1>4. FlowHolds(run[v])'
  BY <1>2 DEF FlowHolds, FlowScanned, FlowChecked
<1> QED BY <1>1, <1>3, <1>4 DEF FlowVerifications

FlowRunOf(s, w, c, e, l, k) == [step |-> s, view |-> w, scanned |-> c, at |-> e, looked |-> l, checks |-> k]
FlowWorkflowOf(e, s, f, t, i, c, g, b, a, h) ==
  [exists |-> e, state |-> s, found |-> f, targets |-> t, initialCoverage |-> i, coverage |-> c,
   gateBlocks |-> g, base |-> b, accepted |-> a, threshold |-> h]

LEMMA FlowShaped ==
  ASSUME NEW s, NEW w, NEW c, NEW e, NEW l, NEW k
  PROVE  FlowIsRun(FlowRunOf(s, w, c, e, l, k))
BY DEF FlowIsRun, FlowRunOf

LEMMA FlowAlike ==
  ASSUME NEW e, NEW s, NEW f, NEW t, NEW i, NEW c, NEW g, NEW b, NEW a, NEW h, NEW ss, NEW cc, NEW gg,
         NEW w, w = FlowWorkflowOf(e, s, f, t, i, c, g, b, a, h),
         NEW u, u = FlowWorkflowOf(e, ss, f, t, i, cc, gg, b, a, h)
  PROVE  FlowIsWorkflow(u) /\ FlowSameAs(u, w)
BY DEF FlowIsWorkflow, FlowSameAs, FlowWorkflowOf

LEMMA FlowFileStays ==
  ASSUME FlowFileOK, FlowIsWorkflow(workflow'), FlowSameAs(workflow', workflow) PROVE FlowFileOK'
BY DEF FlowFileOK, FlowSameAs, FlowFormed

LEMMA FlowCreateKeeps ==
  ASSUME FlowIInv, NEW coverage \in Flow!Coverages, NEW sees, NEW threshold,
         NEW from \in {"none", "start", "HEAD"}, NEW taken,
         Flow!Create(coverage, sees, threshold, from, taken)
  PROVE  FlowIInv'
<1>1. Flow!WorkflowIsTrue' /\ FlowWorkspace'
  BY FlowNothingIssued DEF Flow!Create, FlowIInv, FlowWorkspace
<1>2. FlowFileOK'
  BY DEF Flow!Create, FlowFileOK, FlowIsWorkflow, FlowFormed
<1>3. \A v \in Verifiers : run[v].step = "idle"
  BY DEF Flow!Create, FlowIInv, FlowVerifications, FlowHolds
<1>4. FlowVerifications'
  BY <1>3 DEF Flow!Create, FlowIInv, FlowVerifications, FlowHolds, FlowScanned, FlowChecked
<1> QED BY <1>1, <1>2, <1>4 DEF FlowIInv

LEMMA FlowEditKeeps == ASSUME FlowIInv, NEW to \in Flow!Codes, Flow!Edit(to) PROVE FlowIInv'
<1>1. Flow!WorkflowIsTrue' /\ FlowWorkspace' /\ FlowFileOK'
  BY FlowNothingIssued DEF Flow!Edit, FlowIInv, FlowWorkspace, FlowFileOK
<1>2. ASSUME NEW v \in Verifiers PROVE FlowHolds(run[v])'
  <2>1. edits' = edits + 1 /\ UNCHANGED <<run, workflow>> /\ edits \in Nat /\ FlowHolds(run[v])
    BY DEF Flow!Edit, FlowIInv, FlowWorkspace, FlowVerifications
  <2> QED BY <2>1 DEF FlowHolds, FlowSameAs, FlowScanned, FlowChecked
<1> QED BY <1>1, <1>2 DEF FlowIInv, FlowVerifications, Flow!Edit

LEMMA FlowVerifyKeeps == ASSUME FlowIInv, NEW v \in Verifiers, Flow!Verify(v) PROVE FlowIInv'
<1>1. Flow!WorkflowIsTrue' /\ FlowWorkspace' /\ FlowFileOK'
  BY FlowNothingIssued DEF Flow!Verify, FlowIInv, FlowWorkspace, FlowFileOK
<1>2. PICK r : r = Flow!Loaded(workflow)
  OBVIOUS
<1>3. FlowIsRun(r) /\ r.step = "scan" /\ r.view = workflow
  BY <1>2 DEF Flow!Loaded, Flow!Idle, FlowIsRun
<1>4. FlowHolds(r)'
  BY <1>3 DEF Flow!Verify, FlowHolds, FlowScanned, FlowChecked, FlowSameAs, FlowIInv, FlowFileOK
<1>5. FlowVerifications'
  BY <1>2, <1>4, FlowOneVerification DEF Flow!Verify, FlowIInv, FlowSameAs
<1> QED BY <1>1, <1>5 DEF FlowIInv

LEMMA FlowScanKeeps ==
  ASSUME FlowIInv, NEW v \in Verifiers, NEW looked, Flow!GuardedScan(v, looked)
  PROVE  FlowIInv'
<1>1. Flow!WorkflowIsTrue' /\ FlowWorkspace' /\ FlowFileOK'
  BY FlowNothingIssued DEF Flow!GuardedScan, FlowIInv, FlowWorkspace, FlowFileOK
<1>2. FlowHolds(run[v]) /\ run[v].step = "scan" /\ UNCHANGED <<code, edits, workflow>>
  BY DEF Flow!GuardedScan, FlowIInv, FlowVerifications
<1>3. PICK r1, r2, r3, r4, r5, r6 : run[v] = FlowRunOf(r1, r2, r3, r4, r5, r6)
  BY <1>2 DEF FlowHolds, FlowIsRun, FlowRunOf
<1>4. PICK r : r = FlowRunOf("check", r2, code, edits, looked, r6)
  OBVIOUS
<1>5. /\ FlowIsRun(r) /\ r.step = "check" /\ r.view = run[v].view /\ r.scanned = code /\ r.at = edits
      /\ run' = [run EXCEPT ![v] = r]
  <2>1. FlowIsRun(r)
    BY <1>4, FlowShaped
  <2>2. PICK x : x = run[v]
    OBVIOUS
  <2>6. x = FlowRunOf(r1, r2, r3, r4, r5, r6)
    BY <1>3, <2>2
  <2>3. PICK q : q = [x EXCEPT !.step = "check", !.scanned = code, !.at = edits, !.looked = looked]
    OBVIOUS
  <2>4. q = FlowRunOf("check", r2, code, edits, looked, r6)
    BY <2>6, <2>3 DEF FlowRunOf
  <2>5. run' = [run EXCEPT ![v] = r]
    <3>1. run = [w \in Verifiers |-> run[w]]
      BY DEF FlowIInv, FlowVerifications
    <3>2. run' = [run EXCEPT ![v] = [run[v] EXCEPT !.step = "check", !.scanned = code, !.at = edits, !.looked = looked]]
      BY <3>1 DEF Flow!GuardedScan
    <3> QED BY <1>4, <2>2, <2>3, <2>4, <3>2
  <2> QED BY <2>1, <2>5, <1>3, <1>4 DEF FlowRunOf
<1>6. FlowHolds(r)'
  BY <1>2, <1>5 DEF FlowHolds, FlowScanned, FlowChecked, FlowSameAs, FlowIInv, FlowWorkspace
<1>7. FlowVerifications'
  BY <1>2, <1>5, <1>6, FlowOneVerification DEF FlowIInv, FlowSameAs
<1> QED BY <1>1, <1>7 DEF FlowIInv

LEMMA FlowCheckKeeps ==
  ASSUME FlowIInv, NEW v \in Verifiers, NEW has, Flow!Check(v, has)
  PROVE  FlowIInv'
<1>1. Flow!WorkflowIsTrue' /\ FlowWorkspace' /\ FlowFileOK'
  BY FlowNothingIssued DEF Flow!Check, FlowIInv, FlowWorkspace, FlowFileOK
<1>2. FlowHolds(run[v]) /\ run[v].step = "check" /\ UNCHANGED <<code, edits, workflow>>
  BY DEF Flow!Check, FlowIInv, FlowVerifications
<1> DEFINE tested == IF ~has THEN "none" ELSE IF code = "broken" THEN "failed" ELSE "passed"
<1>3. PICK r1, r2, r3, r4, r5, r6 : run[v] = FlowRunOf(r1, r2, r3, r4, r5, r6)
  BY <1>2 DEF FlowHolds, FlowIsRun, FlowRunOf
<1>4. PICK r : r = FlowRunOf("mark", r2, r3, r4, r5, tested)
  OBVIOUS
<1>5. /\ FlowIsRun(r) /\ r.step = "mark" /\ r.view = run[v].view /\ r.scanned = run[v].scanned
      /\ r.at = run[v].at /\ r.checks = tested /\ run' = [run EXCEPT ![v] = r]
  <2>1. FlowIsRun(r)
    BY <1>4, FlowShaped
  <2>2. PICK x : x = run[v]
    OBVIOUS
  <2>6. x = FlowRunOf(r1, r2, r3, r4, r5, r6)
    BY <1>3, <2>2
  <2>3. PICK q : q = [x EXCEPT !.step = "mark", !.checks = tested]
    OBVIOUS
  <2>4. q = FlowRunOf("mark", r2, r3, r4, r5, tested)
    BY <2>6, <2>3 DEF FlowRunOf
  <2>5. run' = [run EXCEPT ![v] = r]
    <3>1. run = [w \in Verifiers |-> run[w]]
      BY DEF FlowIInv, FlowVerifications
    <3>2. run' = [run EXCEPT ![v] = [run[v] EXCEPT !.step = "mark", !.checks = tested]]
      BY <3>1 DEF Flow!Check
    <3> QED BY <1>4, <2>2, <2>3, <2>4, <3>2
  <2> QED BY <2>1, <2>5, <1>3, <1>4 DEF FlowRunOf
<1>6. tested = "passed" => code # "broken"
  OBVIOUS
<1> HIDE DEF tested
<1>7. FlowHolds(r)'
  BY <1>2, <1>5, <1>6 DEF FlowHolds, FlowScanned, FlowChecked, FlowSameAs
<1>8. FlowVerifications'
  BY <1>2, <1>5, <1>7, FlowOneVerification DEF FlowIInv, FlowSameAs
<1> QED BY <1>1, <1>8 DEF FlowIInv

LEMMA FlowMarkKeeps == ASSUME FlowIInv, NEW v \in Verifiers, Flow!MarkVerifying(v) PROVE FlowIInv'
<1>1. Flow!WorkflowIsTrue' /\ FlowWorkspace'
  BY FlowNothingIssued DEF Flow!MarkVerifying, FlowIInv, FlowWorkspace
<1>2. FlowHolds(run[v]) /\ run[v].step = "mark" /\ UNCHANGED <<code, edits>>
  BY DEF Flow!MarkVerifying, FlowIInv, FlowVerifications
<1>3. PICK r1, r2, r3, r4, r5, r6 : run[v] = FlowRunOf(r1, r2, r3, r4, r5, r6)
  BY <1>2 DEF FlowHolds, FlowIsRun, FlowRunOf
<1>4. PICK w : w = [r2 EXCEPT !.state = "verifying"]
  OBVIOUS
<1>5. FlowIsWorkflow(w) /\ FlowSameAs(w, r2) /\ run[v].view = r2
  <2>1. FlowIsWorkflow(r2) /\ run[v].view = r2
    BY <1>2, <1>3 DEF FlowHolds, FlowRunOf
  <2>2. PICK w1, w2, w3, w4, w5, w6, w7, w8, w9, w10 :
          r2 = FlowWorkflowOf(w1, w2, w3, w4, w5, w6, w7, w8, w9, w10)
    BY <2>1 DEF FlowIsWorkflow, FlowWorkflowOf
  <2>3. w = FlowWorkflowOf(w1, "verifying", w3, w4, w5, w6, w7, w8, w9, w10)
    BY <1>4, <2>2 DEF FlowWorkflowOf
  <2> QED BY <2>1, <2>2, <2>3, FlowAlike
<1>6. PICK r : r = FlowRunOf("record", w, r3, r4, r5, r6)
  OBVIOUS
<1>7. /\ FlowIsRun(r) /\ r.step = "record" /\ r.view = w /\ r.scanned = run[v].scanned
      /\ r.at = run[v].at /\ r.checks = run[v].checks /\ run' = [run EXCEPT ![v] = r]
  <2>1. FlowIsRun(r)
    BY <1>6, FlowShaped
  <2>2. PICK x : x = run[v]
    OBVIOUS
  <2>6. x = FlowRunOf(r1, r2, r3, r4, r5, r6)
    BY <1>3, <2>2
  <2>3. PICK q : q = [x EXCEPT !.step = "record", !.view = w]
    OBVIOUS
  <2>4. q = FlowRunOf("record", w, r3, r4, r5, r6)
    BY <2>6, <2>3 DEF FlowRunOf
  <2>5. run' = [run EXCEPT ![v] = r]
    <3>1. run = [u \in Verifiers |-> run[u]]
      BY DEF FlowIInv, FlowVerifications
    <3>2. run[v].view = r2
      BY <1>5
    <3>3. run' = [run EXCEPT ![v] = [run[v] EXCEPT !.step = "record", !.view = w]]
      BY <3>1, <3>2, <1>4 DEF Flow!MarkVerifying
    <3> QED BY <1>6, <2>2, <2>3, <2>4, <3>3
  <2> QED BY <2>1, <2>5, <1>3, <1>6 DEF FlowRunOf
<1>8. run'[v].view = w
  BY <1>7 DEF FlowIInv, FlowVerifications
<1>9. workflow.exists /\ FlowSameAs(w, workflow) /\ (workflow' = workflow \/ workflow' = w)
  BY <1>2, <1>5, <1>8 DEF Flow!MarkVerifying, FlowHolds, FlowSameAs
<1>10. FlowIsWorkflow(workflow') /\ FlowSameAs(workflow', workflow) /\ FlowSameAs(w, workflow')
  BY <1>5, <1>9 DEF FlowIInv, FlowFileOK, FlowSameAs
<1>11. FlowFileOK'
  BY <1>10, FlowFileStays DEF FlowIInv
<1>12. FlowHolds(r)'
  BY <1>2, <1>5, <1>7, <1>9, <1>10 DEF FlowHolds, FlowScanned, FlowChecked, FlowSameAs
<1>13. FlowVerifications'
  BY <1>2, <1>7, <1>9, <1>10, <1>12, FlowOneVerification DEF FlowIInv, FlowSameAs
<1> QED BY <1>1, <1>11, <1>13 DEF FlowIInv

LEMMA FlowStopKeeps == ASSUME FlowIInv, NEW v \in Verifiers, Flow!Stop(v) PROVE FlowIInv'
<1>1. Flow!WorkflowIsTrue' /\ FlowWorkspace' /\ FlowFileOK'
  BY FlowNothingIssued DEF Flow!Stop, FlowIInv, FlowWorkspace, FlowFileOK
<1>2. PICK r : r = Flow!Idle
  OBVIOUS
<1>3. FlowHolds(r)'
  BY <1>2 DEF FlowHolds, FlowIsRun, FlowIsWorkflow, Flow!Idle, Flow!NoFile, FlowScanned, FlowChecked
<1>4. FlowVerifications'
  BY <1>2, <1>3, FlowOneVerification DEF Flow!Stop, FlowIInv, FlowSameAs
<1> QED BY <1>1, <1>4 DEF FlowIInv

(* What a verification that may be recorded says of the workspace.           *)
LEMMA FlowVerdictIsTrue ==
  ASSUME NEW r, Flow!Verdict(r), Flow!Evasion(r) # "unknown", r.looked = "everywhere", r.view.threshold,
         r.scanned \in Flow!Codes, r.scanned # "broken", FlowFormed(r.view)
  PROVE  r.scanned \in {"clean", "moved"} \cup (IF r.view.base = "HEAD" THEN Flow!Committed ELSE {})
<1>1. r.view.base # "none" /\ ~(r.scanned \in Flow!Evaded /\ Flow!InDiff(r))
  BY DEF Flow!Verdict, Flow!Evasion
<1>2. "target" \notin Flow!Sees(r)
  <2> SUFFICES ASSUME "target" \in Flow!Sees(r) PROVE FALSE
    OBVIOUS
  <2>1. CASE r.view.found
    BY <2>1 DEF Flow!Verdict, Flow!Remaining, Flow!OriginalTargets, FlowFormed
  <2>2. CASE ~r.view.found
    <3>1. "target" \in Flow!NewFindings(r)
      BY <2>2 DEF Flow!NewFindings
    <3> QED BY <3>1 DEF Flow!Verdict, Flow!Introduced
  <2> QED BY <2>1, <2>2
<1>3. "introduced" \notin Flow!Sees(r)
  <2> SUFFICES ASSUME "introduced" \in Flow!Sees(r) PROVE FALSE
    OBVIOUS
  <2>1. "introduced" \in Flow!NewFindings(r)
    BY DEF Flow!NewFindings
  <2> QED BY <2>1 DEF Flow!Verdict, Flow!Introduced
<1>4. r.scanned # "target" /\ ~Flow!MarkersUndone(r) /\ r.scanned # "introduced"
  BY <1>2, <1>3 DEF Flow!Sees
<1>5. Flow!InDiff(r) => r.scanned \notin Flow!Hidden \cup Flow!Evaded
  BY <1>1, <1>4 DEF Flow!MarkersUndone
<1>6. Flow!InDiff(r) \/ (r.view.base = "HEAD" /\ r.scanned \in Flow!Committed)
  BY <1>1 DEF Flow!InDiff, FlowFormed
<1> QED BY <1>4, <1>5, <1>6 DEF Flow!Codes, Flow!Hidden, Flow!Evaded, Flow!Committed

LEMMA FlowBlameIsTrue ==
  ASSUME NEW r, Flow!NewFindings(r) # {}, FlowFormed(r.view)
  PROVE  r.scanned \in {"introduced", "moved"} \/ r.view.initialCoverage = "partial" \/ r.view.accepted = "suppressed"
<1>1. PICK f \in Flow!Sees(r) : r.view.found => f # "target"
  BY DEF Flow!NewFindings
<1>2. CASE f = "target"
  BY <1>1, <1>2 DEF FlowFormed, Flow!Coverages
<1>3. CASE f # "target"
  BY <1>1, <1>3 DEF Flow!Sees
<1> QED BY <1>2, <1>3

LEMMA FlowCommitKeeps == ASSUME FlowIInv, NEW v \in Verifiers, Flow!Commit(v) PROVE FlowIInv'
<1>1. PICK r : r = run[v]
  OBVIOUS
<1>2. FlowHolds(r) /\ r.step = "record" /\ UNCHANGED <<code, edits>> /\ FlowWorkspace'
  BY <1>1 DEF Flow!Commit, FlowIInv, FlowVerifications, FlowWorkspace
<1>3. issued' = Flow!RecordOf(r, edits = r.at)
  BY <1>1 DEF Flow!Commit
<1>4. PICK w1, w2, w3, w4, w5, w6, w7, w8, w9, w10 :
        r.view = FlowWorkflowOf(w1, w2, w3, w4, w5, w6, w7, w8, w9, w10)
  BY <1>2 DEF FlowHolds, FlowIsWorkflow, FlowWorkflowOf
<1>5. FlowIsWorkflow(workflow') /\ FlowSameAs(workflow', r.view) /\ FlowSameAs(workflow', workflow) /\ workflow.exists
  <2>1. workflow' = [r.view EXCEPT !.state = IF Flow!RecordOf(r, edits = r.at).verified THEN "passed" ELSE "needs_work",
                           !.coverage = Flow!CoverageOf(r), !.gateBlocks = Flow!Remaining(r) \/ Flow!Introduced(r)]
    BY <1>1 DEF Flow!Commit
  <2>2. FlowIsWorkflow(workflow') /\ FlowSameAs(workflow', r.view)
    BY <1>4, <2>1 DEF FlowWorkflowOf, FlowIsWorkflow, FlowSameAs
  <2> QED BY <1>2, <2>2 DEF FlowHolds, FlowSameAs
<1>6. FlowFileOK' /\ FlowFormed(r.view) /\ workflow'.exists
  BY <1>2, <1>5, FlowFileStays DEF FlowIInv, FlowFileOK, FlowHolds, FlowSameAs, FlowFormed
<1>7. FlowVerifications'
  <2>1. PICK q : q = Flow!Idle
    OBVIOUS
  <2>2. FlowHolds(q)'
    BY <2>1 DEF FlowHolds, FlowIsRun, FlowIsWorkflow, Flow!Idle, Flow!NoFile, FlowScanned,
       FlowChecked
  <2> QED BY <1>2, <1>5, <1>6, <2>1, <2>2, FlowOneVerification DEF Flow!Commit, FlowIInv
<1>8. Flow!TargetsStay'
  BY <1>3, <1>5 DEF Flow!TargetsStay, Flow!RecordOf, Flow!OriginalTargets, FlowSameAs
<1>9. Flow!BlamesTheRepair'
  BY <1>3, <1>5, <1>6, FlowBlameIsTrue DEF Flow!BlamesTheRepair, Flow!RecordOf, FlowSameAs
<1>10. Flow!RecordIsTrue'
  <2> SUFFICES ASSUME issued'.verified, issued'.schema = "v3", issued'.afterCoverage = "complete",
                      issued'.steady, workflow'.threshold
               PROVE  issued'.about \in {"clean", "moved"}
                        \cup (IF workflow'.base = "HEAD" THEN Flow!Committed ELSE {})
    BY DEF Flow!RecordIsTrue
  <2>1. Flow!Verdict(r) /\ issued'.about = r.scanned /\ edits = r.at
    BY <1>3 DEF Flow!RecordOf
  <2>2. Flow!Evasion(r) # "unknown" /\ r.looked = "everywhere"
    BY <1>3 DEF Flow!RecordOf, Flow!CoverageOf
  <2>3. r.view.threshold /\ r.view.base = workflow'.base
    BY <1>5 DEF FlowSameAs
  <2>4. r.checks = "passed"
    BY <2>1 DEF Flow!Verdict
  <2>5. r.scanned \in Flow!Codes /\ r.scanned # "broken"
    BY <1>2, <2>1, <2>4 DEF FlowHolds, FlowScanned, FlowChecked
  <2> QED BY <1>6, <2>1, <2>2, <2>3, <2>5, FlowVerdictIsTrue
<1> QED BY <1>2, <1>6, <1>7, <1>8, <1>9, <1>10 DEF FlowIInv, Flow!WorkflowIsTrue

LEMMA FlowNextKeeps == FlowIInv /\ [Flow!Next]_Flow!vars => FlowIInv'
<1> SUFFICES ASSUME FlowIInv, [Flow!Next]_Flow!vars PROVE FlowIInv'
  OBVIOUS
<1>1. CASE Flow!ScanCommand
  BY <1>1, FlowCreateKeeps DEF Flow!ScanCommand
<1>2. CASE Flow!BeginVerification
  BY <1>2, FlowCreateKeeps DEF Flow!BeginVerification
<1>3. CASE UNCHANGED Flow!vars
  BY <1>3 DEF Flow!vars, FlowIInv, FlowFileOK, FlowWorkspace, FlowVerifications, FlowHolds,
     FlowScanned, FlowChecked, Flow!WorkflowIsTrue,
              Flow!RecordIsTrue, Flow!TargetsStay, Flow!BlamesTheRepair
<1> QED BY <1>1, <1>2, <1>3, FlowEditKeeps, FlowVerifyKeeps, FlowScanKeeps, FlowCheckKeeps,
           FlowMarkKeeps, FlowCommitKeeps,
           FlowStopKeeps DEF Flow!Next

-----------------------------------------------------------------------------
(* The command and its case file (RemediationRun).                           *)

RunGood == saved /\ record.verified /\ judged = {}

(* A case operation under way has the fields of one.                         *)
RunIsOp(r) == r = [step |-> r.step, kind |-> r.kind, cases |-> r.cases, status |-> r.status,
                   view |-> r.view, over |-> r.over]
RunShaped ==
  /\ io = [p \in Run!Processes |-> io[p]]
  /\ \A p \in Run!Processes : RunIsOp(io[p])

(* Where the command stands, and which proof it has by then: it marks cases  *)
(* as verified, publishes and ends well only past a record that verified all *)
(* of its targets, and no step after that takes the record back.             *)
RunEarned ==
  /\ pc \in {"verified", "publish"} => proven = targets /\ RunGood
  /\ proven # {} => proven = targets /\ RunGood /\ pc \in {"verified", "publish", "finish", "ended"}
  /\ pc = "finish" /\ plan.verify /\ targets # {} => proven = targets /\ RunGood
  /\ published => proven = targets /\ RunGood /\ pc \in {"finish", "ended"}
  /\ exit # "none" => pc = "ended"
  /\ Run!ExitIsHonest
  /\ pc = "decide" => saved /\ (record.verified <=> judged = {})
  /\ pc \in {"start", "scan"} => targets = {}
  /\ pc = "rescan" => ~plan.verify
  /\ pc = "verified" => queue \subseteq targets

(* What is in the file, in a copy of it and in an operation under way says   *)
(* verified of proven cases only.                                            *)
RunFiled ==
  /\ \A f \in Issues : file[f] = "verified" => f \in proven
  /\ \A p \in Run!Processes : io[p].step # "idle" =>
       /\ \A f \in Issues : io[p].view[f] = "verified" => f \in proven
       /\ io[p].kind = "update" /\ io[p].status = "verified" => io[p].cases \subseteq proven

RunIInv == RunShaped /\ RunEarned /\ RunFiled

-----------------------------------------------------------------------------
LEMMA RunInitHolds == Run!Init => RunIInv
BY DEF Run!Init, RunIInv, RunShaped, RunIsOp, RunEarned, RunFiled, RunGood, Run!ExitIsHonest,
       Run!Processes, Run!Idle, Run!Unread, Run!None, Run!PlanOf, Run!NoPlan

(* The case operations: what each leaves of the file and of the operations.  *)
LEMMA RunBegins ==
  ASSUME NEW p \in Run!Processes, NEW kind, NEW cases, NEW status,
         RunShaped, RunFiled, Run!Begin(p, kind, cases, status),
         kind = "update" /\ status = "verified" => cases \subseteq proven,
         file' = file, proven' = proven
  PROVE  RunShaped' /\ RunFiled'
BY DEF RunShaped, RunIsOp, RunFiled, Run!Begin, Run!Unread, Run!Processes

RunSameCase(w, r) ==
  RunIsOp(w) /\ w.view = r.view /\ w.kind = r.kind /\ w.status = r.status /\ w.cases = r.cases

LEMMA RunStamped ==
  ASSUME NEW r, RunIsOp(r), NEW w
  PROVE  /\ w = [r EXCEPT !.step = "write"] => RunSameCase(w, r)
         /\ w = [r EXCEPT !.over = TRUE] => RunSameCase(w, r) /\ w.step = r.step
<1>1. ASSUME w = [r EXCEPT !.step = "write"] PROVE RunSameCase(w, r)
  BY <1>1 DEF RunIsOp, RunSameCase
<1>2. ASSUME w = [r EXCEPT !.over = TRUE] PROVE RunSameCase(w, r) /\ w.step = r.step
  BY <1>2 DEF RunIsOp, RunSameCase
<1> QED BY <1>1, <1>2

LEMMA RunTruncates ==
  ASSUME NEW p \in Run!Processes, RunShaped, RunFiled, Run!Truncate(p), proven' = proven
  PROVE  RunShaped' /\ RunFiled'
<1>1. ASSUME NEW q \in Run!Processes
      PROVE  /\ RunIsOp(io'[q])
             /\ io'[q].step # "idle" => io[q].step # "idle" /\ RunSameCase(io'[q], io[q])
  <2>1. io'[q] = IF q = p THEN [io[p] EXCEPT !.step = "write"] ELSE io[q]
    BY DEF Run!Truncate, RunShaped
  <2>2. RunIsOp(io[q]) /\ io[p].step = "read"
    BY DEF RunShaped, Run!Truncate
  <2>3. CASE q = p
    BY <2>1, <2>2, <2>3, RunStamped DEF RunSameCase
  <2>4. CASE q # p
    BY <2>1, <2>2, <2>4 DEF RunSameCase
  <2> QED BY <2>3, <2>4
<1>2. io' = [q \in Run!Processes |-> io'[q]] /\ file' = file
  BY DEF Run!Truncate, RunShaped
<1> QED BY <1>1, <1>2 DEF RunShaped, RunFiled, RunSameCase

LEMMA RunFills ==
  ASSUME NEW p \in Run!Processes, RunShaped, RunFiled, Run!Fill(p), proven' = proven
  PROVE  RunShaped' /\ RunFiled'
<1>1. \A f \in Issues : file'[f] = "verified" => f \in proven
  <2> SUFFICES ASSUME NEW f \in Issues, file'[f] = "verified" PROVE f \in proven
    OBVIOUS
  <2>1. Run!Rewritten(p)[f] = "verified" /\ io[p].step # "idle"
    BY DEF Run!Fill
  <2>2. CASE f \notin io[p].cases
    BY <2>1, <2>2 DEF Run!Rewritten, RunFiled
  <2>3. CASE f \in io[p].cases
    BY <2>1, <2>3 DEF Run!Rewritten, RunFiled
  <2> QED BY <2>2, <2>3
<1>2. ASSUME NEW q \in Run!Processes
      PROVE  /\ RunIsOp(io'[q])
             /\ io'[q].step # "idle" => io[q].step # "idle" /\ RunSameCase(io'[q], io[q])
  <2>1. CASE q = p
    BY <2>1 DEF Run!Fill, Run!Idle, RunIsOp, RunSameCase
  <2>2. CASE q # p
    <3>1. io'[q] = IF io[q].step = "write" THEN [io[q] EXCEPT !.over = TRUE] ELSE io[q]
      BY <2>2 DEF Run!Fill
    <3>2. RunIsOp(io[q])
      BY DEF RunShaped
    <3> QED BY <3>1, <3>2, RunStamped DEF RunSameCase
  <2> QED BY <2>1, <2>2
<1>3. io' = [q \in Run!Processes |-> io'[q]]
  BY DEF Run!Fill
<1> QED BY <1>1, <1>2, <1>3 DEF RunShaped, RunFiled, RunSameCase

LEMMA RunClears ==
  ASSUME NEW p \in Run!Processes, RunShaped, RunFiled, io' = [io EXCEPT ![p] = Run!Idle],
         file' = file, proven' = proven
  PROVE  RunShaped' /\ RunFiled'
BY DEF RunShaped, RunIsOp, RunFiled, Run!Idle

(* An action that does no case operation, and at most adds to what is proven.*)
LEMMA RunLeaves ==
  ASSUME RunShaped, RunFiled, io' = io, \A f \in Issues : file'[f] = "verified" => file[f] = "verified",
         proven \subseteq proven'
  PROVE  RunShaped' /\ RunFiled'
BY DEF RunShaped, RunFiled

-----------------------------------------------------------------------------
LEMMA RunEarnedKept ==
  ASSUME RunEarned, [Run!Next]_Run!vars
  PROVE  RunEarned' /\ proven \subseteq proven'
<1> USE DEF RunEarned, RunGood, Run!ExitIsHonest, Run!cli, Run!trees, Run!outputs, Run!store
<1>1. ASSUME NEW o \in SUBSET Run!Flags, NEW unavailable \in BOOLEAN, NEW old \in OldStatuses,
             Run!Invoke(o, unavailable, old)
      PROVE  RunEarned' /\ proven \subseteq proven'
  BY <1>1 DEF Run!Invoke, Run!Throw
<1>2. ASSUME NEW now \in SUBSET Issues, Run!Scan(now)
      PROVE  RunEarned' /\ proven \subseteq proven'
  BY <1>2 DEF Run!Scan
<1>3. ASSUME NEW now \in SUBSET Issues, Run!Rescan(now)
      PROVE  RunEarned' /\ proven \subseteq proven'
  BY <1>3 DEF Run!Rescan
<1>4. CASE Run!UpsertCases
  BY <1>4 DEF Run!UpsertCases
<1>5. ASSUME NEW dirty \in BOOLEAN, NEW added \in BOOLEAN, Run!PrepareTree(dirty, added)
      PROVE  RunEarned' /\ proven \subseteq proven'
  BY <1>5 DEF Run!PrepareTree, Run!Throw
<1>6. CASE Run!MarkNext
  BY <1>6 DEF Run!MarkNext, Run!AfterPhase
<1>7. CASE Run!CaseMissing
  BY <1>7 DEF Run!CaseMissing, Run!Throw
<1>8. ASSUME NEW edit \in Run!Works, Run!FixTurn(edit)
      PROVE  RunEarned' /\ proven \subseteq proven'
  BY <1>8 DEF Run!FixTurn
<1>9. ASSUME NEW j \in Run!Judgements, Run!Judge(j)
      PROVE  RunEarned' /\ proven \subseteq proven'
  BY <1>9 DEF Run!Judge, Run!RecordOf
<1>10. CASE Run!Decide
  BY <1>10 DEF Run!Decide, Run!Throw
<1>11. ASSUME NEW edit \in Run!Works, NEW ends, NEW j \in Run!Judgements, NEW issues \in BOOLEAN,
              Run!RunLoop(edit, ends, j, issues)
       PROVE  RunEarned' /\ proven \subseteq proven'
  BY <1>11 DEF Run!RunLoop, Run!RecordOf
<1>12. ASSUME NEW edit \in Run!Works, NEW url \in BOOLEAN, Run!Publish(edit, url)
       PROVE  RunEarned' /\ proven \subseteq proven'
  BY <1>12 DEF Run!Publish
<1>13. ASSUME NEW failOn \in BOOLEAN, Run!Finish(failOn)
       PROVE  RunEarned' /\ proven \subseteq proven'
  BY <1>13 DEF Run!Finish
<1>14. CASE Run!Interrupted
  BY <1>14 DEF Run!Interrupted, Run!Throw
<1>15. CASE UNCHANGED <<Run!cli, Run!trees, Run!outputs>>
  BY <1>15
<1>16. ASSUME NEW kind, NEW cases, NEW status, Run!WebAsk(kind, cases, status)
       PROVE  RunEarned' /\ proven \subseteq proven'
  BY <1>16, <1>15 DEF Run!WebAsk
<1>17. CASE Run!WebMissing
  BY <1>17, <1>15 DEF Run!WebMissing
<1>18. ASSUME NEW p \in Run!Processes, Run!CaseIO(p)
       PROVE  RunEarned' /\ proven \subseteq proven'
  BY <1>18, <1>15 DEF Run!CaseIO
<1>19. CASE UNCHANGED Run!vars
  BY <1>19, <1>15 DEF Run!vars
<1> HIDE DEF RunEarned
<1> QED BY <1>1, <1>2, <1>3, <1>4, <1>5, <1>6, <1>7, <1>8, <1>9, <1>10, <1>11, <1>12, <1>13,
           <1>14, <1>16, <1>17, <1>18, <1>19 DEF Run!Next

LEMMA RunFiledKept ==
  ASSUME RunIInv, [Run!Next]_Run!vars, proven \subseteq proven', "verified" \notin OldStatuses
  PROVE  RunShaped' /\ RunFiled'
<1> USE DEF RunIInv, Run!cli, Run!trees, Run!outputs, Run!store
<1>0. "cli" \in Run!Processes /\ "web" \in Run!Processes
  BY DEF Run!Processes
<1>1. ASSUME NEW o \in SUBSET Run!Flags, NEW unavailable \in BOOLEAN, NEW old \in OldStatuses,
             Run!Invoke(o, unavailable, old)
      PROVE  RunShaped' /\ RunFiled'
  <2>1. io' = io /\ \A f \in Issues : file'[f] # "verified"
    BY <1>1 DEF Run!Invoke
  <2> QED BY <2>1, RunLeaves
<1>2. CASE io' = io /\ file' = file
  BY <1>2, RunLeaves
<1>3. CASE Run!UpsertCases
  <2>1. Run!Begin("cli", "upsert", targets, Run!None) /\ file' = file /\ proven' = proven
    BY <1>3 DEF Run!UpsertCases
  <2> QED BY <1>0, <2>1, RunBegins
<1>4. CASE Run!MarkNext
  <2>1. CASE queue = {}
    BY <2>1, <1>2, <1>4 DEF Run!MarkNext
  <2>2. CASE queue # {}
    <3>1. PICK f \in queue : Run!Begin("cli", "update", {f}, Run!StatusOf(pc))
      BY <2>2, <1>4 DEF Run!MarkNext
    <3>2. file' = file /\ proven' = proven /\ pc \in {"ready", "fixing", "verified"}
      BY <1>4 DEF Run!MarkNext
    <3>3. Run!StatusOf(pc) = "verified" => pc = "verified"
      BY <3>2 DEF Run!StatusOf
    <3>4. pc = "verified" => {f} \subseteq proven
      BY <3>1 DEF RunEarned
    <3> QED BY <1>0, <3>1, <3>2, <3>3, <3>4, RunBegins
  <2> QED BY <2>1, <2>2
<1>5. CASE Run!CaseMissing
  <2>1. io' = [io EXCEPT !["cli"] = Run!Idle] /\ file' = file /\ proven' = proven
    BY <1>5 DEF Run!CaseMissing
  <2> QED BY <1>0, <2>1, RunClears
<1>6. CASE Run!Interrupted
  <2>1. io' = [io EXCEPT !["cli"] = Run!Idle] /\ file' = file /\ proven' = proven
    BY <1>6 DEF Run!Interrupted
  <2> QED BY <1>0, <2>1, RunClears
<1>7. ASSUME NEW cases, Run!WebAsk("upsert", cases, Run!None)
      PROVE  RunShaped' /\ RunFiled'
  <2>1. Run!Begin("web", "upsert", cases, Run!None) /\ file' = file /\ proven' = proven
    BY <1>7 DEF Run!WebAsk
  <2> QED BY <1>0, <2>1, RunBegins
<1>8. ASSUME NEW cases, NEW status \in {"fixing", "worktree_ready"}, Run!WebAsk("update", cases, status)
      PROVE  RunShaped' /\ RunFiled'
  <2>1. Run!Begin("web", "update", cases, status) /\ file' = file /\ proven' = proven
    BY <1>8 DEF Run!WebAsk
  <2> QED BY <1>0, <2>1, RunBegins
<1>9. CASE Run!WebMissing
  <2>1. io' = [io EXCEPT !["web"] = Run!Idle] /\ file' = file /\ proven' = proven
    BY <1>9 DEF Run!WebMissing
  <2> QED BY <1>0, <2>1, RunClears
<1>10. ASSUME NEW p \in Run!Processes, Run!CaseIO(p)
       PROVE  RunShaped' /\ RunFiled'
  <2>1. proven' = proven /\ (Run!Truncate(p) \/ Run!Fill(p))
    BY <1>10 DEF Run!CaseIO
  <2> QED BY <2>1, RunTruncates, RunFills
<1>11. CASE UNCHANGED Run!vars
  BY <1>2, <1>11 DEF Run!vars
<1>12. ASSUME NEW now \in SUBSET Issues, Run!Scan(now) \/ Run!Rescan(now)
       PROVE  RunShaped' /\ RunFiled'
  BY <1>2, <1>12 DEF Run!Scan, Run!Rescan
<1>13. ASSUME NEW dirty \in BOOLEAN, NEW added \in BOOLEAN, Run!PrepareTree(dirty, added)
       PROVE  RunShaped' /\ RunFiled'
  BY <1>2, <1>13 DEF Run!PrepareTree
<1>14. ASSUME NEW edit \in Run!Works, Run!FixTurn(edit)
       PROVE  RunShaped' /\ RunFiled'
  BY <1>2, <1>14 DEF Run!FixTurn
<1>15. ASSUME NEW j \in Run!Judgements, Run!Judge(j)
       PROVE  RunShaped' /\ RunFiled'
  BY <1>2, <1>15 DEF Run!Judge
<1>16. CASE Run!Decide
  BY <1>2, <1>16 DEF Run!Decide
<1>17. ASSUME NEW edit, NEW ends, NEW j, NEW issues, Run!RunLoop(edit, ends, j, issues)
       PROVE  RunShaped' /\ RunFiled'
  BY <1>2, <1>17 DEF Run!RunLoop
<1>18. ASSUME NEW edit, NEW url, Run!Publish(edit, url)
       PROVE  RunShaped' /\ RunFiled'
  BY <1>2, <1>18 DEF Run!Publish
<1>19. ASSUME NEW failOn, Run!Finish(failOn)
       PROVE  RunShaped' /\ RunFiled'
  BY <1>2, <1>19 DEF Run!Finish
<1> HIDE DEF RunIInv
<1> QED BY <1>1, <1>3, <1>4, <1>5, <1>6, <1>7, <1>8, <1>9, <1>10, <1>11, <1>12, <1>13, <1>14,
           <1>15, <1>16, <1>17, <1>18, <1>19 DEF Run!Next

LEMMA RunNextKeeps ==
  ASSUME "verified" \notin OldStatuses
  PROVE  RunIInv /\ [Run!Next]_Run!vars => RunIInv'
BY RunEarnedKept, RunFiledKept DEF RunIInv

LEMMA RunReportsTruth == RunIInv => Run!RemediationIsHonest
BY DEF RunIInv, RunEarned, RunFiled, RunGood, Run!RemediationIsHonest, Run!VerifiedIsProven

-----------------------------------------------------------------------------
(* The composition: a behaviour of the parts is one of each part.            *)

LEMMA EveryPartSteps ==
  [Next]_<<subject, runVars, syncVars, scanVars, flowVars, verifyVars>> =>
    /\ [Run!Next]_Run!vars /\ [Sync!Next]_Sync!vars /\ [Scan!Next]_Scan!vars
    /\ [Flow!Next]_Flow!vars /\ [Verify!Next]_Verify!vars
<1>1. UNCHANGED syncVars => UNCHANGED Sync!vars
  BY DEF syncVars, Sync!vars, Sync!repo, Sync!loop
<1>2. UNCHANGED scanVars => UNCHANGED Scan!vars
  BY DEF scanVars, Scan!vars
<1>3. UNCHANGED flowVars => UNCHANGED Flow!vars
  BY DEF flowVars, Flow!vars
<1>4. UNCHANGED verifyVars => UNCHANGED Verify!vars
  BY DEF verifyVars, Verify!vars, Verify!scan, Verify!env, Verify!reproduction
<1>5. UNCHANGED runVars => UNCHANGED Run!vars
  BY DEF runVars, Run!vars, Run!cli, Run!trees, Run!outputs, Run!store
<1> QED BY <1>1, <1>2, <1>3, <1>4, <1>5 DEF Next

LEMMA ReverifyInvariant == Spec => []ReverifyIInv
<1>1. Init => ReverifyIInv
  BY ReverifyInitHolds DEF Init
<1> QED BY <1>1, ReverifyIInvKept, EveryPartSteps, PTL DEF Spec

(* The state of a re-verification keeps the values its module gives it       *)
(* (security/reverify.ts).                                                   *)
THEOREM ReverifyTyped == Spec => []ReverifyTypeOK
<1>1. ReverifyIInv => ReverifyTypeOK
  BY DEF ReverifyIInv
<1> QED BY <1>1, ReverifyInvariant, PTL

(* Whatever the engines, the checks and the file system do, and whatever is  *)
(* claimed: an ok is earned by what was seen here, code under review never   *)
(* ran with the credentials, and they, the worktree and the change are back  *)
(* in place at the end (security/reverify.ts, security/reproduceInCi.ts).    *)
THEOREM ReverifyCorrect == Spec => []ReverifyIsSound
<1>1. ReverifyIInv => ReverifyIsSound
  BY ReverifyEarns DEF ReverifyIsSound
<1> QED BY <1>1, ReverifyInvariant, PTL

(* A rebase that conflicts, throws, is abandoned or lands keeps the          *)
(* executor's commits and the work it had not committed, and the commit the  *)
(* loop judges on is the one the branch stands on, for any files, any number *)
(* of conflicts and any moves of upstream (remediation/rebase.ts).           *)
THEOREM RebaseCorrect == Spec => []RebaseKeepsWork
<1>1. Init => RebaseIInv
  BY RebaseInitHolds DEF Init
<1>2. RebaseIInv => RebaseKeepsWork
  BY RebaseWorkKept DEF RebaseKeepsWork
<1> QED BY <1>1, <1>2, RebaseNextKeeps, EveryPartSteps, PTL DEF Spec

(* A gate passes, and a finding counts as resolved, only on engines that     *)
(* looked at all there was, for any engines, lines, suppressions and failures*)
(* of a scanner (remediation/scannerSuite.ts).                               *)
THEOREM ScanCorrect == Spec => []ScanIsComplete
<1>1. Init => ScanIInv
  BY ScanInitHolds DEF Init
<1>2. ScanIInv => ScanIsComplete
  BY DEF ScanIInv, ScanIsComplete
<1> QED BY <1>1, <1>2, ScanNextKeeps, EveryPartSteps, PTL DEF Spec

(* The record of a verified workflow is about its own targets and true of    *)
(* the code it names, with any number of verifications racing each other and *)
(* the editing of the code (security/workflow.ts).                           *)
THEOREM WorkflowCorrect == Spec => []WorkflowIsTrue
<1>1. Init => FlowIInv
  BY FlowInitHolds DEF Init
<1>2. FlowIInv => WorkflowIsTrue
  BY DEF FlowIInv, WorkflowIsTrue
<1> QED BY <1>1, <1>2, FlowNextKeeps, EveryPartSteps, PTL DEF Spec

(* However the command's changes of the case file interleave with those the  *)
(* web client asks for, and wherever the command is stopped: a case shown as *)
(* verified has a saved record of this run that verified it, and nothing is  *)
(* published and no run that was to verify ends well without one for every   *)
(* target (commands/dvalin.ts, remediation/cases.ts).  The file the command  *)
(* begins with shows no case as verified: those are an earlier run's.        *)
THEOREM RemediationCorrect ==
  ASSUME "verified" \notin OldStatuses PROVE Spec => []RemediationIsHonest
<1>1. Init => RunIInv
  BY RunInitHolds DEF Init
<1>2. RunIInv => RemediationIsHonest
  BY RunReportsTruth DEF RemediationIsHonest
<1>3. RunIInv /\ [Run!Next]_Run!vars => RunIInv'
  BY RunNextKeeps
<1> QED BY <1>1, <1>2, <1>3, EveryPartSteps, PTL DEF Spec
=============================================================================
