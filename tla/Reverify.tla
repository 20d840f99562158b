------------------------------ MODULE Reverify ------------------------------
(* Re-verification of a claimed fix record against a base commit, as CI runs *)
(* it (security/reverify.ts), with the reproduction it re-runs by reverting  *)
(* the fix in place (security/reproduceInCi.ts) and the signatures it checks *)
(* (security/fixRecordSignature.ts).                                         *)
EXTENDS Naturals, FiniteSets

CONSTANTS
  Targets,          \* findings the claim may name
  Fix               \* files of the change outside its reproduction tests

VARIABLES
  step,
  world,            \* what is so: the base, the change under review, the claim
  seen,             \* targets the base scan reported, the head scan reported
  engines,          \* did the targets' engine complete on base, on head
  scratch,          \* the detached worktree is there
  secrets,          \* the scanners' credentials are in process.env
  exposed,          \* history: code of the change ran while they were there
  reverted,         \* files of the fix now as they are on the base
  todo,             \* those still to be reverted or restored
  repro,            \* what the tests did without the fix, and with it
  checks,
  report

scan == <<seen, engines, scratch>>
env == <<secrets, exposed>>
reproduction == <<reverted, todo, repro>>
vars == <<step, world, scan, env, reproduction, checks, report>>

(* How the change falls short, if it does; as in SecurityWorkflow, one       *)
(* fault at a time.                                                          *)
Faults == {"none", "target", "hidden", "evaded", "introduced", "broken"}

(* The claim: its hash and verdict re-derive; a signature is valid and, if   *)
(* the reader names keys, from one of them; its reproduction names tests.    *)
Claims == [targets : SUBSET Targets, sound : BOOLEAN, signed : {"no", "bad", "other", "trusted"},
           repro : {"none", "malformed", "drifted", "given"}]
Worlds == [base : SUBSET Targets, fault : Faults, claim : Claims, keys : BOOLEAN,
           runner : BOOLEAN, testsFail : BOOLEAN]

NoWorld == [base |-> {}, fault |-> "none", keys |-> FALSE, runner |-> FALSE, testsFail |-> FALSE,
            claim |-> [targets |-> {}, sound |-> FALSE, signed |-> "no", repro |-> "none"]]
Nothing == [without |-> "unknown", with |-> "unknown", status |-> "none"]

Init ==
  /\ step = "start" /\ world = NoWorld
  /\ seen = [base |-> {}, head |-> {}] /\ engines = [base |-> FALSE, head |-> FALSE]
  /\ scratch = FALSE /\ secrets = TRUE /\ exposed = FALSE
  /\ reverted = {} /\ todo = {} /\ repro = Nothing
  /\ checks = "none" /\ report = "none"

-----------------------------------------------------------------------------
(* checkFixRecordSignatures: a signature that does not verify fails whoever  *)
(* is trusted; naming keys makes one of them necessary.                      *)
SignaturesHold(claim, keys) == claim.signed # "bad" /\ (keys => claim.signed = "trusted")

(* verifyFixRecord.                                                          *)
ClaimHolds(claim, keys) == claim.sound /\ SignaturesHold(claim, keys)

(* takeSigningKey, then reverifyFixRecord up to the base commit, and the     *)
(* worktree it is scanned in.                                                *)
Start(w, resolves) ==
  /\ step = "start"
  /\ world' = w
  /\ IF resolves THEN step' = "base" /\ scratch' = TRUE ELSE step' = "threw" /\ UNCHANGED scratch
  /\ UNCHANGED <<seen, engines, env, reproduction, checks, report>>

(* The base, under its own configuration; the worktree goes whatever happens *)
ScanBase(completes) ==
  /\ step = "base"
  /\ seen' = [seen EXCEPT !.base = IF completes THEN world.base ELSE {}]
  /\ engines' = [engines EXCEPT !.base = completes]
  /\ scratch' = FALSE /\ step' = "head"
  /\ UNCHANGED <<world, env, reproduction, checks, report>>

(* Mutant: the head is scanned with the change's own suppressions in place.  *)
StillThereSilenced == IF world.fault = "target" THEN world.claim.targets \cap world.base ELSE {}

(* The head, with the suppressions of the change undone.                     *)
StillThere == IF world.fault \in {"target", "hidden"} THEN world.claim.targets \cap world.base ELSE {}

ScanHead(completes) ==
  /\ step = "head"
  /\ seen' = [seen EXCEPT !.head = IF completes THEN StillThere ELSE {}]
  /\ engines' = [engines EXCEPT !.head = completes]
  /\ step' = "withhold"
  /\ UNCHANGED <<world, scratch, env, reproduction, checks, report>>

(* withholdEnv.                                                              *)
Withhold ==
  /\ step = "withhold"
  /\ secrets' = FALSE /\ step' = "checks"
  /\ UNCHANGED <<world, scan, exposed, reproduction, checks, report>>

(* Code of the change runs: its tests and build inherit the environment.     *)
RunsCode == exposed' = (exposed \/ secrets)

Checks(has) ==
  /\ step = "checks"
  /\ RunsCode
  /\ checks' = IF ~has THEN "none" ELSE IF world.fault = "broken" THEN "failed" ELSE "passed"
  /\ step' = IF world.claim.repro = "none" THEN "restore-env" ELSE "repro"
  /\ UNCHANGED <<world, scan, secrets, reproduction, report>>

(* rerunReproduction, up to the first write: no runner, a malformed claim,   *)
(* tests that differ from the claimed ones, or nothing but tests changed.    *)
Capture ==
  /\ step = "repro"
  /\ IF ~world.runner
     THEN repro' = [repro EXCEPT !.status = "not-attempted"] /\ step' = "restore-env" /\ UNCHANGED todo
     ELSE IF world.claim.repro # "given" \/ Fix = {}
     THEN repro' = [repro EXCEPT !.status = "not-confirmed"] /\ step' = "restore-env" /\ UNCHANGED todo
     ELSE todo' = Fix /\ step' = "revert" /\ UNCHANGED repro
  /\ UNCHANGED <<world, scan, env, reverted, checks, report>>

(* One file after the other; a failure goes to the finally block.            *)
RevertFile(f, fails) ==
  /\ step = "revert" /\ f \in todo
  /\ IF fails
     THEN step' = "undo" /\ todo' = Fix /\ UNCHANGED reverted
     ELSE reverted' = reverted \cup {f} /\ todo' = todo \ {f} /\ UNCHANGED step
  /\ UNCHANGED <<world, scan, env, repro, checks, report>>

TestsNow == IF reverted = {} THEN (IF world.fault = "broken" THEN "failed" ELSE "passed")
            ELSE IF reverted = Fix /\ world.testsFail THEN "failed" ELSE "passed"

RunWithout(fails) ==
  /\ step = "revert" /\ todo = {}
  /\ RunsCode
  /\ IF fails THEN step' = "undo" /\ UNCHANGED repro
     ELSE step' = "put-back" /\ repro' = [repro EXCEPT !.without = TestsNow]
  /\ todo' = Fix
  /\ UNCHANGED <<world, scan, secrets, reverted, checks, report>>

(* Mutant: a failure skips the restoration.                                  *)
RestoreFileUnlessFailed(f) ==
  /\ step \in {"put-back", "undo"} /\ f \in todo
  /\ reverted' = IF step = "undo" THEN reverted ELSE reverted \ {f}
  /\ todo' = todo \ {f}
  /\ UNCHANGED <<step, world, scan, env, repro, checks, report>>

RestoreFile(f) ==
  /\ step \in {"put-back", "undo"} /\ f \in todo
  /\ reverted' = reverted \ {f} /\ todo' = todo \ {f}
  /\ UNCHANGED <<step, world, scan, env, repro, checks, report>>

(* A write of the restoration fails: the rest is not restored.               *)
RestoreFails ==
  /\ step \in {"put-back", "undo"} /\ todo # {}
  /\ step' = "unrestored"
  /\ UNCHANGED <<world, scan, env, reproduction, checks, report>>

RunWith ==
  /\ step = "put-back" /\ todo = {}
  /\ RunsCode
  /\ repro' = [repro EXCEPT !.with = TestsNow,
                 !.status = IF repro.without = "failed" /\ TestsNow = "passed" THEN "confirmed" ELSE "not-confirmed"]
  /\ step' = "restore-env"
  /\ UNCHANGED <<world, scan, secrets, reverted, todo, checks, report>>

(* The finally block of the checks, which also follows their failures.       *)
RestoreEnv ==
  /\ \/ step = "restore-env" /\ step' = "judge"
     \/ step = "undo" /\ todo = {} /\ step' = "threw"
     \/ step = "unrestored" /\ step' = "threw-unrestored"
  /\ secrets' = TRUE
  /\ UNCHANGED <<world, scan, exposed, reproduction, checks, report>>

(* Mutant: a target whose engine did not complete on the head is taken as    *)
(* gone.                                                                     *)
KnownGoneAlways == TRUE

Reproduced == world.claim.targets \cap seen.base
KnownGone == Reproduced = {} \/ engines.head

(* buildFixRecord over what was seen here; the re-run reproduction is one of *)
(* the checks.                                                               *)
RecordVerified ==
  /\ seen.head \cap Reproduced = {}
  /\ ~(world.fault = "introduced" /\ engines.head)
  /\ world.fault # "evaded"
  /\ checks # "failed" /\ repro.with # "failed"
  /\ checks = "passed" \/ repro.with = "passed"

(* ok: not one reason.                                                       *)
Judge ==
  /\ step = "judge" /\ step' = "done"
  /\ report' = IF /\ world.claim.targets \subseteq seen.base
                  /\ KnownGone
                  /\ RecordVerified
                  /\ ClaimHolds(world.claim, world.keys)
                  /\ world.claim.repro # "none" => repro.status = "confirmed"
               THEN "ok" ELSE "refused"
  /\ UNCHANGED <<world, scan, env, reproduction, checks>>

(* An await throws: the finally blocks run.                                  *)
Throw ==
  /\ \/ step = "base" /\ scratch' = FALSE /\ step' = "threw" /\ UNCHANGED secrets
     \/ step = "head" /\ step' = "threw" /\ UNCHANGED <<scratch, secrets>>
     \/ step \in {"checks", "repro"} /\ secrets' = TRUE /\ step' = "threw" /\ UNCHANGED scratch
  /\ UNCHANGED <<world, seen, engines, exposed, reproduction, checks, report>>

Next ==
  \/ step = "start" /\ \E w \in Worlds, resolves \in BOOLEAN : Start(w, resolves)
  \/ \E b \in BOOLEAN : ScanBase(b) \/ ScanHead(b) \/ Checks(b) \/ RunWithout(b)
  \/ Withhold \/ Capture \/ RestoreFails \/ RunWith \/ RestoreEnv \/ Judge \/ Throw
  \/ \E f \in Fix : RestoreFile(f) \/ (\E fails \in BOOLEAN : RevertFile(f, fails))

Spec == Init /\ [][Next]_vars

-----------------------------------------------------------------------------
(* A report that says ok is earned here: every claimed target was on the     *)
(* base and is gone without having been hidden or moved, nothing severe came *)
(* in its place as far as the engines looked, the base's checks pass, the    *)
(* claim re-derives under the keys the reader trusts, and a claimed          *)
(* reproduction fails without the fix.                                       *)
OkIsEarned ==
  report = "ok" =>
    /\ world.claim.targets \subseteq world.base
    /\ world.fault \notin {"evaded", "broken"}
    /\ world.claim.targets # {} => world.fault = "none"
    /\ world.claim.sound /\ (world.keys => world.claim.signed = "trusted")
    /\ world.claim.repro # "none" => world.testsFail /\ world.runner

(* Code under review never runs with the credentials in its environment, and *)
(* however the run ends, they are back, the worktree is gone, and the change *)
(* is in place again unless a write of the restoration failed.               *)
LeavesNoTrace ==
  /\ ~exposed
  /\ step \in {"done", "threw", "threw-unrestored"} => secrets /\ ~scratch
  /\ step \in {"done", "threw"} => reverted = {}

(* Re-verification reports what it re-derived and leaves nothing behind.     *)
ReverifyIsSound == OkIsEarned /\ LeavesNoTrace
=============================================================================
