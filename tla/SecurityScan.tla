---------------------------- MODULE SecurityScan ----------------------------
(* A scan of the workspace and what is concluded from it: the engines side   *)
(* by side (remediation/scannerSuite.ts, localScan.ts, sarif.ts), the scope  *)
(* of a diff (diffScope.ts), the suppressions, the baseline, the delta, the  *)
(* coverage and the gate (security/contracts.ts, baseline.ts,                *)
(* suppressions.ts), as `dvalin scan` and `dvalin baseline` run them         *)
(* (commands/security.ts).                                                   *)
EXTENDS Naturals, FiniteSets

CONSTANTS
  Lines,
  Selections       \* sets of engines a caller may ask for

VARIABLES
  stage,           \* "idle", "scanning", "scanned", "judged"
  tree,            \* the findings that really are in the workspace
  installed,       \* commands on the PATH
  request,         \* engines selected, and the lines in scope
  outcome,         \* per engine
  report,          \* the assembled result
  accepted,        \* the baseline file
  judgement        \* what the last scan with a gate concluded

vars == <<stage, tree, installed, request, outcome, report, accepted, judgement>>

Engines == UNION Selections
External == Engines \ {"builtin"}
CommandOf(e) == IF e \in {"snyk-code", "snyk-oss"} THEN "snyk" ELSE e
Commands == {CommandOf(e) : e \in External}

(* An engine reports one rule in one file: its findings have one target     *)
(* fingerprint, and differ by line.  All of them reach the gate's threshold.*)
Findings == [engine : Engines, line : Lines]
Of(e, found) == {f \in found : f.engine = e}

Pending == [status |-> "pending", found |-> {}, skipped |-> FALSE, ignored |-> FALSE, deferred |-> FALSE]
Empty(status) == [Pending EXCEPT !.status = status]

NoRequest == [engines |-> {}, scope |-> Lines]
NoReport == [engines |-> {}, completed |-> {}, found |-> {}, suppressed |-> {},
             skipped |-> FALSE, ignored |-> FALSE, deferred |-> FALSE, scoped |-> FALSE]
NoBaseline == [written |-> FALSE, engines |-> {}, found |-> {}]
NoJudgement == [made |-> FALSE, passed |-> FALSE, mode |-> "all", threshold |-> FALSE,
                resolved |-> {}, unknown |-> {}, coverage |-> "unknown", excluded |-> FALSE]

Init ==
  /\ stage = "idle" /\ tree = {} /\ installed = {}
  /\ request = NoRequest /\ outcome = [e \in Engines |-> Pending]
  /\ report = NoReport /\ accepted = NoBaseline /\ judgement = NoJudgement

-----------------------------------------------------------------------------
(* installDvalinScanner: under the policy, and only for an engine that has  *)
(* an installer.                                                            *)
Install(e, allowed, works) ==
  /\ stage = "idle" /\ e \in External
  /\ installed' = IF allowed /\ works THEN installed \cup {CommandOf(e)} ELSE installed
  /\ UNCHANGED <<stage, tree, request, outcome, report, accepted, judgement>>

(* runDvalinScanSuite, up to the engines.  The code has changed since the   *)
(* last scan.                                                               *)
Request(engines, scope, present) ==
  /\ stage = "idle"
  /\ stage' = "scanning" /\ tree' = present
  /\ request' = [engines |-> engines, scope |-> scope]
  /\ outcome' = [e \in Engines |-> Pending]
  /\ UNCHANGED <<installed, report, accepted, judgement>>

Awaited(e) == stage = "scanning" /\ e \in request.engines /\ outcome[e].status = "pending"

(* runLocalSecurityScan: only lines in scope are read; past the caps, and   *)
(* for a file it cannot read, it skips and counts.                          *)
Builtin(cut) ==
  /\ Awaited("builtin")
  /\ LET seen == {f \in Of("builtin", tree) : f.line \in request.scope}
     IN  /\ cut \subseteq seen
         /\ outcome' = [outcome EXCEPT !["builtin"] =
              [Empty("completed") EXCEPT !.found = seen \ cut, !.skipped = cut # {}]]
  /\ UNCHANGED <<stage, tree, installed, request, report, accepted, judgement>>

(* The local scan throws (the ignore file, the directory walk): the scan is *)
(* rejected, whatever the engines still do.                                 *)
BuiltinThrows ==
  /\ Awaited("builtin")
  /\ stage' = "idle" /\ outcome' = [e \in Engines |-> Pending] /\ request' = NoRequest
  /\ UNCHANGED <<tree, installed, report, accepted, judgement>>

(* Engines of one command take turns.                                       *)
Turn(e) == e = "snyk-oss" => ~Awaited("snyk-code")

(* parseSarifForRemediation: the engine's own suppressions are dropped and  *)
(* counted; results past the cap or without a safe path are skipped and     *)
(* counted.                                                                 *)
Parsed(found, cut, ignored, deferred) ==
  [Empty("completed") EXCEPT !.found = found \ (cut \cup ignored),
     !.skipped = cut # {}, !.ignored = ignored # {}, !.deferred = deferred]

(* codeqlPlan: what it has no build for, or did not get to see, is deferred *)
CanDefer(e) == e = "codeql"

(* Mutant: a tool that failed counts as a tool that found nothing.          *)
EngineForgiven(e, runs, unseen, cut, ignored) ==
  /\ Awaited(e) /\ e \in External /\ Turn(e)
  /\ unseen \cup cut \cup ignored \subseteq Of(e, tree)
  /\ unseen # {} => CanDefer(e)
  /\ outcome' = [outcome EXCEPT ![e] =
       IF CommandOf(e) \notin installed THEN Empty("missing")
       ELSE IF ~runs THEN Empty("completed")
       ELSE Parsed(Of(e, tree) \ unseen, cut, ignored, unseen # {})]
  /\ UNCHANGED <<stage, tree, installed, request, report, accepted, judgement>>

(* runExternalEngine: missing; stopped by the policy before any step, an    *)
(* exit code that is not accepted, or an unreadable report; or read.        *)
Engine(e, runs, unseen, cut, ignored) ==
  /\ Awaited(e) /\ e \in External /\ Turn(e)
  /\ unseen \cup cut \cup ignored \subseteq Of(e, tree)
  /\ unseen # {} => CanDefer(e)
  /\ outcome' = [outcome EXCEPT ![e] =
       IF CommandOf(e) \notin installed THEN Empty("missing")
       ELSE IF ~runs THEN Empty("error")
       ELSE Parsed(Of(e, tree) \ unseen, cut, ignored, unseen # {})]
  /\ UNCHANGED <<stage, tree, installed, request, report, accepted, judgement>>

Any(field) == \E e \in request.engines : outcome[e][field]

(* The result, in the order of the engines and cut down to the scope.       *)
Assemble ==
  /\ stage = "scanning" /\ \A e \in request.engines : ~Awaited(e)
  /\ stage' = "scanned"
  /\ report' = [engines |-> request.engines,
                completed |-> {e \in request.engines : outcome[e].status = "completed"},
                found |-> {f \in UNION {outcome[e].found : e \in request.engines} : f.line \in request.scope},
                suppressed |-> {},
                skipped |-> Any("skipped"), ignored |-> Any("ignored"), deferred |-> Any("deferred"),
                scoped |-> request.scope # Lines]
  /\ UNCHANGED <<tree, installed, request, outcome, accepted, judgement>>

-----------------------------------------------------------------------------
(* deriveCoverage.                                                          *)
Coverage(r) ==
  IF r.engines = {} THEN "unknown"
  ELSE IF r.completed # r.engines \/ r.deferred \/ r.skipped \/ r.scoped THEN "partial"
  ELSE "complete"

Excluded(r) == r.ignored \/ r.suppressed # {}

(* applySecuritySuppressions: the active ones; expired ones do nothing.     *)
Suppress(active) == [report EXCEPT !.found = @ \ active, !.suppressed = active]

(* compareWithBaseline.                                                     *)
Hole(r) == r.completed # r.engines \/ ~(accepted.engines \subseteq r.engines)

(* Mutant: an absent finding is resolved, whoever looked.                   *)
CoversAlways(r, f) == TRUE

Covers(r, f) == Hole(r) => f.engine \in r.completed

Unresolved(r) == accepted.found \ (r.found \cup r.suppressed)
Added(r) == r.found \ accepted.found
Known(f) == \E b \in accepted.found : b.engine = f.engine

New(r) == {f \in Added(r) : ~Known(f)}
Reopened(r) == {f \in Added(r) : Known(f)}

(* Mutant: an occurrence with a precedent passes as an old one.             *)
ConsideredNewOnly(r, mode) == IF mode = "new" THEN New(r) ELSE r.found

(* evaluateSecurityGate.                                                    *)
Considered(r, mode) == IF mode = "new" THEN New(r) \cup Reopened(r) ELSE r.found

(* executeSecurityScan, from the result on: a gate on new findings needs a  *)
(* baseline, and throws without one.  A scan of a diff is only asked for by *)
(* the dvalin command, whose gate is on what is left of the scan.           *)
Judge(mode, threshold, active) ==
  /\ stage = "scanned" /\ active \subseteq report.found
  /\ report.scoped => mode = "all" /\ active = {}
  /\ IF mode = "new" /\ ~accepted.written
     THEN stage' = "idle" /\ judgement' = NoJudgement
     ELSE LET r == Suppress(active)
          IN  /\ stage' = "judged"
              /\ judgement' =
                   [made |-> TRUE, mode |-> mode, threshold |-> threshold,
                    passed |-> threshold => Considered(r, mode) = {},
                    resolved |-> {f \in Unresolved(r) : mode = "new" /\ Covers(r, f)},
                    unknown |-> {f \in Unresolved(r) : mode = "new" /\ ~Covers(r, f)},
                    coverage |-> Coverage(r), excluded |-> Excluded(r)]
  /\ UNCHANGED <<tree, installed, request, outcome, report, accepted>>

Done ==
  /\ stage = "judged"
  /\ stage' = "idle" /\ judgement' = NoJudgement /\ report' = NoReport
  /\ request' = NoRequest /\ outcome' = [e \in Engines |-> Pending]
  /\ UNCHANGED <<tree, installed, accepted>>

(* `dvalin baseline`: what the suppressed result still shows is accepted.   *)
WriteBaseline(active) ==
  /\ stage = "scanned" /\ request.scope = Lines /\ active \subseteq report.found
  /\ accepted' = [written |-> TRUE, engines |-> report.engines, found |-> report.found \ active]
  /\ stage' = "idle" /\ report' = NoReport
  /\ request' = NoRequest /\ outcome' = [e \in Engines |-> Pending]
  /\ UNCHANGED <<tree, installed, judgement>>

AtMostOne(found) == {{}} \cup {{f} : f \in found}

Next ==
  \/ \E e \in External, allowed, works \in BOOLEAN : Install(e, allowed, works)
  \/ \E engines \in Selections, scope \in {Lines} \cup {{l} : l \in Lines} :
       \E present \in SUBSET {f \in Findings : f.engine \in engines} : Request(engines, scope, present)
  \/ \E cut \in AtMostOne(Of("builtin", tree)) : Builtin(cut)
  \/ BuiltinThrows
  \/ \E e \in External, runs \in BOOLEAN :
       \E unseen, cut, ignored \in AtMostOne(Of(e, tree)) : Engine(e, runs, unseen, cut, ignored)
  \/ Assemble
  \/ \E mode \in {"all", "new"}, threshold \in BOOLEAN, active \in AtMostOne(report.found) :
       Judge(mode, threshold, active)
  \/ \E active \in AtMostOne(report.found) : WriteBaseline(active)
  \/ Done

Spec == Init /\ [][Next]_vars

-----------------------------------------------------------------------------
(* A gate that passes on complete coverage with nothing excluded means that *)
(* every finding of the selected engines that is in the workspace is one    *)
(* the baseline accepted, or, for a gate on everything, that there is none: *)
(* whatever failed, was missing, capped or deferred is in the coverage.     *)
PassIsClean ==
  judgement.passed /\ judgement.threshold /\ judgement.coverage = "complete" /\ ~judgement.excluded
    => tree \subseteq IF judgement.mode = "new" THEN accepted.found ELSE {}

(* A baseline finding called resolved is gone from the workspace, unless    *)
(* its own engine says that it held something back; and one that an engine  *)
(* which did not complete would have found is never called resolved.        *)
ResolvedIsGone ==
  \A f \in judgement.resolved :
    /\ f.engine \in report.engines => f.engine \in report.completed
    /\ f \in tree => report.scoped \/ report.skipped \/ report.ignored \/ report.deferred

(* Neither a gate that passes nor a finding called resolved forgets what an *)
(* engine did not look at.                                                  *)
ScanIsComplete == PassIsClean /\ ResolvedIsGone
=============================================================================
