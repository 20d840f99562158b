------------------------------ MODULE Headless ------------------------------
(* A governed turn with nobody watching (harness/run.ts), as `dvalincode     *)
(* run` (commands/run.ts) and the task tool of the MCP server (mcp/server.ts *)
(* dvalin_run_task) start it: which limits it gets, what it reports of the   *)
(* scans and fix records of the turn (harness/verification.ts,               *)
(* security/fixRecordStore.ts) and the exit code.  The turn itself is taken  *)
(* as it is seen from here; AgentTurn is about its inside.                   *)
EXTENDS Naturals, Sequences, FiniteSets

CONSTANTS
  DefaultLimit,  \* what a run gets of iterations or minutes when nobody says
  MaxAsked,      \* bound: the largest limit somebody asks for
  ListLimit,     \* how many records the store lists
  MaxRecords     \* bound: fix records filed

VARIABLES
  run,           \* the run under way
  store,         \* the fix records, oldest first
  result,        \* HarnessRunExecution of the last run
  truth          \* history: what the last run really came to

vars == <<run, store, result, truth>>

(* UNATTENDED_PERMISSION_RANK, and no mode at all.                           *)
Plan == 0
Auto == 1
Bypass == 2
Nothing == 9
Modes == {Plan, Auto, Bypass}

Statuses == {"unknown", "partial", "complete"}
CoverageRank(s) == CASE s = "unknown" -> 0 [] s = "partial" -> 1 [] s = "complete" -> 2

(* One ceiling in a policy at a time.                                        *)
Says == [ceiling : Modes \cup {Nothing}, cap : {Nothing}] \cup [ceiling : {Nothing}, cap : 1 .. MaxAsked]

Smaller(a, b) == IF a <= b THEN a ELSE b

Ready == [step |-> "ready", perm |-> Auto, limit |-> DefaultLimit, scans |-> {},
          known |-> 0, begun |-> FALSE, aborts |-> {}, report |-> FALSE, stop |-> "done"]
NoTruth == [ceiling |-> Nothing, cap |-> Nothing, done |-> FALSE, saved |-> FALSE, filed |-> {}]
NoResult == [exit |-> 0, ok |-> FALSE, stop |-> "error", coverage |-> {}, credited |-> {}]

Init ==
  /\ run = Ready /\ store = <<>> /\ result = NoResult /\ truth = NoTruth

-----------------------------------------------------------------------------
(* What is collected (createVerificationCollector.collect).                  *)

(* Mutant: one complete scan speaks for the others.                          *)
BestOf(statuses) == CHOOSE s \in statuses : \A t \in statuses : CoverageRank(t) <= CoverageRank(s)

WeakestOf(statuses) == CHOOSE s \in statuses : \A t \in statuses : CoverageRank(s) <= CoverageRank(t)

(* listFixRecords: of this project, the newest ones.                         *)
Listed ==
  LET mine == {i \in 1 .. Len(store) : store[i].project = "own"}
  IN  {i \in mine : Cardinality({j \in mine : j > i}) < ListLimit}

New == IF run.begun THEN {i \in Listed : i > run.known} ELSE {}

Collected ==
  LET statuses == run.scans \cup {store[i].status : i \in New}
  IN  IF statuses = {} THEN {} ELSE {WeakestOf(statuses)}

(* finish: on every way out.                                                 *)
Finish(exit, stop) ==
  /\ result' = [exit |-> exit, ok |-> exit = 0 /\ stop = "done", stop |-> stop,
                coverage |-> Collected, credited |-> New]
  /\ run' = [run EXCEPT !.step = "over"]

-----------------------------------------------------------------------------
(* Mutant: a run that asks for no mode gets the default one.                 *)
PermissionAsDefault(asked, ceiling) == IF asked # Nothing THEN asked ELSE Auto

Permission(asked, ceiling) ==
  IF asked # Nothing THEN asked ELSE IF Auto <= ceiling THEN Auto ELSE ceiling

Limit(asked, cap) == IF asked # Nothing THEN asked ELSE Smaller(DefaultLimit, cap)

(* executeHarnessRun up to the turn, under the unattended section `says` of  *)
(* the policy it loads.  The limits of iterations and of minutes are alike:  *)
(* one stands for both.                                                      *)
Begin(usable, unattended, says, served, mode, asked, report) ==
  /\ run.step = "ready"
  /\ LET ceiling == Smaller(served, IF unattended THEN says.ceiling ELSE Nothing)
         cap == IF unattended THEN says.cap ELSE Nothing
     IN  /\ truth' = [NoTruth EXCEPT !.ceiling = ceiling, !.cap = cap]
         /\ IF ~usable THEN Finish(2, "error")
            ELSE IF (mode # Nothing /\ mode > ceiling) \/ (asked # Nothing /\ asked > cap) THEN Finish(3, "error")
            ELSE /\ run' = [Ready EXCEPT !.step = "turn", !.perm = Permission(mode, ceiling),
                                        !.limit = Limit(asked, cap), !.report = report,
                                        !.known = Len(store), !.begun = TRUE]
                 /\ UNCHANGED result
  /\ UNCHANGED store

InTurn == run.step = "turn"

(* A tool result with coverage; coverage that cannot be read is dropped.     *)
Scan(status) ==
  /\ InTurn
  /\ run' = [run EXCEPT !.scans = @ \cup ({status} \cap Statuses)]
  /\ UNCHANGED <<store, result, truth>>

File(project, status) ==
  /\ Len(store) < MaxRecords
  /\ store' = Append(store, [project |-> project, status |-> status])
  /\ UNCHANGED <<run, result>>

FileOwn(status) ==
  /\ InTurn /\ File("own", status)
  /\ truth' = [truth EXCEPT !.filed = @ \cup {Len(store) + 1}]

(* Another session, or CI on the same machine, while no run is at its end.   *)
FileElsewhere(project) == run.step \in {"ready", "turn"} /\ File(project, "complete") /\ UNCHANGED truth

(* SIGINT, or the wall clock.                                                *)
Abort(by) ==
  /\ InTurn /\ by \notin run.aborts
  /\ run' = [run EXCEPT !.aborts = @ \cup {by}]
  /\ UNCHANGED <<store, result, truth>>

(* The turn returns; an abort that comes too late for it changes nothing.    *)
Return(stop) ==
  /\ InTurn
  /\ run' = [run EXCEPT !.step = "report", !.stop = stop]
  /\ truth' = [truth EXCEPT !.done = stop = "done"]
  /\ UNCHANGED <<store, result>>

(* What a failure is called: a policy violation, then an interrupt, then a   *)
(* timeout.                                                                  *)
Fail(violation) ==
  IF violation THEN Finish(3, "error")
  ELSE IF "user" \in run.aborts THEN Finish(4, "interrupted")
  ELSE IF "clock" \in run.aborts THEN Finish(4, "timeout")
  ELSE Finish(1, "error")

Throw(violation) ==
  /\ InTurn
  /\ Fail(violation)
  /\ UNCHANGED <<store, truth>>

(* Mutant: a report that could not be written is no failure.                 *)
ReportAnyway(written) ==
  /\ run.step = "report"
  /\ truth' = [truth EXCEPT !.saved = written]
  /\ Finish(0, run.stop)
  /\ UNCHANGED store

Report(written) ==
  /\ run.step = "report" /\ (run.report \/ written)
  /\ truth' = [truth EXCEPT !.saved = written]
  /\ IF written THEN Finish(0, run.stop) ELSE Fail(FALSE)
  /\ UNCHANGED store

(* The command ends, or the MCP server reads the next request.               *)
Again ==
  /\ run.step = "over"
  /\ run' = Ready /\ result' = NoResult /\ truth' = NoTruth
  /\ UNCHANGED store

Next ==
  \/ /\ run.step = "ready"
     /\ \E usable, unattended, report \in BOOLEAN, served, mode \in Modes \cup {Nothing},
           says \in Says, asked \in 1 .. MaxAsked \cup {Nothing} :
          /\ says.ceiling = Nothing \/ asked = Nothing
          /\ says.cap = Nothing \/ mode = Nothing
          /\ Begin(usable, unattended, says, served, mode, asked, report)
  \/ \E status \in Statuses \cup {"unreadable"} : Scan(status)
  \/ \E status \in Statuses : FileOwn(status)
  \/ \E project \in {"own", "other"} : FileElsewhere(project)
  \/ \E by \in {"user", "clock"} : Abort(by)
  \/ \E stop \in {"done", "stalled", "max_tool_calls", "max_iterations"} : Return(stop)
  \/ \E b \in BOOLEAN : Throw(b) \/ Report(b)
  \/ Again

Spec == Init /\ [][Next]_vars

-----------------------------------------------------------------------------
(* An unattended run, whatever it asks for or leaves open, never has more    *)
(* than the policy and the server that started it allow.                     *)
StaysBelowCeilings ==
  InTurn => run.perm <= truth.ceiling /\ run.limit <= truth.cap

(* A gate that reads `ok` counts finished work only: the turn said it was    *)
(* done and the report that was asked for is written.                        *)
OkMeansDone ==
  run.step = "over" /\ result.ok => truth.done /\ truth.saved /\ result.exit = 0

(* On every way out of a turn, the coverage reported is no better than any   *)
(* scan of the turn or any record it filed, while the store still lists all  *)
(* of them.                                                                  *)
WeakestSpeaks ==
  run.step = "over" /\ Len(store) - run.known <= ListLimit =>
    LET known == run.scans \cup {store[i].status : i \in truth.filed}
    IN  known # {} => /\ result.coverage # {}
                      /\ \A s \in known, c \in result.coverage : CoverageRank(c) <= CoverageRank(s)

(* "the run is credited only with records it filed" (harness/run.ts).        *)
CreditedWithOwn == run.step = "over" => result.credited \subseteq truth.filed

(* An unattended run stays below its ceilings and reports no more than it    *)
(* did.                                                                      *)
RunIsHonest == StaysBelowCeilings /\ OkMeansDone /\ WeakestSpeaks
=============================================================================
