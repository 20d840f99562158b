----------------------------- MODULE DvalinPanel -----------------------------
(* The security panel of the web application (web DvalinWorkspace.tsx and    *)
(* lib/dvalinVerification.ts): scans, imports, fixes and the verification of *)
(* a workspace, each over awaits that the user, the connection and the agent *)
(* do not wait for.  Turns of the conversation are one at a time and end     *)
(* with an outcome that names them; they may change the code.                *)
EXTENDS Naturals, FiniteSets

CONSTANTS
  Workspaces,   \* directories the user may open, as positive numbers
  MaxTurns,     \* bound: messages posted to the conversation
  MaxScans,     \* bound: scans and imports
  MaxMoves      \* bound: changes of workspace, new chats, connections lost and tabs clicked

VARIABLES
  panel,   \* the component's state
  turn,    \* the conversation's active message and how many were posted
  scans,   \* scans and imports awaited
  code,    \* how often turns have changed the code
  moves,
  past     \* history: see InitPast

vars == <<panel, turn, scans, code, moves, past>>

Nothing == 0
NoResult == [of |-> Nothing, clean |-> FALSE, saw |-> 0]

(* verifying: the message id of the Verify request awaited.  busy: scanBusy. *)
(* result: the scan shown, with the workspace it was of and the code it saw. *)
(* stage: "verify", or any other tab.                                        *)
Fresh(w) == [cwd |-> w, connected |-> TRUE, ready |-> TRUE, busy |-> FALSE, stage |-> "other",
             verifying |-> Nothing, review |-> FALSE, result |-> NoResult]

(* asked: the last Verify request.  by, of, saw: turn, workspace and code of *)
(* the last review.  rescan: what became of the scan after it; unwatched     *)
(* when another tab was clicked meanwhile, overtaken when another scan or    *)
(* import ended since the review.  left: a new chat began while a Verify     *)
(* request was awaited.                                                      *)
InitPast == [asked |-> Nothing, by |-> Nothing, of |-> Nothing, saw |-> 0, rescan |-> "none", left |-> FALSE]

Init ==
  /\ \E w \in Workspaces : panel = Fresh(w)
  /\ turn = [active |-> Nothing, count |-> 0]
  /\ scans = {} /\ code = 0 /\ moves = 0 /\ past = InitPast

Sending == turn.active # Nothing
Usable(p) == p.connected /\ p.ready
NextTurn == turn.count + 1
PostTurn == turn' = [active |-> NextTurn, count |-> NextTurn]

-----------------------------------------------------------------------------
(* runScan of panel p, of the code as it then is: refused without a usable   *)
(* service; a scan that is no part of a verification drops the review.       *)
RunScan(p, next, now) ==
  IF Usable(p)
    THEN /\ panel' = [p EXCEPT !.busy = TRUE, !.review = @ /\ next = "verify"]
         /\ scans' = scans \cup {[of |-> p.cwd, saw |-> now, next |-> next]}
    ELSE panel' = p /\ UNCHANGED scans

(* The Scan button.                                                          *)
Scan ==
  /\ Usable(panel) /\ ~panel.busy /\ ~Sending /\ Cardinality(scans) < MaxScans
  /\ RunScan(panel, "other", code)
  /\ UNCHANGED <<turn, code, moves, past>>

(* importSarif: the file is read and sent to the server; not held back by a  *)
(* turn.                                                                     *)
Import ==
  /\ panel.connected /\ ~panel.busy /\ Cardinality(scans) < MaxScans
  /\ panel' = [panel EXCEPT !.busy = TRUE]
  /\ scans' = scans \cup {[of |-> panel.cwd, saw |-> code, next |-> "import"]}
  /\ UNCHANGED <<turn, code, moves, past>>

Verifies(s) == s.next = "verify"
Unwatched == [past EXCEPT !.rescan = IF @ = "awaited" THEN "unwatched" ELSE @]
Rescan(p) == IF ~Usable(p) THEN "refused" ELSE IF p.stage = "verify" THEN "awaited" ELSE "unwatched"
NoteRescan(s, how) ==
  past' = [past EXCEPT !.rescan = IF Verifies(s) /\ s.of = past.of /\ s.saw = past.saw THEN how
                                  ELSE IF @ = "none" THEN @ ELSE "overtaken"]

(* The answer replaces the result shown, whatever workspace is open by then. *)
ScanDone(s, clean) ==
  /\ s \in scans
  /\ scans' = scans \ {s}
  /\ panel' = [panel EXCEPT !.busy = FALSE, !.result = [of |-> s.of, saw |-> s.saw, clean |-> clean /\ s.next # "import"],
                            !.stage = IF Verifies(s) THEN "verify" ELSE "other",
                            !.review = @ /\ s.next # "import"]
  /\ NoteRescan(s, "back")
  /\ UNCHANGED <<turn, code, moves>>

(* A failure leaves the result there was; losing the service is noted.       *)
ScanFailed(s, unreachable) ==
  /\ s \in scans
  /\ scans' = scans \ {s}
  /\ panel' = [panel EXCEPT !.busy = FALSE, !.ready = @ /\ ~(unreachable /\ s.next # "import")]
  /\ NoteRescan(s, "failed")
  /\ UNCHANGED <<turn, code, moves>>

-----------------------------------------------------------------------------
(* requestVerify: a turn of its own, known by its message id.                *)
RequestVerify ==
  /\ Usable(panel) /\ ~Sending /\ ~panel.busy /\ turn.count < MaxTurns
  /\ panel' = [panel EXCEPT !.stage = "verify", !.review = FALSE, !.verifying = NextTurn]
  /\ PostTurn
  /\ past' = [past EXCEPT !.asked = NextTurn, !.left = FALSE]
  /\ UNCHANGED <<scans, code, moves>>

(* requestFix.                                                               *)
RequestFix ==
  /\ panel.result # NoResult /\ ~Sending /\ turn.count < MaxTurns
  /\ panel' = [panel EXCEPT !.stage = "other", !.review = FALSE]
  /\ PostTurn
  /\ UNCHANGED <<scans, code, moves, past>>

(* Any other message of the user.                                            *)
Say ==
  /\ ~Sending /\ turn.count < MaxTurns
  /\ PostTurn
  /\ UNCHANGED <<panel, scans, code, moves, past>>

(* Mutant: the outcome of any turn is taken for the verification's.          *)
VerifyTurnStateOfAny(status) == IF panel.verifying = Nothing THEN "waiting" ELSE status

(* dvalinVerifyTurnState.                                                    *)
VerifyTurnState(status) == IF panel.verifying # turn.active THEN "waiting" ELSE status

(* A turn ends, and may have changed the code; the effect on lastTurnOutcome *)
(* makes a completed verification the review, followed by a scan.            *)
TurnEnds(status, edits) ==
  LET state == VerifyTurnState(status)
      p == [panel EXCEPT !.verifying = Nothing, !.review = (state = "completed")]
  IN /\ Sending
     /\ turn' = [turn EXCEPT !.active = Nothing]
     /\ code' = IF edits THEN code + 1 ELSE code
     /\ CASE state = "waiting" -> UNCHANGED <<panel, scans, past>>
          [] state = "completed" ->
               /\ RunScan(p, "verify", code')
               /\ past' = [past EXCEPT !.by = turn.active, !.of = p.cwd, !.saw = code', !.rescan = Rescan(p)]
          [] OTHER -> panel' = p /\ UNCHANGED <<scans, past>>
     /\ UNCHANGED moves

-----------------------------------------------------------------------------
Move == moves < MaxMoves /\ moves' = moves + 1

(* Another workspace: by hand, which begins a new chat, or because another   *)
(* session was selected.  The scans under way go on.                         *)
ChangeCwd(w, reset) ==
  /\ Move /\ w # panel.cwd
  /\ panel' = [Fresh(w) EXCEPT !.connected = panel.connected, !.ready = panel.ready, !.busy = panel.busy]
  /\ turn' = IF reset THEN [turn EXCEPT !.active = Nothing] ELSE turn
  /\ past' = [past EXCEPT !.rescan = "none"]
  /\ UNCHANGED <<scans, code>>

(* A new chat forgets the turn under way; the panel is not told.             *)
NewChat ==
  /\ Move
  /\ turn' = [turn EXCEPT !.active = Nothing]
  /\ past' = [past EXCEPT !.left = @ \/ panel.verifying # Nothing]
  /\ UNCHANGED <<panel, scans, code>>

(* The connection ends, and with it the turn, in an error; when it is back   *)
(* the scanners are inspected, with or without success.                      *)
Lose ==
  /\ Move /\ panel.connected
  /\ turn' = [turn EXCEPT !.active = Nothing]
  /\ panel' = IF Sending /\ panel.verifying = turn.active
              THEN [panel EXCEPT !.connected = FALSE, !.ready = FALSE, !.verifying = Nothing, !.review = FALSE]
              ELSE [panel EXCEPT !.connected = FALSE, !.ready = FALSE]
  /\ UNCHANGED <<scans, code, past>>

Inspect(ok) ==
  /\ ~panel.connected \/ ~panel.ready
  /\ panel' = [panel EXCEPT !.connected = TRUE, !.ready = ok]
  /\ UNCHANGED <<turn, scans, code, moves, past>>

(* The tabs of the loop set the stage, whatever is under way.                *)
ClickTab(stage) ==
  /\ Move /\ stage # panel.stage
  /\ panel' = [panel EXCEPT !.stage = stage]
  /\ past' = Unwatched
  /\ UNCHANGED <<turn, scans, code>>

Next ==
  \/ Scan \/ Import \/ RequestVerify \/ RequestFix \/ Say \/ NewChat \/ Lose
  \/ \E s \in scans, b \in BOOLEAN : ScanDone(s, b) \/ ScanFailed(s, b)
  \/ \E status \in {"completed", "interrupted", "error"}, edits \in BOOLEAN : TurnEnds(status, edits)
  \/ \E w \in Workspaces, reset \in BOOLEAN : ChangeCwd(w, reset)
  \/ \E ok \in BOOLEAN : Inspect(ok)
  \/ \E stage \in {"verify", "other"} : ClickTab(stage)

Spec == Init /\ [][Next]_vars

-----------------------------------------------------------------------------
(* dvalinVerificationSummary: the draft pull request is offered.             *)
Running == panel.verifying # Nothing \/ (panel.busy /\ panel.stage = "verify")
EvidenceReady == ~Running /\ panel.review /\ panel.result.clean

(* A review is the completed turn of the last Verify request, of the         *)
(* workspace that is open, and past no change of it                          *)
(* (DvalinWorkspace.tsx:187-240).                                            *)
ReviewIsOfThis == panel.review => past.by = past.asked /\ past.of = panel.cwd /\ past.rescan # "none"

(* The scan beside the review is of this workspace and of the code the       *)
(* review left, unless the scan after the review failed or was refused,      *)
(* another tab was clicked during it, or another scan or import, still under *)
(* way, ended after the review (DvalinWorkspace.tsx:199-218, :381).          *)
EvidenceIsNew ==
  EvidenceReady =>
    \/ past.rescan \in {"failed", "refused", "unwatched", "overtaken"}
    \/ panel.result.of = panel.cwd /\ panel.result.saw >= past.saw

(* A verification shown as running has its turn under way, unless the user   *)
(* began a new chat meanwhile (DvalinWorkspace.tsx:224).                     *)
RunningIsReal == panel.verifying # Nothing => turn.active = panel.verifying \/ past.left

(* DvalinWorkspace.tsx, as one.                                              *)
PanelIsHonest == ReviewIsOfThis /\ EvidenceIsNew /\ RunningIsReal
=============================================================================
