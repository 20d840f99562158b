--------------------------- MODULE DurableSession ---------------------------
(* One durable session: the whole-session snapshot <id>.json                *)
(* (sessions/store.ts), the append-only journal <id>.journal.jsonl          *)
(* (sessions/journal.ts), and the invocations of runAgentTurn               *)
(* (agent/session.ts) and of the WebSocket `compact` request                *)
(* (server/wsHandler.ts) that read and write them.  An invocation advances  *)
(* from one await to the next, so everything between two steps is what the  *)
(* event loop, another process, a crash or a deletion may interleave.       *)
EXTENDS Integers, Sequences, FiniteSets

CONSTANTS
  Turns,      \* invocations; each is used once
  Messages,   \* message ids; an omitted messageId is an id nobody else uses
  MaxWork,    \* bound: conversation entries one turn adds
  MaxCrashes, \* bound: process deaths
  Overlap,    \* may an invocation begin while another one is live?
  Deletable,  \* may the session be deleted?
  Faults      \* which writes fail: "drop", "tear" (journal), "save" (snapshot)

ASSUME SessionAssumption ==
  /\ MaxWork \in Nat /\ MaxCrashes \in Nat
  /\ Overlap \in BOOLEAN /\ Deletable \in BOOLEAN
  /\ Faults \subseteq {"drop", "tear", "save"}

VARIABLES
  journal,  \* the parsable records, oldest first
  torn,     \* the file ends in a partial line without a newline
  snap,     \* the snapshot file: its state and the entries it holds
  deletion, \* "none", "half" (snapshot removed), "full"
  pc, msg, aborted,
  ctx,      \* session.messages of the invocation
  work,     \* entries this turn produced so far
  toClose,  \* dangling ids recoverSession has still to close
  reported, \* the `recovered` result of the invocation
  outcome,  \* what the pending save is for, then the turn_end status
  doneAtBegin, \* history: its id was already done when it was submitted
  known,    \* a client was told the session id
  crashes

files == <<journal, torn, snap, deletion>>
local == <<pc, msg, aborted, ctx, work, toClose, reported, outcome, doneAtBegin>>
vars == <<journal, torn, snap, deletion, pc, msg, aborted, ctx, work, toClose,
          reported, outcome, doneAtBegin, known, crashes>>

-----------------------------------------------------------------------------
(* What the journal says.                                                   *)

StartOf(m) == [type |-> "turn_start", id |-> m, status |-> "none"]
EndOf(m, s) == [type |-> "turn_end", id |-> m, status |-> s]
InterruptedOf(m) == [type |-> "turn_interrupted", id |-> m, status |-> "none"]

Statuses == {"done", "error", "interrupted"}
Records == {StartOf(m) : m \in Messages}
             \cup {EndOf(m, s) : m \in Messages, s \in Statuses}
             \cup {InterruptedOf(m) : m \in Messages}

On(j) == {j[i] : i \in DOMAIN j}
StartedIds(j) == {m \in Messages : StartOf(m) \in On(j)}
InterruptedIds(j) == {m \in Messages : InterruptedOf(m) \in On(j)}
ClosedIds(j) ==
  InterruptedIds(j) \cup {m \in Messages : \E s \in Statuses : EndOf(m, s) \in On(j)}
(* Mutant: a turn that was once recovered no longer counts as completed.    *)
DoneIdsUnlessRecovered(j) ==
  {m \in Messages : EndOf(m, "done") \in On(j)} \ InterruptedIds(j)
DoneIds(j) == {m \in Messages : EndOf(m, "done") \in On(j)}

DanglingIds(j) == StartedIds(j) \ ClosedIds(j)
UnresolvedIds(j) == (StartedIds(j) \cap InterruptedIds(j)) \ DoneIds(j)
SessionStatus(j) == IF DanglingIds(j) = {} THEN "idle" ELSE "interrupted"

(* appendJournal never throws.  A record appended behind a partial line     *)
(* shares that line and is skipped with it by every later read.             *)
AppendJournal(r) ==
  \/ /\ torn
     /\ torn' = FALSE
     /\ UNCHANGED journal
  \/ /\ ~torn
     /\ journal' = Append(journal, r)
     /\ UNCHANGED torn
  \/ /\ "drop" \in Faults
     /\ UNCHANGED <<journal, torn>>
  \/ /\ "tear" \in Faults
     /\ torn' = TRUE
     /\ UNCHANGED journal

-----------------------------------------------------------------------------
(* The life of an invocation.                                               *)

BeforeStart == {"loading", "loaded", "recovering", "resolving", "assembling"}
Executing == {"running", "opening", "writing", "unlinked", "saved"}
Compacting == {"c_loading", "c_calling"}
Over == {"not_found", "rejected", "replayed", "finished", "lost", "dropped"}
Phases == {"unused"} \cup BeforeStart \cup Executing \cup Compacting \cup Over

Live == {t \in Turns : pc[t] \notin {"unused"} \cup Over}
Entries == Turns \X (1..MaxWork)
EntriesOf(t) == {<<t, k>> : k \in 1..work[t]}

(* Past turn_start and before the record that closes it.                    *)
Unended(t) == pc[t] = "running" \/ (pc[t] \in Executing /\ outcome[t] \in Statuses)

SnapshotOf(s, e) == [state |-> s, msgs |-> e]
Snapshots == [state : {"absent", "empty", "ok", "corrupt"}, msgs : SUBSET Entries]

Init ==
  /\ journal = <<>> /\ torn = FALSE
  /\ snap = SnapshotOf("absent", {})
  /\ deletion = "none"
  /\ pc = [t \in Turns |-> "unused"]
  /\ msg \in [Turns -> Messages]   \* the id each will carry, its client's choice
  /\ aborted = [t \in Turns |-> FALSE]
  /\ ctx = [t \in Turns |-> {}]
  /\ work = [t \in Turns |-> 0]
  /\ toClose = [t \in Turns |-> {}]
  /\ reported = [t \in Turns |-> {}]
  /\ outcome = [t \in Turns |-> "none"]
  /\ doneAtBegin = [t \in Turns |-> FALSE]
  /\ known = FALSE /\ crashes = 0

Goto(t, p) == pc' = [pc EXCEPT ![t] = p]


-----------------------------------------------------------------------------
(* runAgentTurn: session, recovery, idempotency check.                      *)

(* No sessionId: createSession, then the save that makes it visible.        *)
Create(t) ==
  /\ \A u \in Turns : pc[u] = "unused"
  /\ Goto(t, "opening")
  /\ outcome' = [outcome EXCEPT ![t] = "create"]
  /\ UNCHANGED <<files, msg, aborted, ctx, work, toClose, reported, doneAtBegin, known, crashes>>

(* A client sends a message to the session it knows.                        *)
Begin(t) ==
  /\ pc[t] = "unused" /\ known
  /\ Overlap \/ Live = {}
  /\ Goto(t, "loading")
  /\ doneAtBegin' = [doneAtBegin EXCEPT ![t] = msg[t] \in DoneIds(journal)]
  /\ UNCHANGED <<files, msg, aborted, ctx, work, toClose, reported, outcome, known, crashes>>

(* The owner of its signal interrupts it (it may do so before it calls      *)
(* runAgentTurn); processMessage is what looks.                             *)
Abortable(t) == pc[t] \notin Over /\ outcome[t] \in {"none", "create"}
Abort(t) ==
  /\ Abortable(t) /\ ~aborted[t]
  /\ aborted' = [aborted EXCEPT ![t] = TRUE]
  /\ UNCHANGED <<files, pc, msg, ctx, work, toClose, reported, outcome, doneAtBegin, known, crashes>>

(* loadSession: a file that does not parse is a session that is not found.  *)
Load(t) ==
  /\ pc[t] \in {"loading", "c_loading"}
  /\ IF snap.state = "ok"
       THEN /\ ctx' = [ctx EXCEPT ![t] = snap.msgs]
            /\ Goto(t, IF pc[t] = "loading" THEN "loaded" ELSE "c_calling")
       ELSE /\ Goto(t, "not_found")
            /\ UNCHANGED ctx
  /\ UNCHANGED <<files, msg, aborted, work, toClose, reported, outcome, doneAtBegin, known, crashes>>

(* recoverSession reads the journal once ...                                *)
Recover(t) ==
  /\ pc[t] = "loaded"
  /\ toClose' = [toClose EXCEPT ![t] = DanglingIds(journal)]
  /\ reported' = [reported EXCEPT ![t] = DanglingIds(journal)]
  /\ Goto(t, "recovering")
  /\ UNCHANGED <<files, msg, aborted, ctx, work, outcome, doneAtBegin, known, crashes>>

(* Mutant: it returns the dangling turns but does not close them.           *)
CloseDanglingUnrecorded(t, m) ==
  /\ pc[t] = "recovering" /\ m \in toClose[t]
  /\ toClose' = [toClose EXCEPT ![t] = @ \ {m}]
  /\ UNCHANGED <<files, pc, msg, aborted, ctx, work, reported, outcome, doneAtBegin,
                 known, crashes>>
(* ... and appends one record for each turn it found dangling.              *)
CloseDangling(t, m) ==
  /\ pc[t] = "recovering" /\ m \in toClose[t]
  /\ AppendJournal(InterruptedOf(m))
  /\ toClose' = [toClose EXCEPT ![t] = @ \ {m}]
  /\ UNCHANGED <<snap, deletion, pc, msg, aborted, ctx, work, reported, outcome,
                 doneAtBegin, known, crashes>>

Recovered(t) ==
  /\ pc[t] = "recovering" /\ toClose[t] = {}
  /\ Goto(t, "resolving")
  /\ UNCHANGED <<files, msg, aborted, ctx, work, toClose, reported, outcome,
                 doneAtBegin, known, crashes>>

(* A policy denial, an unresolvable provider or a failed prompt assembly    *)
(* throws before the turn leaves any trace; so does a failed summary.       *)
Reject(t) ==
  /\ pc[t] \in {"resolving", "assembling", "c_calling"}
  /\ Goto(t, "rejected")
  /\ UNCHANGED <<files, msg, aborted, ctx, work, toClose, reported, outcome,
                 doneAtBegin, known, crashes>>

(* Mutant: a turn that had crashes to report forgets to look for a replay.  *)
ResolveUnlessRecovering(t) ==
  /\ pc[t] = "resolving"
  /\ Goto(t, IF msg[t] \in DoneIds(journal) /\ reported[t] = {}
                THEN "replayed" ELSE "assembling")
  /\ UNCHANGED <<files, msg, aborted, ctx, work, toClose, reported, outcome,
                 doneAtBegin, known, crashes>>

(* completedTurn: an id with a done record is replayed.                     *)
Resolve(t) ==
  /\ pc[t] = "resolving"
  /\ Goto(t, IF msg[t] \in DoneIds(journal) THEN "replayed" ELSE "assembling")
  /\ UNCHANGED <<files, msg, aborted, ctx, work, toClose, reported, outcome,
                 doneAtBegin, known, crashes>>

(* Mutant: the intent is not journaled before the turn runs.                *)
StartUnrecorded(t) ==
  /\ pc[t] = "assembling"
  /\ Goto(t, "running")
  /\ UNCHANGED <<files, msg, aborted, ctx, work, toClose, reported, outcome,
                 doneAtBegin, known, crashes>>

(* The awaits of prompt assembly are over: turn_start, then processMessage. *)
Start(t) ==
  /\ pc[t] = "assembling"
  /\ AppendJournal(StartOf(msg[t]))
  /\ Goto(t, "running")
  /\ UNCHANGED <<snap, deletion, msg, aborted, ctx, work, toClose, reported, outcome,
                 doneAtBegin, known, crashes>>

(* One more entry: a reply, or a tool call and its effect.  A call already  *)
(* in flight when the signal fires still lands.                             *)
Work(t) ==
  /\ pc[t] = "running" /\ work[t] < MaxWork
  /\ work' = [work EXCEPT ![t] = @ + 1]
  /\ UNCHANGED <<files, pc, msg, aborted, ctx, toClose, reported, outcome,
                 doneAtBegin, known, crashes>>

(* processMessage returns or throws an error that carries its messages.     *)
Settle(t, s) ==
  /\ pc[t] = "running"
  /\ s = "interrupted" => aborted[t]
  /\ outcome' = [outcome EXCEPT ![t] = s]
  /\ ctx' = [ctx EXCEPT ![t] = @ \cup EntriesOf(t)]
  /\ Goto(t, "opening")
  /\ UNCHANGED <<files, msg, aborted, work, toClose, reported, doneAtBegin, known, crashes>>

(* Mutant: a turn that throws is journaled without saving its messages.     *)
SettleDropsWork(t, s) ==
  /\ pc[t] = "running" /\ s # "done"
  /\ s = "interrupted" => aborted[t]
  /\ outcome' = [outcome EXCEPT ![t] = s]
  /\ Goto(t, "saved")
  /\ UNCHANGED <<files, msg, aborted, ctx, work, toClose, reported, doneAtBegin, known, crashes>>

(* It throws before the first provider call: there is nothing to save.      *)
SettleUnsaved(t, s) ==
  /\ pc[t] = "running" /\ work[t] = 0 /\ s # "done"
  /\ s = "interrupted" => aborted[t]
  /\ outcome' = [outcome EXCEPT ![t] = s]
  /\ Goto(t, "saved")
  /\ UNCHANGED <<files, msg, aborted, ctx, work, toClose, reported, doneAtBegin, known, crashes>>

-----------------------------------------------------------------------------
(* saveSession: writeFile opens the file truncated, then writes it.         *)

SaveOpen(t) ==
  /\ pc[t] = "opening"
  /\ snap' = SnapshotOf("empty", {})
  /\ Goto(t, "writing")
  /\ UNCHANGED <<journal, torn, deletion, msg, aborted, ctx, work, toClose, reported,
                 outcome, doneAtBegin, known, crashes>>

(* The id is announced (onSessionId) once the first save returned.          *)
Announce(t) == known' = (known \/ outcome[t] = "create")

(* Mutant: the save is repeated for ever.                                   *)
AfterSaveAgain(t) == CASE outcome[t] = "create" -> "resolving"
                       [] outcome[t] = "compact" -> "finished"
                       [] OTHER -> "opening"

AfterSave(t) == CASE outcome[t] = "create" -> "resolving"
                  [] outcome[t] = "compact" -> "finished"
                  [] OTHER -> "saved"

(* If another save wrote since this one truncated the file, the bytes       *)
(* overlay: this content, or the longer one's tail behind it.               *)
SaveWrite(t) ==
  /\ pc[t] = "writing"
  /\ \/ snap' = SnapshotOf("ok", ctx[t])
     \/ /\ snap.state # "empty"
        /\ snap' = SnapshotOf("corrupt", {})
  /\ Goto(t, AfterSave(t))
  /\ Announce(t)
  /\ UNCHANGED <<journal, torn, deletion, msg, aborted, ctx, work, toClose, reported,
                 outcome, doneAtBegin, crashes>>

(* The file was unlinked after it was opened: nothing becomes visible.      *)
SaveUnlinked(t) ==
  /\ pc[t] = "unlinked"
  /\ Goto(t, AfterSave(t))
  /\ UNCHANGED <<files, msg, aborted, ctx, work, toClose, reported, outcome,
                 doneAtBegin, known, crashes>>

(* A failed write leaves the truncated file and throws past turn_end.       *)
SaveFail(t) ==
  /\ "save" \in Faults
  /\ pc[t] \in {"opening", "writing"}
  /\ Goto(t, IF Unended(t) THEN "lost" ELSE "rejected")
  /\ UNCHANGED <<files, msg, aborted, ctx, work, toClose, reported, outcome,
                 doneAtBegin, known, crashes>>

(* Mutant: only a successful turn records its end.                          *)
RecordEndIfDone(t) ==
  /\ pc[t] = "saved"
  /\ IF outcome[t] = "done" THEN AppendJournal(EndOf(msg[t], outcome[t]))
                            ELSE UNCHANGED <<journal, torn>>
  /\ Goto(t, "finished")
  /\ UNCHANGED <<snap, deletion, msg, aborted, ctx, work, toClose, reported, outcome,
                 doneAtBegin, known, crashes>>

RecordEnd(t) ==
  /\ pc[t] = "saved"
  /\ AppendJournal(EndOf(msg[t], outcome[t]))
  /\ Goto(t, "finished")
  /\ UNCHANGED <<snap, deletion, msg, aborted, ctx, work, toClose, reported, outcome,
                 doneAtBegin, known, crashes>>

-----------------------------------------------------------------------------
(* The `compact` request: load, summarize, save; it takes no lock either.   *)

CompactBegin(t) ==
  /\ pc[t] = "unused" /\ known
  /\ Overlap \/ Live = {}
  /\ Goto(t, "c_loading")
  /\ outcome' = [outcome EXCEPT ![t] = "compact"]
  /\ UNCHANGED <<files, msg, aborted, ctx, work, toClose, reported, doneAtBegin, known, crashes>>

(* The summary stands for every entry it was made from.                     *)
CompactCalled(t) ==
  /\ pc[t] = "c_calling"
  /\ Goto(t, "opening")
  /\ UNCHANGED <<files, msg, aborted, ctx, work, toClose, reported, outcome,
                 doneAtBegin, known, crashes>>

-----------------------------------------------------------------------------
(* The process dies; and DELETE /sessions/:id.                              *)

Crash ==
  /\ crashes < MaxCrashes /\ Live # {}
  /\ crashes' = crashes + 1
  /\ pc' = [t \in Turns |-> IF t \notin Live THEN pc[t]
                            ELSE IF Unended(t) THEN "lost" ELSE "dropped"]
  /\ UNCHANGED <<files, msg, aborted, ctx, work, toClose, reported, outcome, doneAtBegin, known>>

DeleteSnapshot ==
  /\ Deletable /\ known /\ deletion = "none"
  /\ deletion' = "half"
  /\ snap' = SnapshotOf("absent", {})
  /\ pc' = [t \in Turns |-> IF pc[t] = "writing" THEN "unlinked" ELSE pc[t]]
  /\ UNCHANGED <<journal, torn, msg, aborted, ctx, work, toClose, reported, outcome,
                 doneAtBegin, known, crashes>>

DeleteJournal ==
  /\ deletion = "half"
  /\ deletion' = "full"
  /\ journal' = <<>> /\ torn' = FALSE
  /\ UNCHANGED <<snap, local, known, crashes>>

-----------------------------------------------------------------------------
(* Steps of the event loop, which the environment cannot withhold.          *)
Step(t) ==
  \/ Load(t) \/ Recover(t) \/ Recovered(t) \/ Resolve(t) \/ Start(t) \/ Work(t)
  \/ \E m \in Messages : CloseDangling(t, m)
  \/ \E s \in Statuses : Settle(t, s) \/ SettleUnsaved(t, s)
  \/ SaveOpen(t) \/ SaveWrite(t) \/ SaveUnlinked(t) \/ SaveFail(t)
  \/ RecordEnd(t) \/ CompactCalled(t) \/ Reject(t)

Request(t) ==
  Create(t) \/ Begin(t) \/ CompactBegin(t) \/ Abort(t)

Next ==
  \/ \E t \in Turns : Step(t) \/ Request(t)
  \/ Crash \/ DeleteSnapshot \/ DeleteJournal

Spec == Init /\ [][Next]_vars

(* Every await of a live invocation settles (file operations return, the    *)
(* provider call ends or is aborted); nothing forces clients or crashes.    *)
FairSpec == Spec /\ \A t \in Turns : WF_vars(Step(t))

-----------------------------------------------------------------------------
(* Properties.                                                              *)

(* Every variable keeps its type.                                           *)
TypeOK ==
  /\ journal \in Seq(Records) /\ torn \in BOOLEAN
  /\ snap \in Snapshots /\ deletion \in {"none", "half", "full"}
  /\ pc \in [Turns -> Phases] /\ msg \in [Turns -> Messages]
  /\ aborted \in [Turns -> BOOLEAN]
  /\ ctx \in [Turns -> SUBSET Entries]
  /\ work \in [Turns -> 0..MaxWork]
  /\ toClose \in [Turns -> SUBSET Messages]
  /\ reported \in [Turns -> SUBSET Messages]
  /\ outcome \in [Turns -> {"none", "create", "compact"} \cup Statuses]
  /\ doneAtBegin \in [Turns -> BOOLEAN]
  /\ known \in BOOLEAN /\ crashes \in 0..MaxCrashes

(* A message resent after its turn completed is answered from the journal:  *)
(* whatever overlaps, crashes or fails in between, no turn of it runs again.*)
RetransmitNeverReruns ==
  \A t \in Turns : doneAtBegin[t] /\ deletion = "none" =>
    pc[t] \notin Executing \cup {"assembling", "finished", "lost"}

(* A turn the journal calls interrupted really is unfinished: some turn of  *)
(* that message is still executing, or was lost past its turn_start.        *)
DanglingIsUnfinished ==
  \A m \in DanglingIds(journal) :
    \E t \in Turns : msg[t] = m /\ (Unended(t) \/ pc[t] = "lost")

(* A message completes at most once (the journal has one done record).      *)
AtMostOneDone ==
  \A i, j \in DOMAIN journal :
    journal[i] = journal[j] /\ journal[i].status = "done" => i = j

(* The snapshot keeps every entry of every turn that reached its turn_end.  *)
FinishedWorkKept ==
  snap.state = "ok" /\ deletion = "none" =>
    \A t \in Turns : pc[t] = "finished" => EntriesOf(t) \subseteq snap.msgs

(* The same crash is not handed to two callers.                             *)
Told(t) == pc[t] \notin {"recovering", "dropped"}
ReportedOnce ==
  deletion = "none" =>
    \A t, u \in Turns : t # u /\ Told(t) /\ Told(u) => reported[t] \cap reported[u] = {}

(* A lost turn is found by the next recovery, shown as a notice, or settled *)
(* by another turn_end of its message.                                      *)
LostTurnVisible ==
  deletion = "none" =>
    \A t \in Turns : pc[t] = "lost" =>
      \/ msg[t] \in DanglingIds(journal) \cup UnresolvedIds(journal)
      \/ \E s \in Statuses : EndOf(msg[t], s) \in On(journal)

(* With nothing running, a journal that ends in turn_start is interrupted.  *)
LastStartIsInterrupted ==
  Live = {} /\ journal # <<>> /\ journal[Len(journal)].type = "turn_start"
    => SessionStatus(journal) = "interrupted"

(* Every invocation ends: with as many as there are turns, a time comes     *)
(* when none is left waiting at an await.                                   *)
InvocationsEnd == []<>(Live = {})

(* A dangling turn that a recovery found gets its terminal record.          *)
RecoveryCloses ==
  \A t \in Turns, m \in Messages :
    (pc[t] = "recovering" /\ m \in toClose[t]) ~>
      (m \in ClosedIds(journal) \/ pc[t] = "dropped" \/ deletion = "full")

(* The journal of a session whose turns do not overlap implements the       *)
(* ledger: a message's state is told by its last turn_start or turn_end.    *)
LastRecord(m) ==
  LET at == {i \in DOMAIN journal : journal[i].id = m}
  IN journal[CHOOSE i \in at : \A j \in at : j <= i]
LedgerOf(m) ==
  IF \A i \in DOMAIN journal : journal[i].id # m THEN "new"
  ELSE CASE LastRecord(m).type = "turn_start" -> "open"
         [] LastRecord(m).status = "done" -> "done"
         [] OTHER -> "failed"

Ledger == INSTANCE TurnLedger WITH ledger <- [m \in Messages |-> LedgerOf(m)]
ImplementsLedger == Ledger!Spec
=============================================================================
