------------------------ MODULE DurableSessionProofs ------------------------
(* Theorems about DurableSession, for every set of invocations, messages    *)
(* and every bound.                                                         *)
EXTENDS DurableSession, TLAPS

(* One append leaves a well-typed journal behind.                           *)
LEMMA AppendTyped ==
  ASSUME NEW r \in Records, TypeOK, AppendJournal(r)
  PROVE  journal' \in Seq(Records) /\ torn' \in BOOLEAN
<1>1. journal \in Seq(Records) /\ torn \in BOOLEAN
  BY DEF TypeOK
<1>2. journal' = journal \/ journal' = Append(journal, r)
  BY DEF AppendJournal
<1>3. journal' \in Seq(Records)
  BY <1>1, <1>2
<1>4. torn' \in BOOLEAN
  BY <1>1, Zenon DEF AppendJournal
<1>. QED BY <1>3, <1>4

(* What is in the journal stays in it, and only r can be new.               *)
LEMMA AppendGrows ==
  ASSUME NEW r \in Records, TypeOK, AppendJournal(r)
  PROVE  /\ On(journal) \subseteq On(journal')
         /\ On(journal') \subseteq On(journal) \cup {r}
<1>1. CASE UNCHANGED journal
  BY <1>1 DEF On
<1>2. CASE journal' = Append(journal, r)
  <2>1. journal \in Seq(Records)
    BY DEF TypeOK
  <2>2. /\ DOMAIN journal = 1..Len(journal)
        /\ DOMAIN journal' = 1..(Len(journal) + 1)
        /\ \A i \in 1..Len(journal) : journal'[i] = journal[i]
        /\ journal'[Len(journal) + 1] = r
    BY <1>2, <2>1
  <2>. QED BY <2>1, <2>2 DEF On
<1>. QED BY <1>1, <1>2 DEF AppendJournal

(* Appends to the journal succeed; snapshots may still fail to be saved.     *)
JournalReliable == "drop" \notin Faults /\ "tear" \notin Faults

(* Without journal faults an append on a clean file is exactly one record.  *)
LEMMA AppendExact ==
  ASSUME NEW r \in Records, TypeOK, ~torn, JournalReliable, AppendJournal(r)
  PROVE  On(journal') = On(journal) \cup {r} /\ ~torn'
<1>1. journal \in Seq(Records) /\ journal' = Append(journal, r) /\ torn' = torn
  BY DEF AppendJournal, TypeOK, JournalReliable
<1>2. /\ DOMAIN journal = 1..Len(journal)
      /\ DOMAIN journal' = 1..(Len(journal) + 1)
      /\ \A i \in 1..Len(journal) : journal'[i] = journal[i]
      /\ journal'[Len(journal) + 1] = r
  BY <1>1
<1>. QED BY <1>1, <1>2 DEF On

LEMMA EntriesTyped ==
  ASSUME TypeOK, NEW t \in Turns
  PROVE  EntriesOf(t) \subseteq Entries
BY SessionAssumption DEF TypeOK, EntriesOf, Entries

(* What a pending save is for is known: the compact request's, the one of a *)
(* new session, or the one of a settled turn, which then records its status.*)
Committed ==
  \A t \in Turns :
    /\ pc[t] \in Compacting => outcome[t] = "compact"
    /\ pc[t] \in {"opening", "writing", "unlinked"} => outcome[t] # "none"
    /\ pc[t] = "saved" => outcome[t] \in Statuses

LEMMA InitTyped == Init => TypeOK /\ Committed
<1>. SUFFICES ASSUME Init PROVE TypeOK /\ Committed
  OBVIOUS
<1>. USE SessionAssumption DEF Init, Phases
<1>1. journal \in Seq(Records) /\ snap \in Snapshots
  BY DEF Snapshots, SnapshotOf
<1>2. /\ pc \in [Turns -> Phases] /\ ctx \in [Turns -> SUBSET Entries]
      /\ work \in [Turns -> 0..MaxWork] /\ crashes \in 0..MaxCrashes
      /\ toClose \in [Turns -> SUBSET Messages]
      /\ reported \in [Turns -> SUBSET Messages]
      /\ outcome \in [Turns -> {"none", "create", "compact"} \cup Statuses]
  OBVIOUS
<1>3. /\ torn \in BOOLEAN /\ known \in BOOLEAN
      /\ aborted \in [Turns -> BOOLEAN] /\ doneAtBegin \in [Turns -> BOOLEAN]
  OBVIOUS
<1>4. Committed
  BY DEF Committed, Compacting
<1>. QED BY <1>1, <1>2, <1>3, <1>4 DEF TypeOK

LEMMA StepTyped ==
  ASSUME TypeOK, Committed, NEW t \in Turns, Step(t)
  PROVE  TypeOK'
<1>. USE SessionAssumption
     DEF files, local, Goto, Phases, BeforeStart, Executing, Compacting, Over
<1>1. CASE Load(t)
  <2>1. ctx' \in [Turns -> SUBSET Entries]
    BY <1>1 DEF Load, TypeOK, Snapshots
  <2>2. pc \in [Turns -> Phases]
    BY DEF TypeOK
  <2>3. \E p \in Phases : pc' = [pc EXCEPT ![t] = p]
    BY <1>1 DEF Load
  <2>4. pc' \in [Turns -> Phases]
    BY <2>2, <2>3
  <2>. QED BY <1>1, <2>1, <2>4 DEF Load, TypeOK
<1>2. CASE Recover(t)
  BY <1>2 DEF Recover, TypeOK, DanglingIds, StartedIds
<1>3. CASE Recovered(t) \/ Resolve(t) \/ Reject(t) \/ CompactCalled(t)
  BY <1>3 DEF Recovered, Resolve, Reject, CompactCalled, TypeOK
<1>4. CASE Start(t)
  <2>1. StartOf(msg[t]) \in Records
    BY DEF TypeOK, Records
  <2>. QED BY <1>4, <2>1, AppendTyped DEF Start, TypeOK
<1>5. CASE Work(t)
  BY <1>5 DEF Work, TypeOK
<1>6. ASSUME NEW m \in Messages, CloseDangling(t, m) PROVE TypeOK'
  <2>1. InterruptedOf(m) \in Records
    BY DEF Records
  <2>. QED BY <1>6, <2>1, AppendTyped DEF CloseDangling, TypeOK
<1>7. ASSUME NEW s \in Statuses, Settle(t, s) PROVE TypeOK'
  <2>1. ctx' \in [Turns -> SUBSET Entries]
    BY <1>7, EntriesTyped DEF Settle, TypeOK
  <2>. QED BY <1>7, <2>1 DEF Settle, TypeOK
<1>8. ASSUME NEW s \in Statuses, SettleUnsaved(t, s) PROVE TypeOK'
  BY <1>8 DEF SettleUnsaved, TypeOK
<1>9. CASE SaveOpen(t)
  BY <1>9 DEF SaveOpen, TypeOK, Snapshots, SnapshotOf
<1>10. CASE SaveWrite(t)
  BY <1>10 DEF SaveWrite, TypeOK, Snapshots, SnapshotOf, Announce, AfterSave
<1>11. CASE SaveUnlinked(t) \/ SaveFail(t)
  BY <1>11 DEF SaveUnlinked, SaveFail, TypeOK, Announce, AfterSave
<1>12. CASE RecordEnd(t)
  <2>1. EndOf(msg[t], outcome[t]) \in Records
    BY <1>12 DEF RecordEnd, Committed, TypeOK, Records
  <2>. QED BY <1>12, <2>1, AppendTyped DEF RecordEnd, TypeOK
<1>. QED BY <1>1, <1>2, <1>3, <1>4, <1>5, <1>6, <1>7, <1>8, <1>9, <1>10,
            <1>11, <1>12 DEF Step

LEMMA NextTyped == TypeOK /\ Committed /\ [Next]_vars => TypeOK'
<1>. SUFFICES ASSUME TypeOK, Committed, [Next]_vars PROVE TypeOK'
  OBVIOUS
<1>. USE SessionAssumption DEF files, local, Goto, Phases, BeforeStart, Compacting, Over
<1>1. ASSUME NEW t \in Turns, Step(t) PROVE TypeOK'
  BY <1>1, StepTyped
<1>2. ASSUME NEW t \in Turns, Create(t) \/ CompactBegin(t) \/ Abort(t) PROVE TypeOK'
  <2>1. CASE Create(t)
    BY <2>1 DEF Create, Executing, TypeOK
  <2>2. CASE CompactBegin(t)
    BY <2>2 DEF CompactBegin, TypeOK
  <2>3. CASE Abort(t)
    BY <2>3 DEF Abort, TypeOK
  <2>. QED BY <1>2, <2>1, <2>2, <2>3
<1>3. ASSUME NEW t \in Turns, Begin(t) PROVE TypeOK'
  <2>. DEFINE isDone == msg[t] \in DoneIds(journal)
  <2>0. isDone \in BOOLEAN
    BY DEF isDone
  <2>. HIDE DEF isDone
  <2>1. doneAtBegin' \in [Turns -> BOOLEAN]
    <3>1. doneAtBegin' = [doneAtBegin EXCEPT ![t] = isDone]
      BY <1>3 DEF Begin, isDone
    <3>. QED BY <3>1, <2>0 DEF TypeOK
  <2>. QED BY <1>3, <2>1 DEF Begin, TypeOK
<1>4. CASE Crash
  BY <1>4 DEF Crash, TypeOK
<1>5. CASE DeleteSnapshot
  BY <1>5 DEF DeleteSnapshot, TypeOK, Executing, Snapshots, SnapshotOf
<1>6. CASE DeleteJournal
  <2>1. journal' \in Seq(Records) /\ deletion' \in {"none", "half", "full"}
    BY <1>6 DEF DeleteJournal
  <2>2. torn' \in BOOLEAN
    BY <1>6 DEF DeleteJournal
  <2>. QED BY <1>6, <2>1, <2>2 DEF DeleteJournal, TypeOK
<1>7. CASE UNCHANGED vars
  BY <1>7 DEF vars, TypeOK
<1>. QED BY <1>1, <1>2, <1>3, <1>4, <1>5, <1>6, <1>7 DEF Next, Request

LEMMA NextCommitted == TypeOK /\ Committed /\ [Next]_vars => Committed'
<1>. SUFFICES ASSUME TypeOK, Committed, [Next]_vars PROVE Committed'
  OBVIOUS
<1>. USE DEF Committed, TypeOK, files, local, Goto, Phases, BeforeStart, Compacting,
         Statuses
<1>1. ASSUME NEW t \in Turns, Step(t) PROVE Committed'
  <2>1. CASE \/ Load(t) \/ Recover(t) \/ Recovered(t) \/ Resolve(t) \/ Start(t)
             \/ Work(t) \/ Reject(t) \/ \E m \in Messages : CloseDangling(t, m)
    BY <2>1 DEF Load, Recover, Recovered, Resolve, Start, Work, Reject, CloseDangling
  <2>2. CASE \E s \in Statuses : Settle(t, s) \/ SettleUnsaved(t, s)
    BY <2>2 DEF Settle, SettleUnsaved
  <2>3. CASE \/ SaveOpen(t) \/ SaveWrite(t) \/ SaveUnlinked(t) \/ SaveFail(t)
             \/ RecordEnd(t) \/ CompactCalled(t)
    BY <2>3 DEF SaveOpen, SaveWrite, SaveUnlinked, SaveFail, RecordEnd, CompactCalled,
                AfterSave
  <2>. QED BY <1>1, <2>1, <2>2, <2>3 DEF Step
<1>2. ASSUME NEW t \in Turns, Request(t) PROVE Committed'
  BY <1>2 DEF Request, Create, Begin, CompactBegin, Abort
<1>3. CASE Crash \/ DeleteSnapshot \/ DeleteJournal \/ UNCHANGED vars
  BY <1>3 DEF Crash, DeleteSnapshot, DeleteJournal, vars
<1>. QED BY <1>1, <1>2, <1>3 DEF Next

(* Every variable keeps its type: runAgentTurn's invocations move only      *)
(* between the phases modelled, and the files hold only what they write.    *)
THEOREM TypeCorrect == Spec => [](TypeOK /\ Committed)
BY InitTyped, NextTyped, NextCommitted, PTL DEF Spec

-----------------------------------------------------------------------------
(* Until the session is deleted, nothing takes a record out of its journal. *)
LEMMA JournalGrows ==
  ASSUME TypeOK, Committed, [Next]_vars, deletion' = "none"
  PROVE  On(journal) \subseteq On(journal')
<1>. USE DEF files, local
<1>1. ASSUME NEW t \in Turns, Step(t) PROVE On(journal) \subseteq On(journal')
  <2>1. CASE Start(t)
    <3>1. StartOf(msg[t]) \in Records
      BY DEF TypeOK, Records
    <3>. QED BY <2>1, <3>1, AppendGrows DEF Start
  <2>2. ASSUME NEW m \in Messages, CloseDangling(t, m)
        PROVE  On(journal) \subseteq On(journal')
    <3>1. InterruptedOf(m) \in Records
      BY DEF Records
    <3>. QED BY <2>2, <3>1, AppendGrows DEF CloseDangling
  <2>3. CASE RecordEnd(t)
    <3>1. EndOf(msg[t], outcome[t]) \in Records
      BY <2>3 DEF RecordEnd, Committed, TypeOK, Records
    <3>. QED BY <2>3, <3>1, AppendGrows DEF RecordEnd
  <2>4. CASE \/ Load(t) \/ Recover(t) \/ Recovered(t) \/ Resolve(t) \/ Work(t)
             \/ \E s \in Statuses : Settle(t, s) \/ SettleUnsaved(t, s)
             \/ SaveOpen(t) \/ SaveWrite(t) \/ SaveUnlinked(t) \/ SaveFail(t)
             \/ CompactCalled(t) \/ Reject(t)
    <3>1. UNCHANGED journal
      BY <2>4 DEF Load, Recover, Recovered, Resolve, Work, Settle, SettleUnsaved,
                  SaveOpen, SaveWrite, SaveUnlinked, SaveFail, CompactCalled, Reject
    <3>. QED BY <3>1 DEF On
  <2>. QED BY <1>1, <2>1, <2>2, <2>3, <2>4 DEF Step
<1>2. CASE \/ \E t \in Turns : Request(t)
           \/ Crash \/ DeleteSnapshot \/ DeleteJournal \/ UNCHANGED vars
  <2>1. UNCHANGED journal
    BY <1>2 DEF Request, Create, Begin, CompactBegin, Abort, Crash, DeleteSnapshot,
                DeleteJournal, vars
  <2>. QED BY <2>1 DEF On
<1>. QED BY <1>1, <1>2 DEF Next

(* The strengthening of RetransmitNeverReruns: the done record such a turn  *)
(* began with is still there, so the check it is on its way to will find it.*)
Answered ==
  \A t \in Turns :
    /\ pc[t] = "unused" => ~doneAtBegin[t]
    /\ doneAtBegin[t] /\ deletion = "none" =>
         /\ EndOf(msg[t], "done") \in On(journal)
         /\ pc[t] \in {"loading", "loaded", "recovering", "resolving",
                       "not_found", "rejected", "replayed", "dropped"}

LEMMA NextAnswered ==
  TypeOK /\ Committed /\ Answered /\ [Next]_vars => Answered'
<1>. SUFFICES ASSUME TypeOK, Committed, Answered, [Next]_vars,
                     NEW u \in Turns
              PROVE  /\ pc'[u] = "unused" => ~doneAtBegin'[u]
                     /\ doneAtBegin'[u] /\ deletion' = "none" =>
                          /\ EndOf(msg'[u], "done") \in On(journal')
                          /\ pc'[u] \in {"loading", "loaded", "recovering",
                               "resolving", "not_found", "rejected", "replayed",
                               "dropped"}
  BY DEF Answered
<1>. DEFINE Waiting == {"loading", "loaded", "recovering", "resolving",
                        "not_found", "rejected", "replayed", "dropped"}
<1>. USE DEF files, local, Goto, BeforeStart, Executing, Compacting, Over
<1>1. deletion' = "none" => On(journal) \subseteq On(journal')
  BY JournalGrows
<1>2. ASSUME NEW t \in Turns, Step(t)
      PROVE  /\ UNCHANGED <<msg, doneAtBegin, deletion>>
             /\ pc'[u] = "unused" => pc[u] = "unused"
             /\ pc[u] \in Waiting /\ EndOf(msg[u], "done") \in On(journal)
                  => pc'[u] \in Waiting
  <2>1. CASE \/ Load(t) \/ Recover(t) \/ Recovered(t) \/ Start(t) \/ Work(t)
             \/ Reject(t) \/ \E m \in Messages : CloseDangling(t, m)
    BY <2>1 DEF TypeOK, Load, Recover, Recovered, Start, Work, Reject, CloseDangling
  <2>2. CASE Resolve(t)
    BY <2>2 DEF TypeOK, Resolve, DoneIds
  <2>3. CASE \E s \in Statuses : Settle(t, s) \/ SettleUnsaved(t, s)
    BY <2>3 DEF TypeOK, Settle, SettleUnsaved
  <2>4. CASE \/ SaveOpen(t) \/ SaveWrite(t) \/ SaveUnlinked(t) \/ SaveFail(t)
             \/ RecordEnd(t) \/ CompactCalled(t)
    BY <2>4 DEF TypeOK, SaveOpen, SaveWrite, SaveUnlinked, SaveFail, RecordEnd,
                CompactCalled, AfterSave
  <2>. QED BY <1>2, <2>1, <2>2, <2>3, <2>4 DEF Step
<1>3. CASE \E t \in Turns : Step(t)
  <2>1. PICK t \in Turns : Step(t)
    BY <1>3
  <2>. QED BY <1>1, <1>2, <2>1, Zenon DEF Answered
<1>4. CASE \E t \in Turns : Begin(t)
  <2>. PICK t \in Turns : Begin(t)
    BY <1>4
  <2>1. CASE u = t
    <3>1. pc'[u] = "loading" /\ (doneAtBegin'[u] <=> msg[u] \in DoneIds(journal))
      BY <2>1 DEF Begin, TypeOK
    <3>. QED BY <3>1 DEF DoneIds, Begin
  <2>2. CASE u # t
    <3>1. pc'[u] = pc[u] /\ (doneAtBegin'[u] <=> doneAtBegin[u])
      BY <2>2 DEF Begin, TypeOK
    <3>. QED BY <3>1 DEF Begin, Answered
  <2>. QED BY <2>1, <2>2
<1>5. CASE \E t \in Turns : Create(t) \/ CompactBegin(t) \/ Abort(t)
  BY <1>5 DEF Create, CompactBegin, Abort, TypeOK, Answered
<1>6. CASE Crash
  BY <1>6 DEF Crash, TypeOK, Answered, Live, Unended
<1>7. CASE DeleteSnapshot \/ DeleteJournal \/ UNCHANGED vars
  BY <1>7 DEF DeleteSnapshot, DeleteJournal, vars, TypeOK, Answered
<1>. QED BY <1>3, <1>4, <1>5, <1>6, <1>7 DEF Next, Request

(* A message resent after its turn completed never runs a second time,      *)
(* whatever overlaps it, whichever writes fail and whenever the process     *)
(* dies: runAgentTurn answers it from the journal.                          *)
THEOREM RetransmitSafe == Spec => []RetransmitNeverReruns
<1>1. Init => Answered
  BY DEF Init, Answered
<1>2. Answered => RetransmitNeverReruns
  BY DEF Answered, RetransmitNeverReruns, Executing
<1>. QED BY <1>1, <1>2, TypeCorrect, NextAnswered, PTL DEF Spec

-----------------------------------------------------------------------------
(* Still executing or lost: no record closes its turn_start yet.            *)
Unclosed(t) == Unended(t) \/ pc[t] = "lost"

(* Only the record that ends a turn makes it closed.                        *)
LEMMA StaysUnclosed ==
  ASSUME TypeOK, Committed, [Next]_vars, NEW u \in Turns, Unclosed(u),
         ~RecordEnd(u)
  PROVE  Unclosed(u)' /\ msg'[u] = msg[u]
<1>. USE DEF Unclosed, Unended, files, local, Goto, Executing, Statuses, TypeOK
<1>1. ASSUME NEW t \in Turns, Step(t) PROVE Unclosed(u)' /\ msg'[u] = msg[u]
  <2>1. CASE \/ Load(t) \/ Recover(t) \/ Recovered(t) \/ Resolve(t) \/ Start(t)
             \/ Work(t) \/ Reject(t) \/ \E m \in Messages : CloseDangling(t, m)
    BY <2>1 DEF Load, Recover, Recovered, Resolve, Start, Work, Reject, CloseDangling
  <2>2. CASE \E s \in Statuses : Settle(t, s) \/ SettleUnsaved(t, s)
    BY <2>2 DEF Settle, SettleUnsaved
  <2>3. CASE \/ SaveOpen(t) \/ SaveWrite(t) \/ SaveUnlinked(t) \/ SaveFail(t)
             \/ CompactCalled(t)
    BY <2>3 DEF SaveOpen, SaveWrite, SaveUnlinked, SaveFail, CompactCalled, AfterSave
  <2>4. CASE RecordEnd(t)
    BY <2>4 DEF RecordEnd
  <2>. QED BY <1>1, <2>1, <2>2, <2>3, <2>4 DEF Step
<1>2. ASSUME NEW t \in Turns, Request(t) PROVE Unclosed(u)' /\ msg'[u] = msg[u]
  BY <1>2 DEF Request, Create, Begin, CompactBegin, Abort
<1>3. CASE Crash
  BY <1>3 DEF Crash, Live, Over
<1>4. CASE DeleteSnapshot \/ DeleteJournal \/ UNCHANGED vars
  BY <1>4 DEF DeleteSnapshot, DeleteJournal, vars
<1>. QED BY <1>1, <1>2, <1>3, <1>4 DEF Next

(* With reliable writes a step adds at most one record to the journal: the  *)
(* start of a turn that is then executing, or one that closes its message.  *)
LEMMA JournalStep ==
  ASSUME TypeOK, Committed, ~torn, JournalReliable, [Next]_vars
  PROVE  /\ ~torn'
         /\ \/ On(journal') = On(journal)
            \/ On(journal') = {}
            \/ \E t \in Turns : /\ On(journal') = On(journal) \cup {StartOf(msg[t])}
                                /\ Start(t)
            \/ \E t \in Turns :
                 /\ On(journal') = On(journal) \cup {EndOf(msg[t], outcome[t])}
                 /\ RecordEnd(t)
            \/ \E m \in Messages : /\ On(journal') = On(journal) \cup {InterruptedOf(m)}
                                   /\ \E t \in Turns : CloseDangling(t, m)
<1>. USE DEF files, local
<1>1. ASSUME NEW t \in Turns, Start(t)
      PROVE  On(journal') = On(journal) \cup {StartOf(msg[t])} /\ ~torn'
  <2>1. StartOf(msg[t]) \in Records
    BY DEF TypeOK, Records
  <2>. QED BY <1>1, <2>1, AppendExact DEF Start
<1>2. ASSUME NEW t \in Turns, RecordEnd(t)
      PROVE  On(journal') = On(journal) \cup {EndOf(msg[t], outcome[t])} /\ ~torn'
  <2>1. EndOf(msg[t], outcome[t]) \in Records
    BY <1>2 DEF RecordEnd, Committed, TypeOK, Records
  <2>. QED BY <1>2, <2>1, AppendExact DEF RecordEnd
<1>3. ASSUME NEW t \in Turns, NEW m \in Messages, CloseDangling(t, m)
      PROVE  On(journal') = On(journal) \cup {InterruptedOf(m)} /\ ~torn'
  <2>1. InterruptedOf(m) \in Records
    BY DEF Records
  <2>. QED BY <1>3, <2>1, AppendExact DEF CloseDangling
<1>4. CASE \E t \in Turns :
             \/ Load(t) \/ Recover(t) \/ Recovered(t) \/ Resolve(t) \/ Work(t)
             \/ \E s \in Statuses : Settle(t, s) \/ SettleUnsaved(t, s)
             \/ SaveOpen(t) \/ SaveWrite(t) \/ SaveUnlinked(t) \/ SaveFail(t)
             \/ CompactCalled(t) \/ Reject(t) \/ Request(t)
  <2>1. UNCHANGED <<journal, torn>>
    BY <1>4 DEF Load, Recover, Recovered, Resolve, Work, Settle, SettleUnsaved,
                SaveOpen, SaveWrite, SaveUnlinked, SaveFail, CompactCalled, Reject,
                Request, Create, Begin, CompactBegin, Abort
  <2>. QED BY <2>1 DEF On
<1>5. CASE Crash \/ DeleteSnapshot \/ UNCHANGED vars
  <2>1. UNCHANGED <<journal, torn>>
    BY <1>5 DEF Crash, DeleteSnapshot, vars
  <2>. QED BY <2>1 DEF On
<1>6. CASE DeleteJournal
  BY <1>6 DEF DeleteJournal, On
<1>. QED BY <1>1, <1>2, <1>3, <1>4, <1>5, <1>6 DEF Next, Step

LEMMA NextDangling ==
  ASSUME TypeOK, Committed, ~torn, JournalReliable, DanglingIsUnfinished, [Next]_vars
  PROVE  ~torn' /\ DanglingIsUnfinished'
<1>1. ~torn'
  BY JournalStep
<1>. SUFFICES ASSUME NEW m \in DanglingIds(journal')
              PROVE  \E t \in Turns : msg'[t] = m /\ Unclosed(t)'
  BY <1>1 DEF DanglingIsUnfinished, Unclosed
<1>. m \in Messages /\ StartOf(m) \in On(journal') /\ m \notin ClosedIds(journal')
  BY DEF DanglingIds, StartedIds
<1>2. CASE m \in DanglingIds(journal) /\ ~ \E t \in Turns : RecordEnd(t) /\ msg[t] = m
  <2>1. PICK t \in Turns : msg[t] = m /\ Unclosed(t)
    BY <1>2 DEF DanglingIsUnfinished, Unclosed
  <2>. QED BY <1>2, <2>1, StaysUnclosed
<1>3. ASSUME NEW t \in Turns, RecordEnd(t), msg[t] = m PROVE FALSE
  <2>1. outcome[t] \in Statuses
    BY <1>3 DEF RecordEnd, Committed
  <2>2. EndOf(m, outcome[t]) \in Records
    BY <2>1 DEF Records
  <2>3. On(journal') = On(journal) \cup {EndOf(m, outcome[t])}
    BY <1>3, <2>2, AppendExact DEF RecordEnd
  <2>. QED BY <2>1, <2>3 DEF ClosedIds
<1>4. CASE m \notin DanglingIds(journal)
  <2>1. PICK t \in Turns : Start(t) /\ StartOf(msg[t]) = StartOf(m)
    <3>1. CASE On(journal') = On(journal) \/ On(journal') = {}
      BY <1>4, <3>1 DEF DanglingIds, StartedIds, ClosedIds, InterruptedIds
    <3>2. ASSUME NEW t \in Turns, Start(t),
                 On(journal') = On(journal) \cup {StartOf(msg[t])}
          PROVE  StartOf(msg[t]) = StartOf(m)
      BY <1>4, <3>2 DEF DanglingIds, StartedIds, ClosedIds, InterruptedIds
    <3>3. ASSUME NEW t \in Turns, NEW s \in Statuses,
                 On(journal') = On(journal) \cup {EndOf(msg[t], s)}
          PROVE  FALSE
      BY <1>4, <3>3 DEF DanglingIds, StartedIds, ClosedIds, InterruptedIds,
                        StartOf, EndOf
    <3>4. ASSUME NEW n \in Messages,
                 On(journal') = On(journal) \cup {InterruptedOf(n)}
          PROVE  FALSE
      BY <1>4, <3>4 DEF DanglingIds, StartedIds, ClosedIds, InterruptedIds,
                        StartOf, InterruptedOf
    <3>5. \A t \in Turns : RecordEnd(t) => outcome[t] \in Statuses
      BY DEF RecordEnd, Committed
    <3>. QED BY <3>1, <3>2, <3>3, <3>4, <3>5, JournalStep
  <2>2. msg'[t] = m /\ pc'[t] = "running"
    BY <2>1 DEF Start, StartOf, Goto, TypeOK
  <2>. QED BY <2>2 DEF Unclosed, Unended
<1>. QED BY <1>2, <1>3, <1>4

(* With reliable journal writes, what the journal reports as interrupted    *)
(* really is: whatever runs concurrently, and even across a deletion.       *)
THEOREM DanglingSound ==
  ASSUME JournalReliable PROVE Spec => []DanglingIsUnfinished
<1>1. Init => ~torn /\ DanglingIsUnfinished
  BY DEF Init, DanglingIsUnfinished, DanglingIds, StartedIds, On
<1>2. TypeOK /\ Committed /\ ~torn /\ DanglingIsUnfinished /\ [Next]_vars
        => (~torn /\ DanglingIsUnfinished)'
  BY NextDangling
<1>. QED BY <1>1, <1>2, TypeCorrect, PTL DEF Spec

-----------------------------------------------------------------------------
(* The message of an invocation never changes, and only turn_start opens it. *)
LEMMA NextMsg ==
  ASSUME TypeOK, [Next]_vars PROVE msg' = msg
BY DEF Next, Step, Request, Load, Recover, Recovered, Resolve, Start, Work, CloseDangling, Settle,
       SettleUnsaved, SaveOpen, SaveWrite, SaveUnlinked, SaveFail, RecordEnd, CompactCalled, Reject,
       Create, Begin, CompactBegin, Abort, Crash, DeleteSnapshot, DeleteJournal, vars, files, local

LEMMA DeletedForGood ==
  ASSUME [Next]_vars, deletion' = "none" PROVE deletion = "none"
  BY DEF Next, Step, Request, Load, Recover, Recovered, Resolve, Start, Work, CloseDangling, Settle,
         SettleUnsaved, SaveOpen, SaveWrite, SaveUnlinked, SaveFail, RecordEnd, CompactCalled, Reject,
         Create, Begin, CompactBegin, Abort, Crash, DeleteSnapshot, DeleteJournal, vars, files

LEMMA StaysClosed ==
  ASSUME TypeOK, Committed, [Next]_vars, NEW u \in Turns, ~Unclosed(u), ~Start(u)
  PROVE  ~Unclosed(u)'
<1>. USE DEF Unclosed, Unended, files, local, Goto, Executing, Statuses, TypeOK
<1>1. ASSUME NEW t \in Turns, Step(t) PROVE ~Unclosed(u)'
  <2>1. CASE \/ Load(t) \/ Recover(t) \/ Recovered(t) \/ Resolve(t) \/ Start(t)
             \/ Work(t) \/ Reject(t) \/ \E m \in Messages : CloseDangling(t, m)
    BY <2>1 DEF Load, Recover, Recovered, Resolve, Start, Work, Reject, CloseDangling
  <2>2. CASE \E s \in Statuses : Settle(t, s) \/ SettleUnsaved(t, s)
    BY <2>2 DEF Settle, SettleUnsaved
  <2>3. CASE \/ SaveOpen(t) \/ SaveWrite(t) \/ SaveUnlinked(t) \/ SaveFail(t)
             \/ CompactCalled(t)
    BY <2>3 DEF SaveOpen, SaveWrite, SaveUnlinked, SaveFail, CompactCalled, AfterSave,
                Committed, Compacting
  <2>4. CASE RecordEnd(t)
    BY <2>4 DEF RecordEnd
  <2>. QED BY <1>1, <2>1, <2>2, <2>3, <2>4 DEF Step
<1>2. ASSUME NEW t \in Turns, Request(t) PROVE ~Unclosed(u)'
  BY <1>2 DEF Request, Create, Begin, CompactBegin, Abort
<1>3. CASE Crash
  BY <1>3 DEF Crash, Live, Over
<1>4. CASE DeleteSnapshot \/ DeleteJournal \/ UNCHANGED vars
  BY <1>4 DEF DeleteSnapshot, DeleteJournal, vars
<1>. QED BY <1>1, <1>2, <1>3, <1>4 DEF Next

(* The strengthening of LostTurnVisible: the intent of a turn is in the      *)
(* journal from the moment it runs.                                          *)
Intended ==
  deletion = "none" => \A t \in Turns : Unclosed(t) => StartOf(msg[t]) \in On(journal)

LEMMA NextIntended ==
  ASSUME TypeOK, Committed, ~torn, JournalReliable, Intended, [Next]_vars
  PROVE  Intended'
<1>. SUFFICES ASSUME deletion' = "none", NEW u \in Turns, Unclosed(u)'
              PROVE  StartOf(msg[u])' \in On(journal')
  BY DEF Intended
<1>1. deletion = "none"
  BY DeletedForGood
<1>2. On(journal) \subseteq On(journal')
  BY JournalGrows
<1>3. CASE Unclosed(u)
  <2>1. StartOf(msg[u]) \in On(journal)
    BY <1>1, <1>3 DEF Intended
  <2>2. msg'[u] = msg[u]
    BY NextMsg
  <2>. QED BY <1>2, <2>1, <2>2 DEF StartOf
<1>4. CASE Start(u)
  <2>1. StartOf(msg[u]) \in Records
    BY DEF TypeOK, Records
  <2>2. On(journal') = On(journal) \cup {StartOf(msg[u])}
    BY <1>4, <2>1, AppendExact DEF Start
  <2>3. msg' = msg
    BY <1>4 DEF Start
  <2>. QED BY <2>2, <2>3
<1>5. CASE ~Unclosed(u) /\ ~Start(u)
  BY <1>5, StaysClosed
<1>. QED BY <1>3, <1>4, <1>5

(* A turn that a crash or a failed save cut off is in the journal: as        *)
(* interrupted, as unresolved, or with another end of its message; a user    *)
(* who comes back is told (agent/session.ts, sessions/journal.ts).           *)
THEOREM LostTurnsFound ==
  ASSUME JournalReliable PROVE Spec => []LostTurnVisible
<1>1. Init => ~torn /\ Intended
  BY DEF Init, Intended, Unclosed, Unended, Executing
<1>2. TypeOK /\ Committed /\ ~torn /\ Intended /\ [Next]_vars => (~torn /\ Intended)'
  BY NextIntended, JournalStep
<1>3. TypeOK /\ Intended => LostTurnVisible
  BY DEF TypeOK, Intended, LostTurnVisible, Unclosed, DanglingIds, UnresolvedIds, StartedIds, ClosedIds,
         InterruptedIds, DoneIds, Statuses
<1>. QED BY <1>1, <1>2, <1>3, TypeCorrect, PTL DEF Spec

-----------------------------------------------------------------------------
(* When turns do not overlap.                                               *)
OneLive == \A t, u \in Live : t = u

LEMMA NextOneLive ==
  ASSUME ~Overlap, TypeOK, OneLive, [Next]_vars
  PROVE  OneLive'
<1>. USE DEF OneLive, Live, Goto, files, local, TypeOK
<1>1. ASSUME NEW t \in Turns, Step(t)
      PROVE  t \in Live /\ \A u \in Turns : u # t => pc'[u] = pc[u]
  <2>. USE DEF Over
  <2>1. CASE \/ Load(t) \/ Recover(t) \/ Recovered(t) \/ Resolve(t) \/ Start(t)
             \/ Work(t) \/ Reject(t) \/ \E m \in Messages : CloseDangling(t, m)
    BY <2>1 DEF Load, Recover, Recovered, Resolve, Start, Work, Reject, CloseDangling
  <2>2. CASE \/ \E s \in Statuses : Settle(t, s) \/ SettleUnsaved(t, s)
             \/ SaveOpen(t) \/ SaveWrite(t) \/ SaveUnlinked(t) \/ SaveFail(t)
             \/ RecordEnd(t) \/ CompactCalled(t)
    BY <2>2 DEF Settle, SettleUnsaved, SaveOpen, SaveWrite, SaveUnlinked,
                SaveFail, RecordEnd, CompactCalled
  <2>. QED BY <1>1, <2>1, <2>2 DEF Step
<1>2. CASE \E t \in Turns : Step(t)
  BY <1>1, <1>2
<1>3. ASSUME NEW t \in Turns, Create(t) \/ Begin(t) \/ CompactBegin(t) PROVE OneLive'
  <2>1. \A u \in Turns : u # t => pc'[u] = pc[u]
    BY <1>3 DEF Create, Begin, CompactBegin
  <2>2. Live = {}
    BY <1>3 DEF Create, Begin, CompactBegin
  <2>. QED BY <2>1, <2>2
<1>4. ASSUME NEW t \in Turns, Abort(t) PROVE OneLive'
  BY <1>4 DEF Abort
<1>5. CASE Crash
  <2>1. \A u \in Turns : pc'[u] \in Over \/ pc'[u] = pc[u]
    BY <1>5 DEF Crash, Over
  <2>. QED BY <2>1
<1>6. CASE DeleteSnapshot
  <2>1. \A u \in Turns : pc'[u] = pc[u] \/ pc[u] = "writing"
    BY <1>6 DEF DeleteSnapshot
  <2>. QED BY <2>1 DEF Over
<1>7. CASE DeleteJournal \/ UNCHANGED vars
  BY <1>7 DEF DeleteJournal, vars
<1>. QED BY <1>2, <1>3, <1>4, <1>5, <1>6, <1>7 DEF Next, Request

(* The strengthening of ReportedOnce: what an invocation reports is closed   *)
(* in the journal, or it is still closing it; only a crash stops it early.   *)
ReportsClosed ==
  deletion = "none" =>
    /\ \A t \in Turns :
         /\ reported[t] \subseteq ClosedIds(journal) \cup toClose[t]
         /\ toClose[t] # {} => pc[t] \in {"recovering", "dropped"}
    /\ \A t, u \in Turns :
         t # u /\ pc[t] # "dropped" /\ pc[u] # "dropped" => reported[t] \cap reported[u] = {}

(* A step that neither reads the journal for a recovery nor closes a turn.   *)
NoRecovery ==
  /\ UNCHANGED <<toClose, reported>>
  /\ \A t \in Turns : /\ pc'[t] # "dropped" => pc[t] # "dropped"
                      /\ pc[t] \in {"recovering", "dropped"} /\ toClose[t] # {} =>
                           pc'[t] \in {"recovering", "dropped"}

LEMMA NoRecoverySteps ==
  ASSUME TypeOK, [Next]_vars,
         \A t \in Turns : ~Recover(t) /\ \A m \in Messages : ~CloseDangling(t, m)
  PROVE  NoRecovery
<1>. USE DEF NoRecovery, TypeOK, Goto, files, local
<1>1. CASE \E t \in Turns : Load(t) \/ Recovered(t) \/ Resolve(t) \/ Start(t) \/ Work(t) \/ Reject(t)
  BY <1>1 DEF Load, Recovered, Resolve, Start, Work, Reject
<1>2. CASE \E t \in Turns, s \in Statuses : Settle(t, s) \/ SettleUnsaved(t, s)
  BY <1>2 DEF Settle, SettleUnsaved
<1>3. CASE \E t \in Turns : \/ SaveOpen(t) \/ SaveWrite(t) \/ SaveUnlinked(t) \/ SaveFail(t)
                            \/ RecordEnd(t) \/ CompactCalled(t)
  BY <1>3 DEF SaveOpen, SaveWrite, SaveUnlinked, SaveFail, RecordEnd, CompactCalled
<1>4. CASE \E t \in Turns : Request(t)
  BY <1>4 DEF Request, Create, Begin, CompactBegin, Abort
<1>5. CASE Crash
  BY <1>5 DEF Crash, Live, Over, Unended, Executing
<1>6. CASE DeleteSnapshot \/ DeleteJournal \/ UNCHANGED vars
  BY <1>6 DEF DeleteSnapshot, DeleteJournal, vars
<1>. QED BY <1>1, <1>2, <1>3, <1>4, <1>5, <1>6 DEF Next, Step

LEMMA NextReportsClosed ==
  ASSUME ~Overlap, TypeOK, Committed, ~torn, JournalReliable, OneLive, ReportsClosed, [Next]_vars
  PROVE  ReportsClosed'
<1>. SUFFICES ASSUME deletion' = "none" PROVE ReportsClosed'
  BY DEF ReportsClosed
<1>1. deletion = "none"
  BY DeletedForGood
<1>2. ClosedIds(journal) \subseteq ClosedIds(journal')
  BY JournalGrows DEF ClosedIds, InterruptedIds
<1>3. CASE \A t \in Turns : ~Recover(t) /\ \A m \in Messages : ~CloseDangling(t, m)
  <2>1. NoRecovery
    BY <1>3, NoRecoverySteps
  <2>. QED BY <1>1, <1>2, <2>1 DEF NoRecovery, ReportsClosed
<1>4. ASSUME NEW t \in Turns, Recover(t) PROVE ReportsClosed'
  <2>1. /\ UNCHANGED journal
        /\ toClose'[t] = DanglingIds(journal) /\ reported'[t] = DanglingIds(journal)
        /\ pc'[t] = "recovering"
        /\ \A u \in Turns : u # t => /\ toClose'[u] = toClose[u] /\ reported'[u] = reported[u]
                                     /\ pc'[u] = pc[u]
    BY <1>4 DEF Recover, TypeOK, Goto, files
  <2>2. \A u \in Turns : u # t => pc[u] # "recovering"
    BY <1>4 DEF OneLive, Live, Over, Recover
  <2>3. \A u \in Turns : u # t /\ pc[u] # "dropped" => reported[u] \subseteq ClosedIds(journal)
    BY <1>1, <2>2 DEF ReportsClosed
  <2>4. \A u \in Turns : u # t /\ pc[u] # "dropped" => reported[u] \cap DanglingIds(journal) = {}
    BY <2>3 DEF DanglingIds
  <2>. QED BY <1>1, <2>1, <2>4 DEF ReportsClosed
<1>5. ASSUME NEW t \in Turns, NEW m \in Messages, CloseDangling(t, m) PROVE ReportsClosed'
  <2>1. /\ UNCHANGED <<pc, reported>>
        /\ toClose'[t] = toClose[t] \ {m} /\ pc[t] = "recovering"
        /\ \A u \in Turns : u # t => toClose'[u] = toClose[u]
    BY <1>5 DEF CloseDangling, TypeOK
  <2>2. InterruptedOf(m) \in Records
    BY DEF Records
  <2>3. m \in ClosedIds(journal')
    BY <1>5, <2>2, AppendExact DEF CloseDangling, ClosedIds, InterruptedIds
  <2>. QED BY <1>1, <1>2, <2>1, <2>3 DEF ReportsClosed
<1>. QED BY <1>3, <1>4, <1>5

(* When turns do not overlap and the journal's appends succeed, recovery     *)
(* hands every interrupted turn to one caller (recoverSession): a crash in   *)
(* the middle of a recovery leaves the rest to the next one.                 *)
THEOREM ReportsDisjoint ==
  ASSUME ~Overlap, JournalReliable PROVE Spec => []ReportedOnce
<1>1. Init => ~torn /\ OneLive /\ ReportsClosed
  BY DEF Init, OneLive, Live, ReportsClosed
<1>2. TypeOK /\ OneLive /\ [Next]_vars => OneLive'
  BY NextOneLive
<1>3. TypeOK /\ Committed /\ ~torn /\ [Next]_vars => ~torn'
  BY JournalStep
<1>4. TypeOK /\ Committed /\ ~torn /\ OneLive /\ ReportsClosed /\ [Next]_vars => ReportsClosed'
  BY NextReportsClosed
<1>5. ReportsClosed => ReportedOnce
  BY DEF ReportsClosed, ReportedOnce, Told
<1>. QED BY <1>1, <1>2, <1>3, <1>4, <1>5, TypeCorrect, PTL DEF Spec

(* The strengthening of AtMostOneDone: a turn that passed the idempotency   *)
(* check has no done record, and keeps none until it writes its own.        *)
NotYetDone ==
  \A t \in Turns : pc[t] = "assembling" \/ Unended(t) =>
    EndOf(msg[t], "done") \notin On(journal)

(* An append either adds r at the end or leaves the records as they are.    *)
LEMMA AppendOnce ==
  ASSUME NEW r \in Records, TypeOK, AtMostOneDone, AppendJournal(r),
         r.status = "done" => r \notin On(journal)
  PROVE  AtMostOneDone'
<1>1. CASE UNCHANGED journal
  BY <1>1 DEF AtMostOneDone
<1>2. CASE journal' = Append(journal, r)
  <2>1. journal \in Seq(Records)
    BY DEF TypeOK
  <2>2. /\ DOMAIN journal = 1..Len(journal) /\ Len(journal) \in Nat
        /\ DOMAIN journal' = 1..(Len(journal) + 1)
        /\ \A i \in 1..Len(journal) : journal'[i] = journal[i]
        /\ journal'[Len(journal) + 1] = r
    BY <1>2, <2>1
  <2>. SUFFICES ASSUME NEW i \in DOMAIN journal', NEW j \in DOMAIN journal',
                       journal'[i] = journal'[j], journal'[i].status = "done"
                PROVE  i = j
    BY DEF AtMostOneDone
  <2>3. \A k \in DOMAIN journal' : k \in DOMAIN journal \/ k = Len(journal) + 1
    BY <2>2
  <2>4. r.status = "done" => \A k \in DOMAIN journal : journal[k] # r
    BY DEF On
  <2>. QED BY <2>2, <2>3, <2>4 DEF AtMostOneDone
<1>. QED BY <1>1, <1>2 DEF AppendJournal

LEMMA NextOneDone ==
  ASSUME ~Overlap, TypeOK, Committed, OneLive, NotYetDone, AtMostOneDone, [Next]_vars
  PROVE  NotYetDone' /\ AtMostOneDone'
<1>. USE DEF files, local, Goto
<1>1. ASSUME NEW t \in Turns, Start(t) PROVE NotYetDone' /\ AtMostOneDone'
  <2>1. StartOf(msg[t]) \in Records
    BY DEF TypeOK, Records
  <2>2. AtMostOneDone' /\ On(journal') \subseteq On(journal) \cup {StartOf(msg[t])}
    BY <1>1, <2>1, AppendOnce, AppendGrows DEF Start, StartOf
  <2>3. \A m \in Messages : EndOf(m, "done") # StartOf(msg[t])
    BY DEF EndOf, StartOf
  <2>4. \A u \in Turns : (pc'[u] = "assembling" \/ Unended(u)') =>
                          (pc[u] = "assembling" \/ Unended(u)) /\ msg'[u] = msg[u]
    BY <1>1 DEF Start, TypeOK, Unended
  <2>. QED BY <2>2, <2>3, <2>4 DEF NotYetDone, TypeOK
<1>2. ASSUME NEW t \in Turns, NEW m \in Messages, CloseDangling(t, m)
      PROVE  NotYetDone' /\ AtMostOneDone'
  <2>1. InterruptedOf(m) \in Records
    BY DEF Records
  <2>2. AtMostOneDone' /\ On(journal') \subseteq On(journal) \cup {InterruptedOf(m)}
    BY <1>2, <2>1, AppendOnce, AppendGrows DEF CloseDangling, InterruptedOf
  <2>3. \A n \in Messages : EndOf(n, "done") # InterruptedOf(m)
    BY DEF EndOf, InterruptedOf
  <2>. QED BY <1>2, <2>2, <2>3 DEF NotYetDone, TypeOK, CloseDangling, Unended
<1>3. ASSUME NEW t \in Turns, RecordEnd(t) PROVE NotYetDone' /\ AtMostOneDone'
  <2>1. EndOf(msg[t], outcome[t]) \in Records /\ outcome[t] \in Statuses
    BY <1>3 DEF RecordEnd, Committed, TypeOK, Records
  <2>2. outcome[t] = "done" => EndOf(msg[t], outcome[t]) \notin On(journal)
    BY <1>3, <2>1 DEF RecordEnd, NotYetDone, Unended, Executing
  <2>3. AtMostOneDone'
    BY <1>3, <2>1, <2>2, AppendOnce DEF RecordEnd, EndOf
  <2>4. ASSUME NEW u \in Turns PROVE pc'[u] # "assembling" /\ ~Unended(u)'
    <3>1. t \in Live /\ (u # t => u \notin Live)
      BY <1>3 DEF RecordEnd, OneLive, Live, Over
    <3>2. u # t => pc[u] \notin {"assembling", "running"} \cup Executing
      BY <3>1 DEF Live, Over, Executing
    <3>. QED BY <1>3, <3>2 DEF RecordEnd, TypeOK, Unended, Executing
  <2>. QED BY <2>3, <2>4 DEF NotYetDone
<1>4. ASSUME NEW t \in Turns,
             \/ Load(t) \/ Recover(t) \/ Recovered(t) \/ Resolve(t) \/ Work(t)
             \/ \E s \in Statuses : Settle(t, s) \/ SettleUnsaved(t, s)
             \/ SaveOpen(t) \/ SaveWrite(t) \/ SaveUnlinked(t) \/ SaveFail(t)
             \/ CompactCalled(t) \/ Reject(t) \/ Request(t)
      PROVE  NotYetDone' /\ AtMostOneDone'
  <2>1. UNCHANGED <<journal, msg>>
    BY <1>4 DEF Load, Recover, Recovered, Resolve, Work, Settle, SettleUnsaved,
                SaveOpen, SaveWrite, SaveUnlinked, SaveFail, CompactCalled, Reject,
                Request, Create, Begin, CompactBegin, Abort
  <2>2. ASSUME NEW u \in Turns, pc'[u] = "assembling" \/ Unended(u)'
        PROVE  \/ pc[u] = "assembling" \/ Unended(u)
               \/ EndOf(msg[u], "done") \notin On(journal)
    <3>. USE <2>2 DEF Unended, Executing, Statuses, TypeOK
    <3>1. CASE Resolve(t)
      BY <3>1 DEF Resolve, DoneIds
    <3>2. CASE Load(t) \/ Recover(t) \/ Recovered(t) \/ Work(t) \/ Reject(t)
      BY <3>2 DEF Load, Recover, Recovered, Work, Reject
    <3>3. CASE \E s \in Statuses : Settle(t, s) \/ SettleUnsaved(t, s)
      BY <3>3 DEF Settle, SettleUnsaved
    <3>4. CASE \/ SaveOpen(t) \/ SaveWrite(t) \/ SaveUnlinked(t) \/ SaveFail(t)
               \/ CompactCalled(t)
      BY <3>4 DEF SaveOpen, SaveWrite, SaveUnlinked, SaveFail, CompactCalled,
                  AfterSave, Committed, Compacting
    <3>5. CASE Request(t)
      BY <3>5 DEF Request, Create, Begin, CompactBegin, Abort
    <3>. QED BY <1>4, <3>1, <3>2, <3>3, <3>4, <3>5
  <2>. QED BY <2>1, <2>2 DEF NotYetDone, AtMostOneDone, On
<1>5. CASE Crash \/ DeleteSnapshot \/ UNCHANGED vars
  BY <1>5 DEF Crash, DeleteSnapshot, vars, NotYetDone, AtMostOneDone, On, Unended,
              TypeOK, Executing
<1>6. CASE DeleteJournal
  BY <1>6 DEF DeleteJournal, NotYetDone, AtMostOneDone, On
<1>. QED BY <1>1, <1>2, <1>3, <1>4, <1>5, <1>6 DEF Next, Step

(* When the turns of a session do not overlap, a message completes at most  *)
(* once in its journal, whatever crashes and however writes fail.           *)
THEOREM OneDone == ASSUME ~Overlap PROVE Spec => []AtMostOneDone
<1>1. Init => OneLive /\ NotYetDone /\ AtMostOneDone
  BY DEF Init, OneLive, Live, NotYetDone, AtMostOneDone, On
<1>2. TypeOK /\ OneLive /\ [Next]_vars => OneLive'
  BY NextOneLive
<1>3. TypeOK /\ Committed /\ OneLive /\ NotYetDone /\ AtMostOneDone /\ [Next]_vars
        => (NotYetDone /\ AtMostOneDone)'
  BY NextOneDone
<1>. QED BY <1>1, <1>2, <1>3, TypeCorrect, PTL DEF Spec

(* The strengthening of FinishedWorkKept.  Only a turn that ran has work;   *)
(* an invocation past its load carries the work of every finished turn, and *)
(* what it has yet to write, or has just written, includes its own.         *)
WorkSited ==
  \A t \in Turns :
    /\ pc[t] = "unused" => outcome[t] = "none"
    /\ pc[t] \notin Executing \cup {"finished", "lost"} => work[t] = 0
    /\ outcome[t] = "create" /\ pc[t] # "running" => work[t] = 0 \/ pc[t] = "lost"
    /\ outcome[t] = "compact" => work[t] = 0 /\ pc[t] \notin BeforeStart \cup {"running"}

Carriers == {"loaded", "recovering", "resolving", "assembling", "running", "c_calling",
             "opening", "writing"}
Carried ==
  deletion = "none" =>
    /\ FinishedWorkKept
    /\ \A t \in Turns :
         /\ pc[t] # "unlinked"
         /\ pc[t] \in Carriers =>
              \A f \in Turns : pc[f] = "finished" => EntriesOf(f) \subseteq ctx[t]
         /\ pc[t] \in {"opening", "writing"} /\ outcome[t] \in Statuses =>
              EntriesOf(t) \subseteq ctx[t]
         /\ pc[t] = "saved" /\ snap.state = "ok" => EntriesOf(t) \subseteq snap.msgs

LEMMA NextWorkSited == TypeOK /\ Committed /\ WorkSited /\ [Next]_vars => WorkSited'
<1>. SUFFICES ASSUME TypeOK, Committed, WorkSited, [Next]_vars PROVE WorkSited'
  OBVIOUS
<1>. USE DEF WorkSited, Committed, TypeOK, files, local, Goto, BeforeStart, Executing,
         Compacting, Statuses
<1>1. ASSUME NEW t \in Turns, Step(t) PROVE WorkSited'
  <2>1. CASE \/ Load(t) \/ Recover(t) \/ Recovered(t) \/ Resolve(t) \/ Start(t)
             \/ Reject(t) \/ \E m \in Messages : CloseDangling(t, m)
    BY <2>1 DEF Load, Recover, Recovered, Resolve, Start, Reject, CloseDangling
  <2>2. CASE Work(t)
    BY <2>2 DEF Work
  <2>3. CASE \E s \in Statuses : Settle(t, s) \/ SettleUnsaved(t, s)
    BY <2>3 DEF Settle, SettleUnsaved
  <2>4. CASE SaveOpen(t) \/ RecordEnd(t) \/ CompactCalled(t)
    BY <2>4 DEF SaveOpen, RecordEnd, CompactCalled
  <2>5. CASE SaveWrite(t) \/ SaveUnlinked(t)
    BY <2>5 DEF SaveWrite, SaveUnlinked, AfterSave
  <2>6. CASE SaveFail(t)
    BY <2>6 DEF SaveFail, Unended
  <2>. QED BY <1>1, <2>1, <2>2, <2>3, <2>4, <2>5, <2>6 DEF Step
<1>2. ASSUME NEW t \in Turns, Create(t) \/ CompactBegin(t) PROVE WorkSited'
  BY <1>2 DEF Create, CompactBegin
<1>5. ASSUME NEW t \in Turns, Begin(t) PROVE WorkSited'
  BY <1>5 DEF Begin
<1>6. ASSUME NEW t \in Turns, Abort(t) PROVE WorkSited'
  BY <1>6 DEF Abort
<1>3. CASE Crash
  BY <1>3 DEF Crash, Live, Unended, Over
<1>4. CASE DeleteSnapshot \/ DeleteJournal \/ UNCHANGED vars
  BY <1>4 DEF DeleteSnapshot, DeleteJournal, vars
<1>. QED BY <1>1, <1>2, <1>3, <1>4, <1>5, <1>6 DEF Next, Request

(* A step that leaves the snapshot and every conversation as they are.      *)
QuietMove(t) ==
  /\ UNCHANGED <<snap, deletion, ctx, work, outcome>>
  /\ \A u \in Turns : u # t => pc'[u] = pc[u]
  /\ pc[t] \in Carriers
  /\ \/ pc'[t] \in {"recovering", "resolving", "assembling", "replayed", "rejected",
                    "running"}
     \/ pc'[t] = "opening" /\ outcome[t] = "compact"

LEMMA QuietSteps ==
  ASSUME TypeOK, Committed, NEW t \in Turns,
         \/ Recover(t) \/ Recovered(t) \/ Resolve(t) \/ Start(t) \/ Reject(t)
         \/ CompactCalled(t) \/ \E m \in Messages : CloseDangling(t, m)
  PROVE  QuietMove(t)
<1>. USE DEF QuietMove, TypeOK, Goto, files, Carriers
<1>1. CASE Recover(t) \/ Recovered(t) \/ Resolve(t) \/ Reject(t)
  BY <1>1 DEF Recover, Recovered, Resolve, Reject
<1>2. CASE Start(t) \/ \E m \in Messages : CloseDangling(t, m)
  BY <1>2 DEF Start, CloseDangling
<1>3. CASE CompactCalled(t)
  BY <1>3 DEF CompactCalled, Committed, Compacting
<1>. QED BY <1>1, <1>2, <1>3

(* A step that touches no snapshot or conversation and takes no turn to a    *)
(* phase that owes more than its last one.                                   *)
LEMMA CarriedOn ==
  ASSUME Carried, UNCHANGED <<snap, deletion, ctx, work>>,
         \A t \in Turns :
           /\ pc'[t] \in {"finished", "unlinked", "saved"} => pc[t] = pc'[t]
           /\ pc'[t] \in Carriers => pc[t] \in Carriers
           /\ pc'[t] \in {"opening", "writing"} =>
                (pc[t] = pc'[t] /\ outcome'[t] = outcome[t]) \/ outcome'[t] \notin Statuses
  PROVE  Carried'
<1>1. \A t \in Turns : EntriesOf(t)' = EntriesOf(t)
  BY DEF EntriesOf
<1>. QED BY <1>1 DEF Carried, FinishedWorkKept

LEMMA NextCarried ==
  ASSUME ~Overlap, TypeOK, Committed, OneLive, WorkSited, Carried, [Next]_vars
  PROVE  Carried'
<1>. SUFFICES ASSUME deletion' = "none" PROVE Carried'
  BY DEF Carried
<1>. USE DEF Carried, FinishedWorkKept, Carriers, EntriesOf, TypeOK, files, local, Goto,
         Statuses
<1>1. ASSUME NEW t \in Turns, Step(t) PROVE Carried'
  <2>0. \A u \in Turns : u # t => pc[u] \notin Carriers \cup {"saved"}
    <3>1. t \in Live
      <4>. USE DEF Live, Over
      <4>1. CASE \/ Load(t) \/ Recover(t) \/ Recovered(t) \/ Resolve(t) \/ Start(t)
                 \/ Work(t) \/ Reject(t) \/ \E m \in Messages : CloseDangling(t, m)
        BY <4>1 DEF Load, Recover, Recovered, Resolve, Start, Work, Reject,
                    CloseDangling
      <4>2. CASE \/ \E s \in Statuses : Settle(t, s) \/ SettleUnsaved(t, s)
                 \/ SaveOpen(t) \/ SaveWrite(t) \/ SaveUnlinked(t) \/ SaveFail(t)
                 \/ RecordEnd(t) \/ CompactCalled(t)
        BY <4>2 DEF Settle, SettleUnsaved, SaveOpen, SaveWrite, SaveUnlinked,
                    SaveFail, RecordEnd, CompactCalled
      <4>. QED BY <1>1, <4>1, <4>2 DEF Step
    <3>. QED BY <3>1 DEF OneLive, Live, Over
  <2>1. CASE Load(t)
    <3>1. CASE snap.state = "ok"
      <4>1. /\ ctx' = [ctx EXCEPT ![t] = snap.msgs]
            /\ UNCHANGED <<snap, deletion, work, outcome>>
            /\ \A u \in Turns : u # t => pc'[u] = pc[u]
            /\ pc'[t] \in {"loaded", "c_calling"}
        BY <2>1, <3>1 DEF Load
      <4>2. \A f \in Turns : pc'[f] = "finished" => EntriesOf(f)' \subseteq snap.msgs
        BY <3>1, <4>1
      <4>3. ctx'[t] = snap.msgs
        BY <4>1
      <4>. QED BY <2>0, <3>1, <4>1, <4>2, <4>3
    <3>2. CASE snap.state # "ok"
      <4>1. /\ UNCHANGED <<snap, deletion, ctx, work, outcome>>
            /\ \A u \in Turns : u # t => pc'[u] = pc[u]
            /\ pc'[t] = "not_found"
        BY <2>1, <3>2 DEF Load
      <4>. HIDE DEF Carried
      <4>. QED BY <4>1, CarriedOn
    <3>. QED BY <3>1, <3>2
  <2>2. CASE \/ Recover(t) \/ Recovered(t) \/ Resolve(t) \/ Start(t) \/ Reject(t)
             \/ CompactCalled(t) \/ \E m \in Messages : CloseDangling(t, m)
    <3>1. QuietMove(t)
      BY <1>1, <2>2, QuietSteps
    <3>. HIDE DEF Carried, TypeOK
    <3>. QED BY <3>1, CarriedOn DEF QuietMove
  <2>3. CASE Work(t)
    BY <2>0, <2>3 DEF Work
  <2>4. ASSUME NEW s \in Statuses, Settle(t, s) PROVE Carried'
    BY <2>0, <2>4 DEF Settle
  <2>5. ASSUME NEW s \in Statuses, SettleUnsaved(t, s) PROVE Carried'
    BY <2>0, <2>5 DEF SettleUnsaved
  <2>6. CASE SaveOpen(t)
    BY <2>0, <2>6 DEF SaveOpen, SnapshotOf
  <2>7. CASE SaveWrite(t)
    BY <2>0, <2>7 DEF SaveWrite, SnapshotOf, AfterSave, Committed, WorkSited
  <2>8. CASE SaveUnlinked(t)
    BY <2>8 DEF SaveUnlinked
  <2>9. CASE SaveFail(t)
    BY <2>0, <2>9 DEF SaveFail
  <2>10. CASE RecordEnd(t)
    BY <2>0, <2>10 DEF RecordEnd
  <2>. QED BY <1>1, <2>1, <2>2, <2>3, <2>4, <2>5, <2>6, <2>7, <2>8, <2>9, <2>10
              DEF Step
<1>2. ASSUME NEW t \in Turns, Begin(t) PROVE Carried'
  <2>1. pc' = [pc EXCEPT ![t] = "loading"]
        /\ UNCHANGED <<snap, deletion, ctx, work, outcome>>
    BY <1>2 DEF Begin
  <2>2. \A u \in Turns : pc'[u] = pc[u] \/ pc'[u] = "loading"
    BY <2>1
  <2>. HIDE DEF Carried, TypeOK
  <2>. QED BY <2>1, <2>2, CarriedOn
<1>3. ASSUME NEW t \in Turns, CompactBegin(t) PROVE Carried'
  <2>1. /\ UNCHANGED <<snap, deletion, ctx, work>>
        /\ \A u \in Turns : u # t => pc'[u] = pc[u] /\ outcome'[u] = outcome[u]
        /\ pc'[t] = "c_loading"
    BY <1>3 DEF CompactBegin
  <2>. HIDE DEF Carried, TypeOK
  <2>. QED BY <2>1, CarriedOn
<1>7. ASSUME NEW t \in Turns, Create(t) PROVE Carried'
  <2>1. /\ \A u \in Turns : u # t => pc'[u] = "unused"
        /\ pc'[t] = "opening" /\ outcome'[t] = "create"
    BY <1>7 DEF Create
  <2>. QED BY <2>1
<1>6. ASSUME NEW t \in Turns, Abort(t) PROVE Carried'
  <2>1. UNCHANGED <<snap, deletion, ctx, work, outcome, pc>>
    BY <1>6 DEF Abort
  <2>. HIDE DEF Carried, TypeOK
  <2>. QED BY <2>1, CarriedOn
<1>4. CASE Crash
  <2>1. \A u \in Turns : \/ pc'[u] = pc[u] /\ pc[u] \in {"unused"} \cup Over
                         \/ pc'[u] \in {"lost", "dropped"}
    BY <1>4 DEF Crash, Live, Over
  <2>. QED BY <1>4, <2>1 DEF Crash, Over
<1>5. CASE DeleteSnapshot \/ DeleteJournal \/ UNCHANGED vars
  BY <1>5 DEF DeleteSnapshot, DeleteJournal, vars
<1>. QED BY <1>1, <1>2, <1>3, <1>4, <1>5, <1>6, <1>7 DEF Next, Request

(* When the turns of a session do not overlap, no crash, failed write,      *)
(* retry or compaction costs the snapshot an entry of a turn that ended.    *)
THEOREM WorkKept == ASSUME ~Overlap PROVE Spec => []FinishedWorkKept
<1>1. Init => OneLive /\ WorkSited /\ Carried
  BY DEF Init, OneLive, Live, WorkSited, Carried, FinishedWorkKept, Carriers,
         SnapshotOf, BeforeStart
<1>2. TypeOK /\ OneLive /\ [Next]_vars => OneLive'
  BY NextOneLive
<1>3. TypeOK /\ Committed /\ OneLive /\ WorkSited /\ Carried /\ [Next]_vars => Carried'
  BY NextCarried
<1>4. Carried => FinishedWorkKept
  BY DEF Carried, FinishedWorkKept
<1>. QED BY <1>1, <1>2, <1>3, <1>4, TypeCorrect, NextWorkSited, PTL DEF Spec

-----------------------------------------------------------------------------
(* The journal as a ledger (TurnLedger).                                    *)
At(j, m) == {i \in DOMAIN j : j[i].id = m}

LEMMA LatestIs ==
  ASSUME NEW S, S \subseteq Int, NEW i \in S, \A k \in S : k <= i
  PROVE  (CHOOSE x \in S : \A k \in S : k <= x) = i
<1> DEFINE c == CHOOSE x \in S : \A k \in S : k <= x
<1>1. c \in S /\ \A k \in S : k <= c
  OBVIOUS
<1> HIDE DEF c
<1>2. c <= i /\ i <= c /\ c \in Int /\ i \in Int
  BY <1>1
<1>3. c = i
  BY <1>2
<1> QED BY <1>3 DEF c

LEMMA LastIs ==
  ASSUME TypeOK, NEW m, NEW i \in At(journal, m), \A k \in At(journal, m) : k <= i
  PROVE  LastRecord(m) = journal[i]
<1> DEFINE S == At(journal, m)
<1>1. S \subseteq Int
  BY DEF At, TypeOK
<1>2. LastRecord(m) = journal[CHOOSE x \in S : \A k \in S : k <= x]
  BY DEF LastRecord, At
<1> HIDE DEF S
<1>3. (CHOOSE x \in S : \A k \in S : k <= x) = i
  BY <1>1, LatestIs DEF S
<1> QED BY <1>2, <1>3

(* A message with records has a last one.                                   *)
HasLast ==
  \A m \in Messages : At(journal, m) # {} =>
    \E i \in At(journal, m) : \A k \in At(journal, m) : k <= i

(* What one record makes of the state of its message.                       *)
StateBy(r) ==
  CASE r.type = "turn_start" -> "open" [] r.status = "done" -> "done" [] OTHER -> "failed"

LEMMA LedgerIs ==
  ASSUME NEW m
  PROVE  LedgerOf(m) = IF At(journal, m) = {} THEN "new" ELSE StateBy(LastRecord(m))
BY DEF LedgerOf, At, StateBy

LEMMA LedgerIsNext ==
  ASSUME NEW m
  PROVE  LedgerOf(m)' = IF At(journal', m) = {} THEN "new" ELSE StateBy(LastRecord(m)')
BY DEF LedgerOf, At, StateBy

LEMMA Appended ==
  ASSUME TypeOK, HasLast, NEW r \in Records, journal' = Append(journal, r)
  PROVE  /\ HasLast'
         /\ \A m \in Messages :
              LedgerOf(m)' = IF m = r.id THEN StateBy(r) ELSE LedgerOf(m)
<1>0. PICK id : id = r.id
  OBVIOUS
<1> DEFINE n == Len(journal)
<1>1. journal \in Seq(Records)
  BY DEF TypeOK
<1>2. /\ DOMAIN journal = 1..n /\ n \in Nat /\ DOMAIN journal' = 1..(n + 1)
      /\ \A i \in 1..n : journal'[i] = journal[i]
      /\ journal'[n + 1] = r
  BY <1>1
<1> HIDE DEF n
<1>3. At(journal', id) = At(journal, id) \cup {n + 1}
  BY <1>0, <1>2 DEF At
<1>4. \A m : m # id => At(journal', m) = At(journal, m)
  BY <1>0, <1>2 DEF At
<1>5. n + 1 \in At(journal', id) /\ \A k \in At(journal', id) : k <= n + 1
  BY <1>0, <1>2, <1>3 DEF At
<1>6. LastRecord(id)' = r
  <2> DEFINE S == At(journal', id)
  <2>1. S \subseteq Int
    BY <1>2 DEF At
  <2>2. LastRecord(id)' = journal'[CHOOSE x \in S : \A k \in S : k <= x]
    BY DEF LastRecord, At
  <2>4. n + 1 \in S /\ \A k \in S : k <= n + 1
    BY <1>5
  <2> HIDE DEF S
  <2>3. (CHOOSE x \in S : \A k \in S : k <= x) = n + 1
    BY <2>1, <2>4, LatestIs
  <2> QED BY <1>2, <2>2, <2>3
<1>7. LedgerOf(id)' = StateBy(r)
  BY <1>5, <1>6, LedgerIsNext
<1>8. ASSUME NEW m \in Messages, m # id PROVE LedgerOf(m)' = LedgerOf(m)
  <2>1. CASE At(journal, m) = {}
    BY <1>4, <1>8, <2>1, LedgerIs, LedgerIsNext
  <2>2. CASE At(journal, m) # {}
    <3>1. PICK i \in At(journal, m) : \A k \in At(journal, m) : k <= i
      BY <2>2 DEF HasLast
    <3>2. LastRecord(m) = journal[i]
      BY <3>1, LastIs
    <3>3. LastRecord(m)' = journal'[i]
      <4> DEFINE S == At(journal', m)
      <4>1. S \subseteq Int
        BY <1>2 DEF At
      <4>2. LastRecord(m)' = journal'[CHOOSE x \in S : \A k \in S : k <= x]
        BY DEF LastRecord, At
      <4>3. i \in S /\ \A k \in S : k <= i
        BY <1>4, <1>8, <3>1
      <4> HIDE DEF S
      <4>4. (CHOOSE x \in S : \A k \in S : k <= x) = i
        BY <4>1, <4>3, LatestIs
      <4> QED BY <4>2, <4>4
    <3>4. journal'[i] = journal[i]
      BY <1>2, <3>1 DEF At
    <3> QED BY <1>4, <1>8, <2>2, <3>2, <3>3, <3>4, LedgerIs, LedgerIsNext
  <2> QED BY <2>1, <2>2
<1>9. HasLast'
  <2> SUFFICES ASSUME NEW m \in Messages, At(journal', m) # {}
               PROVE  \E i \in At(journal', m) : \A k \in At(journal', m) : k <= i
    BY DEF HasLast, At
  <2>1. CASE m = id
    BY <1>5, <2>1
  <2>2. CASE m # id
    BY <1>4, <2>2 DEF HasLast
  <2> QED BY <2>1, <2>2
<1> QED BY <1>0, <1>7, <1>8, <1>9

(* A message the journal leaves dangling is open in the ledger; one the     *)
(* ledger calls done has a done record.                                     *)
LEMMA LastRecorded ==
  ASSUME TypeOK, HasLast, NEW m \in Messages, At(journal, m) # {}
  PROVE  LastRecord(m) \in On(journal) /\ LastRecord(m) \in Records /\ LastRecord(m).id = m
<1>1. PICK i \in At(journal, m) : \A k \in At(journal, m) : k <= i
  BY DEF HasLast
<1>2. LastRecord(m) = journal[i]
  BY <1>1, LastIs
<1>3. i \in DOMAIN journal /\ journal[i].id = m
  BY <1>1 DEF At
<1>4. journal \in Seq(Records)
  BY DEF TypeOK
<1>5. journal[i] \in Records
  BY <1>3, <1>4
<1> QED BY <1>2, <1>3, <1>5 DEF On

LEMMA OpenOrDone ==
  ASSUME TypeOK, HasLast, NEW m \in Messages
  PROVE  /\ m \in DanglingIds(journal) => LedgerOf(m) = "open"
         /\ LedgerOf(m) = "done" => m \in DoneIds(journal)
         /\ LedgerOf(m) \in {"new", "open", "failed", "done"}
<1>1. CASE At(journal, m) = {}
  <2>1. StartOf(m) \notin On(journal)
    BY <1>1 DEF At, On, StartOf
  <2> QED BY <1>1, <2>1, LedgerIs DEF DanglingIds, StartedIds
<1>2. CASE At(journal, m) # {}
  <2> DEFINE r == LastRecord(m)
  <2>1. r \in On(journal) /\ r \in Records /\ r.id = m
    BY <1>2, LastRecorded
  <2>2. LedgerOf(m) = StateBy(r)
    BY <1>2, LedgerIs
  <2> HIDE DEF r
  <2>3. \/ r = StartOf(m)
        \/ \E s \in Statuses : r = EndOf(m, s)
        \/ r = InterruptedOf(m)
    BY <2>1 DEF Records, StartOf, EndOf, InterruptedOf
  <2>4. m \in DanglingIds(journal) => StateBy(r) = "open"
    BY <2>1, <2>3 DEF StateBy, DanglingIds, ClosedIds, InterruptedIds, StartOf
  <2>5. StateBy(r) = "done" => r = EndOf(m, "done")
    BY <2>3 DEF StateBy, StartOf, EndOf, InterruptedOf
  <2> QED BY <2>1, <2>2, <2>4, <2>5 DEF DoneIds, StateBy
<1> QED BY <1>1, <1>2

(* The whole journal after a step: as it was, or one record longer.         *)
LEMMA JournalAppends ==
  ASSUME TypeOK, Committed, ~torn, JournalReliable, [Next]_vars, deletion' = "none"
  PROVE  \/ /\ UNCHANGED journal
            /\ \A t \in Turns : /\ ~Start(t) /\ ~RecordEnd(t)
                                /\ \A m \in Messages : ~CloseDangling(t, m)
         \/ \E t \in Turns : Start(t) /\ journal' = Append(journal, StartOf(msg[t]))
         \/ \E t \in Turns : /\ RecordEnd(t)
                             /\ journal' = Append(journal, EndOf(msg[t], outcome[t]))
         \/ \E t \in Turns, m \in Messages :
              CloseDangling(t, m) /\ journal' = Append(journal, InterruptedOf(m))
<1>1. CASE \A t \in Turns : /\ ~Start(t) /\ ~RecordEnd(t)
                            /\ \A m \in Messages : ~CloseDangling(t, m)
  <2> USE DEF files, local
  <2>1. CASE \E t \in Turns :
               \/ Load(t) \/ Recover(t) \/ Recovered(t) \/ Resolve(t) \/ Work(t)
               \/ \E s \in Statuses : Settle(t, s) \/ SettleUnsaved(t, s)
               \/ SaveOpen(t) \/ SaveWrite(t) \/ SaveUnlinked(t) \/ SaveFail(t)
               \/ CompactCalled(t) \/ Reject(t) \/ Request(t)
    BY <1>1, <2>1 DEF Load, Recover, Recovered, Resolve, Work, Settle, SettleUnsaved,
                SaveOpen, SaveWrite, SaveUnlinked, SaveFail, CompactCalled, Reject,
                Request, Create, Begin, CompactBegin, Abort
  <2>2. CASE Crash \/ DeleteSnapshot \/ UNCHANGED vars
    BY <1>1, <2>2 DEF Crash, DeleteSnapshot, vars
  <2>3. CASE DeleteJournal
    BY <2>3 DEF DeleteJournal
  <2> QED BY <1>1, <2>1, <2>2, <2>3 DEF Next, Step
<1>2. CASE ~ \A t \in Turns : /\ ~Start(t) /\ ~RecordEnd(t)
                              /\ \A m \in Messages : ~CloseDangling(t, m)
  BY <1>2 DEF Start, RecordEnd, CloseDangling, AppendJournal, JournalReliable
<1> QED BY <1>1, <1>2

(* What the refinement rests on while turns do not overlap and the session  *)
(* is kept: a recovery closes turns that are still dangling, and the        *)
(* message of an executing turn is open.                                    *)
Kept == deletion = "none" /\ HasLast
ClosesDangling ==
  \A t \in Turns : pc[t] = "recovering" => toClose[t] \subseteq DanglingIds(journal)
OpenWhileRunning == \A t \in Turns : Unended(t) => LedgerOf(msg[t]) = "open"

LEMMA RecordsTyped ==
  ASSUME TypeOK, Committed, NEW t \in Turns
  PROVE  /\ StartOf(msg[t]) \in Records
         /\ RecordEnd(t) => EndOf(msg[t], outcome[t]) \in Records
         /\ \A m \in Messages : InterruptedOf(m) \in Records
BY DEF TypeOK, Records, RecordEnd, Committed

LEMMA NextKept ==
  ASSUME ~Deletable, TypeOK, Committed, ~torn, JournalReliable, Kept, [Next]_vars
  PROVE  Kept'
<1>1. deletion' = "none"
  BY DEF Kept, Next, Step, Request, Load, Recover, Recovered, Resolve, Start, Work, CloseDangling, Settle,
         SettleUnsaved, SaveOpen, SaveWrite, SaveUnlinked, SaveFail, RecordEnd, CompactCalled, Reject,
         Create, Begin, CompactBegin, Abort, Crash, DeleteSnapshot, DeleteJournal, vars, files
<1>2. CASE UNCHANGED journal
  BY <1>1, <1>2 DEF Kept, HasLast, At
<1>3. ASSUME NEW r \in Records, journal' = Append(journal, r) PROVE Kept'
  BY <1>1, <1>3, Appended DEF Kept
<1> QED BY <1>1, <1>2, <1>3, JournalAppends, RecordsTyped

(* Over is for good, and only turn_start makes a turn executing.            *)
LEMMA NextUnended ==
  ASSUME TypeOK, Committed, [Next]_vars, NEW t \in Turns, Unended(t)', ~Start(t)
  PROVE  Unended(t)
<1>1. Unclosed(t)
  BY StaysClosed DEF Unclosed
<1>2. ASSUME pc[t] = "lost" PROVE pc'[t] = "lost"
  <2> USE DEF files, local, Goto, TypeOK, Live, Over, Compacting
  <2>1. ASSUME NEW u \in Turns, Step(u) PROVE pc'[t] = "lost"
    <3>1. CASE \/ Load(u) \/ Recover(u) \/ Recovered(u) \/ Resolve(u) \/ Start(u)
               \/ Work(u) \/ Reject(u) \/ \E m \in Messages : CloseDangling(u, m)
      BY <1>2, <3>1 DEF Load, Recover, Recovered, Resolve, Start, Work, Reject, CloseDangling
    <3>2. CASE \/ \E s \in Statuses : Settle(u, s) \/ SettleUnsaved(u, s)
               \/ SaveOpen(u) \/ SaveWrite(u) \/ SaveUnlinked(u) \/ SaveFail(u)
               \/ RecordEnd(u) \/ CompactCalled(u)
      BY <1>2, <3>2 DEF Settle, SettleUnsaved, SaveOpen, SaveWrite, SaveUnlinked,
                  SaveFail, RecordEnd, CompactCalled
    <3> QED BY <2>1, <3>1, <3>2 DEF Step
  <2>2. ASSUME NEW u \in Turns, Request(u) PROVE pc'[t] = "lost"
    BY <1>2, <2>2 DEF Request, Create, Begin, CompactBegin, Abort
  <2>3. CASE Crash \/ DeleteSnapshot \/ DeleteJournal \/ UNCHANGED vars
    BY <1>2, <2>3 DEF Crash, DeleteSnapshot, DeleteJournal, vars
  <2> QED BY <2>1, <2>2, <2>3 DEF Next
<1> QED BY <1>1, <1>2 DEF Unclosed, Unended, Executing

(* An invocation that writes a record is live.                              *)
LEMMA RecordersLive ==
  ASSUME NEW t \in Turns
  PROVE  /\ Start(t) \/ RecordEnd(t) \/ (\E m \in Messages : CloseDangling(t, m)) => t \in Live
         /\ Unended(t) \/ pc[t] = "recovering" => t \in Live
BY DEF Start, RecordEnd, CloseDangling, Live, Unended, Executing, Over

LEMMA NextOpenWhileRunning ==
  ASSUME ~Overlap, TypeOK, Committed, ~torn, JournalReliable, OneLive, Kept, OpenWhileRunning,
         [Next]_vars, deletion' = "none"
  PROVE  OpenWhileRunning'
<1> SUFFICES ASSUME NEW t \in Turns, Unended(t)' PROVE LedgerOf(msg[t])' = "open"
  BY DEF OpenWhileRunning
<1>1. PICK m \in Messages : m = msg[t] /\ m = msg'[t]
  BY NextMsg DEF TypeOK
<1> SUFFICES LedgerOf(m)' = "open"
  BY <1>1 DEF LedgerOf, LastRecord
<1>3. CASE Start(t)
  <2>1. PICK r : r = StartOf(m)
    OBVIOUS
  <2>2. journal' = Append(journal, r)
    BY <1>1, <1>3, <2>1 DEF Start, AppendJournal, JournalReliable
  <2>3. r \in Records /\ r.id = m /\ StateBy(r) = "open"
    BY <1>1, <2>1, RecordsTyped DEF StartOf, StateBy
  <2> QED BY <2>2, <2>3, Appended DEF Kept
<1>4. CASE ~Start(t)
  <2>1. Unended(t)
    BY <1>4, NextUnended
  <2>2. LedgerOf(m) = "open"
    BY <1>1, <2>1 DEF OpenWhileRunning
  <2>3. ~RecordEnd(t)
    BY DEF RecordEnd, Unended, Goto, TypeOK, Executing
  <2>4. \A k \in Messages : ~CloseDangling(t, k)
    BY <2>1 DEF CloseDangling, Unended, Executing
  <2>5. \A u \in Turns : u # t => /\ ~Start(u) /\ ~RecordEnd(u)
                                  /\ \A k \in Messages : ~CloseDangling(u, k)
    BY <2>1, RecordersLive DEF OneLive
  <2>6. UNCHANGED journal
    BY <1>4, <2>3, <2>4, <2>5, JournalAppends
  <2> QED BY <2>2, <2>6 DEF LedgerOf, LastRecord
<1> QED BY <1>3, <1>4

LEMMA NextClosesDangling ==
  ASSUME ~Overlap, TypeOK, Committed, ~torn, JournalReliable, OneLive, Kept, ClosesDangling,
         [Next]_vars, deletion' = "none"
  PROVE  ClosesDangling'
<1> SUFFICES ASSUME NEW t \in Turns, pc'[t] = "recovering"
             PROVE  toClose'[t] \subseteq DanglingIds(journal')
  BY DEF ClosesDangling
<1>1. CASE Recover(t)
  BY <1>1 DEF Recover, TypeOK, files
<1>2. ASSUME NEW m \in Messages, CloseDangling(t, m)
      PROVE  toClose'[t] \subseteq DanglingIds(journal')
  <2>1. /\ pc[t] = "recovering"
        /\ toClose'[t] = toClose[t] \ {m}
    BY <1>2 DEF CloseDangling, TypeOK
  <2>2. On(journal') = On(journal) \cup {InterruptedOf(m)}
    BY <1>2, AppendExact, RecordsTyped DEF CloseDangling
  <2>3. DanglingIds(journal) \ {m} \subseteq DanglingIds(journal')
    BY <2>2 DEF DanglingIds, StartedIds, ClosedIds, InterruptedIds, InterruptedOf, EndOf
  <2> QED BY <2>1, <2>3 DEF ClosesDangling
<1>3. CASE ~Recover(t) /\ \A m \in Messages : ~CloseDangling(t, m)
  <2>1. pc[t] = "recovering" /\ toClose'[t] = toClose[t]
    <3> USE DEF TypeOK, Goto, files, local
    <3>1. ASSUME NEW u \in Turns, Step(u) PROVE pc[t] = "recovering" /\ toClose'[t] = toClose[t]
      <4>1. CASE \/ Load(u) \/ Recover(u) \/ Recovered(u) \/ Resolve(u) \/ Start(u)
                 \/ Work(u) \/ Reject(u) \/ \E m \in Messages : CloseDangling(u, m)
        BY <1>3, <4>1 DEF Load, Recover, Recovered, Resolve, Start, Work, Reject, CloseDangling
      <4>2. CASE \/ \E s \in Statuses : Settle(u, s) \/ SettleUnsaved(u, s)
                 \/ SaveOpen(u) \/ SaveWrite(u) \/ SaveUnlinked(u) \/ SaveFail(u)
                 \/ RecordEnd(u) \/ CompactCalled(u)
        BY <4>2 DEF Settle, SettleUnsaved, SaveOpen, SaveWrite, SaveUnlinked,
                    SaveFail, RecordEnd, CompactCalled, AfterSave
      <4> QED BY <3>1, <4>1, <4>2 DEF Step
    <3>2. ASSUME NEW u \in Turns, Request(u)
          PROVE  pc[t] = "recovering" /\ toClose'[t] = toClose[t]
      BY <3>2 DEF Request, Create, Begin, CompactBegin, Abort
    <3>3. CASE Crash \/ DeleteSnapshot \/ DeleteJournal \/ UNCHANGED vars
      BY <3>3 DEF Crash, DeleteSnapshot, DeleteJournal, vars
    <3> QED BY <3>1, <3>2, <3>3 DEF Next
  <2>2. ~Start(t) /\ ~RecordEnd(t)
    BY <2>1 DEF Start, RecordEnd
  <2>3. \A u \in Turns : u # t => /\ ~Start(u) /\ ~RecordEnd(u)
                                  /\ \A m \in Messages : ~CloseDangling(u, m)
    BY <2>1, RecordersLive DEF OneLive
  <2>4. UNCHANGED journal
    BY <1>3, <2>2, <2>3, JournalAppends
  <2> QED BY <2>1, <2>4 DEF ClosesDangling
<1> QED BY <1>1, <1>2, <1>3

Messaged == [m \in Messages |-> LedgerOf(m)]

LEMMA AppendMoves ==
  ASSUME TypeOK, HasLast, NEW r \in Records, journal' = Append(journal, r)
  PROVE  r.id \in Messages /\ Messaged' = [Messaged EXCEPT ![r.id] = StateBy(r)]
<1>1. r.id \in Messages
  BY DEF Records, StartOf, EndOf, InterruptedOf
<1>2. PICK id \in Messages : id = r.id
  BY <1>1
<1>3. \A m \in Messages : LedgerOf(m)' = IF m = id THEN StateBy(r) ELSE LedgerOf(m)
  BY <1>2, Appended
<1>4. Messaged' = [m \in Messages |-> LedgerOf(m)']
  BY DEF Messaged
<1>5. Messaged' = [Messaged EXCEPT ![id] = StateBy(r)]
  BY <1>3, <1>4 DEF Messaged
<1> QED BY <1>1, <1>2, <1>5

LEMMA LedgerStep ==
  ASSUME ~Overlap, TypeOK, Committed, ~torn, JournalReliable, Kept, ClosesDangling,
         OpenWhileRunning, NotYetDone, [Next]_vars, deletion' = "none"
  PROVE  Ledger!Next \/ UNCHANGED Messaged
<1>1. CASE UNCHANGED journal
  BY <1>1 DEF Messaged, LedgerOf, LastRecord
<1>2. ASSUME NEW t \in Turns, Start(t), journal' = Append(journal, StartOf(msg[t]))
      PROVE  Ledger!Next \/ UNCHANGED Messaged
  <2>1. PICK m \in Messages : m = msg[t]
    BY DEF TypeOK
  <2>2. Messaged' = [Messaged EXCEPT ![m] = "open"]
    <3>1. PICK r \in Records : r = StartOf(m)
      BY <2>1, RecordsTyped
    <3>2. Messaged' = [Messaged EXCEPT ![r.id] = StateBy(r)]
      BY <1>2, <2>1, <3>1, AppendMoves DEF Kept
    <3> QED BY <3>1, <3>2 DEF StartOf, StateBy
  <2>3. LedgerOf(m) \in {"new", "open", "failed"}
    <3>1. m \notin DoneIds(journal)
      BY <1>2, <2>1 DEF NotYetDone, Start, DoneIds
    <3> QED BY <3>1, OpenOrDone DEF Kept
  <2>4. CASE LedgerOf(m) = "open"
    BY <2>2, <2>4 DEF Messaged
  <2>5. CASE LedgerOf(m) \in {"new", "failed"}
    <3>1. Ledger!Open(m)
      BY <2>2, <2>5 DEF Ledger!Open, Messaged
    <3> QED BY <3>1 DEF Ledger!Next
  <2> QED BY <2>3, <2>4, <2>5
<1>3. ASSUME NEW t \in Turns, RecordEnd(t), journal' = Append(journal, EndOf(msg[t], outcome[t]))
      PROVE  Ledger!Next
  <2>1. PICK m \in Messages : m = msg[t]
    BY DEF TypeOK
  <2>2. PICK s \in Statuses : s = outcome[t]
    BY <1>3 DEF RecordEnd, Committed
  <2>3. Messaged' = [Messaged EXCEPT ![m] = IF s = "done" THEN "done" ELSE "failed"]
    <3>1. PICK r \in Records : r = EndOf(m, s)
      BY <1>3, <2>1, <2>2, RecordsTyped
    <3>2. Messaged' = [Messaged EXCEPT ![r.id] = StateBy(r)]
      BY <1>3, <2>1, <2>2, <3>1, AppendMoves DEF Kept
    <3> QED BY <3>1, <3>2 DEF EndOf, StateBy
  <2>4. LedgerOf(m) = "open"
    BY <1>3, <2>1 DEF RecordEnd, Committed, Unended, Executing, OpenWhileRunning
  <2>5. Ledger!End(m, "done") \/ Ledger!End(m, "failed")
    BY <2>3, <2>4 DEF Ledger!End, Messaged
  <2> QED BY <2>5 DEF Ledger!Next
<1>4. ASSUME NEW t \in Turns, NEW m \in Messages, CloseDangling(t, m),
             journal' = Append(journal, InterruptedOf(m))
      PROVE  Ledger!Next
  <2>1. Messaged' = [Messaged EXCEPT ![m] = "failed"]
    <3>1. PICK r \in Records : r = InterruptedOf(m)
      BY DEF Records
    <3>2. Messaged' = [Messaged EXCEPT ![r.id] = StateBy(r)]
      BY <1>4, <3>1, AppendMoves DEF Kept
    <3> QED BY <3>1, <3>2 DEF InterruptedOf, StateBy
  <2>2. LedgerOf(m) = "open"
    BY <1>4, OpenOrDone DEF CloseDangling, ClosesDangling, Kept
  <2>3. Ledger!End(m, "failed")
    BY <2>1, <2>2 DEF Ledger!End, Messaged
  <2> QED BY <2>3 DEF Ledger!Next
<1> QED BY <1>1, <1>2, <1>3, <1>4, JournalAppends

(* While turns do not overlap, the session is kept and journal writes go    *)
(* through, the journal implements the ledger: whatever crashes and failed  *)
(* saves happen, a message is opened by a turn_start, ends done or failed,  *)
(* and done is final.                                                       *)
THEOREM JournalIsLedger ==
  ASSUME ~Overlap, ~Deletable, JournalReliable
  PROVE  Spec => ImplementsLedger
<1> DEFINE Inv == /\ TypeOK /\ Committed /\ ~torn /\ OneLive /\ Kept /\ ClosesDangling
                  /\ OpenWhileRunning /\ NotYetDone /\ AtMostOneDone
<1>1. Init => Inv
  <2>1. Init => Kept /\ ClosesDangling /\ OpenWhileRunning
    BY DEF Init, Kept, HasLast, At, ClosesDangling, OpenWhileRunning, Unended, Executing
  <2>2. Init => OneLive /\ NotYetDone /\ AtMostOneDone /\ ~torn
    BY DEF Init, OneLive, Live, NotYetDone, AtMostOneDone, On
  <2> QED BY <2>1, <2>2, InitTyped
<1>2. Inv /\ [Next]_vars => Inv'
  <2> SUFFICES ASSUME Inv, [Next]_vars PROVE Inv'
    OBVIOUS
  <2>1. TypeOK' /\ Committed'
    BY NextTyped, NextCommitted
  <2>2. ~torn'
    BY JournalStep
  <2>3. OneLive'
    BY NextOneLive
  <2>4. NotYetDone' /\ AtMostOneDone'
    BY NextOneDone
  <2>5. Kept'
    BY NextKept
  <2>6. deletion' = "none"
    BY <2>5 DEF Kept
  <2>7. ClosesDangling' /\ OpenWhileRunning'
    BY <2>6, NextClosesDangling, NextOpenWhileRunning
  <2> QED BY <2>1, <2>2, <2>3, <2>4, <2>5, <2>7
<1>3. Init => Ledger!Init
  BY DEF Init, Ledger!Init, LedgerOf
<1>4. Inv /\ Inv' /\ [Next]_vars => [Ledger!Next]_(Messaged)
  BY LedgerStep DEF Kept
<1> HIDE DEF Inv
<1>5. Spec => []Inv
  BY <1>1, <1>2, PTL DEF Spec
<1>6. Ledger!Spec <=> Ledger!Init /\ [][Ledger!Next]_(Messaged)
  BY DEF Ledger!Spec, Messaged
<1> QED BY <1>3, <1>4, <1>5, <1>6, PTL DEF Spec, ImplementsLedger
=============================================================================
