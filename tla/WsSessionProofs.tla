--------------------------- MODULE WsSessionProofs ---------------------------
(* The WebSocket handler drives the durable session only through its steps, *)
(* so what is proved of the session holds for every client of the server.   *)
EXTENDS WsSession, DurableSessionProofs

Connected == /\ current \in [Conns -> Turns \cup {NoTurn}]
             /\ sent \subseteq Turns /\ pending \subseteq Turns

LEMMA AbortRefines ==
  ASSUME Connected, NEW c \in Conns, AbortCurrent(c)
  PROVE  [Next]_vars
BY DEF Connected, AbortCurrent, Next, Request

LEMMA WsStepRefines == Connected /\ [WsNext]_wsvars => [Next]_vars
<1>. SUFFICES ASSUME Connected, [WsNext]_wsvars PROVE [Next]_vars
  OBVIOUS
<1>1. ASSUME NEW c \in Conns, WsInterrupt(c) \/ \E t \in Turns : WsSend(c, t)
      PROVE  [Next]_vars
  BY <1>1, AbortRefines DEF WsInterrupt, WsSend
<1>2. ASSUME NEW t \in Turns,
             WsRun(t) \/ WsRefuse(t) \/ WsStep(t) \/ WsCompact(t)
               \/ RequestApproval(t) \/ ApprovalResponse(t)
      PROVE  [Next]_vars
  BY <1>2 DEF WsRun, WsRefuse, WsStep, WsCompact, RequestApproval, ApprovalResponse,
              Next, Request
<1>3. CASE WsCrash
  BY <1>3 DEF WsCrash, Next
<1>4. CASE UNCHANGED wsvars
  BY <1>4 DEF wsvars
<1>. QED BY <1>1, <1>2, <1>3, <1>4 DEF WsNext

LEMMA StaysConnected == Connected /\ [WsNext]_wsvars => Connected'
<1>. SUFFICES ASSUME Connected, [WsNext]_wsvars PROVE Connected'
  OBVIOUS
<1>. USE DEF Connected
<1>1. ASSUME NEW c \in Conns, WsInterrupt(c) \/ \E t \in Turns : WsSend(c, t)
      PROVE  Connected'
  BY <1>1 DEF WsInterrupt, WsSend, AbortCurrent
<1>2. ASSUME NEW t \in Turns,
             WsRun(t) \/ WsRefuse(t) \/ WsStep(t) \/ WsCompact(t)
               \/ RequestApproval(t) \/ ApprovalResponse(t)
      PROVE  Connected'
  BY <1>2 DEF WsRun, WsRefuse, WsStep, WsCompact, RequestApproval, ApprovalResponse
<1>3. CASE WsCrash \/ UNCHANGED wsvars
  BY <1>3 DEF WsCrash, wsvars
<1>. QED BY <1>1, <1>2, <1>3 DEF WsNext

(* Every behaviour of the handler, however many connections there are, is a *)
(* behaviour of the durable session.                                        *)
THEOREM WsImplementsSession == WsSpec => Spec
<1>1. WsInit => Init /\ Connected
  BY DEF WsInit, Connected
<1>. QED BY <1>1, WsStepRefines, StaysConnected, PTL DEF WsSpec, Spec

(* A client that retransmits a completed message over any connection is     *)
(* answered from the journal and its turn is not run again.                 *)
THEOREM WsRetransmitSafe == WsSpec => []RetransmitNeverReruns
BY WsImplementsSession, RetransmitSafe

LEMMA NextWaits ==
  TypeOK /\ Connected /\ NoAbortedTurnWaits /\ [WsNext]_wsvars => NoAbortedTurnWaits'
<1>. SUFFICES ASSUME TypeOK, Connected, NoAbortedTurnWaits, [WsNext]_wsvars
              PROVE  NoAbortedTurnWaits'
  OBVIOUS
<1>. USE DEF NoAbortedTurnWaits, TypeOK, Connected, Goto, files, local
<1>1. ASSUME NEW c \in Conns, WsInterrupt(c) \/ \E t \in Turns : WsSend(c, t)
      PROVE  NoAbortedTurnWaits'
  <2>1. AbortCurrent(c)
    BY <1>1 DEF WsInterrupt, WsSend
  <2>. QED BY <2>1 DEF AbortCurrent, Abort, vars
<1>2. ASSUME NEW t \in Turns, WsRun(t) PROVE NoAbortedTurnWaits'
  BY <1>2 DEF WsRun, Begin, Create
<1>3. ASSUME NEW t \in Turns,
             WsRefuse(t) \/ WsCompact(t) \/ RequestApproval(t) \/ ApprovalResponse(t)
      PROVE  NoAbortedTurnWaits'
  BY <1>3 DEF WsRefuse, WsCompact, CompactBegin, RequestApproval, ApprovalResponse, vars
<1>4. ASSUME NEW t \in Turns, WsStep(t), NEW u \in pending'
      PROVE  pc'[u] = "running" /\ ~aborted'[u]
  <2>1. u # t /\ u \in pending /\ Step(t)
    BY <1>4 DEF WsStep
  <2>2. pc'[u] = pc[u] /\ aborted' = aborted
    <3>1. CASE \/ Load(t) \/ Recover(t) \/ Recovered(t) \/ Resolve(t) \/ Start(t)
               \/ Work(t) \/ Reject(t) \/ \E m \in Messages : CloseDangling(t, m)
      BY <2>1, <3>1 DEF Load, Recover, Recovered, Resolve, Start, Work, Reject,
                        CloseDangling
    <3>2. CASE \/ \E s \in Statuses : Settle(t, s) \/ SettleUnsaved(t, s)
               \/ SaveOpen(t) \/ SaveWrite(t) \/ SaveUnlinked(t) \/ SaveFail(t)
               \/ RecordEnd(t) \/ CompactCalled(t)
      BY <2>1, <3>2 DEF Settle, SettleUnsaved, SaveOpen, SaveWrite, SaveUnlinked,
                        SaveFail, RecordEnd, CompactCalled
    <3>. QED BY <2>1, <3>1, <3>2 DEF Step
  <2>. QED BY <2>1, <2>2
<1>5. CASE WsCrash \/ UNCHANGED wsvars
  BY <1>5 DEF WsCrash, wsvars, vars
<1>. QED BY <1>1, <1>2, <1>3, <1>4, <1>5 DEF WsNext

(* An interrupted, superseded or disconnected turn is never left parked on  *)
(* an approval: its abort listener has answered it.                         *)
THEOREM NoAbortedTurnWaitsEver == WsSpec => []NoAbortedTurnWaits
<1>1. WsInit => NoAbortedTurnWaits /\ Connected
  BY DEF WsInit, NoAbortedTurnWaits, Connected
<1>. QED BY <1>1, WsImplementsSession, TypeCorrect, StaysConnected, NextWaits, PTL
         DEF WsSpec
=============================================================================
