------------------------------ MODULE WsSession ------------------------------
(* handleWebSocket (server/wsHandler.ts) over the durable session: which    *)
(* turn each connection regards as current, what `send`, `interrupt` and    *)
(* `close` do to it, and the approval round trip a running turn parks on.   *)
EXTENDS DurableSession

CONSTANTS Conns,  \* connections to the server (browser tabs)
          NoTurn  \* currentAbort = null

ASSUME WsAssumption == NoTurn \notin Turns /\ Overlap

VARIABLES
  current,  \* the turn whose controller currentAbort is
  sent,     \* turns awaiting resolveAllowedCwd
  pending   \* turns parked in pendingApprovals

wsvars == <<vars, current, sent, pending>>

WsInit == /\ Init
          /\ current = [c \in Conns |-> NoTurn]
          /\ sent = {} /\ pending = {}

(* Mutant: nothing answers the approval of an aborted turn.                 *)
AbortCurrentUnheard(c) ==
  /\ IF current[c] # NoTurn /\ Abortable(current[c]) /\ ~aborted[current[c]]
       THEN Abort(current[c])
       ELSE UNCHANGED vars
  /\ UNCHANGED pending

(* currentAbort?.abort(): a parked approval is answered `false` by its      *)
(* abort listener.  A turn past processMessage no longer looks.             *)
AbortCurrent(c) ==
  /\ IF current[c] # NoTurn /\ Abortable(current[c]) /\ ~aborted[current[c]]
       THEN Abort(current[c])
       ELSE UNCHANGED vars
  /\ pending' = pending \ {current[c]}

(* `send`: the previous turn is aborted but not awaited; the new controller *)
(* takes its place before the workspace check, the first await.             *)
WsSend(c, t) ==
  /\ pc[t] = "unused" /\ t \notin sent /\ ~aborted[t]
  /\ \A d \in Conns : current[d] # t
  /\ AbortCurrent(c)
  /\ current' = [current EXCEPT ![c] = t]
  /\ sent' = sent \cup {t}

(* resolveAllowedCwd returned: runAgentTurn is called, aborted or not.      *)
WsRun(t) ==
  /\ t \in sent
  /\ Begin(t) \/ Create(t)
  /\ sent' = sent \ {t}
  /\ UNCHANGED <<current, pending>>

(* It threw: the handler returns and leaves its dead controller in place.   *)
WsRefuse(t) ==
  /\ t \in sent
  /\ sent' = sent \ {t}
  /\ UNCHANGED <<vars, current, pending>>

(* `interrupt`, or `close` followed by a fresh handler.                     *)
WsInterrupt(c) ==
  /\ current[c] # NoTurn
  /\ AbortCurrent(c)
  /\ current' = [current EXCEPT ![c] = NoTurn]
  /\ UNCHANGED sent

(* Mutant: it parks even when the abort event has already fired.            *)
RequestApprovalAnyway(t) ==
  /\ pc[t] = "running" /\ work[t] < MaxWork /\ t \notin pending
  /\ pending' = pending \cup {t}
  /\ UNCHANGED <<vars, current, sent>>

(* requestApproval parks the turn, unless its signal is aborted already.    *)
RequestApproval(t) ==
  /\ pc[t] = "running" /\ work[t] < MaxWork
  /\ t \notin pending /\ ~aborted[t]
  /\ pending' = pending \cup {t}
  /\ UNCHANGED <<vars, current, sent>>

(* `approval_response`: the parked turn goes on, approved or rejected.      *)
ApprovalResponse(t) ==
  /\ t \in pending
  /\ pending' = pending \ {t}
  /\ UNCHANGED <<vars, current, sent>>

(* A turn that is not parked advances; its `finally` clears currentAbort    *)
(* only if that is still its own.                                           *)
WsStep(t) ==
  /\ t \notin pending
  /\ Step(t)
  /\ current' = [c \in Conns |->
       IF current[c] = t /\ pc'[t] \in Over THEN NoTurn ELSE current[c]]
  /\ UNCHANGED <<sent, pending>>

WsCrash ==
  /\ Crash
  /\ current' = [c \in Conns |-> NoTurn]
  /\ sent' = {} /\ pending' = {}

WsCompact(t) ==
  /\ t \notin sent /\ CompactBegin(t)
  /\ UNCHANGED <<current, sent, pending>>

WsNext ==
  \/ \E t \in Turns : \/ WsRun(t) \/ WsRefuse(t) \/ WsStep(t) \/ WsCompact(t)
                      \/ RequestApproval(t) \/ ApprovalResponse(t)
  \/ \E c \in Conns : WsInterrupt(c) \/ \E t \in Turns : WsSend(c, t)
  \/ WsCrash

WsSpec == WsInit /\ [][WsNext]_wsvars

(* The event loop runs every turn that is not parked on the user.           *)
WsFairSpec == WsSpec /\ \A t \in Turns : WF_wsvars(WsStep(t))

-----------------------------------------------------------------------------
(* The type of the connection state.                                        *)
WsTypeOK == /\ TypeOK
            /\ current \in [Conns -> Turns \cup {NoTurn}]
            /\ sent \subseteq Turns /\ pending \subseteq Turns

(* An aborted turn is never left waiting for a user who may be gone.        *)
NoAbortedTurnWaits == \A t \in pending : pc[t] = "running" /\ ~aborted[t]

(* A message sent after a stopped turn continues from what that turn did.   *)
ContinueSeesStoppedWork ==
  \A t, u \in Turns :
    /\ pc[t] = "finished" /\ outcome[t] = "interrupted"
    /\ pc[u] = "running" /\ ~aborted[u]
    => EntriesOf(t) \subseteq ctx[u]

(* Once aborted, a turn ends, whatever the user does.                       *)
AbortedTurnsEnd ==
  \A t \in Turns : (aborted[t] /\ pc[t] = "running") ~> pc[t] \in Over
=============================================================================
