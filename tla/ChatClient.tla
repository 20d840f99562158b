----------------------------- MODULE ChatClient -----------------------------
(* The browser's side of a conversation (web hooks/useChat.ts, lib/client.ts *)
(* and App.tsx) against the server's socket handler (server/wsHandler.ts):   *)
(* turns and compactions are asked for over a WebSocket and answered by       *)
(* events that name no request.  The browser opens a second socket while the *)
(* first connects, sockets drop, and the user stops a turn, starts a new     *)
(* chat or opens another session while events are under way.                 *)
(* A session is named by the request that created it.                        *)
EXTENDS Naturals, Sequences, FiniteSets, SequencesExt

CONSTANTS
  MaxSockets,    \* bound: sockets the page opens
  MaxRequests,   \* bound: messages and compactions
  MaxUpsets      \* bound: stops, new chats, session loads, dropped sockets and messages sent offline

VARIABLES
  ui,        \* the hook's state and refs, the client's `ws`, and the fetches it awaits
  socket,    \* per socket: its readyState
  up, down,  \* per socket: messages to the server, events to the browser
  server,    \* per socket: the turn whose controller currentAbort is
  request,   \* per request: what was asked, where, and how far the server is
  past,      \* history: see InitPast
  upsets

vars == <<ui, socket, up, down, server, request, past, upsets>>

Sockets == 1 .. MaxSockets
Requests == 1 .. MaxRequests
Nobody == 0   \* no socket, no request, no session

Count == Cardinality({r \in Requests : request[r].step # "unsent"})
Kinds == {"turn", "compaction"}
Unsent == [kind |-> "turn", session |-> Nobody, again |-> FALSE, at |-> Nobody, step |-> "unsent",
           told |-> FALSE, spoke |-> FALSE]
NoDelay == [on |-> FALSE, session |-> Nobody, moved |-> FALSE]

(* thread: the sessions whose messages are on the page.  bubbles: requests   *)
(* whose answer is pending on the page, in order.  later: the message that   *)
(* handleSend sends 300 ms after it asked for a connection.                  *)
InitUi == [ws |-> Nobody, sending |-> FALSE, active |-> Nobody, session |-> Nobody, thread |-> {},
           bubbles |-> <<>>, approvals |-> {}, loads |-> {}, later |-> NoDelay]

(* letGo: requests the user stopped or left, whose connection was lost, or   *)
(* whose wait was ended by the end of another socket, by an event of such a  *)
(* request or by a delayed send that failed.  misread: pairs of the request  *)
(* an event was shown for and another whose work sent it, neither let go.    *)
(* crossed: a way two sessions get onto one page was taken.  stranded: a     *)
(* compaction was asked for while offline.                                   *)
InitPast == [letGo |-> {}, misread |-> {}, crossed |-> FALSE, stranded |-> FALSE]

Init ==
  /\ ui = InitUi /\ past = InitPast /\ upsets = 0
  /\ socket = [s \in Sockets |-> "unused"]
  /\ up = [s \in Sockets |-> <<>>] /\ down = [s \in Sockets |-> <<>>]
  /\ server = [s \in Sockets |-> Nobody]
  /\ request = [r \in Requests |-> Unsent]

Online == ui.ws # Nobody /\ socket[ui.ws] = "open"
Home(r) == IF request[r].session = Nobody THEN r ELSE request[r].session
Finished(r) == request[r].step = "over"

-----------------------------------------------------------------------------
(* The connection.                                                           *)

(* DvalinClient.connect: only an open socket keeps another from being made,  *)
(* so the effects of App.tsx make two while the first is connecting.         *)
Connect ==
  /\ ~Online
  /\ \E s \in Sockets :
       /\ socket[s] = "unused" /\ \A t \in Sockets : t < s => socket[t] # "unused"
       /\ socket' = [socket EXCEPT ![s] = "connecting"]
       /\ ui' = [ui EXCEPT !.ws = s]
  /\ UNCHANGED <<up, down, server, request, past, upsets>>

Open(s) ==
  /\ socket[s] = "connecting"
  /\ socket' = [socket EXCEPT ![s] = "open"]
  /\ UNCHANGED <<ui, up, down, server, request, past, upsets>>

(* The network or the server ends the connection: the server's `close`       *)
(* handler aborts the current turn, and nothing under way arrives.           *)
Drop(s) ==
  /\ socket[s] \in {"connecting", "open"} /\ upsets < MaxUpsets
  /\ upsets' = upsets + 1
  /\ socket' = [socket EXCEPT ![s] = "dropped"]
  /\ up' = [up EXCEPT ![s] = <<>>] /\ down' = [down EXCEPT ![s] = <<>>]
  /\ request' = [r \in Requests |->
                   IF request[r].at # s THEN request[r]
                   ELSE IF request[r].step = "sent" THEN [request[r] EXCEPT !.step = "over"]
                   ELSE IF r = server[s] /\ ~Finished(r) THEN [request[r] EXCEPT !.step = "aborted"]
                   ELSE request[r]]
  /\ UNCHANGED <<ui, server, past>>

Misread(o, b) == IF o = b \/ b \in past.letGo THEN {} ELSE {<<o, b>>}

(* finishActiveTurn, for an event that the work of request b sent.           *)
Ended(b) ==
  past' = [past EXCEPT
             !.letGo = IF ui.sending /\ b # Count THEN @ \cup {Count} ELSE @,
             !.misread = IF ui.active \in {Nobody} \cup past.letGo THEN @ ELSE @ \cup Misread(ui.active, b),
             !.stranded = FALSE]

(* What the page waits for.                                                  *)
Awaiting == (IF ui.sending THEN {Count, ui.active} ELSE {ui.active}) \ {Nobody}

(* Mutant: the outcome ends the wait and leaves the active message.          *)
IdleKeepsActive(u) == [u EXCEPT !.sending = FALSE]
Idle(u) == [u EXCEPT !.sending = FALSE, !.active = Nobody]

(* Mutant: only the end of the client's own socket is heard.                 *)
ClosedOfOwn(s) ==
  /\ socket[s] = "dropped"
  /\ socket' = [socket EXCEPT ![s] = "closed"]
  /\ ui' = IF s = ui.ws THEN [Idle(ui) EXCEPT !.ws = Nobody] ELSE ui
  /\ UNCHANGED <<past, up, down, server, request, upsets>>

(* onclose of any socket, the client's own or one it left behind.            *)
Closed(s) ==
  /\ socket[s] = "dropped"
  /\ socket' = [socket EXCEPT ![s] = "closed"]
  /\ ui' = [Idle(ui) EXCEPT !.ws = Nobody]
  /\ past' = [past EXCEPT !.letGo = @ \cup {r \in Requests : request[r].at = s} \cup Awaiting,
                          !.stranded = FALSE]
  /\ UNCHANGED <<up, down, server, request, upsets>>

-----------------------------------------------------------------------------
(* What the user does.                                                       *)

(* useChat.send past its guards, with the id, the pending bubble and         *)
(* DvalinClient.send.  Crossing: the page shows another session than the one *)
(* the message goes to, or a turn whose session nobody knows.                *)
Post(session, again) ==
  LET r == Count + 1
  IN /\ Count < MaxRequests
     /\ request' = [request EXCEPT ![r] = [Unsent EXCEPT !.session = session, !.again = again,
                                                         !.at = ui.ws, !.step = "sent"]]
     /\ up' = [up EXCEPT ![ui.ws] = Append(@, [type |-> "send", of |-> r])]
     /\ ui' = [ui EXCEPT !.sending = TRUE, !.active = r, !.bubbles = Append(@, r), !.later = NoDelay,
                         !.thread = @ \cup {IF session = Nobody THEN r ELSE session},
                         !.loads = {[l EXCEPT !.moved = TRUE] : l \in @}]
     /\ past' = [past EXCEPT !.crossed = @ \/ (session = Nobody /\ ui.thread # {}) \/ ui.later.moved,
                             !.letGo = IF ui.sending THEN @ \cup {Count} ELSE @, !.stranded = FALSE]
     /\ UNCHANGED <<socket, down, server, upsets>>

(* A turn under its own id, or a recovered one under the id it had.          *)
Send ==
  /\ ~ui.sending /\ ui.active = Nobody /\ Online
  /\ \E again \in {FALSE} \cup {ui.session # Nobody /\ past.letGo # {}} : Post(ui.session, again)

(* handleSend while offline: connect now, send what this rendering of the    *)
(* page holds in 300 ms.                                                     *)
SendLater ==
  /\ ~ui.sending /\ ~Online /\ ~ui.later.on /\ upsets < MaxUpsets
  /\ upsets' = upsets + 1
  /\ ui' = [ui EXCEPT !.later = [on |-> TRUE, session |-> ui.session, moved |-> FALSE]]
  /\ UNCHANGED <<socket, up, down, server, request, past>>

(* The timer: a message for the session that was open then, dropped when a   *)
(* turn has started since, an error on the page when there is no connection. *)
SendDelayed ==
  /\ ui.later.on
  /\ IF ui.active = Nobody /\ Online
       THEN Post(ui.later.session, FALSE)
       ELSE /\ ui' = [ui EXCEPT !.later = NoDelay, !.sending = IF ui.active = Nobody THEN FALSE ELSE @]
            /\ past' = IF ui.active = Nobody
                         THEN [past EXCEPT !.letGo = @ \cup Awaiting, !.stranded = FALSE] ELSE past
            /\ UNCHANGED <<socket, up, down, server, request, upsets>>

(* compact: `sending` is set before client.compact throws for want of a      *)
(* connection, and nothing clears it.                                        *)
Compact ==
  /\ ~ui.sending /\ ui.session # Nobody
  /\ ui' = [ui EXCEPT !.sending = TRUE]
  /\ IF Online
       THEN LET r == Count + 1
            IN /\ Count < MaxRequests
               /\ request' = [request EXCEPT ![r] = [Unsent EXCEPT !.kind = "compaction", !.session = ui.session,
                                                                   !.at = ui.ws, !.step = "sent"]]
               /\ up' = [up EXCEPT ![ui.ws] = Append(@, [type |-> "compact", of |-> r])]
               /\ UNCHANGED past
       ELSE /\ past' = [past EXCEPT !.stranded = TRUE]
            /\ UNCHANGED <<request, up>>
  /\ UNCHANGED <<socket, down, server, upsets>>

Left == past.letGo \cup ({Count} \ {Nobody})

(* interrupt: one message, about whatever the server then runs.              *)
Interrupt ==
  /\ ui.sending /\ Online /\ upsets < MaxUpsets
  /\ upsets' = upsets + 1
  /\ up' = [up EXCEPT ![ui.ws] = Append(@, [type |-> "interrupt", of |-> Count])]
  /\ past' = [past EXCEPT !.letGo = Left]
  /\ UNCHANGED <<ui, socket, down, server, request>>

(* respondToApproval: the dialog goes, the answer only over an open socket.  *)
Answer(r) ==
  /\ r \in ui.approvals
  /\ ui' = [ui EXCEPT !.approvals = @ \ {r}]
  /\ up' = IF Online THEN [up EXCEPT ![ui.ws] = Append(@, [type |-> "approval", of |-> r])] ELSE up
  /\ UNCHANGED <<socket, down, server, request, past, upsets>>

(* The page is another one when the fetches under way come back.             *)
Moved(u) == [u EXCEPT !.loads = {[l EXCEPT !.moved = TRUE] : l \in @}, !.later.moved = u.later.on]

(* reset (handleNewChat, handleCwdChange): the server is told nothing.       *)
NewChat ==
  /\ upsets < MaxUpsets
  /\ upsets' = upsets + 1
  /\ ui' = [Idle(Moved(ui)) EXCEPT !.thread = {}, !.bubbles = <<>>, !.session = Nobody]
  /\ past' = [past EXCEPT !.letGo = Left, !.stranded = FALSE]
  /\ UNCHANGED <<socket, up, down, server, request>>

(* handleSelectSession: the conversation is fetched while the page goes on.  *)
Select ==
  /\ upsets < MaxUpsets
  /\ upsets' = upsets + 1
  /\ \E r \in Requests :
       /\ request[r].told
       /\ ui' = [ui EXCEPT !.loads = @ \cup {[kind |-> "select", session |-> Home(r), moved |-> FALSE]}]
  /\ UNCHANGED <<socket, up, down, server, request, past>>

(* loadSession's answer: the whole page, or on failure only the id of it.    *)
Selected(l, ok) ==
  /\ l \in ui.loads /\ l.kind = "select"
  /\ LET u == [Moved(ui) EXCEPT !.session = l.session, !.loads = {[m EXCEPT !.moved = TRUE] : m \in @ \ {l}}]
     IN ui' = IF ok THEN [u EXCEPT !.thread = {l.session}, !.bubbles = <<>>] ELSE u
  /\ past' = [past EXCEPT !.letGo = Left, !.crossed = @ \/ ~ok]
  /\ UNCHANGED <<socket, up, down, server, request, upsets>>

(* The answer to the fetch a replayed turn started: the page of its session, *)
(* whatever the page shows by then.                                          *)
Refetched(l, ok) ==
  /\ l \in ui.loads /\ l.kind = "replay"
  /\ ui' = IF ok THEN [ui EXCEPT !.loads = @ \ {l}, !.thread = {l.session}, !.bubbles = <<>>]
           ELSE [ui EXCEPT !.loads = @ \ {l}, !.bubbles = IF @ = <<>> THEN @ ELSE Front(@)]
  /\ past' = [past EXCEPT !.crossed = @ \/ l.moved]
  /\ UNCHANGED <<socket, up, down, server, request, upsets>>

-----------------------------------------------------------------------------
(* The server's handler of one socket.                                       *)

Events(s, es) == down' = IF socket[s] = "open" THEN [down EXCEPT ![s] = @ \o es] ELSE down
Event(type, r) == [type |-> type, by |-> r, replayed |-> FALSE]
Abort(r) == IF r = Nobody \/ Finished(r) THEN request ELSE [request EXCEPT ![r].step = "aborted"]

(* A message of the browser.  A send aborts the turn before it, and may be   *)
(* refused for its workspace; an interrupt is answered at once; an answer to *)
(* an approval nobody waits for is ignored.                                  *)
Receive(s, admitted) ==
  /\ up[s] # <<>>
  /\ up' = [up EXCEPT ![s] = Tail(@)]
  /\ LET m == Head(up[s])
     IN CASE m.type = "interrupt" ->
               /\ request' = Abort(server[s])
               /\ server' = [server EXCEPT ![s] = Nobody]
               /\ Events(s, <<Event("interrupted", m.of)>>)
          [] m.type = "approval" ->
               /\ request' = IF request[m.of].step = "parked" THEN [request EXCEPT ![m.of].step = "running"] ELSE request
               /\ UNCHANGED <<server, down>>
          [] OTHER ->
               /\ request' = [(IF m.type = "send" THEN Abort(server[s]) ELSE request)
                                EXCEPT ![m.of].step = IF admitted THEN "running" ELSE "over"]
               /\ server' = IF m.type = "send" THEN [server EXCEPT ![s] = m.of] ELSE server
               /\ IF admitted THEN UNCHANGED down ELSE Events(s, <<Event("error", m.of)>>)
  /\ UNCHANGED <<ui, socket, past, upsets>>

Turn(r) == request[r].kind = "turn"

(* runAgentTurn names the session, aborted or not.                           *)
Tell(r) ==
  /\ Turn(r) /\ request[r].step \in {"running", "aborted"} /\ ~request[r].told
  /\ request' = [request EXCEPT ![r].told = TRUE]
  /\ Events(request[r].at, <<Event("session_id", r)>>)
  /\ UNCHANGED <<ui, socket, up, server, past, upsets>>

(* Text and tool events of a turn nobody aborted.  Bound: a turn speaks once *)
(* or asks once.                                                             *)
Speak(r) ==
  /\ Turn(r) /\ request[r].step = "running" /\ request[r].told /\ ~request[r].spoke
  /\ request' = [request EXCEPT ![r].spoke = TRUE]
  /\ Events(request[r].at, <<Event("text", r)>>)
  /\ UNCHANGED <<ui, socket, up, server, past, upsets>>

(* requestApproval: the turn waits for the browser, or for its abort.        *)
Ask(r) ==
  /\ Turn(r) /\ request[r].step = "running" /\ request[r].told /\ ~request[r].spoke
  /\ request' = [request EXCEPT ![r].spoke = TRUE, ![r].step = "parked"]
  /\ Events(request[r].at, <<Event("approval", r)>>)
  /\ UNCHANGED <<ui, socket, up, server, past, upsets>>

(* The end of a turn or compaction: done, an error, or for an aborted turn   *)
(* nothing when it returned and a second `interrupted` when it threw.        *)
Finish(r) ==
  /\ request[r].step \in {"running", "aborted"} /\ (Turn(r) => request[r].told)
  /\ request' = [request EXCEPT ![r].step = "over", ![r].spoke = FALSE, ![r].again = FALSE]
  /\ server' = [s \in Sockets |-> IF server[s] = r THEN Nobody ELSE server[s]]
  /\ \E es \in CASE request[r].step = "aborted" -> {<<>>, <<Event("interrupted", r)>>}
                 [] ~Turn(r) -> {<<Event("compacted", r)>>, <<Event("error", r)>>}
                 [] OTHER -> {<<Event("error", r)>>, <<Event("done", r)>>}
                              \cup {<<[Event("done", r) EXCEPT !.replayed = request[r].again]>>} :
       Events(request[r].at, es)
  /\ UNCHANGED <<ui, socket, up, past, upsets>>

-----------------------------------------------------------------------------
(* The browser's onEvent.                                                    *)

SettleLast(bs) == IF bs = <<>> THEN bs ELSE Front(bs)

(* The page after an event: an event speaks to the last pending bubble and   *)
(* to the active message, whoever sent it.                                   *)
After(e) ==
  CASE e.type = "session_id" -> [ui EXCEPT !.session = Home(e.by)]
    [] e.type = "text" -> ui
    [] e.type = "approval" -> [ui EXCEPT !.approvals = @ \cup {e.by}]
    [] e.type = "compacted" -> [ui EXCEPT !.sending = FALSE]
    [] e.type = "error" -> [Idle(ui) EXCEPT !.bubbles = SettleLast(@)]
    [] e.type = "interrupted" -> [Idle(ui) EXCEPT !.bubbles = SettleLast(@), !.approvals = {}]
    [] e.type = "done" /\ ~e.replayed -> [Idle(ui) EXCEPT !.bubbles = SettleLast(@), !.approvals = {}]
    [] OTHER -> [Idle(ui) EXCEPT !.approvals = {},
                   !.loads = @ \cup {[kind |-> "replay", session |-> Home(e.by), moved |-> e.by \in past.letGo]}]

(* Text is added to the last message of the page if that one is pending.     *)
LastIsPending ==
  ui.bubbles # <<>> /\ \A r \in 1 .. Count : Turn(r) => r <= Last(ui.bubbles)

Handle(s) ==
  /\ socket[s] = "open" /\ down[s] # <<>>
  /\ down' = [down EXCEPT ![s] = Tail(@)]
  /\ LET e == Head(down[s])
     IN /\ ui' = After(e)
        /\ CASE e.type \in {"done", "error", "interrupted"} -> Ended(e.by)
             [] e.type = "text" /\ LastIsPending ->
                  past' = [past EXCEPT !.misread = @ \cup Misread(Last(ui.bubbles), e.by)]
             [] e.type = "session_id" ->
                  past' = [past EXCEPT !.crossed = @ \/ e.by \in past.letGo]
             [] e.type = "compacted" ->
                  past' = [past EXCEPT !.stranded = FALSE, !.letGo = IF ui.sending /\ e.by # Count THEN @ \cup {Count} ELSE @]
             [] OTHER -> UNCHANGED past
  /\ UNCHANGED <<socket, up, server, request, upsets>>

Next ==
  \/ Connect \/ Send \/ SendLater \/ SendDelayed \/ Compact \/ Interrupt \/ NewChat \/ Select
  \/ \E s \in Sockets :
       Open(s) \/ Drop(s) \/ Closed(s) \/ Handle(s) \/ \E admitted \in BOOLEAN : Receive(s, admitted)
  \/ \E r \in Requests : Answer(r) \/ Tell(r) \/ Speak(r) \/ Ask(r) \/ Finish(r)
  \/ \E l \in ui.loads, ok \in BOOLEAN : Selected(l, ok) \/ Refetched(l, ok)

Spec == Init /\ [][Next]_vars

-----------------------------------------------------------------------------
(* Something under way will end the wait: a socket that has yet to report    *)
(* its end, a message the server has yet to read, work it does, or an event. *)
Awaited ==
  \E s \in Sockets :
    \/ socket[s] = "dropped"
    \/ socket[s] = "open" /\ \/ \E i \in DOMAIN up[s] : up[s][i].type # "approval"
                             \/ \E i \in DOMAIN down[s] : down[s][i].type \in {"done", "error", "interrupted", "compacted"}
                             \/ \E r \in Requests : request[r].at = s /\ request[r].step = "running"
                             \/ \E r \in ui.approvals : request[r].at = s /\ request[r].step = "parked"
                             \/ \E i \in DOMAIN up[s] : up[s][i].type = "approval" /\ request[up[s][i].of].step = "parked"
                             \/ \E i \in DOMAIN down[s] : down[s][i].type = "approval" /\ request[down[s][i].by].step = "parked"

(* A page that waits has something to wait for, parked turns their dialog    *)
(* included (useChat.ts: every path out of `sending`), but for a compaction  *)
(* asked for while offline.                                                  *)
NeverStuck == ui.sending /\ ~past.stranded => Awaited

(* What is shown as the answer or the outcome of a turn is its own, unless   *)
(* it comes from one the user had stopped or left, or whose connection was   *)
(* lost, or is shown for one whose wait had been ended for another reason    *)
(* than its own (dvalinVerification.ts:5 wants it its own in every case).    *)
OwnEvents == past.misread = {}

(* The page shows one session, the one the next message goes to, unless a    *)
(* load failed, an answer came back after the page had moved on, or a        *)
(* message was sent while the session of the turn above it was not known.    *)
OneConversation ==
  ~past.crossed => IF ui.session # Nobody THEN ui.thread \subseteq {ui.session}
                   ELSE Cardinality(ui.thread) <= 1

(* A page that does not wait takes a message, but where a compaction the     *)
(* user let go of has ended the wait for the turn after it.                  *)
IdleTakesMessages ==
  ~ui.sending /\ ui.active # Nobody =>
    \E r \in past.letGo : r \in Requests /\ request[r].kind = "compaction"

(* useChat.ts and client.ts, as one.                                         *)
PageIsHonest == NeverStuck /\ OwnEvents /\ OneConversation /\ IdleTakesMessages
=============================================================================
