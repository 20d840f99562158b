---------------------------- MODULE McpStdioProofs ----------------------------
(* Proofs about McpStdio, for any number of servers and of tool calls.      *)
EXTENDS McpStdio, TLAPS

USE McpAssumption

(* A request exists exactly below nextId, and calls bound nextId.           *)
Numbered == \A s \in Servers :
  /\ \A q \in Requests : req[s][q] = "none" <=> q >= nextId[s]
  /\ nextId[s] <= 3 + calls
  /\ child[s] = "none" => nextId[s] = 1
  /\ s \in tools => nextId[s] >= 3

(* Whatever is answered, now or on the wire, was read by the server.        *)
Received ==
  /\ AnsweredIsReceived
  /\ \A s \in Servers : \A answer \in wire[s] : answer[1] \in inbox[s]

(* A closed client has nothing pending, and its registration is behind it.  *)
ClosedIsDone == \A s \in Servers : closed[s] => pending[s] = {} /\ s < at

(* A started process is one dispose() knows, or closed, or still in its     *)
(* handshake.                                                               *)
Kept == \A s \in Servers : child[s] # "none" =>
  \/ s \in started \/ closed[s]
  \/ phase \in {"registering", "crashed"} /\ at = s /\ nextId[s] = 2

Progress ==
  /\ phase = "registering" => at <= N
  /\ phase \in {"assembling", "running", "failed", "over"} => at = N + 1

IInv == TypeOK /\ PendingIsWaiting /\ Numbered /\ Received /\ ClosedIsDone
        /\ Kept /\ Progress /\ StoppedWhenOver

(* What the client's parts say of its variables.                            *)
ClientOK ==
  /\ closed \in [Servers -> BOOLEAN]
  /\ nextId \in [Servers -> 1..(3 + MaxCalls)]
  /\ req \in [Servers -> [Requests -> Results \cup {"none", "waiting"}]]
  /\ pending \in [Servers -> SUBSET Requests] /\ timers \in [Servers -> SUBSET Requests]
  /\ PendingIsWaiting
  /\ \A s \in Servers : \A q \in Requests : req[s][q] = "none" <=> q >= nextId[s]

LEMMA ClientHolds == IInv => ClientOK
BY DEF IInv, TypeOK, ClientOK, Numbered

(* The table of waiters and the timers, request by request.                 *)
LEMMA Table ==
  ASSUME ClientOK, NEW s \in Servers, NEW q \in Requests
  PROVE  /\ q \in pending[s] <=> req[s][q] = "waiting"
         /\ q \in timers[s] <=> req[s][q] = "waiting"
BY DEF ClientOK, PendingIsWaiting, Waiting

(* Taking waiters off the table keeps the client consistent, and settles    *)
(* those and no other.                                                      *)
LEMMA DropKeeps ==
  ASSUME ClientOK, NEW s \in Servers, NEW P, NEW result \in Results, Drop(s, P, result)
  PROVE  /\ ClientOK'
         /\ \A t \in Servers : pending'[t] \subseteq pending[t]
         /\ \A t \in Servers : \A q \in Requests :
              req'[t][q] # req[t][q] => t = s /\ q \in P /\ q \in pending[t] /\ req'[t][q] = result
<1>1. \A t \in Servers : \A q \in Requests :
        req'[t][q] = IF t = s /\ q \in P /\ req[t][q] = "waiting" THEN result ELSE req[t][q]
  BY DEF Drop, Settled, ClientOK
<1>2. \A t \in Servers : /\ pending'[t] = IF t = s THEN pending[t] \ P ELSE pending[t]
                         /\ timers'[t] = IF t = s THEN timers[t] \ P ELSE timers[t]
  BY DEF Drop, ClientOK
<1>3. /\ req' \in [Servers -> [Requests -> Results \cup {"none", "waiting"}]]
      /\ pending' \in [Servers -> SUBSET Requests] /\ timers' \in [Servers -> SUBSET Requests]
      /\ UNCHANGED <<closed, nextId>>
  BY DEF Drop, Settled, ClientOK
<1>4. PendingIsWaiting'
  <2>1. \A t \in Servers : \A q \in Requests :
          /\ q \in pending'[t] <=> req'[t][q] = "waiting"
          /\ q \in timers'[t] <=> req'[t][q] = "waiting"
    <3> SUFFICES ASSUME NEW t \in Servers, NEW q \in Requests
                 PROVE  /\ q \in pending'[t] <=> req'[t][q] = "waiting"
                        /\ q \in timers'[t] <=> req'[t][q] = "waiting"
      OBVIOUS
    <3>1. /\ q \in pending[t] <=> req[t][q] = "waiting"
          /\ q \in timers[t] <=> req[t][q] = "waiting"
      BY Table
    <3> QED
      BY <1>1, <1>2, <3>1 DEF Results
  <2> QED
    BY <2>1, <1>3 DEF PendingIsWaiting, Waiting
<1>5. \A t \in Servers : \A q \in Requests : req'[t][q] = "none" <=> q >= nextId'[t]
  BY <1>1, <1>3 DEF ClientOK, Results
<1> QED
  BY <1>1, <1>2, <1>3, <1>4, <1>5 DEF ClientOK, PendingIsWaiting, Waiting

(* close() rejects what its clients have pending and leaves the rest.       *)
LEMMA CloseKeeps ==
  ASSUME ClientOK, NEW S \in SUBSET Servers, Close(S)
  PROVE  /\ ClientOK'
         /\ \A t \in Servers : closed'[t] <=> closed[t] \/ t \in S
         /\ \A t \in Servers : pending'[t] = IF t \in S THEN {} ELSE pending[t]
         /\ \A t \in Servers : \A q \in Requests :
              req'[t][q] # req[t][q] => req'[t][q] = "error"
<1>1. \A t \in Servers : \A q \in Requests :
        req'[t][q] = IF t \in S /\ q \in pending[t] /\ req[t][q] = "waiting"
                       THEN "error" ELSE req[t][q]
  BY DEF Close, Settled, ClientOK
<1>2. \A t \in Servers : /\ pending'[t] = IF t \in S THEN {} ELSE pending[t]
                         /\ timers'[t] = IF t \in S THEN timers[t] \ pending[t] ELSE timers[t]
  BY DEF Close
<1>3. /\ req' \in [Servers -> [Requests -> Results \cup {"none", "waiting"}]]
      /\ pending' \in [Servers -> SUBSET Requests] /\ timers' \in [Servers -> SUBSET Requests]
      /\ closed' \in [Servers -> BOOLEAN] /\ UNCHANGED nextId
  BY DEF Close, Settled, ClientOK, Results
<1>4. PendingIsWaiting'
  <2>1. \A t \in Servers : \A q \in Requests :
          /\ q \in pending'[t] <=> req'[t][q] = "waiting"
          /\ q \in timers'[t] <=> req'[t][q] = "waiting"
    <3> SUFFICES ASSUME NEW t \in Servers, NEW q \in Requests
                 PROVE  /\ q \in pending'[t] <=> req'[t][q] = "waiting"
                        /\ q \in timers'[t] <=> req'[t][q] = "waiting"
      OBVIOUS
    <3>1. /\ q \in pending[t] <=> req[t][q] = "waiting"
          /\ q \in timers[t] <=> req[t][q] = "waiting"
      BY Table
    <3> QED
      BY <1>1, <1>2, <3>1 DEF Results
  <2> QED
    BY <2>1, <1>3 DEF PendingIsWaiting, Waiting
<1>5. \A t \in Servers : \A q \in Requests : req'[t][q] = "none" <=> q >= nextId'[t]
  BY <1>1, <1>3 DEF ClientOK
<1> QED
  BY <1>1, <1>2, <1>3, <1>4, <1>5 DEF ClientOK, Close

(* send() adds the next request, waiting.                                   *)
LEMMA SendKeeps ==
  ASSUME ClientOK, NEW s \in Servers, NEW extra, Send(s, extra), nextId[s] \in Requests
  PROVE  /\ ClientOK'
         /\ \A t \in Servers : t # s => pending'[t] = pending[t] /\ nextId'[t] = nextId[t]
         /\ nextId'[s] = nextId[s] + 1
         /\ \A t \in Servers : \A q \in Requests :
              req'[t][q] # req[t][q] => t = s /\ req'[t][q] = "waiting"
<1>1. \A t \in Servers : \A q \in Requests :
        req'[t][q] = IF t = s /\ q = nextId[s] THEN "waiting" ELSE req[t][q]
  BY DEF Send, ClientOK
<1>2. \A t \in Servers :
        /\ pending'[t] = IF t = s THEN pending[t] \cup {nextId[s]} ELSE pending[t]
        /\ timers'[t] = IF t = s THEN timers[t] \cup {nextId[s]} ELSE timers[t]
        /\ nextId'[t] = IF t = s THEN nextId[t] + 1 ELSE nextId[t]
  BY DEF Send, ClientOK
<1>3. /\ req' \in [Servers -> [Requests -> Results \cup {"none", "waiting"}]]
      /\ pending' \in [Servers -> SUBSET Requests] /\ timers' \in [Servers -> SUBSET Requests]
      /\ nextId' \in [Servers -> 1..(3 + MaxCalls)] /\ UNCHANGED closed
  BY DEF Send, ClientOK, Requests
<1>4. PendingIsWaiting'
  <2>1. \A t \in Servers : \A q \in Requests :
          /\ q \in pending'[t] <=> req'[t][q] = "waiting"
          /\ q \in timers'[t] <=> req'[t][q] = "waiting"
    <3> SUFFICES ASSUME NEW t \in Servers, NEW q \in Requests
                 PROVE  /\ q \in pending'[t] <=> req'[t][q] = "waiting"
                        /\ q \in timers'[t] <=> req'[t][q] = "waiting"
      OBVIOUS
    <3>1. /\ q \in pending[t] <=> req[t][q] = "waiting"
          /\ q \in timers[t] <=> req[t][q] = "waiting"
      BY Table
    <3>2. CASE t = s
      <4>1. /\ pending'[t] = pending[t] \cup {nextId[s]}
            /\ timers'[t] = timers[t] \cup {nextId[s]}
        BY <1>2, <3>2
      <4>2. req'[t][q] = "waiting" <=> q = nextId[s] \/ req[t][q] = "waiting"
        BY <1>1, <3>2
      <4> QED
        BY <3>1, <4>1, <4>2
    <3>3. CASE t # s
      BY <1>1, <1>2, <3>1, <3>3
    <3> QED
      BY <3>2, <3>3
  <2> QED
    BY <2>1, <1>3 DEF PendingIsWaiting, Waiting
<1>5. \A t \in Servers : \A q \in Requests : req'[t][q] = "none" <=> q >= nextId'[t]
  <2> SUFFICES ASSUME NEW t \in Servers, NEW q \in Requests
               PROVE  req'[t][q] = "none" <=> q >= nextId'[t]
    OBVIOUS
  <2>1. nextId[t] \in Nat /\ q \in Nat
    BY DEF ClientOK, Requests
  <2>2. req[t][q] = "none" <=> q >= nextId[t]
    BY DEF ClientOK
  <2>3. CASE t = s
    <3>1. req'[t][q] = "none" <=> q # nextId[s] /\ req[t][q] = "none"
      BY <1>1, <2>3
    <3>2. nextId'[t] = nextId[t] + 1
      BY <1>2, <2>3
    <3> QED
      BY <3>1, <3>2, <2>1, <2>2, <2>3
  <2>4. CASE t # s
    BY <1>1, <1>2, <2>2, <2>4
  <2> QED
    BY <2>3, <2>4
<1> QED
  BY <1>1, <1>2, <1>3, <1>4, <1>5 DEF ClientOK

-----------------------------------------------------------------------------
(* The invariant, action by action.                                         *)

(* Steps of the pipes that leave the client and the turn alone.             *)
LEMMA PipeSteps ==
  ASSUME IInv, NEW s \in Servers, Flush(s) \/ PipeBreaks(s) \/ Answer(s) \/ Die(s)
  PROVE  IInv'
<1>1. UNCHANGED <<at, calls, status, started, tools, client>> /\ phase' \in {phase, "crashed"}
  BY DEF Flush, PipeBreaks, Answer, Die, turn
<1>2. /\ child' \in [Servers -> {"none", "up", "dying", "exited", "gone"}]
      /\ \A t \in Servers : child'[t] = "none" <=> child[t] = "none"
  BY DEF Flush, PipeBreaks, Answer, Die, Becomes, pipes, IInv, TypeOK
<1>3. /\ inbox' \in [Servers -> SUBSET Requests]
      /\ queued' \in [Servers -> SUBSET (Requests \cup {Notice})]
      /\ \A t \in Servers : inbox[t] \subseteq inbox'[t]
  <2>1. CASE Flush(s)
    <3>1. PICK q \in queued[s] :
            /\ queued' = [queued EXCEPT ![s] = @ \ {q}]
            /\ inbox' = [inbox EXCEPT ![s] = @ \cup ({q} \ {Notice})]
      BY <2>1 DEF Flush
    <3>2. {q} \ {Notice} \subseteq Requests
      BY <3>1 DEF IInv, TypeOK
    <3> QED
      BY <3>1, <3>2 DEF IInv, TypeOK
  <2>2. CASE ~Flush(s)
    BY <2>2 DEF PipeBreaks, Answer, Die, pipes, IInv, TypeOK
  <2> QED
    BY <2>1, <2>2
<1>4. /\ wire' \in [Servers -> SUBSET (Requests \X Results)]
      /\ \A t \in Servers : \A answer \in wire'[t] : answer[1] \in inbox'[t]
  <2>1. CASE Answer(s)
    <3>1. PICK q \in inbox[s], result \in Results :
            wire' = [wire EXCEPT ![s] = @ \cup {<<q, result>>}]
      BY <2>1 DEF Answer
    <3>2. q \in Requests /\ UNCHANGED inbox
      BY <2>1 DEF Answer, IInv, TypeOK
    <3> QED
      BY <3>1, <3>2 DEF IInv, TypeOK, Received
  <2>2. CASE ~Answer(s)
    <3>1. UNCHANGED wire
      BY <2>2 DEF Flush, PipeBreaks, Die, pipes
    <3> QED
      BY <3>1, <1>3 DEF IInv, TypeOK, Received
  <2> QED
    BY <2>1, <2>2
<1>5. TypeOK'
  BY <1>1, <1>2, <1>3, <1>4 DEF IInv, TypeOK, Phases, client
<1>6. PendingIsWaiting' /\ ClosedIsDone' /\ Progress'
  BY <1>1 DEF IInv, PendingIsWaiting, Waiting, ClosedIsDone, Progress, client
<1>7. Numbered'
  BY <1>1, <1>2 DEF IInv, Numbered, client
<1>8. Received'
  BY <1>1, <1>3, <1>4 DEF IInv, Received, AnsweredIsReceived, client
<1>9. Kept' /\ StoppedWhenOver'
  BY <1>1, <1>2 DEF IInv, Kept, StoppedWhenOver, client
<1> QED
  BY <1>5, <1>6, <1>7, <1>8, <1>9 DEF IInv

(* Steps that settle requests: answers, deadlines, failed writes, the end   *)
(* of the process.                                                          *)
LEMMA SettlingSteps ==
  ASSUME IInv, NEW s \in Servers, Dispatch(s) \/ Expire(s) \/ WriteFails(s) \/ Gone(s)
  PROVE  IInv'
<1>0. ClientOK
  BY ClientHolds
<1>1. PICK P \in SUBSET (Requests \cup {Notice}), result \in Results :
        /\ Drop(s, P, result)
        /\ result = "error" \/ P \cap pending[s] \subseteq inbox[s]
  <2>1. CASE Dispatch(s)
    <3>1. PICK answer \in wire[s] :
            Drop(s, {p \in pending[s] : IdOf(p) = IdOf(answer[1])}, answer[2])
      BY <2>1 DEF Dispatch
    <3>2. answer[1] \in inbox[s] /\ answer[2] \in Results
      BY <3>1 DEF IInv, Received, TypeOK
    <3>3. {p \in pending[s] : IdOf(p) = IdOf(answer[1])} \cap pending[s] \subseteq inbox[s]
      BY <3>2 DEF IdOf
    <3>4. {p \in pending[s] : IdOf(p) = IdOf(answer[1])} \in SUBSET (Requests \cup {Notice})
      BY DEF IInv, TypeOK
    <3> QED
      BY <3>1, <3>2, <3>3, <3>4
  <2>2. CASE Expire(s) \/ WriteFails(s)
    <3>1. PICK q \in Requests \cup {Notice} : Drop(s, {q}, "error")
      BY <2>2 DEF Expire, WriteFails, IInv, TypeOK
    <3>2. {q} \in SUBSET (Requests \cup {Notice}) /\ "error" \in Results
      BY DEF Results
    <3> QED
      BY <3>1, <3>2
  <2>3. CASE Gone(s)
    <3>1. Drop(s, pending[s], "error")
      BY <2>3 DEF Gone
    <3>2. pending[s] \in SUBSET (Requests \cup {Notice}) /\ "error" \in Results
      BY DEF Results, IInv, TypeOK
    <3> QED
      BY <3>1, <3>2
  <2> QED
    BY <2>1, <2>2, <2>3
<1>2. UNCHANGED turn /\ UNCHANGED inbox
  BY DEF Dispatch, Expire, WriteFails, Gone, pipes
<1>3. /\ child' \in [Servers -> {"none", "up", "dying", "exited", "gone"}]
      /\ \A t \in Servers : child'[t] = "none" <=> child[t] = "none"
      /\ queued' \in [Servers -> SUBSET (Requests \cup {Notice})]
      /\ wire' \in [Servers -> SUBSET (Requests \X Results)]
      /\ \A t \in Servers : wire'[t] \subseteq wire[t]
  <2>1. CASE Dispatch(s)
    BY <2>1 DEF Dispatch, IInv, TypeOK
  <2>2. CASE Expire(s)
    BY <2>2 DEF Expire, pipes, IInv, TypeOK
  <2>3. CASE WriteFails(s)
    BY <2>3 DEF WriteFails, IInv, TypeOK
  <2>4. CASE Gone(s)
    BY <2>4 DEF Gone, Becomes, IInv, TypeOK
  <2> QED
    BY <2>1, <2>2, <2>3, <2>4
<1>4. /\ ClientOK'
      /\ \A t \in Servers : pending'[t] \subseteq pending[t]
      /\ \A t \in Servers : \A q \in Requests :
           req'[t][q] # req[t][q] => t = s /\ q \in P /\ q \in pending[t] /\ req'[t][q] = result
  BY <1>0, <1>1, DropKeeps
<1>5. UNCHANGED <<closed, nextId>>
  BY <1>1 DEF Drop
<1>6. TypeOK'
  BY <1>2, <1>3, <1>4 DEF IInv, TypeOK, ClientOK, turn
<1>7. Received'
  BY <1>1, <1>2, <1>3, <1>4 DEF IInv, Received, AnsweredIsReceived
<1>8. PendingIsWaiting' /\ Numbered'
  BY <1>2, <1>3, <1>4, <1>5 DEF IInv, ClientOK, Numbered, turn
<1>9. ClosedIsDone' /\ Progress' /\ Kept' /\ StoppedWhenOver'
  BY <1>2, <1>3, <1>4, <1>5 DEF IInv, ClosedIsDone, Progress, Kept, StoppedWhenOver, turn
<1> QED
  BY <1>6, <1>7, <1>8, <1>9 DEF IInv

(* Steps of the registration that end it for one server without a request.  *)
LEMMA PassSteps ==
  ASSUME IInv, NEW s \in Servers,
         Deny(s) \/ Block(s) \/ GiveUp(s) \/ Connect(s) \/ Clash(s)
  PROVE  IInv'
<1>0. ClientOK
  BY ClientHolds
<1>1. PICK verdict \in Verdicts : Pass(s, verdict)
  BY DEF Deny, Block, GiveUp, Connect, Clash, Verdicts
<1>2. /\ Registering(s) /\ UNCHANGED <<started, child, inbox, wire, queued, calls>>
      /\ phase' \in {"registering", "assembling"}
  BY <1>1 DEF Deny, Block, GiveUp, Connect, Clash, Pass, pipes
<1>3. /\ at = s /\ at' = s + 1 /\ at' \in 1..(N + 1) /\ at \in Nat
      /\ phase' = IF s = N THEN "assembling" ELSE "registering"
      /\ status' = [status EXCEPT ![s] = verdict]
  BY <1>1, <1>2 DEF Pass, Registering, Servers
<1>4. /\ ClientOK' /\ UNCHANGED nextId
      /\ \A t \in Servers : closed'[t] <=> closed[t] \/ (t = s /\ ~Deny(s) /\ ~Connect(s))
      /\ \A t \in Servers : pending'[t] = pending[t] \/ pending'[t] = {}
      /\ \A t \in Servers : closed'[t] => pending'[t] = {}
      /\ \A t \in Servers : \A q \in Requests :
           req'[t][q] # req[t][q] => req'[t][q] = "error"
  <2>1. CASE Deny(s) \/ Connect(s)
    <3>1. UNCHANGED client
      BY <2>1 DEF Deny, Connect
    <3> QED
      BY <3>1, <2>1, <1>0 DEF client, ClientOK, PendingIsWaiting, Waiting, IInv, ClosedIsDone
  <2>2. CASE ~Deny(s) /\ ~Connect(s)
    <3>1. Close({s})
      BY <2>2 DEF Block, GiveUp, Clash
    <3>2. /\ ClientOK'
          /\ \A t \in Servers : closed'[t] <=> closed[t] \/ t \in {s}
          /\ \A t \in Servers : pending'[t] = IF t \in {s} THEN {} ELSE pending[t]
          /\ \A t \in Servers : \A q \in Requests :
               req'[t][q] # req[t][q] => req'[t][q] = "error"
      BY <3>1, <1>0, CloseKeeps
    <3>3. UNCHANGED nextId /\ \A t \in Servers : closed[t] => pending[t] = {}
      BY <3>1 DEF Close, IInv, ClosedIsDone
    <3> QED
      BY <3>2, <3>3, <2>2
  <2> QED
    BY <2>1, <2>2
<1>5. /\ tools' \subseteq Servers
      /\ \A t \in Servers : t \in tools' => nextId[t] >= 3
  <2>1. CASE Connect(s) \/ Clash(s)
    <3>1. tools' = tools \cup {s} /\ req[s][List] # "none"
      BY <2>1 DEF Connect, Clash
    <3>2. nextId[s] >= 3
      BY <3>1 DEF IInv, Numbered, TypeOK, Requests, List
    <3> QED
      BY <3>1, <3>2 DEF IInv, TypeOK, Numbered
  <2>2. CASE ~Connect(s) /\ ~Clash(s)
    BY <2>2 DEF Deny, Block, GiveUp, IInv, TypeOK, Numbered
  <2> QED
    BY <2>1, <2>2
<1>6. TypeOK'
  <2>1. \A t \in Servers : status'[t] = "none" <=> t >= at'
    BY <1>3 DEF IInv, TypeOK, Servers, Verdicts
  <2>2. status' \in [Servers -> Verdicts \cup {"none"}]
    BY <1>3 DEF IInv, TypeOK
  <2> QED
    BY <2>1, <2>2, <1>2, <1>3, <1>4, <1>5 DEF IInv, TypeOK, ClientOK, Phases
<1>7. PendingIsWaiting' /\ Numbered'
  BY <1>2, <1>4, <1>5 DEF IInv, ClientOK, Numbered
<1>8. Received'
  BY <1>2, <1>4 DEF IInv, Received, AnsweredIsReceived
<1>9. ClosedIsDone'
  <2>1. \A t \in Servers : closed'[t] => t < at'
    BY <1>3, <1>4 DEF IInv, ClosedIsDone, Servers
  <2> QED
    BY <2>1, <1>4 DEF ClosedIsDone
<1>10. Progress' /\ StoppedWhenOver'
  BY <1>2, <1>3 DEF Progress, StoppedWhenOver, Servers
<1>11. Kept'
  <2> SUFFICES ASSUME NEW t \in Servers, child'[t] # "none"
               PROVE  t \in started \/ closed'[t]
    BY <1>2 DEF Kept
  <2>1. CASE t = s /\ ~Deny(s) /\ ~Connect(s)
    BY <2>1, <1>4
  <2>2. CASE t = s /\ Deny(s)
    BY <2>2, <1>2 DEF Deny
  <2>3. CASE t = s /\ Connect(s)
    <3>1. nextId[s] # 2
      BY <2>3 DEF Connect, IInv, Numbered, TypeOK, Requests, List
    <3> QED
      BY <3>1, <2>3, <1>2, <1>4 DEF IInv, Kept
  <2>4. CASE t # s
    BY <2>4, <1>2, <1>3, <1>4 DEF IInv, Kept
  <2> QED
    BY <2>1, <2>2, <2>3, <2>4
<1> QED
  BY <1>6, <1>7, <1>8, <1>9, <1>10, <1>11 DEF IInv

(* Steps that send a request.                                               *)
LEMMA SendingSteps ==
  ASSUME IInv, NEW s \in Servers,
         \/ Launch(s) \/ Initialized(s)
         \/ Call(s) /\ ~closed[s]
  PROVE  IInv'
<1>0. ClientOK /\ at \in Nat /\ calls \in 0..MaxCalls /\ nextId[s] \in Nat
  BY ClientHolds DEF IInv, TypeOK
<1>1. PICK extra \in SUBSET {Notice} : Send(s, extra)
  BY DEF Launch, Initialized, Call
<1>2. /\ ~closed[s] /\ nextId[s] \in Requests /\ nextId[s] + 1 <= 3 + calls'
      /\ calls' \in {calls, calls + 1} /\ calls' <= MaxCalls
  <2>1. CASE Launch(s)
    <3>1. nextId[s] = 1 /\ calls' = calls /\ at = s
      BY <2>1 DEF Launch, Registering, turn, IInv, Numbered
    <3> QED
      BY <3>1, <1>0 DEF Requests, IInv, ClosedIsDone
  <2>2. CASE Initialized(s)
    <3>1. nextId[s] = 2 /\ calls' = calls /\ at = s
      BY <2>2, <1>0 DEF Initialized, Registering, IInv, Numbered, Requests, Initialize, List
    <3> QED
      BY <3>1, <1>0 DEF Requests, IInv, ClosedIsDone
  <2>3. CASE Call(s) /\ ~closed[s]
    <3>1. calls' = calls + 1 /\ calls < MaxCalls /\ nextId[s] <= 3 + calls /\ nextId[s] >= 3
      BY <2>3 DEF Call, IInv, Numbered
    <3> QED
      BY <3>1, <2>3, <1>0 DEF Requests
  <2> QED
    BY <2>1, <2>2, <2>3
<1>3. /\ ClientOK'
      /\ \A t \in Servers : t # s => pending'[t] = pending[t] /\ nextId'[t] = nextId[t]
      /\ nextId'[s] = nextId[s] + 1
      /\ \A t \in Servers : \A q \in Requests :
           req'[t][q] # req[t][q] => t = s /\ req'[t][q] = "waiting"
  BY <1>0, <1>1, <1>2, SendKeeps
<1>4. /\ UNCHANGED <<phase, at, status, tools, inbox, wire, closed>>
      /\ started' \in {started, started \cup {s}}
      /\ child' \in [Servers -> {"none", "up", "dying", "exited", "gone"}]
      /\ \A t \in Servers : child'[t] = "none" => child[t] = "none"
      /\ \A t \in Servers : t # s => child'[t] = child[t]
  BY <1>1 DEF Launch, Initialized, Call, Send, turn, IInv, TypeOK
<1>5. queued' \in [Servers -> SUBSET (Requests \cup {Notice})]
  BY <1>1, <1>2 DEF Send, IInv, TypeOK
<1>6. TypeOK'
  BY <1>0, <1>2, <1>3, <1>4, <1>5 DEF IInv, TypeOK, ClientOK
<1>7. child[s] = "none" => child'[s] # "none"
  BY DEF Launch, Initialized, Call, IInv, TypeOK, Numbered, Requests, Initialize
<1>8. PendingIsWaiting' /\ Numbered'
  <2>1. \A t \in Servers : child'[t] = "none" => t # s
    BY <1>4, <1>7
  <2>2. \A t \in Servers : nextId[t] \in Nat
    BY DEF IInv, TypeOK
  <2> QED
    BY <1>0, <1>2, <1>3, <1>4, <2>1, <2>2 DEF IInv, ClientOK, Numbered
<1>9. Received'
  BY <1>3, <1>4 DEF IInv, Received, AnsweredIsReceived
<1>10. ClosedIsDone' /\ Progress'
  BY <1>2, <1>3, <1>4 DEF IInv, ClosedIsDone, Progress
<1>11. phase # "over"
  BY DEF Launch, Initialized, Call, Registering
<1>12. Kept'
  <2>1. CASE Launch(s)
    <3>1. nextId'[s] = 2 /\ at' = s /\ phase' = "registering"
      BY <2>1, <1>3, <1>4 DEF Launch, Registering, IInv, Numbered
    <3> QED
      BY <3>1, <1>3, <1>4 DEF IInv, Kept
  <2>2. CASE Initialized(s)
    BY <2>2, <1>3, <1>4 DEF Initialized, IInv, Kept
  <2>3. CASE Call(s)
    <3>1. started' = started /\ phase' = "running"
      BY <2>3, <1>4 DEF Call
    <3> QED
      BY <3>1, <1>3, <1>4, <2>3 DEF Call, IInv, Kept
  <2> QED
    BY <2>1, <2>2, <2>3
<1> QED
  BY <1>4, <1>6, <1>8, <1>9, <1>10, <1>11, <1>12 DEF IInv, StoppedWhenOver

LEMMA TurnSteps ==
  ASSUME IInv, Assemble \/ EndTurn \/ \E s \in Servers : Call(s) /\ closed[s]
  PROVE  IInv'
<1>0. ClientOK
  BY ClientHolds
<1>1. CASE Assemble
  BY <1>1 DEF Assemble, client, pipes, IInv, TypeOK, Phases, PendingIsWaiting, Waiting, Numbered,
     Received, AnsweredIsReceived, ClosedIsDone, Kept, Progress, StoppedWhenOver
<1>2. CASE EndTurn
  <2>1. /\ phase = "running" /\ phase' = "over" /\ started' = {}
        /\ UNCHANGED <<at, calls, status, tools, child, queued, inbox, wire, nextId>>
    BY <1>2 DEF EndTurn, pipes, Close
  <2>2. /\ ClientOK'
        /\ \A t \in Servers : closed'[t] <=> closed[t] \/ t \in started
        /\ \A t \in Servers : pending'[t] = IF t \in started THEN {} ELSE pending[t]
        /\ \A t \in Servers : \A q \in Requests :
             req'[t][q] # req[t][q] => req'[t][q] = "error"
    BY <1>0, <1>2, CloseKeeps DEF EndTurn, IInv, TypeOK
  <2>3. TypeOK'
    BY <2>1, <2>2 DEF IInv, TypeOK, ClientOK, Phases
  <2>4. PendingIsWaiting' /\ Numbered' /\ Progress'
    BY <2>1, <2>2 DEF IInv, ClientOK, Numbered, Progress
  <2>5. Received'
    BY <2>1, <2>2 DEF IInv, Received, AnsweredIsReceived
  <2>6. ClosedIsDone'
    <3>1. \A t \in Servers : t < at
      BY <2>1 DEF IInv, Progress, Servers
    <3> QED
      BY <3>1, <2>1, <2>2 DEF IInv, ClosedIsDone
  <2>7. \A t \in Servers : child[t] # "none" => closed'[t]
    BY <2>1, <2>2 DEF IInv, Kept
  <2>8. Kept' /\ StoppedWhenOver'
    BY <2>1, <2>7 DEF Kept, StoppedWhenOver
  <2> QED
    BY <2>3, <2>4, <2>5, <2>6, <2>8 DEF IInv
<1>3. CASE \E s \in Servers : Call(s) /\ closed[s]
  <2>1. /\ UNCHANGED <<client, queued, phase, at, status, started, tools, child, inbox, wire>>
        /\ calls < MaxCalls /\ calls' = calls + 1
    BY <1>3 DEF Call
  <2>2. TypeOK'
    BY <2>1 DEF client, IInv, TypeOK
  <2>3. Numbered'
    BY <2>1 DEF client, IInv, TypeOK, Numbered
  <2> QED
    BY <2>1, <2>2, <2>3 DEF client, IInv, PendingIsWaiting, Waiting,
       Received, AnsweredIsReceived, ClosedIsDone, Kept, Progress, StoppedWhenOver
<1> QED
  BY <1>1, <1>2, <1>3

LEMMA NextIInv == IInv /\ [Next]_vars => IInv'
<1> SUFFICES ASSUME IInv, [Next]_vars PROVE IInv'
  OBVIOUS
<1>1. CASE UNCHANGED vars
  BY <1>1 DEF vars, turn, client, pipes, IInv, TypeOK, PendingIsWaiting, Waiting, Numbered,
     Received, AnsweredIsReceived, ClosedIsDone, Kept, Progress, StoppedWhenOver
<1>2. ASSUME NEW s \in Servers, Register(s) \/ Transport(s) \/ Call(s) PROVE IInv'
  <2>1. CASE Register(s)
    BY <2>1, PassSteps, SendingSteps DEF Register
  <2>2. CASE Transport(s)
    BY <2>2, PipeSteps, SettlingSteps DEF Transport
  <2>3. CASE Call(s)
    BY <2>3, SendingSteps, TurnSteps
  <2> QED
    BY <1>2, <2>1, <2>2, <2>3
<1>3. CASE Assemble \/ EndTurn
  BY <1>3, TurnSteps
<1> QED
  BY <1>1, <1>2, <1>3 DEF Next

LEMMA InitIInv == Init => IInv
<1> SUFFICES ASSUME Init PROVE IInv
  OBVIOUS
<1>1. TypeOK
  BY DEF Init, TypeOK, Phases, Servers
<1>2. PendingIsWaiting
  BY DEF Init, PendingIsWaiting, Waiting
<1>3. Numbered /\ Received /\ ClosedIsDone /\ Kept /\ Progress /\ StoppedWhenOver
  BY DEF Init, Numbered, Received, AnsweredIsReceived, ClosedIsDone, Kept, Progress,
     StoppedWhenOver, Requests
<1> QED
  BY <1>1, <1>2, <1>3 DEF IInv

LEMMA Invariant == Spec => []IInv
BY InitIInv, NextIInv, PTL DEF Spec

-----------------------------------------------------------------------------
(* Every variable keeps its type, and each server passed has its summary.   *)
THEOREM Typed == Spec => []TypeOK
BY Invariant, PTL DEF IInv

(* A request waits exactly while it is in the table with its deadline       *)
(* armed: whatever the server does, some timer will settle it.              *)
THEOREM Watched == Spec => []PendingIsWaiting
BY Invariant, PTL DEF IInv

(* No request takes the answer to another one.                              *)
THEOREM OwnAnswers == Spec => []AnsweredIsReceived
BY Invariant, PTL DEF IInv, Received

(* What a turn started is stopped when it comes to its end.                 *)
THEOREM TurnStopsServers == Spec => []StoppedWhenOver
BY Invariant, PTL DEF IInv

(* Only a request in the table is answered.                                 *)
LEMMA Answering ==
  ASSUME IInv, [Next]_vars, NEW s \in Servers, NEW q \in Requests,
         req'[s][q] # req[s][q], q \notin pending[s]
  PROVE  req'[s][q] \in {"error", "waiting"}
<1>0. ClientOK
  BY ClientHolds
<1>1. ASSUME NEW t \in Servers, Dispatch(t) \/ Expire(t) \/ WriteFails(t) \/ Gone(t)
      PROVE  FALSE
  <2>1. CASE Dispatch(t)
    <3>1. PICK answer \in wire[t] :
            Drop(t, {p \in pending[t] : IdOf(p) = IdOf(answer[1])}, answer[2])
      BY <2>1 DEF Dispatch
    <3>2. answer[2] \in Results
      BY <3>1 DEF IInv, TypeOK
    <3> QED
      BY <3>1, <3>2, <1>0, DropKeeps
  <2>2. CASE Expire(t) \/ WriteFails(t)
    <3>1. PICK p \in Requests \cup {Notice} : Drop(t, {p}, "error")
      BY <2>2 DEF Expire, WriteFails, IInv, TypeOK
    <3>2. "error" \in Results
      BY DEF Results
    <3> QED
      BY <3>1, <3>2, <1>0, DropKeeps
  <2>3. CASE Gone(t)
    <3>1. Drop(t, pending[t], "error") /\ "error" \in Results
      BY <2>3 DEF Gone, Results
    <3> QED
      BY <3>1, <1>0, DropKeeps
  <2> QED
    BY <1>1, <2>1, <2>2, <2>3
<1>2. ASSUME NEW S \in SUBSET Servers, Close(S) PROVE req'[s][q] = "error"
  BY <1>2, <1>0, CloseKeeps
<1>3. ASSUME NEW t \in Servers, NEW extra, Send(t, extra) PROVE req'[s][q] = "waiting"
  <2>1. req'[s][q] = IF s = t /\ q = nextId[t] THEN "waiting" ELSE req[s][q]
    BY <1>3, <1>0 DEF Send, ClientOK
  <2> QED
    BY <2>1
<1>4. ~UNCHANGED client
  BY DEF client
<1>5. CASE EndTurn
  BY <1>5, <1>2 DEF EndTurn, IInv, TypeOK
<1>6. ASSUME NEW t \in Servers, Register(t) \/ Transport(t) \/ Call(t)
      PROVE  req'[s][q] \in {"error", "waiting"}
  <2>1. {t} \in SUBSET Servers
    OBVIOUS
  <2>2. CASE Register(t)
    BY <2>1, <2>2, <1>2, <1>3, <1>4
       DEF Register, Deny, Block, Launch, Initialized, GiveUp, Connect, Clash
  <2>3. CASE Transport(t)
    BY <2>3, <1>1, <1>4 DEF Transport, Flush, PipeBreaks, Answer, Die
  <2>4. CASE Call(t)
    BY <2>4, <1>3, <1>4 DEF Call
  <2> QED
    BY <1>6, <2>2, <2>3, <2>4
<1> QED
  BY <1>4, <1>5, <1>6 DEF Next, vars, Assemble

(* A killed server that still talks is not listened to.                     *)
THEOREM ClosedIsDeaf == Spec => ClosedNeverAnswers
<1> DEFINE Deaf == \A s \in Servers : \A q \in Requests :
             closed[s] /\ req[s][q] \notin {"ok", "unfit"} => req'[s][q] \notin {"ok", "unfit"}
<1>1. IInv /\ [Next]_vars => [Deaf]_vars
  <2> SUFFICES ASSUME IInv, [Next]_vars, NEW s \in Servers, NEW q \in Requests, closed[s],
                      req[s][q] \notin {"ok", "unfit"}
               PROVE  req'[s][q] \notin {"ok", "unfit"}
    OBVIOUS
  <2>1. q \notin pending[s]
    BY DEF IInv, ClosedIsDone
  <2> QED
    BY <2>1, Answering
<1> QED
  BY <1>1, Invariant, PTL DEF Spec, ClosedNeverAnswers
=============================================================================
