------------------------------- MODULE McpStdio -------------------------------
(* The local MCP servers of one turn: registerMcpServers (mcp/register.ts)  *)
(* starts them one after the other, McpStdioClient (mcp/stdio.ts) exchanges *)
(* JSON-RPC lines with each child process, the turn's tool calls go through *)
(* the clients, and runAgentTurn disposes of the servers when it ends.      *)
EXTENDS Naturals

CONSTANTS N,        \* enabled local servers, in the order of the configuration
          MaxCalls  \* MCP tool calls of the turn (a bound of the model)

ASSUME McpAssumption == N \in Nat \ {0} /\ MaxCalls \in Nat

Servers == 1..N
Initialize == 1  \* the first request a client sends
List == 2        \* the second
Notice == 0      \* notifications/initialized, which has no id
Requests == 1..(2 + MaxCalls)
Results == {"ok", "unfit", "error"}  \* unfit: a result the client's caller refuses

VARIABLES
  phase,    \* how far the turn is
  at,       \* the server being registered
  calls,    \* tool calls made so far
  status,   \* McpConnectionSummary.status of each server
  started,  \* the clients dispose() will close
  tools,    \* servers with tools in the registry
  child,    \* the child process, as Node knows it
  closed,   \* McpStdioClient.closed
  nextId,   \* McpStdioClient.nextId
  req,      \* the promise of each request
  pending,  \* McpStdioClient.pending, by request
  timers,   \* requests whose timeout is armed
  queued,   \* writes to stdin whose callback has not run
  inbox,    \* requests the server has read
  wire      \* answers on stdout not dispatched yet

turn == <<phase, at, calls, status, started, tools>>
client == <<closed, nextId, req, pending, timers>>
pipes == <<child, queued, inbox, wire>>
vars == <<turn, client, pipes>>

Init ==
  /\ phase = "registering" /\ at = 1 /\ calls = 0
  /\ status = [s \in Servers |-> "none"] /\ started = {} /\ tools = {}
  /\ child = [s \in Servers |-> "none"]
  /\ closed = [s \in Servers |-> FALSE]
  /\ nextId = [s \in Servers |-> 1]
  /\ req = [s \in Servers |-> [q \in Requests |-> "none"]]
  /\ pending = [s \in Servers |-> {}] /\ timers = [s \in Servers |-> {}]
  /\ queued = [s \in Servers |-> {}] /\ inbox = [s \in Servers |-> {}]
  /\ wire = [s \in Servers |-> {}]

-----------------------------------------------------------------------------
(* The client.                                                              *)

(* Mutant: calls share one id.                                              *)
IdOfShared(q) == IF q > List THEN 3 ELSE q

(* this.nextId++: the n-th request of a client carries id n.                *)
IdOf(q) == q

(* Promises settle once: of the requests in P, those that still wait.       *)
Settled(s, P, result) ==
  [req EXCEPT ![s] = [q \in Requests |->
     IF q \in P /\ req[s][q] = "waiting" THEN result ELSE req[s][q]]]

(* Mutant: the deadline is not armed.                                       *)
SendUntimed(s, extra) ==
  /\ req' = [req EXCEPT ![s][nextId[s]] = "waiting"]
  /\ pending' = [pending EXCEPT ![s] = @ \cup {nextId[s]}]
  /\ queued' = [queued EXCEPT ![s] = @ \cup extra \cup {nextId[s]}]
  /\ nextId' = [nextId EXCEPT ![s] = @ + 1]
  /\ UNCHANGED <<closed, timers>>

(* send(): the request is registered, its deadline armed and its line       *)
(* written; `extra` are the lines written just before it.                   *)
Send(s, extra) ==
  /\ req' = [req EXCEPT ![s][nextId[s]] = "waiting"]
  /\ pending' = [pending EXCEPT ![s] = @ \cup {nextId[s]}]
  /\ timers' = [timers EXCEPT ![s] = @ \cup {nextId[s]}]
  /\ queued' = [queued EXCEPT ![s] = @ \cup extra \cup {nextId[s]}]
  /\ nextId' = [nextId EXCEPT ![s] = @ + 1]
  /\ UNCHANGED closed

(* A waiter is taken off the table, its timer cleared, its promise settled. *)
Drop(s, P, result) ==
  /\ req' = Settled(s, P, result)
  /\ pending' = [pending EXCEPT ![s] = @ \ P]
  /\ timers' = [timers EXCEPT ![s] = @ \ P]
  /\ UNCHANGED <<closed, nextId>>

(* close() of the clients S: no more requests, the children signalled, and  *)
(* every waiter rejected with its timer cleared (failPending).              *)
Close(S) ==
  /\ closed' = [s \in Servers |-> closed[s] \/ s \in S]
  /\ req' = [s \in Servers |-> IF s \in S THEN Settled(s, pending[s], "error")[s] ELSE req[s]]
  /\ timers' = [s \in Servers |-> IF s \in S THEN timers[s] \ pending[s] ELSE timers[s]]
  /\ pending' = [s \in Servers |-> IF s \in S THEN {} ELSE pending[s]]
  /\ UNCHANGED nextId

(* dispatch(): an answer settles the request that waits under its id, and   *)
(* is ignored when there is none.                                           *)
Dispatch(s) ==
  /\ phase # "crashed" /\ child[s] \in {"up", "dying", "exited"}
  /\ \E answer \in wire[s] :
       /\ wire' = [wire EXCEPT ![s] = @ \ {answer}]
       /\ Drop(s, {p \in pending[s] : IdOf(p) = IdOf(answer[1])}, answer[2])
  /\ UNCHANGED <<turn, child, queued, inbox>>

(* The deadline of a request passes.                                        *)
Expire(s) ==
  /\ phase # "crashed"
  /\ \E q \in timers[s] : Drop(s, {q}, "error")
  /\ UNCHANGED <<turn, pipes>>

-----------------------------------------------------------------------------
(* The child process and its pipes.                                         *)

(* The server reads a line; the write's callback runs without an error.     *)
Flush(s) ==
  /\ phase # "crashed" /\ child[s] = "up"
  /\ \E q \in queued[s] :
       /\ queued' = [queued EXCEPT ![s] = @ \ {q}]
       /\ inbox' = [inbox EXCEPT ![s] = @ \cup ({q} \ {Notice})]
  /\ UNCHANGED <<turn, client, child, wire>>

(* Node knows that the process is gone: the callback gets an error.         *)
WriteFails(s) ==
  /\ phase # "crashed" /\ child[s] \in {"exited", "gone"}
  /\ \E q \in queued[s] :
       /\ queued' = [queued EXCEPT ![s] = @ \ {q}]
       /\ Drop(s, {q}, "error")
  /\ UNCHANGED <<turn, child, inbox, wire>>

(* It does not know yet: the write raises EPIPE on a stream without an      *)
(* `error` listener, an uncaught exception.                                 *)
PipeBreaks(s) ==
  /\ phase # "crashed" /\ child[s] = "dying" /\ queued[s] # {}
  /\ phase' = "crashed"
  /\ UNCHANGED <<at, calls, status, started, tools, client, pipes>>

(* A server answers what it has read, when it likes, as often as it likes,  *)
(* killed or not; one line is on its way at a time (a bound of the model).  *)
Answer(s) ==
  /\ phase # "crashed" /\ child[s] = "up" /\ wire[s] = {}
  /\ \E q \in inbox[s], result \in Results :
       /\ q > List => result # "unfit"
       /\ wire' = [wire EXCEPT ![s] = @ \cup {<<q, result>>}]
  /\ UNCHANGED <<turn, client, child, queued, inbox>>

Becomes(s, from, to) ==
  /\ phase # "crashed" /\ child[s] = from
  /\ child' = [child EXCEPT ![s] = to]

(* The process ends, by itself or killed; Node notices later.               *)
Die(s) == (Becomes(s, "up", "dying") \/ Becomes(s, "dying", "exited"))
          /\ UNCHANGED <<turn, client, queued, inbox, wire>>

(* `error` or `close` of the child: nobody will answer any more.            *)
Gone(s) ==
  /\ Becomes(s, "exited", "gone") /\ wire[s] = {}
  /\ Drop(s, pending[s], "error")
  /\ UNCHANGED <<turn, queued, inbox, wire>>

-----------------------------------------------------------------------------
(* Registration.                                                            *)

Registering(s) == phase = "registering" /\ at = s

(* The server's summary is pushed and the loop goes on.                     *)
Pass(s, verdict) ==
  /\ status' = [status EXCEPT ![s] = verdict]
  /\ at' = s + 1
  /\ phase' = IF s = N THEN "assembling" ELSE "registering"
  /\ UNCHANGED calls

(* checkMcpServer: not in the policy's allowlist.                           *)
Deny(s) ==
  /\ Registering(s) /\ child[s] = "none"
  /\ Pass(s, "denied")
  /\ UNCHANGED <<started, tools, client, pipes>>

(* start() throws: the command is denied or no sandbox can seal it.         *)
Block(s) ==
  /\ Registering(s) /\ child[s] = "none"
  /\ Pass(s, "blocked") /\ Close({s})
  /\ UNCHANGED <<started, tools, pipes>>

(* start() spawns, which may fail later, and `initialize` is sent.          *)
Launch(s) ==
  /\ Registering(s) /\ child[s] = "none"
  /\ \E state \in {"up", "exited"} : child' = [child EXCEPT ![s] = state]
  /\ Send(s, {})
  /\ UNCHANGED <<turn, inbox, wire>>

(* initialize() returns: the client is remembered and `tools/list` follows  *)
(* the notification.                                                        *)
Initialized(s) ==
  /\ Registering(s) /\ req[s][Initialize] = "ok" /\ req[s][List] = "none"
  /\ started' = started \cup {s}
  /\ Send(s, {Notice})
  /\ UNCHANGED <<phase, at, calls, status, tools, child, inbox, wire>>

(* Mutant: a server that was not started completely is left to itself.      *)
GiveUpOpen(s) ==
  /\ Registering(s)
  /\ req[s][Initialize] \in {"unfit", "error"} \/ req[s][List] = "error"
  /\ Pass(s, "error")
  /\ UNCHANGED <<started, tools, client, pipes>>

(* A request failed, or validateProtocolVersion refused the answer.         *)
GiveUp(s) ==
  /\ Registering(s)
  /\ req[s][Initialize] \in {"unfit", "error"} \/ req[s][List] = "error"
  /\ Pass(s, "error") /\ Close({s})
  /\ UNCHANGED <<started, tools, pipes>>

(* Every tool of the list is registered.                                    *)
Connect(s) ==
  /\ Registering(s) /\ req[s][List] = "ok"
  /\ Pass(s, "connected")
  /\ tools' = tools \cup {s}
  /\ UNCHANGED <<started, client, pipes>>

(* The list holds a name twice: register() throws, and the tools before the *)
(* second one stay in the registry with a closed client.                    *)
Clash(s) ==
  /\ Registering(s) /\ req[s][List] = "unfit"
  /\ Pass(s, "error") /\ Close({s})
  /\ tools' = tools \cup {s}
  /\ UNCHANGED <<started, pipes>>

-----------------------------------------------------------------------------
(* The rest of the turn.                                                    *)

Waiting(s) == {q \in Requests : req[s][q] = "waiting"}
Idle == \A s \in Servers : Waiting(s) = {}

(* The prompt is built: scanProject, memories.  It may throw, and then the  *)
(* turn ends outside the try whose finally disposes of the servers.         *)
Assemble ==
  /\ phase = "assembling"
  /\ phase' \in {"running", "failed"}
  /\ UNCHANGED <<at, calls, status, started, tools, client, pipes>>

(* Mutant: a closed client still writes.                                    *)
CallClosed(s) ==
  /\ phase = "running" /\ s \in tools /\ Idle /\ calls < MaxCalls
  /\ calls' = calls + 1
  /\ Send(s, {})
  /\ UNCHANGED <<phase, at, status, started, tools, child, inbox, wire>>

(* A tool call of the model: the loop runs them one at a time.  A closed    *)
(* client refuses it.                                                       *)
Call(s) ==
  /\ phase = "running" /\ s \in tools /\ Idle /\ calls < MaxCalls
  /\ calls' = calls + 1
  /\ IF closed[s] THEN UNCHANGED <<client, queued>> ELSE Send(s, {})
  /\ UNCHANGED <<phase, at, status, started, tools, child, inbox, wire>>

(* processMessage settled, however: dispose().                              *)
EndTurn ==
  /\ phase = "running" /\ Idle
  /\ phase' = "over"
  /\ Close(started) /\ started' = {}
  /\ UNCHANGED <<at, calls, status, tools, pipes>>

Register(s) == Deny(s) \/ Block(s) \/ Launch(s) \/ Initialized(s) \/ GiveUp(s)
               \/ Connect(s) \/ Clash(s)
Transport(s) == Dispatch(s) \/ Expire(s) \/ Flush(s) \/ WriteFails(s) \/ PipeBreaks(s)
                \/ Answer(s) \/ Die(s) \/ Gone(s)
Next == \/ \E s \in Servers : Register(s) \/ Transport(s) \/ Call(s)
        \/ Assemble \/ EndTurn

Spec == Init /\ [][Next]_vars

(* The event loop runs the turn and fires the timers.  Nothing is assumed   *)
(* of the servers.                                                          *)
FairSpec ==
  /\ Spec /\ WF_vars(Assemble) /\ WF_vars(EndTurn)
  /\ \A s \in Servers : WF_vars(Register(s)) /\ WF_vars(Expire(s))

-----------------------------------------------------------------------------
(* Properties.                                                              *)

Phases == {"registering", "assembling", "running", "failed", "over", "crashed"}
Verdicts == {"denied", "blocked", "connected", "error"}

(* Types; and each server the registration has passed, and no other, has    *)
(* its summary (register.ts 118-139).                                       *)
TypeOK ==
  /\ phase \in Phases /\ at \in 1..(N + 1) /\ calls \in 0..MaxCalls
  /\ status \in [Servers -> Verdicts \cup {"none"}]
  /\ \A s \in Servers : status[s] = "none" <=> s >= at
  /\ started \subseteq Servers /\ tools \subseteq Servers
  /\ child \in [Servers -> {"none", "up", "dying", "exited", "gone"}]
  /\ closed \in [Servers -> BOOLEAN]
  /\ nextId \in [Servers -> 1..(3 + MaxCalls)]
  /\ req \in [Servers -> [Requests -> Results \cup {"none", "waiting"}]]
  /\ pending \in [Servers -> SUBSET Requests] /\ timers \in [Servers -> SUBSET Requests]
  /\ queued \in [Servers -> SUBSET (Requests \cup {Notice})]
  /\ inbox \in [Servers -> SUBSET Requests]
  /\ wire \in [Servers -> SUBSET (Requests \X Results)]

(* Through timeouts, late and repeated answers, failed writes, dead         *)
(* processes and close(): a request waits exactly as long as it is in the   *)
(* table and its deadline is armed.                                         *)
PendingIsWaiting ==
  \A s \in Servers : pending[s] = Waiting(s) /\ timers[s] = Waiting(s)

(* A late answer to a request that timed out settles no other: what a       *)
(* request resolves to, the server said after it had read that request.     *)
AnsweredIsReceived ==
  \A s \in Servers : \A q \in Requests : req[s][q] \in {"ok", "unfit"} => q \in inbox[s]

(* "The process can still answer for a moment" (stdio.ts 75): no request of *)
(* a closed client is answered after that.                                  *)
ClosedNeverAnswers ==
  [][\A s \in Servers : \A q \in Requests :
       closed[s] /\ req[s][q] \notin {"ok", "unfit"} => req'[s][q] \notin {"ok", "unfit"}]_vars

(* When a turn that reached the loop is over, every server it started has   *)
(* been told to stop, those whose registration failed half-way included.    *)
StoppedWhenOver == phase = "over" => \A s \in Servers : child[s] # "none" => closed[s]

(* Servers that hang, stay silent or die do not keep a turn from its end.   *)
TurnEnds == <>(phase \in {"over", "failed", "crashed"})

(* "no server outlives the turn that started it"                            *)
(* (docs/GOVERNED-MCP.md 105-107).  It does not hold: see Assemble.         *)
NoServerOutlivesTheTurn ==
  phase \in {"over", "failed"} => \A s \in Servers : child[s] # "none" => closed[s]
=============================================================================
