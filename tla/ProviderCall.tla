---------------------------- MODULE ProviderCall ----------------------------
(* One model call after another: which provider answers (agent/session.ts    *)
(* resolveProvider, providers/pool.ts), the governed request with its        *)
(* redirects (providers/egress.ts), the retries (providers/retry.ts) and     *)
(* what the two adapters make of the answer (openaiCompatible.ts,            *)
(* anthropic.ts).  The network and the model are external: a request is      *)
(* answered, redirected, refused or dropped, and a stream may end anywhere.  *)
EXTENDS Naturals, FiniteSets

CONSTANTS
  PoolSize,      \* entries of the provider pool; an entry is its place in the list
  MaxRetries,    \* DEFAULT_MAX_RETRIES
  MaxRedirects,  \* MAX_REDIRECTS
  MaxDeltas,     \* bound: pieces of text in one stream
  MaxCalls       \* bound: calls since the pool was last saved

VARIABLES
  pool,          \* rotation policy, enabled entries, and the module's rrCursor
  used,          \* history: calls per entry since the pool was saved
  call           \* the call under way, or the last one

vars == <<pool, used, call>>

PoolEntries == 1 .. PoolSize
Over == {"answered", "failed"}

NoCall == [step |-> "failed", adapter |-> "openai", streaming |-> FALSE, net |-> "on", hop |-> "own",
           redirects |-> 0, attempt |-> 0, content |-> 0, shown |-> 0, whole |-> FALSE, records |-> 0]

Init ==
  /\ pool = [policy |-> "round-robin", enabled |-> PoolEntries, cursor |-> 0]
  /\ used = [e \in PoolEntries |-> 0]
  /\ call = NoCall

-----------------------------------------------------------------------------
(* Choosing a provider.                                                      *)

(* POST /api/config/pool, and resetRRCursor.                                 *)
SavePool(policy, enabled) ==
  /\ call.step \in Over
  /\ pool' = [policy |-> policy, enabled |-> enabled, cursor |-> 0]
  /\ used' = [e \in PoolEntries |-> 0]
  /\ UNCHANGED call

(* The index of an entry among the slots of the pool, which keep the order   *)
(* of the enabled entries.                                                   *)
Index(entry) == Cardinality({e \in pool.enabled : e < entry})

(* Mutant: the cursor lives in the pool, which is made anew for each turn.   *)
NextAfresh(slot) ==
  /\ pool.policy = "round-robin" => Index(slot) = 0
  /\ pool' = pool

(* ProviderPool.next: a pool of one leaves the cursor alone.                 *)
NextSlot(slot) ==
  IF Cardinality(pool.enabled) = 1 \/ pool.policy # "round-robin"
  THEN UNCHANGED pool
  ELSE /\ Index(slot) = pool.cursor % Cardinality(pool.enabled)
       /\ pool' = [pool EXCEPT !.cursor = @ + 1]

Began(adapter, streaming, net) ==
  [NoCall EXCEPT !.step = "checking", !.adapter = adapter, !.streaming = streaming, !.net = net, !.attempt = 1]

(* resolveProvider: a model, a provider or a profile that was asked for, or  *)
(* a pool without enabled entries, passes the pool by.                       *)
Start(adapter, streaming, net, chosen) ==
  /\ call.step \in Over
  /\ call' = Began(adapter, streaming, net)
  /\ IF chosen \/ pool.enabled = {} THEN UNCHANGED <<pool, used>>
     ELSE \E slot \in pool.enabled :
            /\ used[slot] < MaxCalls
            /\ NextSlot(slot) /\ used' = [used EXCEPT ![slot] = @ + 1]

-----------------------------------------------------------------------------
(* One attempt.                                                              *)

(* Mutant: text that was shown does not stop a retry.                        *)
FailedEagerly(c, retryable) ==
  [c EXCEPT !.step = IF retryable /\ c.attempt <= MaxRetries THEN "waiting" ELSE "failed"]

(* withProviderRetry's catch: a stream is not tried again once text of it    *)
(* was shown.                                                                *)
Failed(c, retryable) ==
  [c EXCEPT !.step = IF retryable /\ c.attempt <= MaxRetries /\ ~(c.streaming /\ c.shown > 0)
                     THEN "waiting" ELSE "failed"]

Recorded(c) == [c EXCEPT !.records = @ + 1]

Admits(net, hop) == net = "on" \/ (net = "endpoint-only" /\ hop = "own")

(* governedProviderFetch before each request: the policy, then the address.  *)
Check ==
  /\ call.step = "checking"
  /\ call' = IF ~Admits(call.net, call.hop) THEN Failed(Recorded(call), FALSE)
             ELSE IF call.hop = "restricted" THEN Failed(call, FALSE)
             ELSE [call EXCEPT !.step = "sent"]
  /\ UNCHANGED <<pool, used>>

(* The answer's head: no connection, a status, or nothing worth retrying.    *)
Respond(outcome) ==
  /\ call.step = "sent"
  /\ call' = CASE outcome = "ok" -> [Recorded(call) EXCEPT !.step = "reading", !.content = 0, !.whole = FALSE]
               [] outcome \in {"busy", "dropped"} -> Failed(Recorded(call), TRUE)
               [] outcome \in {"refused", "nowhere"} -> Failed(Recorded(call), FALSE)
  /\ UNCHANGED <<pool, used>>

Redirect(to) ==
  /\ call.step = "sent"
  /\ call' = IF call.redirects = MaxRedirects THEN Failed(call, FALSE)
             ELSE [call EXCEPT !.step = "checking", !.hop = to, !.redirects = @ + 1]
  /\ UNCHANGED <<pool, used>>

Reading == call.step = "reading"
Streaming == Reading /\ call.streaming
Answered(c) == [c EXCEPT !.step = "answered"]

(* A piece of text reaches the consumer.                                     *)
Delta ==
  /\ Streaming /\ ~call.whole /\ call.content < MaxDeltas
  /\ call' = [call EXCEPT !.content = @ + 1, !.shown = @ + 1]
  /\ UNCHANGED <<pool, used>>

(* message_stop, or the chunk that carries a finish_reason.                  *)
LastChunk ==
  /\ Streaming /\ ~call.whole
  /\ call' = [call EXCEPT !.whole = TRUE]
  /\ UNCHANGED <<pool, used>>

(* The stream is closed.  Only one of the adapters minds that the answer was *)
(* not whole.                                                                *)
CloseStream ==
  /\ Streaming
  /\ call' = IF call.adapter = "anthropic" /\ ~call.whole THEN Failed(call, TRUE) ELSE Answered(call)
  /\ UNCHANGED <<pool, used>>

(* An `error` chunk, or the connection breaks.                               *)
BreakStream(retryable) ==
  /\ Streaming
  /\ call' = Failed(call, retryable)
  /\ UNCHANGED <<pool, used>>

(* A body read at once: complete, cut short, or no JSON.                     *)
ReadBody(outcome) ==
  /\ Reading /\ ~call.streaming
  /\ call' = CASE outcome = "ok" -> Answered([call EXCEPT !.whole = TRUE])
               [] outcome = "dropped" -> Failed(call, TRUE)
               [] outcome = "garbled" -> Failed(call, FALSE)
  /\ UNCHANGED <<pool, used>>

(* The backoff is over: the next attempt starts from the configured address. *)
Retry ==
  /\ call.step = "waiting"
  /\ call' = [call EXCEPT !.step = "checking", !.attempt = @ + 1, !.hop = "own", !.redirects = 0]
  /\ UNCHANGED <<pool, used>>

(* The turn is aborted: a request rejects and is recorded, a read or a       *)
(* backoff rejects, and nothing is tried again.                              *)
Abort ==
  /\ call.step \in {"sent", "reading", "waiting"}
  /\ call' = Failed(IF call.step = "sent" THEN Recorded(call) ELSE call, FALSE)
  /\ UNCHANGED <<pool, used>>

Next ==
  \/ \E policy \in {"round-robin", "random"}, enabled \in SUBSET PoolEntries : SavePool(policy, enabled)
  \/ \E adapter \in {"openai", "anthropic"}, streaming, chosen \in BOOLEAN, net \in {"on", "endpoint-only", "off"} :
       Start(adapter, streaming, net, chosen)
  \/ Check
  \/ \E outcome \in {"ok", "busy", "dropped", "refused", "nowhere"} : Respond(outcome)
  \/ \E to \in {"own", "other", "restricted"} : Redirect(to)
  \/ Delta \/ LastChunk \/ CloseStream
  \/ \E retryable \in BOOLEAN : BreakStream(retryable)
  \/ \E outcome \in {"ok", "dropped", "garbled"} : ReadBody(outcome)
  \/ Retry \/ Abort

Spec == Init /\ [][Next]_vars

-----------------------------------------------------------------------------
(* What the consumer was shown is one attempt's text from its beginning:     *)
(* never the same text twice, and an answer says what was shown.  An answer  *)
(* of the native adapter is a whole message.                                 *)
AnswerIsShownOnce ==
  /\ call.streaming /\ call.step \in {"reading", "answered"} => call.shown = call.content
  /\ call.step = "answered" /\ call.adapter = "anthropic" => call.whole

(* However often the pool is made anew, round-robin gives the enabled        *)
(* entries the same number of calls, give or take one, since the pool was    *)
(* saved.                                                                    *)
RotationIsEven ==
  pool.policy = "round-robin" => \A e, f \in pool.enabled : used[e] <= used[f] + 1

(* "the egress check and the `provider_request` audit record apply to each   *)
(* try" (providers/retry.ts): when a call is over, there is one for each.    *)
(* No run checks it: a try that is redirected once too often, or to a        *)
(* restricted address, ends without a record.                                *)
EveryTryRecorded == call.step \in Over => call.records = call.attempt

(* A retry repeats no text, and a rebuilt pool keeps its turn.               *)
RetriesAreSafe == AnswerIsShownOnce /\ RotationIsEven
=============================================================================
