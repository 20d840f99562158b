----------------------------- MODULE AgentTurn -----------------------------
(* AgentRunner.runTurn (agent/runner.ts): one user message, then model      *)
(* requests and batches of tool calls until an answer, a limit, a stall, an *)
(* abort or an error ends the turn.  The awaits are the pc values           *)
(* "compacting", "asking" and "running": only there may the abort signal    *)
(* fire.  What a message says is abstracted; a message is its role and the  *)
(* ids of the native tool calls it makes or answers, which is what decides  *)
(* whether a provider accepts the history.                                  *)
EXTENDS Integers, Sequences, FiniteSets

CONSTANTS
  Writes,        \* source edits: edit_file, write_file, delete_file
  Checks,        \* test actions, a part of the investigation tools
  Reads,         \* the other investigation actions
  Others,        \* every other tool
  MaxIterations, MaxToolCalls, MaxRepeats, MaxUnverified,  \* TurnConfig
  MaxBatch,      \* bound: tool calls in one reply
  MaxTurns,      \* bound: turns of the conversation, each on the history left
  Interrupts     \* bound: turns of which the signal may abort

Acts == Writes \cup Checks \cup Reads \cup Others

ASSUME TurnAssumption ==
  /\ MaxIterations \in Nat /\ MaxToolCalls \in Nat \ {0} /\ MaxBatch \in Nat
  /\ MaxRepeats \in Nat \ {0, 1} /\ MaxUnverified \in Nat \ {0, 1}
  /\ MaxTurns \in Nat /\ Interrupts \subseteq Nat
\* WRITE_TOOLS and INVESTIGATION_TOOLS have no tool in common
ASSUME ToolsApart == Writes \cap (Reads \cup Checks) = {}

VARIABLES
  pc, aborted,
  outcome,      \* the stop reason, "interrupted" or "failed"
  msgs,         \* messages
  turnStart,    \* index of this turn's task message
  iteration, total,
  retried,      \* the request was already repeated after a context overflow
  batch,        \* callsToExecute still to execute
  cut,          \* id of the call the output limit cut off, or 0
  skipped,      \* skippedCalls
  gate,         \* hasInvestigated, investigationNudged, deferredFirstEdit
  nudges,       \* pendingWorkNudges, stallNudges
  stall, reason, \* StallState and stallReason
  fresh,        \* the next tool call id of the provider
  turnNo,
  log,          \* history: actions observed since the last checkpoint
  ran,          \* history: ids of the tools that were started in this turn
  finished,     \* history: those that returned and were not compacted away
  requests      \* history: model requests of this turn

counters == <<iteration, total, retried, nudges>>
calls == <<batch, cut, skipped>>
watch == <<gate, stall, reason, log>>
history == <<ran, finished>>
vars == <<pc, aborted, outcome, msgs, turnStart, counters, calls, watch,
          fresh, turnNo, history, requests>>

-----------------------------------------------------------------------------
(* Messages.                                                                *)

Message(role, ids, looks) == [role |-> role, ids |-> ids, looks |-> looks]
User == Message("user", {}, FALSE)
Summary == Message("system", {}, FALSE)
Answer == Message("assistant", {}, FALSE)
Asks(ids) == Message("assistant", ids, FALSE)
\* `looks`: the name of the tool is an investigation tool's
Responds(c) == Message("tool", {c.id}, c.act \in Reads \cup Checks)

Investigated(s) == \E i \in DOMAIN s : s[i].looks

From(s, i) == SubSeq(s, i, Len(s))
IdsOf(s) == UNION {s[i].ids : i \in DOMAIN s}

(* recentTail: the latest messages that fit, from an assistant message on.  *)
(* Sizes are abstract, so any such start may be the one that fits, or none. *)
(* Mutant: the tail may start on any message.                               *)
RecentTailsAnywhere(s) == {From(s, i) : i \in 1..Len(s) + 1}
RecentTails(s) ==
  {From(s, i) : i \in {k \in 1..Len(s) + 1 : k > Len(s) \/ s[k].role = "assistant"}}

(* The messages that are not system messages, in their order.               *)
Plain(s) ==
  LET kept == {i \in DOMAIN s : s[i].role # "system"}
      nth(k) == CHOOSE i \in kept : Cardinality({j \in kept : j <= i}) = k
  IN [k \in 1..Cardinality(kept) |-> s[nth(k)]]

(* The fallback of handleCompact between turns: a suffix of the messages    *)
(* that are not system messages, without the tool results it starts with.   *)
Recent(s) ==
  LET plain == Plain(s)
      keeps == {i \in 1..Len(plain) : plain[i].role # "tool"}
  IN {From(plain, i) : i \in keeps \cup {Len(plain) + 1}}

FirstSystem(s) == IF \E i \in DOMAIN s : s[i].role = "system" THEN <<Summary>> ELSE <<>>

-----------------------------------------------------------------------------
(* Stall detection (observeAction).  An action is a tool with its           *)
(* arguments, so equal actions have equal signatures.                       *)

Parsed(a) == <<a, "parsed">>
Raw(a) == <<a, "raw">>   \* arguments that were not parsed sign differently
NoStall == [last |-> <<>>, repeat |-> 0, edits |-> 0, generation |-> 0,
            failed |-> <<>>, failedAt |-> 0, failures |-> 0]

Repeats(s, sig) == IF sig = s.last THEN s.repeat + 1 ELSE 1
Failures(s, sig) ==
  IF sig = s.failed /\ s.failedAt = s.generation THEN s.failures + 1 ELSE 1

(* Mutant: a source edit does not start a new write generation.             *)
GenerationSame(s, a, error) == s.generation
Generation(s, a, error) ==
  IF a \in Writes /\ ~error THEN s.generation + 1 ELSE s.generation

Edits(s, a, error) ==
  IF a \in Writes /\ ~error THEN s.edits + 1
  ELSE IF a \in Reads \cup Checks THEN 0 ELSE s.edits

(* An action is a call and its signature, whether it ended in an error, and *)
(* whether it is a test action that failed.                                 *)
Action(a, sig, error, failing) == [act |-> a, sig |-> sig, error |-> error, failing |-> failing]

Observed(s, x) ==
  LET base == [s EXCEPT !.last = x.sig, !.repeat = Repeats(s, x.sig),
                        !.edits = Edits(s, x.act, x.error),
                        !.generation = Generation(s, x.act, x.error)]
  IN IF x.failing /\ base.repeat < MaxRepeats   \* a repeated action returns first
       THEN [base EXCEPT !.failed = x.sig, !.failedAt = base.generation,
                         !.failures = Failures(base, x.sig)]
       ELSE base

Reason(s, x) ==
  IF s.repeat >= MaxRepeats THEN "repeated"
  ELSE IF x.failing /\ s.failures >= MaxRepeats THEN "failing"
  ELSE IF s.edits >= MaxUnverified THEN "unverified" ELSE "none"

(* `stallReason ??= observeAction(...)`: once a reason is found the rest of *)
(* the batch is not observed.                                               *)
Observe(x) ==
  /\ log' = Append(log, x)
  /\ IF reason = "none"
       THEN stall' = Observed(stall, x) /\ reason' = Reason(Observed(stall, x), x)
       ELSE UNCHANGED <<stall, reason>>

-----------------------------------------------------------------------------
(* The signal may be aborted before the turn gets here.                     *)
Signals(n) == IF n \in Interrupts THEN BOOLEAN ELSE {FALSE}

Init ==
  /\ pc = "top" /\ aborted \in Signals(1) /\ outcome = "none"
  /\ msgs = <<User>> /\ turnStart = 1
  /\ iteration = 0 /\ total = 0 /\ retried = FALSE
  /\ batch = <<>> /\ cut = 0 /\ skipped = <<>>
  /\ gate = [investigated |-> FALSE, nudged |-> FALSE, deferred |-> FALSE]
  /\ nudges = [pending |-> 0, stall |-> 0]
  /\ stall = NoStall /\ reason = "none" /\ log = <<>>
  /\ fresh = 1 /\ turnNo = 1
  /\ ran = {} /\ finished = {} /\ requests = 0

End(why) == pc' = "ended" /\ outcome' = why

Abort ==
  /\ turnNo \in Interrupts /\ ~aborted
  /\ pc \in {"compacting", "asking", "running"}
  /\ aborted' = TRUE
  /\ UNCHANGED <<pc, outcome, msgs, turnStart, counters, calls, watch, fresh,
                 turnNo, history, requests>>

(* The head of the while loop.                                              *)
LimitReached ==
  /\ pc = "top" /\ iteration >= MaxIterations
  /\ End("max_iterations")
  /\ UNCHANGED <<aborted, msgs, turnStart, counters, calls, watch, fresh,
                 turnNo, history, requests>>

StopAtTop ==
  /\ pc = "top" /\ iteration < MaxIterations /\ aborted
  /\ End("interrupted")
  /\ UNCHANGED <<aborted, msgs, turnStart, counters, calls, watch, fresh,
                 turnNo, history, requests>>

(* A request is built from msgs; one that is too long is compacted first.   *)
Iterate(tooLong) ==
  /\ pc = "top" /\ iteration < MaxIterations /\ ~aborted
  /\ iteration' = iteration + 1 /\ retried' = FALSE
  /\ pc' = IF tooLong THEN "compacting" ELSE "asking"
  /\ requests' = IF tooLong THEN requests ELSE requests + 1
  /\ UNCHANGED <<aborted, outcome, msgs, turnStart, total, nudges, calls,
                 watch, fresh, turnNo, history>>

(* Mutant: a compaction that was aborted goes on to the request.            *)
CompactTurnAnyway ==
  /\ pc = "compacting"
  /\ \E tail \in RecentTails(From(msgs, turnStart + 1)) :
       /\ msgs' = <<Summary, User>> \o tail
       /\ turnStart' = 2
       /\ finished' = finished \cap IdsOf(tail)
  /\ pc' = "asking" /\ requests' = requests + 1
  /\ UNCHANGED <<aborted, outcome, counters, calls, watch, fresh, turnNo, ran>>

(* compactTurn after the summary, or its fallback, is there.  Both throw    *)
(* once the signal is aborted.                                              *)
CompactTurn ==
  /\ pc = "compacting" /\ ~aborted
  /\ \E head \in {<<Summary>>, FirstSystem(msgs)},
        tail \in RecentTails(From(msgs, turnStart + 1)) :
       /\ msgs' = head \o <<User>> \o tail
       /\ turnStart' = Len(head) + 1
       /\ finished' = finished \cap IdsOf(tail)
  /\ pc' = "asking" /\ requests' = requests + 1
  /\ UNCHANGED <<aborted, outcome, counters, calls, watch, fresh, turnNo, ran>>

CompactAborted ==
  /\ pc = "compacting" /\ aborted
  /\ End("interrupted")
  /\ UNCHANGED <<aborted, msgs, turnStart, counters, calls, watch, fresh,
                 turnNo, history, requests>>

(* Mutant: every overflow is compacted and retried.                         *)
OverflowAgain ==
  /\ pc = "asking"
  /\ retried' = TRUE /\ pc' = "compacting"
  /\ UNCHANGED <<aborted, outcome, msgs, turnStart, iteration, total, nudges,
                 calls, watch, fresh, turnNo, history, requests>>

(* A prompt the provider finds too long gets one compaction and a retry.    *)
Overflow ==
  /\ pc = "asking" /\ ~retried
  /\ retried' = TRUE /\ pc' = "compacting"
  /\ UNCHANGED <<aborted, outcome, msgs, turnStart, iteration, total, nudges,
                 calls, watch, fresh, turnNo, history, requests>>

RequestFails ==
  /\ pc = "asking"
  /\ End(IF aborted THEN "interrupted" ELSE "failed")
  /\ UNCHANGED <<aborted, msgs, turnStart, counters, calls, watch, fresh,
                 turnNo, history, requests>>

(* A reply without tool calls: an answer, or an announcement of more work.  *)
FinalReply ==
  /\ pc = "asking"
  /\ msgs' = Append(msgs, Answer)
  /\ End("done")
  /\ UNCHANGED <<aborted, turnStart, counters, calls, watch, fresh, turnNo,
                 history, requests>>

MaxPendingWorkNudges == 2

PendingReply ==
  /\ pc = "asking"
  /\ IF nudges.pending >= MaxPendingWorkNudges
       THEN /\ msgs' = Append(msgs, Answer)
            /\ End("stalled")
            /\ UNCHANGED nudges
       ELSE /\ msgs' = msgs \o <<Answer, User>>
            /\ nudges' = [nudges EXCEPT !.pending = @ + 1]
            /\ pc' = "top" /\ UNCHANGED outcome
  /\ UNCHANGED <<aborted, turnStart, iteration, total, retried, calls, watch,
                 fresh, turnNo, history, requests>>

(* Mutant: the limit holds for each reply, not for the turn.                *)
RoomPerReply == MaxToolCalls
Room == IF MaxToolCalls > total THEN MaxToolCalls - total ELSE 0

(* A reply with tool calls.  The budget of the whole turn splits them; an   *)
(* output limit stop cuts off the last one.                                 *)
ToolReply ==
  /\ pc = "asking"
  /\ \E n \in 1..MaxBatch : \E acts \in [1..n -> Acts], limited \in BOOLEAN :
       LET all == [i \in 1..n |-> [id |-> fresh + i - 1, act |-> acts[i]]]
           run == IF Room < n THEN Room ELSE n
       IN /\ msgs' = Append(msgs, Asks({all[i].id : i \in 1..n}))
          /\ batch' = SubSeq(all, 1, run)
          /\ skipped' = [i \in 1..n - run |-> all[run + i]]
          /\ cut' = IF limited THEN all[n].id ELSE 0
          /\ fresh' = fresh + n
  /\ nudges' = [nudges EXCEPT !.pending = 0]
  /\ gate' = [gate EXCEPT !.deferred = FALSE]
  /\ reason' = "none"
  /\ pc' = "tools"
  /\ UNCHANGED <<aborted, outcome, turnStart, iteration, total, retried, stall,
                 log, turnNo, history, requests>>

-----------------------------------------------------------------------------
(* The batch, one call at a time.                                           *)

Call == Head(batch)
AtCall == pc = "tools" /\ batch # <<>>
NextCall == batch' = Tail(batch) /\ total' = total + 1 /\ pc' = "tools"
Respond == msgs' = Append(msgs, Responds(Call))

(* Mutant: the interrupted turn hands over the history it was given.        *)
StopAtCallDropsWork ==
  /\ AtCall /\ aborted
  /\ End("interrupted")
  /\ msgs' = SubSeq(msgs, 1, turnStart)
  /\ UNCHANGED <<aborted, turnStart, counters, calls, watch, fresh, turnNo,
                 history, requests>>

StopAtCall ==
  /\ AtCall /\ aborted
  /\ End("interrupted")
  /\ UNCHANGED <<aborted, msgs, turnStart, counters, calls, watch, fresh,
                 turnNo, history, requests>>

(* A call that was cut off, or whose arguments do not parse, never runs.    *)
CutCall ==
  /\ AtCall /\ ~aborted /\ Call.id = cut
  /\ Respond /\ NextCall
  /\ Observe(Action(Call.act, Raw(Call.act), TRUE, FALSE))
  /\ UNCHANGED <<aborted, outcome, turnStart, iteration, retried, nudges, cut,
                 skipped, gate, fresh, turnNo, history, requests>>

MalformedCall ==
  /\ AtCall /\ ~aborted /\ Call.id # cut
  /\ Respond /\ NextCall
  /\ Observe(Action(Call.act, Raw(Call.act), TRUE, FALSE))
  /\ UNCHANGED <<aborted, outcome, turnStart, iteration, retried, nudges, cut,
                 skipped, gate, fresh, turnNo, history, requests>>

(* The first edit of a turn that has not investigated is put off once; the  *)
(* answer of observeAction is dropped.                                      *)
MustDefer == Call.act \in Writes /\ ~gate.investigated /\ ~gate.nudged

Defer ==
  /\ AtCall /\ ~aborted /\ Call.id # cut /\ MustDefer
  /\ LET x == Action(Call.act, Parsed(Call.act), TRUE, FALSE)
     IN log' = Append(log, x) /\ stall' = Observed(stall, x)
  /\ gate' = [gate EXCEPT !.nudged = TRUE, !.deferred = TRUE]
  /\ Respond /\ NextCall
  /\ UNCHANGED <<aborted, outcome, turnStart, iteration, retried, nudges, cut,
                 skipped, reason, fresh, turnNo, history, requests>>

RunTool ==
  /\ AtCall /\ ~aborted /\ Call.id # cut /\ ~MustDefer
  /\ pc' = "running"
  /\ ran' = ran \cup {Call.id}
  /\ UNCHANGED <<aborted, outcome, msgs, turnStart, counters, calls, watch,
                 fresh, turnNo, finished, requests>>

(* The tool returned, with an exit code that may not be zero.               *)
ToolReturns(nonzero) ==
  /\ pc = "running"
  /\ Respond /\ NextCall
  /\ finished' = finished \cup {Call.id}
  /\ gate' = [gate EXCEPT !.investigated = @ \/ Call.act \in Reads \cup Checks]
  /\ Observe(Action(Call.act, Parsed(Call.act), FALSE, nonzero /\ Call.act \in Checks))
  /\ UNCHANGED <<aborted, outcome, turnStart, iteration, retried, nudges, cut,
                 skipped, fresh, turnNo, ran, requests>>

ToolFails ==
  /\ pc = "running" /\ ~aborted
  /\ Respond /\ NextCall
  /\ Observe(Action(Call.act, Parsed(Call.act), TRUE, Call.act \in Checks))
  /\ UNCHANGED <<aborted, outcome, turnStart, iteration, retried, nudges, cut,
                 skipped, gate, fresh, turnNo, history, requests>>

ToolAborted ==
  /\ pc = "running" /\ aborted
  /\ End("interrupted")
  /\ UNCHANGED <<aborted, msgs, turnStart, counters, calls, watch, fresh,
                 turnNo, history, requests>>

-----------------------------------------------------------------------------
(* After the batch: the nudge for a deferred edit, then the answers of the  *)
(* skipped calls, then the budget, then the stall.                          *)
AfterBatch ==
  LET nudge == IF gate.deferred THEN <<User>> ELSE <<>>
  IN msgs \o nudge \o [i \in DOMAIN skipped |-> Responds(skipped[i])]

OutOfBudget == total >= MaxToolCalls \/ skipped # <<>>

(* resetStallCheckpoint: the write generation goes on.                      *)
Checkpoint(s) == [NoStall EXCEPT !.generation = s.generation]

Settle ==
  /\ pc = "tools" /\ batch = <<>>
  /\ \/ /\ OutOfBudget
        /\ msgs' = AfterBatch
        /\ End("max_tool_calls")
        /\ UNCHANGED <<nudges, stall, log>>
     \/ /\ ~OutOfBudget /\ reason # "none" /\ nudges.stall = 0
        /\ msgs' = Append(AfterBatch, User)
        /\ nudges' = [nudges EXCEPT !.stall = 1]
        /\ stall' = Checkpoint(stall) /\ log' = <<>>
        /\ pc' = "top" /\ UNCHANGED outcome
     \/ /\ ~OutOfBudget /\ reason # "none" /\ nudges.stall > 0
        /\ msgs' = AfterBatch
        /\ End("stalled")
        /\ UNCHANGED <<nudges, stall, log>>
     \/ /\ ~OutOfBudget /\ reason = "none"
        /\ msgs' = AfterBatch
        /\ pc' = "top"
        /\ UNCHANGED <<outcome, nudges, stall, log>>
  /\ UNCHANGED <<aborted, turnStart, iteration, total, retried, calls, gate,
                 reason, fresh, turnNo, history, requests>>

(* The next user message on the history the turn left, which the session    *)
(* saved on every exit; AgentLoop compacts it first when it is too long.    *)
(* hasInvestigated is read off the tool messages of that history.           *)
Continue(past) ==
  /\ pc = "ended" /\ turnNo < MaxTurns
  /\ turnNo' = turnNo + 1
  /\ pc' = "top" /\ aborted' \in Signals(turnNo') /\ outcome' = "none"
  /\ msgs' = Append(past, User) /\ turnStart' = Len(past) + 1
  /\ iteration' = 0 /\ total' = 0 /\ retried' = FALSE
  /\ batch' = <<>> /\ cut' = 0 /\ skipped' = <<>>
  /\ gate' = [investigated |-> Investigated(past), nudged |-> FALSE, deferred |-> FALSE]
  /\ nudges' = [pending |-> 0, stall |-> 0]
  /\ stall' = NoStall /\ reason' = "none" /\ log' = <<>>
  /\ ran' = {} /\ finished' = {} /\ requests' = 0
  /\ UNCHANGED fresh

NextTurn == Continue(msgs)

NextTurnCompacted ==
  \E past \in {<<Summary, User, Answer>>}
                \cup {FirstSystem(msgs) \o kept : kept \in Recent(msgs)} :
    Continue(past)

Over == pc = "ended" /\ turnNo >= MaxTurns

Step ==
  \/ LimitReached \/ StopAtTop \/ (\E tooLong \in BOOLEAN : Iterate(tooLong))
  \/ CompactTurn \/ CompactAborted
  \/ Overflow \/ RequestFails \/ FinalReply \/ PendingReply \/ ToolReply
  \/ StopAtCall \/ CutCall \/ MalformedCall \/ Defer \/ RunTool
  \/ (\E nonzero \in BOOLEAN : ToolReturns(nonzero)) \/ ToolFails \/ ToolAborted
  \/ Settle

Next == Abort \/ Step \/ NextTurn \/ NextTurnCompacted \/ (Over /\ UNCHANGED vars)

Spec == Init /\ [][Next]_vars

-----------------------------------------------------------------------------
(* Properties.                                                              *)

TypeOK ==
  /\ pc \in {"top", "compacting", "asking", "tools", "running", "ended"}
  /\ outcome \in {"none", "done", "max_iterations", "max_tool_calls", "stalled",
                  "interrupted", "failed"}
  /\ aborted \in BOOLEAN /\ retried \in BOOLEAN
  /\ iteration \in Nat /\ total \in Nat /\ requests \in Nat
  /\ turnStart \in Nat /\ turnNo \in Nat /\ fresh \in Nat \ {0}
  /\ msgs \in Seq([role : {"user", "system", "assistant", "tool"}, ids : SUBSET Nat, looks : BOOLEAN])
  /\ batch \in Seq([id : Nat, act : Acts]) /\ cut \in Nat /\ skipped \in Seq([id : Nat, act : Acts])
  /\ gate \in [investigated : BOOLEAN, nudged : BOOLEAN, deferred : BOOLEAN]
  /\ nudges \in [pending : Nat, stall : Nat]
  /\ reason \in {"none", "repeated", "failing", "unverified"}
  /\ (pc = "running" => batch # <<>>)
  /\ ((pc = "ended") <=> (outcome # "none"))

(* What a provider accepts: the tool messages that answer a message's calls *)
(* follow it at once, one for each call, and there are no others.           *)
Answers(s, i) == {s[j].ids : j \in {k \in i + 1..Len(s) : k <= i + Cardinality(s[i].ids)}}

WellFormed(s) ==
  /\ \A i \in DOMAIN s : s[i].role = "assistant" => Answers(s, i) = {{id} : id \in s[i].ids}
  /\ \A j \in DOMAIN s : s[j].role = "tool" =>
       \E i \in 1..j - 1 : s[i].role = "assistant" /\ s[j].ids \subseteq s[i].ids

(* What a turn adds to the history it was given is a history the provider   *)
(* accepts, in every request, whatever was deferred, cut off or compacted.  *)
RequestsWellFormed == pc = "asking" => WellFormed(From(msgs, turnStart))

(* Every native call in a request has its response (runner.ts:438: "Native  *)
(* tool-call protocols require one tool response for every call in the      *)
(* assistant message").  An abort inside a batch breaks it for the next     *)
(* turn.                                                                    *)
RequestsAnswered ==
  pc = "asking" =>
    \A i \in DOMAIN msgs : msgs[i].role = "assistant" =>
      msgs[i].ids \subseteq
        UNION {msgs[j].ids : j \in {k \in DOMAIN msgs : msgs[k].role = "tool"}}

(* Once the signal is aborted the turn starts no request and no tool.       *)
AbortStopsWork ==
  [][aborted /\ turnNo' = turnNo => requests' = requests /\ ran' = ran]_vars

(* The whole turn, not each reply, is held to the budgets: tools started,   *)
(* and requests, of which an overflow repeats one per iteration.            *)
BudgetHolds ==
  /\ total <= MaxToolCalls /\ Cardinality(ran) <= MaxToolCalls
  /\ iteration <= MaxIterations /\ requests <= 2 * MaxIterations

(* A tool that returned is answered in the messages every exit hands over,  *)
(* unless a compaction dropped it: its effect on the workspace is recorded. *)
WorkIsRecorded ==
  \A id \in finished : \E j \in DOMAIN msgs : msgs[j].role = "tool" /\ msgs[j].ids = {id}

(* What a stall claims is true of the actions since the last checkpoint:    *)
(* the same action MaxRepeats times in a row; one check that failed as      *)
(* often with no source edit in between; MaxUnverified edits and no look.   *)
Repeated(l) == \A i \in DOMAIN l : i > Len(l) - MaxRepeats => l[i].sig = l[Len(l)].sig

EditsFrom(l, i) == {j \in i..Len(l) : l[j].act \in Writes /\ ~l[j].error}
FailuresOf(l, sig) == {i \in DOMAIN l : l[i].failing /\ l[i].sig = sig /\ EditsFrom(l, i) = {}}
UnseenFrom(l, i) == \A j \in i..Len(l) : l[j].act \notin Reads \cup Checks

Claimed(why, l) ==
  /\ why = "repeated" => Repeated(l)
  /\ why = "failing" => Cardinality(FailuresOf(l, l[Len(l)].sig)) >= MaxRepeats
  /\ why = "unverified" =>
       \E i \in DOMAIN l : UnseenFrom(l, i) /\ Cardinality(EditsFrom(l, i)) >= MaxUnverified

StallsAreReal == [][reason = "none" /\ reason' # "none" => Claimed(reason', log')]_vars

(* Every step brings the turn nearer to its end: an iteration is used up,   *)
(* or within it a request is answered, repeated for the one time it may be, *)
(* or a call of its batch done.  An abort only sets the signal.  So nudges, *)
(* retries and stall checkpoints cannot keep a turn going for ever.         *)
Phase ==
  CASE pc = "ended" -> 0
    [] pc = "top" -> 1
    [] pc = "tools" -> 2 + 2 * Len(batch)
    [] pc = "running" -> 1 + 2 * Len(batch)
    [] pc = "asking" -> 2 * MaxBatch + (IF retried THEN 3 ELSE 5)
    [] pc = "compacting" -> 2 * MaxBatch + (IF retried THEN 4 ELSE 6)
Variant == (MaxIterations - iteration) * (2 * MaxBatch + 6) + Phase
TurnAdvances ==
  [][turnNo' = turnNo /\ aborted' = aborted => Variant' < Variant]_vars
============================================================================
