----------------------------- MODULE ToolCalls -----------------------------
(* One governed tool call after another: the policy files and how they       *)
(* narrow each other (core/policy.ts), the context and the registry          *)
(* (core/context.ts, core/permissions.ts, tools/registry.ts), the process a  *)
(* command becomes (tools/shell.ts, tools/runCheck.ts,                       *)
(* core/subprocessSandbox.ts) and the audit trail of it all (audit/log.ts,   *)
(* audit/taps.ts), whose file may take a line, lose it or keep half of it.   *)
(* A process that dies leaves the file of whatever state it was in.          *)
EXTENDS Naturals, Sequences, FiniteSets

CONSTANTS
  Texts,        \* command segments, and paths; a policy pattern names one
  Layers,       \* the policy files there are, by their names in PolicySource
  MaxCalls,     \* bound: tool calls of the run
  MaxFaults     \* bound: appends that fail

VARIABLES
  inForce,      \* per layer: what its policy file held when the run began
  policy,       \* what they resolved to
  ctx,          \* mode, whether somebody can be asked, whether there is a sink
  call,         \* the call under way
  owed,         \* audit events about to be appended
  sink,         \* seq (and with it prevHash) and warnings of the AuditSink
  trail,        \* the run's file
  faults, calls,
  told          \* history: what the trail should tell

pol == <<inForce, policy, ctx>>
log == <<sink, trail, faults>>
vars == <<pol, call, owed, log, calls, told>>

-----------------------------------------------------------------------------
(* Policies.  An optional list is a set of at most one list.                 *)

Permissive == [tools |-> {}, allow |-> {}, deny |-> {}, defaultDeny |-> FALSE,
               pathAllow |-> {}, pathDeny |-> {}, network |-> "on"]

Rank(level) == CASE level = "off" -> 0 [] level = "endpoint-only" -> 1 [] level = "on" -> 2

(* Mutant: allowlists add up.                                                *)
IntersectAllowWider(a, b) ==
  IF a = {} THEN b ELSE IF b = {} THEN a ELSE {x \cup y : x \in a, y \in b}

IntersectAllow(a, b) ==
  IF a = {} THEN b ELSE IF b = {} THEN a ELSE {x \cap y : x \in a, y \in b}

Narrow(base, next) ==
  [tools |-> base.tools \cup next.tools,
   allow |-> IntersectAllow(base.allow, next.allow),
   deny |-> base.deny \cup next.deny,
   defaultDeny |-> base.defaultDeny \/ next.defaultDeny,
   pathAllow |-> IntersectAllow(base.pathAllow, next.pathAllow),
   pathDeny |-> base.pathDeny \cup next.pathDeny,
   network |-> IF Rank(base.network) <= Rank(next.network) THEN base.network ELSE next.network]

(* One restriction per file: two files make the pairs.                       *)
Authored ==
  {Permissive, [Permissive EXCEPT !.defaultDeny = TRUE]}
    \cup {[Permissive EXCEPT !.tools = {t}] : t \in {"shell", "write_file"}}
    \cup {[Permissive EXCEPT !.allow = {s}] : s \in SUBSET Texts}
    \cup {[Permissive EXCEPT !.deny = {s}] : s \in Texts}
    \cup {[Permissive EXCEPT !.pathAllow = {{s}}] : s \in Texts}
    \cup {[Permissive EXCEPT !.pathDeny = {s}] : s \in Texts}
    \cup {[Permissive EXCEPT !.network = n] : n \in {"off", "endpoint-only"}}

Sources == [read : {"absent", "malformed"}, says : {Permissive}] \cup [read : {"ok"}, says : Authored]
Applied(sources) == {l \in Layers : sources[l].read = "ok"}

(* loadPolicy: a file that cannot be read or parsed is left out.             *)
Resolve(sources) ==
  LET Layered(base, l) == IF l \in Applied(sources) THEN Narrow(base, sources[l].says) ELSE base
  IN  Layered(Layered(Layered(Permissive, "machine"), "repo"), "runtime")

(* checkCommand judges the line and each of its segments; a pattern that     *)
(* names a segment matches the line that holds it.                           *)
CheckCommand(p, segments) ==
  /\ segments \cap p.deny = {}
  /\ IF p.allow # {} THEN segments # {} /\ \A list \in p.allow : segments \subseteq list
     ELSE ~p.defaultDeny

CheckPath(p, path) == path \notin p.pathDeny /\ \A list \in p.pathAllow : path \in list
CheckTool(p, tool) == tool \notin p.tools

(* checkEgress for anything but the model's endpoint.                        *)
Isolates(p) == p.network # "on"

-----------------------------------------------------------------------------
(* The call.                                                                 *)

Tools == {"read_file", "write_file", "shell", "run_check"}
Access(tool) == CASE tool = "read_file" -> "read" [] tool = "write_file" -> "write"
                  [] tool \in {"shell", "run_check"} -> "execute"
Modes == {"readonly", "auto-edit", "full-auto", "bypass"}
Hosts == {"macOS", "Linux", "bare"}
Nets == {"sandboxed", "auto", "wanted"}

(* createDvalinContext; without a mode, --yes is full-auto and its absence   *)
(* readonly.                                                                 *)
Allows(c, access) == access = "read" \/ c.mode # "readonly"
Asks(c) == c.mode = "bypass" \/ c.asker

NoCall == [step |-> "idle", tool |-> "read_file", texts |-> {}, net |-> "auto", open |-> FALSE, isolated |-> FALSE]
Closed == [on |-> FALSE, seq |-> 0, warned |-> FALSE]
NoCtx == [mode |-> "readonly", asker |-> FALSE, host |-> "bare"]

Init ==
  /\ inForce = [l \in Layers |-> [read |-> "absent", says |-> Permissive]]
  /\ policy = Permissive /\ ctx = NoCtx
  /\ call = [NoCall EXCEPT !.step = "none"] /\ owed = <<>>
  /\ sink = Closed /\ trail = <<>> /\ faults = 0 /\ calls = 0 /\ told = {}

Event(what) == [call |-> calls, what |-> what]
Owe(events) == owed' = IF sink.on THEN events ELSE <<>>
Tell(events) == told' = told \cup events

(* loadPolicy and the context of a run; `run-tool` has no sink.              *)
Begin(sources, mode, asker, host, sinks) ==
  /\ inForce' = sources /\ policy' = Resolve(sources)
  /\ ctx' = [mode |-> mode, asker |-> asker, host |-> host]
  /\ sink' = [Closed EXCEPT !.on = sinks]
  /\ owed' = IF sinks THEN <<Event("run_start")>> ELSE <<>>
  /\ call' = NoCall
  /\ UNCHANGED <<trail, faults, calls, told>>

(* Mutant: the record is numbered before it is written.                      *)
EmitEagerly(fault) ==
  /\ owed # <<>>
  /\ fault # "none" => faults < MaxFaults
  /\ faults' = IF fault = "none" THEN faults ELSE faults + 1
  /\ sink' = [sink EXCEPT !.seq = @ + 1, !.warned = @ \/ fault # "none"]
  /\ trail' = IF fault = "lost" THEN trail
              ELSE Append(trail, [whole |-> fault = "none", seq |-> sink.seq, event |-> Head(owed),
                                  warned |-> Head(owed).what = "run_end" /\ sink.warned])
  /\ owed' = Tail(owed)
  /\ UNCHANGED <<pol, call, calls, told>>

(* AuditSink.append.  `seq` and `prevHash` move on only when the write has   *)
(* returned; a write that fails may leave part of its line, which the next   *)
(* record then continues.                                                    *)
Emit(fault) ==
  /\ owed # <<>>
  /\ fault # "none" => faults < MaxFaults
  /\ faults' = IF fault = "none" THEN faults ELSE faults + 1
  /\ sink' = IF fault = "none" THEN [sink EXCEPT !.seq = @ + 1] ELSE [sink EXCEPT !.warned = TRUE]
  /\ trail' = IF fault = "lost" THEN trail
              ELSE Append(trail, [whole |-> fault = "none", seq |-> sink.seq, event |-> Head(owed),
                                  warned |-> Head(owed).what = "run_end" /\ sink.warned])
  /\ owed' = Tail(owed)
  /\ UNCHANGED <<pol, call, calls, told>>

Ready(step) == call.step = step /\ owed = <<>>

(* The targets a tool declares: read_file has none, and run_check finds its  *)
(* command only later.                                                       *)
TargetsAllowed(tool, texts) ==
  CASE tool = "shell" -> CheckCommand(policy, texts)
    [] tool = "write_file" -> \A t \in texts : CheckPath(policy, t)
    [] tool \in {"read_file", "run_check"} -> TRUE

(* registry.run, up to the approval.                                         *)
Call(tool, texts, net) ==
  /\ Ready("idle") /\ calls < MaxCalls
  /\ tool \in {"read_file", "write_file"} => Cardinality(texts) = 1
  /\ net # "auto" => tool = "shell"
  /\ calls' = calls + 1
  /\ LET mine == [call |-> calls', what |-> "policy_violation"]
     IN  IF ~CheckTool(policy, tool) \/ (Allows(ctx, Access(tool)) /\ ~TargetsAllowed(tool, texts))
         THEN /\ call' = NoCall /\ Owe(<<mine>>) /\ Tell({mine})
         ELSE IF ~Allows(ctx, Access(tool))
         THEN UNCHANGED <<call, owed, told>>
         ELSE /\ call' = [NoCall EXCEPT !.step = IF ctx.mode = "auto-edit" /\ Access(tool) # "read" /\ Asks(ctx)
                                                THEN "asking" ELSE "start",
                                       !.tool = tool, !.texts = texts, !.net = net]
              /\ UNCHANGED <<owed, told>>
  /\ UNCHANGED <<pol, log>>

Approve(yes) ==
  /\ Ready("asking")
  /\ call' = IF yes THEN [call EXCEPT !.step = "start"] ELSE NoCall
  /\ Owe(<<Event("approval")>>) /\ Tell({Event("approval")})
  /\ UNCHANGED <<pol, log, calls>>

Settle(kind) ==
  /\ call' = NoCall
  /\ Owe(IF kind = "ok" THEN <<Event("tool_call"), Event("derived")>> ELSE <<Event("tool_call")>>)

(* A tool that reads or writes one file.  A write that fails may have begun. *)
FileTool(works) ==
  /\ Ready("start") /\ call.tool \in {"read_file", "write_file"}
  /\ Settle(IF works THEN "ok" ELSE "error")
  /\ Tell({Event("tool_call")} \cup (IF works THEN {Event("derived")} ELSE {}))
  /\ UNCHANGED <<pol, log, calls>>

(* run_check judges the command it picked itself.                            *)
PickCheck(finds) ==
  /\ Ready("start") /\ call.tool = "run_check"
  /\ IF ~finds THEN Settle("error") /\ UNCHANGED told
     ELSE IF ~CheckCommand(policy, call.texts)
     THEN /\ call' = NoCall
          /\ Owe(<<Event("policy_violation"), Event("tool_call")>>) /\ Tell({Event("policy_violation")})
     ELSE call' = [call EXCEPT !.step = "plan"] /\ UNCHANGED <<owed, told>>
  /\ UNCHANGED <<pol, log, calls>>

(* shouldSkipNetworkSandbox: a command that wants the network asks, except   *)
(* where everything is approved.                                             *)
AskNetwork(answer) ==
  /\ Ready("start") /\ call.tool = "shell"
  /\ IF ctx.mode = "bypass" \/ call.net # "wanted" \/ ~ctx.asker
     THEN /\ call' = [call EXCEPT !.step = "plan", !.open = ctx.mode = "bypass" /\ call.net # "sandboxed"]
          /\ UNCHANGED <<owed, told>>
     ELSE /\ call' = IF answer THEN [call EXCEPT !.step = "plan", !.open = TRUE] ELSE NoCall
          /\ Owe(IF answer THEN <<Event("approval")>> ELSE <<Event("approval"), Event("tool_call")>>)
          /\ Tell({Event("approval")})
  /\ UNCHANGED <<pol, log, calls>>

(* Mutant: an approved network request wins over the policy.                 *)
SandboxedUnlessOpen ==
  ~call.open /\ (ctx.host = "macOS" \/ (ctx.host = "Linux" /\ Isolates(policy)))

(* selectSubprocessSandbox.                                                  *)
Sandboxed ==
  \/ ctx.host = "macOS" /\ (Isolates(policy) \/ ~call.open)
  \/ ctx.host = "Linux" /\ Isolates(policy)

(* runGovernedProcess: a policy without the network needs a sandbox, and a   *)
(* host without one refuses.                                                 *)
Plan ==
  /\ Ready("plan")
  /\ IF Isolates(policy) /\ ctx.host = "bare"
     THEN /\ call' = NoCall
          /\ Owe(<<Event("policy_violation"), Event("tool_call")>>) /\ Tell({Event("policy_violation")})
     ELSE /\ call' = [call EXCEPT !.step = "running", !.isolated = Sandboxed]
          /\ UNCHANGED <<owed, told>>
  /\ UNCHANGED <<pol, log, calls>>

(* The process ends or times out, or the turn is interrupted.                *)
Close(interrupted) ==
  /\ Ready("running")
  /\ Settle(IF interrupted THEN "error" ELSE "ok")
  /\ Tell({Event("tool_call")} \cup (IF interrupted THEN {} ELSE {Event("derived")}))
  /\ UNCHANGED <<pol, log, calls>>

(* finishRun.                                                                *)
End ==
  /\ Ready("idle")
  /\ call' = [call EXCEPT !.step = "ended"]
  /\ Owe(<<Event("run_end")>>)
  /\ UNCHANGED <<pol, log, calls, told>>

Next ==
  \/ /\ call.step = "none"
     /\ \E sources \in [Layers -> Sources], mode \in Modes, host \in Hosts, asker, sinks \in BOOLEAN :
          Begin(sources, mode, asker, host, sinks)
  \/ \E fault \in {"none", "lost", "torn"} : Emit(fault)
  \/ \E tool \in Tools, texts \in SUBSET Texts, net \in Nets : Call(tool, texts, net)
  \/ \E b \in BOOLEAN : Approve(b) \/ FileTool(b) \/ PickCheck(b) \/ AskNetwork(b) \/ Close(b)
  \/ Plan \/ End

Spec == Init /\ [][Next]_vars

-----------------------------------------------------------------------------
MayWrite(says) ==
  /\ call.tool \notin says.tools /\ call.texts \cap says.pathDeny = {}
  /\ \A list \in says.pathAllow : call.texts \subseteq list

MayRun(says) ==
  /\ call.tool \notin says.tools /\ call.texts \cap says.deny = {}
  /\ \A list \in says.allow : call.texts \subseteq list
  /\ says.defaultDeny => \E l \in Applied(inForce) : inForce[l].says.allow # {}
  /\ says.network # "on" => call.isolated

(* What runs or is written is what every readable policy file of the run's   *)
(* beginning admits on its own, segment by segment, and nothing runs with    *)
(* the network when one of them takes it away, however they narrow each      *)
(* other.                                                                    *)
RunsWhatEachAdmits ==
  \A l \in Applied(inForce) :
    /\ call.step = "start" /\ call.tool = "write_file" => MayWrite(inForce[l].says)
    /\ call.step = "running" => MayRun(inForce[l].says)

(* Reading a run's file: the chain as verifyRecords follows it.              *)
Verifies == \A i \in 1 .. Len(trail) : trail[i].whole /\ trail[i].seq = i - 1
Recorded == {trail[i].event : i \in 1 .. Len(trail)}

(* A run whose file verifies and ends in a run_end without warnings has told *)
(* everything it did, refused and was allowed; and an append that failed     *)
(* without leaving half a line never breaks the chain.                       *)
TrailTellsAll ==
  /\ Verifies /\ trail # <<>> /\ trail[Len(trail)].event.what = "run_end" /\ ~trail[Len(trail)].warned
       => told \subseteq Recorded
  /\ (\A i \in 1 .. Len(trail) : trail[i].whole) => Verifies

(* What runs is admitted by every layer, and the trail says what ran.        *)
GovernanceHolds == RunsWhatEachAdmits /\ TrailTellsAll
=============================================================================
