# Verification of dvalincode

TLA+ models, TLC runs and TLAPS proofs of the parts of dvalincode that keep
state across awaits, processes and failures. Source paths below are relative to
the repository root.

    tlc -workers 2 -config turn.cfg MCAgentTurn.tla     # one run
    tlapm AgentTurnProofs.tla                           # one proof module

1. [The system](#1-the-system)
2. [The modules](#2-the-modules)
3. [The runs and their bounds](#3-the-runs-and-their-bounds)
4. [Fairness](#4-fairness)
5. [What is proved](#5-what-is-proved)
6. [Where the code and its documents part](#6-where-the-code-and-its-documents-part)
7. [What is not modelled](#7-what-is-not-modelled)
8. [Plan](#8-plan)

## 1. The system

dvalincode is a local coding agent: a CLI, a terminal UI and a web GUI drive one
agent loop that calls a model provider, runs governed tools in a workspace,
audits what happened and, in its remediation part, repairs static-analysis
findings and issues evidence for the repair.

| Component | State it keeps | Operations, and what makes them hard | Correct if | Model |
|---|---|---|---|---|
| Durable session `src/sessions`, `src/agent/session.ts` | `<id>.json` snapshot, `<id>.journal.jsonl`, one invocation per turn | load, recover, replay, run, save, record the end; compact; delete. No lock: turns overlap, processes die, writes tear | a completed message never runs again, a lost turn is found, finished work is kept | `DurableSession`, `TurnLedger` |
| WebSocket handler `src/server/wsHandler.ts` | `currentAbort`, `pendingApprovals` per connection | send, interrupt, approval, compact, close; a send supersedes a turn without waiting | no aborted turn waits on a user | `WsSession` |
| Agent loop `src/agent/loop.ts`, `runner.ts`, `compact.ts` | message list, counters of one turn | model call, tool batch, nudges, budgets, stall, interruption, compaction | bounded, every tool call answered, work recorded on every exit | `AgentTurn` |
| Fix loop `src/remediation/fixLoop.ts` | rounds, best result, worktree, records | reproduce, repair, observe, decide, confirm | never claims a fix no full observation showed | `FixLoop`, `RepairPromise` |
| Rebase `src/remediation/rebase.ts` | branch, WIP commit, rebase in progress | merge-base check, WIP, conflict rounds, abort; every git call may fail | no work is lost, the loop judges on the commit its work stands on | `Rebase` |
| Remediation command `src/commands/dvalin.ts`, `src/remediation/cases.ts`, `routes/remediation.ts` | case file, fix record, exit code | options, executor, judgement, record, publication; the web server writes the same file | a verified case has a record that shows it | `RemediationRun` |
| Scan suite and gate `src/remediation/scannerSuite.ts`, `src/security/{contracts,baseline,suppressions}.ts`, `commands/security.ts` | engines' results, baseline file | select, narrow, cap, run side by side, delta, gate | a missing engine is never a clean one | `SecurityScan` |
| Security workflow `src/security/{workflow,verifyRun,guardedScan,suppressionGuard}.ts` | workflow file | create, verify from several processes | a verified record is true of the code and of its targets | `SecurityWorkflow` |
| Re-verification `src/security/{reverify,reproduceInCi,fixRecordSignature}.ts` | worktree, environment, reverted files | scan base and head, checks, reproduction, verdict | ok is earned, nothing is left behind | `Reverify` |
| Governed tools `src/core`, `src/tools`, `src/audit` | policy, permissions, audit file | resolve, permit, approve, audit, run; appends fail | no tool runs that a layer refuses, the trail tells | `ToolCalls` |
| File tools and undo `src/tools/{write,edit,delete}File.ts`, `runner.ts` | undo stack | write, edit, delete, undo N | undo gives back what was there | `FileTools` |
| Providers `src/providers` | attempt count, emitted flag, cursor | pick, send, redirect, stream, retry | no retry after output, an even rotation | `ProviderCall` |
| Configuration `src/server/configStore.ts`, `routes/config.ts`, `LLMConfigModal.tsx` | one JSON file, masked keys in the dialog | read, change, write back, from four places | a mask is never a key, no save takes back another | `ConfigStore` |
| Unattended run `src/harness`, `commands/run.ts`, `mcp/server.ts` | ceilings, collector, exit code | tighten, run, collect, report | exit code and coverage follow from what happened | `Headless` |
| MCP client `src/mcp/stdio.ts`, `register.ts` | pending requests, timers, closed flag, child process | start, request, dispatch, timeout, exit, close, disposal at the end of the turn | each request settles once, no server is left running | `McpStdio` |
| Updates `commands/update.ts`, `src/core/{selfUpdate,guiUpdate}.ts`, `src/gui` | installed binary, web/, bundle, backup | download, verify, swap; a script replaces the bundle | what is installed is whole and not older | `CliUpdate`, `GuiUpdate` |
| Local memory `src/memory`, `src/data`, memory tools | `entries.json`, `MEMORY.md` per scope | write, update, delete, import, backup, restore; no lock | nothing is lost or twice, but what a race is about | `MemoryStore` |
| Web page `web/src/hooks/useChat.ts`, `lib/client.ts`, `App.tsx` | sending, active message, session, sockets | send, stop, compact, new chat, load; events name no request | the page waits for something, and shows what is its own | `ChatClient` |
| Security panel `web/src/components/DvalinWorkspace.tsx` | review, scan, verification awaited | scan, import, fix, verify, switch | evidence is of this code and this workspace | `DvalinPanel` |
| Workspace grants, remote MCP client, the rest of the MCP server, provider secrets, skills, evidence, terminal UI, editors | see section 7 | - | - | not modelled |

How they interact:

- *Calls.* The transports (`cli`, `tui`, `wsHandler`, `run`, `mcp-serve`) call
  `runAgentTurn`; it loads and recovers the session, registers the MCP servers
  and calls `processMessage` (the loop), which calls `runTurn` (the runner),
  which calls the provider and, one at a time, the tools of the registry.
  `dvalin` commands call `runFixLoop`, whose executor is again an agent turn,
  whose rebase step is `syncWithUpstream` and whose observations are scan suites
  and checks.
- *Shared files.* Snapshot and journal, case file, workflow file, configuration,
  audit log and memory are read, changed and rewritten by several processes,
  without a lock and mostly in place.
- *Callbacks.* `requestApproval` parks a tool call on a user, `onEvent` reports
  progress to a page that has to guess what it is about, abort signals cancel
  from outside, child processes and timers settle promises.

What is hard here is therefore: interleaving at every await (no component holds
a lock), a process that dies between two writes, writes that fail or tear, an
abort that arrives anywhere, answers that arrive after their deadline or after
the user has moved on, and decisions taken on partial information (a narrowed
scan, an engine that failed). Each concrete place is a hazard of `PROJECT.json`
with the properties that watch it.

## 2. The modules

Every module advances a component from one await to the next: what the code does
between two awaits is one action, so what TLC interleaves is what Node's event
loop, another process or a crash can interleave. Names follow the source;
`PROJECT.json` maps every definition to its lines. Variables called `past`,
`truth`, `told`, `proven`, `expected`, `spoiled`, `overlapped` and the like are
history: the actions write them and only properties read them.

### DurableSession, TurnLedger (`src/sessions/*`, `src/agent/session.ts`)

An invocation of `runAgentTurn` (or of the `compact` request) has a program
counter `pc` whose values are the awaits of the code: `loading` (loadSession) ->
`loaded` -> `recovering` (recoverSession) -> `resolving` (policy, provider; then
the completedTurn check) -> `assembling` (prompt, MCP) -> `running`
(processMessage) -> `opening`/`writing` (saveSession: truncate, write) -> `saved`
-> `finished`. `Create` is the first message, `CompactBegin` the compaction, which
shares load and save.

| State | Code |
|---|---|
| `journal`, `torn` | the parsable lines of the journal; whether the file ends in a partial line, which swallows the next append |
| `snap` | the snapshot file: `ok`, `empty` (truncated), `corrupt` (two saves overlaid), `absent` |
| `ctx`, `work` | `session.messages` in memory; entries this turn adds. An entry is `<<turn, k>>`: which turn produced it, not what it says |
| `toClose`, `reported` | recoverSession's list and what it returns |
| `deletion` | DELETE removes the snapshot, then the journal |
| `doneAtBegin` | history: the message was already done when it was sent again |

`Faults` names which writes fail: a dropped or torn append (`appendJournal`
swallows errors), a failed save. `TurnLedger` is the promise in four lines: a message is
executed by one turn at a time, an execution ends done or failed, done is final.
`ImplementsLedger` maps the journal to it (`LedgerOf`).

### WsSession (`src/server/wsHandler.ts`)

Extends `DurableSession` with the handler's variables: the turn whose controller is
`currentAbort` (per connection), the turns still in `resolveAllowedCwd`, and
those parked in `pendingApprovals`. `WsSend` aborts the current turn and starts
the next without waiting; `WsStep` is any session step, with the `finally` that
clears `currentAbort` only if it is still its own.

### AgentTurn (`src/agent/runner.ts`, `loop.ts`, `compact.ts`)

One `runTurn`, then further turns on the history it leaves. `pc` is `top` (head of
the loop), `compacting`, `asking` (the provider call), `tools` (between two calls
of a batch), `running` (in a tool), `ended`. A message is its role, the ids of the
native calls it makes or answers, and whether it counts as an investigation: that
is all that decides whether a provider accepts the history and whether the
investigation gate opens. Sizes are abstract, so a compaction may keep any tail
that starts where the code lets it start. `Observed`/`Reason` are `observeAction`
line by line. `log`, `ran`, `finished` and `requests` are history.

### FixLoop, RepairPromise (`src/remediation/fixLoop.ts`, `src/security/fixRecord.ts`)

A change is the set of what is wrong with it: findings, and marks for added
suppressions, evasions and altered reproduction tests. `tree`, `base` and
`baseline` are that set in the worktree, at the base commit, and as a scan of the base
*reported* it, which differ when an engine was down or a scan was narrowed. One action per
await: `Reproduce`/`FailToReproduce`, `Edit`, `UpToDate`/`Rebase`/`Conflict`,
`Observe`, `Confirm` (the full scan that has to confirm a narrowed one), `Issue`,
`CloseCases`, and `Fail` for whatever throws. `Rule` is `decide`; `Verdict` is
`deriveFixVerdict`, which is written independently of it in the code and in the
model. `RepairPromise` is the abstract loop: what there is to object to changes at
will, then one verdict is passed, "verified" only if nothing is to be objected to.

### RemediationRun (`src/commands/dvalin.ts`, `src/remediation/cases.ts`, `server/routes/remediation.ts`)

The command from its options to its exit code, with the fix loop as one step of
any outcome, next to a web client that asks for case changes. Every change of the
case file is `Begin` (read), a truncation and a write of its own process (`io`),
so a reader may meet an empty file and read no cases. `proven` is history: the
targets a saved, verified record of this run is about.

### Rebase (`src/remediation/rebase.ts`, `sync` of `fixLoop.ts`)

Git as far as the code looks at it: a branch is a sequence of commits on a base,
each with the files it changes. The temporary commit is put on and taken off by
its subject line, as in the code; a rebase in progress is `todo` and `replayed`;
`unmerged` files may carry conflict `marked`s or, for a modify/delete conflict,
none. Each git call is a step that may fail, and so is the resolver.

### SecurityScan (`scannerSuite.ts`, `localScan.ts`, `sarif.ts`, `diffScope.ts`, `security/*`, `commands/security.ts`)

A finding is an engine and a line: one rule in one file, so that its target
fingerprint does not tell lines apart and its fingerprint does. `outcome` is what
each engine comes to (complete, failed, missing, capped, deferred), `Assemble`
the report, `judgement` the delta against the baseline, the coverage and the gate.

### SecurityWorkflow (`security/workflow.ts`, `verifyRun.ts`, `guardedScan.ts`, `suppressionGuard.ts`, `remediation/evasion.ts`)

`code` is how the workspace differs from the one the workflow began with (a fault
at a time, hidden or evaded ones also committed, or a finding that merely moved).
The file is created by `dvalincode scan` (`ScanCommand`, with the commit it is
at) or by the MCP server (`BeginVerification`, without). Two verifiers each load
a copy, scan, check and write back whole, while the workspace is edited.

### Reverify (`security/reverify.ts`, `reproduceInCi.ts`, `fixRecordSignature.ts`)

`world` is what is so: the base, the way the change falls short, the claim and its
signature. The run is worktree, scan of the base, scan of the head, the
environment without credentials, checks, reverting the fix file by file, tests, restoring it
file by file, tests, environment back, verdict; each may throw and the `finally`
blocks are steps.

### ToolCalls (`core/policy.ts`, `context.ts`, `permissions.ts`, `tools/registry.ts`, `shell.ts`, `runCheck.ts`, `subprocessSandbox.ts`, `audit/*`)

The files of the machine, the repository and the run are resolved by `Narrow` in the order in which the code folds them; a pattern is
membership of a command segment or path. A call goes through policy, permission,
approval, audit and sandbox choice; `owed` are audit events still to be appended, and an
append may keep the line, lose it or leave half of it. `told` is history.

### FileTools (`tools/writeFile.ts`, `editFile.ts`, `deleteFile.ts`, `/undo` in `agent/runner.ts`)

A file is a sequence of pieces of text. The inverse recorded for a call is
computed as each tool does it, and `/undo N` runs the inverses in the order of the code.

### ProviderCall (`providers/*`, `resolveProvider` in `agent/session.ts`)

One call after another: the slot of the pool, the governed request with its
redirects, the answer's head, the stream's pieces, the adapter's judgement of
its end, the retry. `shown` counts what the consumer saw, `content` what the
attempt delivered.

### ConfigStore (`server/configStore.ts`, `routes/config.ts`, `commands/provider.ts`, `tui/app.ts`, web `LLMConfigModal.tsx`)

Each writer reads the whole file, applies a part and writes the whole file back in
two steps. The dialog's drafts hold masks instead of keys; `expected` adds up the
requests acknowledged, as long as none overlapped (`spoiled`).

### Headless (`harness/run.ts`, `verification.ts`, `commands/run.ts`, `mcp/server.ts`)

The limits a run asks for, the ones policy and server allow, what the turn came
to as seen from outside, what the collector finds afterwards in the record store
(which lists a limited number) and the exit code.

### CliUpdate, GuiUpdate (`core/selfUpdate.ts`, `commands/update.ts`; `gui/updater.ts`, `core/guiUpdate.ts`, `gui/index.ts`)

Versions are numbers. Each rename, removal and copy is a step at which the process
may die; a download may be damaged. In the GUI the window, its server and the
detached script are separate processes and a second launch may be alive.

### MemoryStore (`memory/store.ts`, `importers.ts`, `data/archive.ts`, the memory tools)

Entries per scope, as ids and texts; a writer holds a copy between reading and
writing, the file is emptied and then filled, and `MEMORY.md` comes after.
`truth.live` is what the operations promised and `truth.risk` the entries that
operations which overlapped were about.

### ChatClient (`web/src/hooks/useChat.ts`, `lib/client.ts`, `App.tsx` against `server/wsHandler.ts`)

Sockets with a queue each way, requests with how far the server is, and the
hook's state: `sending`, `active`, the session, pending bubbles, approval
dialogs, fetches under way and the send that is delayed by 300 ms. Events carry no request id in
the model because they carry none in the code: `by` is history. `letGo` is what
the user stopped or left, whose connection was lost, or whose wait was ended by
something else than its own outcome (`Awaiting`).

### DvalinPanel (`web/src/components/DvalinWorkspace.tsx`, `lib/dvalinVerification.ts`)

The panel's state, the scans and imports awaited, and the conversation as one
turn at a time that may change the code. A number stands for how often it was changed;
`saw` says which state a scan was of.

### McpStdio (`src/mcp/stdio.ts`, `register.ts`, the disposal in `session.ts`)

The local servers of one turn. Each has the client's `pending` table, armed
`timers`, a child process (`up`, `dying` = dead but Node does not know, `exited`,
`gone` = close event delivered), lines queued on stdin, requests the server has
read, and an answer on its way. A server may answer late, twice, or never, and die at
any point. Registration is sequential: `Launch`, `Initialized`, `Connect`,
`GiveUp`, `Clash`, `Deny`, `Block`. `PipeBreaks` is an `EPIPE` on a stdin
without an `error` listener, which ends the process. Continuations of a settled promise are steps of their own, which
allows more interleavings than Node's microtasks. The runner awaits each tool
call, so at most one call is outstanding.

### MCRemediation, MCPlatform

Components that do not talk to each other through state are checked in one state
space: `subject` is chosen at `Init` and never changes, a behaviour is one of that
subject, and the others keep their initial values. The state spaces add up
instead of multiplying, and the `VIEW` fingerprints the subject's variables only.
Each property is that of one component, guarded by the subject.

## 3. The runs and their bounds

Passing runs:

| Run | Instance | Shows |
|---|---|---|
| `session_sequential` | 3 invocations of 1 message, one entry each, 1 crash, failing saves, no overlap; `FairSpec` | `AtMostOneDone`, `FinishedWorkKept`, `ReportedOnce`; the journal implements `TurnLedger`; `InvocationsEnd`, `RecoveryCloses` |
| `session_overlap` | 3 invocations, 2 messages, at most 2 live at a time, 1 crash, deletion | without any lock: `RetransmitNeverReruns`, `DanglingIsUnfinished`, `LostTurnVisible` |
| `ws` | 2 turns, 2 connections, 1 crash, all write faults; `WsFairSpec` | `NoAbortedTurnWaits`, `AbortedTurnsEnd` |
| `turn` | 2 turns of 3 iterations (the second followed for one), 3 tool calls, batches of 2, an edit and a check tool, abort in the first turn | `RequestsWellFormed`, `WorkIsRecorded`, `AbortStopsWork`, `StallsAreReal`, `TurnAdvances` |
| `loop` | 2 rounds, 2 engines, a target, a minor and a hidden finding, one upstream move, narrowed scans | `FullScanDecides`, `RecordAgrees`, the loop implements `RepairPromise` |
| `loop_rounds` | 3 rounds, 2 reproduction attempts, one code finding; `FairSpec` | `StallIsReal`, `LoopEnds` |
| `mcp` | 2 servers, 2 tool calls; `FairSpec` | `AnsweredIsReceived`, `ClosedNeverAnswers`, `StoppedWhenOver`, `TurnEnds` |
| `remediation` | five components, one at a time: 2 issues and a web request; 2 files, 2 conflict rounds, 2 upstream moves; 2 lines, 2 selections; 2 verifiers, 1 edit; 1 target, 2 files of the fix | `RemediationIsHonest`, `RebaseKeepsWork`, `ScanIsComplete`, `WorkflowIsTrue`, `ReverifyIsSound` |
| `platform` | ten components, one at a time, see below | `GovernanceHolds`, `UndoOneRestores`, `RetriesAreSafe`, `SavesAreExact`, `RunIsHonest`, `InstallIsWhole`, `AppIsNeverLost`, `WebIsHonest`, `MemoryIsKept`, `NothingIsTakenBack` |

`remediation` and `platform` have some three million states each, the others
between half a million and four.

A property of the last two runs stands for one component and is the
conjunction of that component's promises; the module states each of them on its own with
its comment:

| Property | Made of |
|---|---|
| `RemediationIsHonest` | exit code, case file and published record agree with the judgement, whatever else writes the case file |
| `RebaseKeepsWork` | what the executor changed is in the tree, the temporary commit or a commit of the rebase at every step; the loop's base commit is the one the work stands on |
| `ScanIsComplete` | a gate passes, and a finding counts as fixed, only by engines that looked |
| `WorkflowIsTrue` | a verified record is about the targets of its workflow and true of the code it names; a record blames the repair only for what it introduced, but for three named cases of old findings |
| `ReverifyIsSound` | `OkIsEarned`, `LeavesNoTrace` |
| `GovernanceHolds` | what runs is admitted by every layer; the trail has what ran, in order, or says that it lost something |
| `UndoOneRestores` | `/undo 1` gives back the file or leaves it |
| `RetriesAreSafe` | no text twice, a finished answer is whole, pool slots are taken in turn |
| `SavesAreExact`, `NothingIsTakenBack` | the file is what the acknowledged requests add up to, no mask becomes a key, saving an untouched dialog changes nothing |
| `RunIsHonest` | limits are the narrowest asked for, the exit code and the coverage reported follow from what was found |
| `InstallIsWhole`, `AppIsNeverLost` | what is installed is one whole release |
| `WebIsHonest` | the page waits for something, shows as its own what is its own; a review shown as evidence is of this code and workspace |
| `MemoryIsKept` | entries are what the operations promised, once; imports and deletions touch nothing else; `MEMORY.md` agrees when all is quiet |

Why these bounds are enough to meet the interesting cases:

- *Session.* Two overlapping invocations give every race between two
  read-modify-writes; the third is the one that comes after and sees the
  result (a recovery after a crash during a recovery, a resend after a
  completion). Two messages separate "this message" from "the other one". The
  overlapping run keeps no entries (`MaxWork = 0`): its properties are about the journal only.
  The sequential run keeps them. `DanglingIsUnfinished` and `LostTurnVisible` are
  about what a correct disk shows, hence `Faults = {}`; torn appends are in `ws`.
- *Turn.* `MaxRepeats = MaxUnverified = 2` is the smallest stall; three calls and
  batches of two reach a budget inside a batch, with calls skipped; two
  turns let the second run on what an aborted or compacted first left; its first
  iteration is the one that meets that history, so `ShortLastTurn` stops there.
- *Loop.* Two rounds give "same as the previous round", three give "no better
  twice in a row" and the budget. Two engines separate an engine that found the targets from
  one that only finds new problems; one hidden finding is what a narrowed scan misses.
- *MCP.* The second server is registered while the first may already be dying;
  the second call tells a late answer from the answer to another request.
- *Remediation.* Two issues let one be settled while the other fails, and one
  web request is enough to come between a read and a write of the case file. Two
  conflict rounds reach the limit after a round that worked; two upstream moves let
  the second rebase start from what the first left. Two lines of one rule tell a target
  fingerprint from a fingerprint. Two verifiers of one workflow give every lost update
  of its file; one edit falls before, between or after any of their awaits. `OneHole`
  lets one verifier at a time have an incomplete scan. Two files of a fix let a failure
  fall between them, on the way out and on the way back.
- *Platform.* One governed call under two layers, each policy wider or narrower,
  with one failed append before or after it (on the host without a sandbox,
  `FaultsOnOneHost`: appending does not ask for the host); two edits of one file and one from outside, undone
  in one step; two calls of two retries, one redirect and two deltas, so that a retry meets output
  already shown and the second call meets a cursor that moved; two writers of the
  configuration next to the dialog; three versions, one of them a prerelease, two updates
  or two launches at once and one failure; two sockets, three
  posts and two upsets (lost connections, failing fetches), as long as their sum with the
  messages stays within four (`QuietLongChats`); two workspaces, two turns, two scans
  and two changes of mind in the panel; two writers of two memory scopes, up to three
  operations and three entries, one import at a time, where a second scope in use, a
  backup and an upset each count as an operation (`ShortMemory`). `CeilingsApart` looks at ceilings with an empty store.
  The memory was besides checked without that bound on larger instances of its own:
  three operations in one scope (23 million states) and two in two scopes (0.9 million).

Counters are bounded by the constants named "bound" in the modules (`MaxWork`,
`MaxCrashes`, `MaxBatch`, `MaxMoves`, `MaxCalls`, `MaxFaults`, `MaxOps` and so on). `TwoAtATime` is a
state constraint of `session_overlap` (two live invocations, no crash after a deletion).
Symmetry is used only in runs without liveness. `WithoutHistory` is the view of
`loop`, in which no property reads the history `real`; the views of `remediation` and
`platform` leave out variables that keep their initial value. Deadlock is checked in `turn`,
whose end state stutters explicitly; the other systems may stop (no more clients, the loop
has ended), and there the liveness properties say what must happen first.

Runs that end in a violation are the findings of section 6. Each property of a
passing run has a mutant: a plausible bug of the code, next to the definition it
changes, under which TLC reports that property violated.

## 4. Fairness

- *Session, WebSocket:* weak fairness of the steps of each invocation. Every await
  settles: file operations return, the provider call ends or times out. Nothing
  forces a client to send, to abort or to answer an approval, and nothing forces or forbids a
  crash. A turn parked on an approval is not fair: `AbortedTurnsEnd` holds
  because the abort listener answers for the user.
- *Fix loop:* weak fairness of the loop's own next step; engines and checks have
  timeouts and the executor is an agent turn with budgets.
- *Agent turn:* none. `TurnAdvances` is a variant: every step but the abort itself brings
  the turn nearer to its end, so it ends as soon as its awaits settle.
- *MCP:* weak fairness of the turn's own continuations and of the timers; none of
  the servers, which may hang for ever.
- *Everything else:* none. What must eventually happen there is stated as safety:
  the page never waits while nothing that could answer it is under way (`NeverStuck` of
  `ChatClient`, `RunningIsReal` of `DvalinPanel`), and whatever ends a re-verification
  or an update leaves it in a state the property describes.

## 5. What is proved

TLAPS proves the following for all values of the constants (any number of turns,
messages, findings, engines, servers, releases, any budgets). The assumptions are the `ASSUME`s
of the modules, which TLC evaluates in every run, and those stated in a theorem.

| Theorem | Statement | Argument |
|---|---|---|
| `TypeCorrect` (DurableSession) | `Spec => []TypeOK` | with `Committed`: which outcome a program counter goes with |
| `RetransmitSafe` | a message that was done when resent never runs again | `Answered`: the done record stays in the journal until the deletion, so the check after recovery finds it |
| `DanglingSound` | a dangling turn is really unfinished, if no write fails | each start record is matched by an invocation that is executing or was lost, as long as no closing record follows; holds under overlap |
| `LostTurnsFound` | `Spec => []LostTurnVisible`, if no write fails | `Intended`: the start record of a turn is in the journal from the moment it runs; holds under overlap |
| `ReportsDisjoint` | `Spec => []ReportedOnce`, if turns do not overlap and no write fails | `ReportsClosed`: what an invocation reports is closed in the journal, or it is still closing it |
| `JournalIsLedger` | `Spec => ImplementsLedger`: `DurableSession` implements `TurnLedger`, if turns do not overlap, the session is kept and no write fails | initial states and every step, from the invariants above and below |
| `OneDone` | one done record per message, if turns do not overlap | `OneLive`, and `NotYetDone`: past the replay check the message of the live turn has no done record |
| `WorkKept` | the snapshot keeps what finished turns did, if turns do not overlap | `WorkSited`, `Carried`: the entries are in the snapshot or in the context of the one live invocation that is about to write it |
| `WsImplementsSession` | `WsSpec => Spec`: the handler only does what the session allows | step by step; what is proved of sessions holds below the handler |
| `WsRetransmitSafe` | `RetransmitNeverReruns` for the handler | from the two above |
| `NoAbortedTurnWaitsEver` | an aborted turn never waits for an approval | inductive with the session's types |
| `BudgetCorrect` (AgentTurn) | tools started, iterations and requests stay in the budgets of the turn | `Budget`: `Counted` (the batch never exceeds the room left), `RequestsCounted`, `RunsCounted` |
| `AbortIsFinal` | after the abort no request and no tool is started | step by step |
| `RequestsCorrect` | `Spec => []RequestsWellFormed`: every request sent to the provider pairs calls with answers | an invariant on the part of the history that the batch is still writing |
| `WorkRecorded` | `Spec => []WorkIsRecorded`: what a tool did is in the history | the same, with the results the batch has collected so far |
| `StallsCorrect` | `Spec => StallsAreReal`, if no tool is both an editing and an investigation tool (`ToolsApart`) | `Tracked`: each counter says less than the log of the actions since the checkpoint (`RunSeen`, `EditsSeen`, `FailuresSeen`), as long as no reason was found |
| `TurnIsBounded` | the variant decreases at every step | `PhaseFalls`, `IterationCosts`: a phase falls within an iteration and is worth less than one |
| `LoopKeepsPromise` (FixLoop) | `FixLoop` implements `RepairPromise` | `Grounded` (repro and marks), `CurrentObs` (the observation is of the tree as it is), `Decided`, `Ended` |
| `DecisionIsFull`, `RecordsAgree`, `StopsInBudget` | the full scan decides; verified loops issue verified records; no round beyond the budget | from the same invariant |
| `LoopIsBounded` | every step of the loop lowers `Fuel`, a natural number | ten for each round left, one for each attempt to reproduce left, and the steps of the round that are still ahead; `AttemptsCost`, `RoundCosts` and `StepsFall`: each step lowers one of them by more than it raises the others |
| `StallsOnlyWhenStuck` | `Spec => StallIsReal` | `Counted`: as long as every scan saw all there was, the loop remembers what full scans would have counted |
| `Typed`, `Watched`, `OwnAnswers`, `TurnStopsServers`, `ClosedIsDeaf` (McpStdio) | types, requests wait exactly while armed, and the safety properties of run `mcp` | one invariant: `Numbered` (ids are used in order), `Received` (what is answered was read), `ClosedIsDone`, `Kept` (a server not yet stopped is remembered or being registered), `Progress` |
| `ReverifyTyped`, `ReverifyCorrect` (RemediationProofs) | `Spec => []ReverifyIsSound` for any targets and any files of the fix | `Withheld` (the credentials are out exactly while code of the change may run), `Sited` (which files are reverted at which step), `Observed` (what was seen is so); `JudgeEarns` derives the verdict from them |
| `RebaseCorrect` | `Spec => []RebaseKeepsWork` | `Resting` (between two syncs nothing of one is left), `Replaying` (while git replays, the branch is what it was, with the work on top), `Stopped` |
| `ScanCorrect` | `Spec => []ScanIsComplete` | `Outcomes`, `Reported`: a result that held nothing back has everything its completed engines could find; `Judged` |
| `WorkflowCorrect` | `Spec => []WorkflowIsTrue` | `FileOK` (a complete first scan found what was there, the targets are what of it is above the threshold), `Verifications` (each holds a copy of the workflow, and what it saw is there as long as nobody edited) |
| `RemediationCorrect` | `Spec => []RemediationIsHonest`, if the case file shows no case as verified before the command begins (as in the run) | `Earned` (which proof the command has by each step), `Filed` (the file, a copy of it and an operation under way say verified of proven cases only) |
| `SavesCorrect` (ConfigurationProofs) | `Spec => []SavesAreExact` | `InTurn` (while requests do not overlap one is under way and will add its part; the file is unreadable only between the emptying and the filling), `Untouched` (a dialog nobody touched shows what will be saved) |
| `UpdateTyped`, `InstallCorrect`, `NothingTakenBack` | `Spec => []InstallIsWhole`, `Spec => NeverBack`, if releases are numbered | `StepsHappen` sums up what the steps do to one update; `Genuine` (what is about to be installed was published and checked), `Alone`, `Ahead`, `Paired` follow from it |
| `RetriesCorrect` | `Spec => []RetriesAreSafe`, for pools of any size and any tries | `Shown` (while text may still be asked for, what was shown is the text of this attempt), `Even` (the cursor has gone round the enabled entries some times and on to the next: those before it have had one call more) |
| `MemoryCorrect` | `Spec => []MemoryIsKept`, for any directories, texts, writers and operations | `Held` (a file, and what a copy will be when it is written, are as promised, but for what is at risk), `Contested` (writers that hold copies of one file have put each other's entries at risk), `Counted`, `Shown` (where nothing went wrong with the Markdown, one writer at most is at it) |
| `GuiTyped`, `AppSurvives` (PlatformProofs) | `Spec => []AppIsNeverLost`, if there is a release | `Verified` (a script is only handed a whole bundle), `Alone`, `Started` (who goes on was started from a whole bundle that is still there), `Sited` (where the bundles are at each step of the script) |
| `RunCorrect` | `Spec => []RunIsHonest` | `Begun`: what another run has filed is in the store behind what it found there; what is reported is no better than the run's scans and records |
| `UndoCorrect` | `Spec => []UndoOneRestores` | `Chain`: each call on the stack leads from the files before it to the files after it, as long as all since can be undone; `LastStep` |
| `GovernanceCorrect` | `Spec => []GovernanceHolds`, for any policies of the three layers, calls and agents | `Admitted` (what the resolved policy has admitted of the call by each of its steps), `Told` (what has happened is in the file or about to be appended, unless the sink has warned) |
| `WebCorrect` | `Spec => []WebIsHonest`, for any sockets, requests, lost connections, workspaces, turns, scans and moves | for the page: `OneAwaited` (every request that still has an event to come is the one waited for or was let go), `Active`, `Wired` and `Told` (what is on each wire, and of whom), `Waits` (a waiting page has its request, its work or its outcome on an open socket), `Thread`, `Plans`, `CurrentPage` (which session is shown, loaded and planned for); for the panel: which scan, turn and workspace what is shown belongs to |

None of the safety properties is inductive as it stands. Typically the reason is
what the program counter implies about a file: `RetransmitNeverReruns`, for
example, speaks about turns that execute, and what protects them is that the done record
seen at submission is still in the journal when the turn reads it, several awaits later;
`AppIsNeverLost` speaks about two bundles, and what protects them is which of them the step
of the script still needs. Each proof module therefore starts with the strengthening, proves
`Init => IInv` and `IInv /\ [Next]_vars => IInv'` with one step per action, and derives the properties.

The components of `remediation` and `platform` are proved in the two composed modules'
instances: the theorems state the properties those runs check, each inductive invariant speaks of one
component, and a step of the composition is a step of that component or leaves it alone.
`PlatformAssumption` says what the theorems take of the constants: the policy files are at most the
three of `core/policy.ts`, the pool has a size, the memory has directories, versions are numbered, and a mask is no key;
`ChatAssumption` that sockets and requests are numbered.
`JournalReliable`, in the theorems on sessions, says that appends to the journal go through.

The names in the last column are those of the modules' definitions without the prefix of the component
(`ChatWaits`, `GuiAlone`). The proof of `NeverStuck` for the page goes over what can end a wait: each of the events, each message and
each socket that `Awaited` names is followed through the step that uses it up (`ChatComing`), and the step that
uses up the last of them is shown to end the wait.

A proof also tells what a bounded run cannot. `OwnEvents` was first stated with fewer exceptions,
and every run with two sockets and three requests confirmed it; the proof did not go through, and TLC finds the
reason with a third socket or a fourth request. The page waits for a compaction when the end of another socket ends the wait, and
the compaction's outcome is then shown for the next message; or the outcome of a compaction the user had left ends
the wait for a message, which stays active, and is given the outcome of the next compaction. `letGo` and `Ended` now say so.

Type correctness and `Budget` are proved and not run: a `TypeOK` says little that a
run would add. Every safety invariant the runs check is proved. Model-checked only: every
liveness property, since the prover has no rules for fairness and `ENABLED`. Of two of them
the theorems prove the half that is safety: by `TurnIsBounded` and `LoopIsBounded` a turn and a fix loop can take only
so many steps, so that `TurnEnds` and `LoopEnds` are left with whether the next step comes.

## 6. Where the code and its documents part

Three runs end in a violation; `PROJECT.json` quotes the line each contradicts.

| Run | Property | What happens |
|---|---|---|
| `session_retry_crash` | `LastStartIsInterrupted` | a failed message that is retried and crashes is not seen as interrupted: its earlier `turn_end` already closed the id |
| `turn_orphan_calls` | `RequestsAnswered` | an abort inside a batch leaves calls without responses in the saved history; the next turn sends them |
| `undo_order` | `UndoRestores` | `/undo 2` runs the inverse of the older of two edits first; the file ends in neither state and the answer says it was undone |

Others were met while modelling. Most are admitted by the models, whose properties then
say what does hold. Sessions and turns:

- After a stop, the next message may load the snapshot before the stopped turn has
  saved (`wsHandler.ts` 164), and "continue" goes on without its work, where
  `docs/DURABLE-SESSION.md` 108 says it resumes from the workspace as the turn left it.
- A failing prompt assembly throws outside the `try` whose `finally` disposes of the MCP
  servers (`agent/session.ts` 284).
- A torn or failed save leaves a snapshot that does not parse; the session is then
  "not found" although its journal is intact. A turn that is still running is "recovered" when
  another invocation starts (`DanglingIsUnfinished` is what does hold).
- `runner.ts`: only the first edit of a reply is deferred; a second one in the same reply runs.
- `register.ts`: a duplicate tool name leaves the earlier tools of that server registered,
  with a closed client, while the summary says `tools: 0`. `agent/session.ts` passes no
  audit sink, so the records `docs/GOVERNED-MCP.md` 97-98 promises for denied servers are not
  written. `stdio.ts`: the `try` around a notification cannot catch an asynchronous `EPIPE`.
- `mcp-serve` starts turns without a message id, so a task that is sent again runs again.

Repair and evidence:

- A record can be verified although the engine that found the target did not complete in the last scan
  (`fixLoop.ts` 451). "Every loop is logged", but a loop that throws writes no loop log;
  outcomes without a round issue no record. After a rebase, a scan of the new base that fails
  makes upstream's findings look introduced. An engine of no target that fails in one round and
  not in the next lets the stop rules count too few problems: "no-change" and "oscillating" are
  true of the change only if no scan missed a finding (`StallIsReal`).
- `rebase.ts` 23-25 promises an untouched tree; a `resolveConflicts` that throws leaves the
  rebase in progress, and a modify/delete conflict, which has no markers, is accepted as it is.
- `dvalin.ts` 589-610 wants a hash that tells repairs apart, but `git diff --no-index` exits with 1 when
  there is a difference, so the untracked part is always empty: two repairs that add
  different new files hash alike.
- A workflow that is verified again compares with its latest scan and not with the one it began with
  (`workflow.ts` 220 and 259).
- Findings are compared with fingerprints that contain a start line (`contracts.ts` 132), so an old
  finding that moved counts as introduced (`workflow.ts` 236-239, 303-311, `dvalin.ts` 576); so
  does one that configured suppressions had filtered from the first scan (`commands/security.ts` 546, 563).
  `README.md` 409 and `dvalin.ts` 568-575 speak of new findings; `reverify.ts` 400-409 describes
  the problem and avoids it. A workflow begun on a diff blames findings outside of it.
- A workflow begun over MCP has no `gitHead` (`mcp/server.ts` 343), so `verifyRun.ts` 65 compares with
  `HEAD` and does not see suppressions and evasions that were committed, of which
  `guardedScan.ts` 14-18 and `verifyRun.ts` 59-62 speak.

Platform:

- `read_file` has no policy target, where `docs/POLICY-REFERENCE.md` 122 and 141 speak of
  reading; `/undo` is not audited.
- Not every try of a retried call is recorded (`providers/retry.ts`). A run that filed records before
  it threw is credited with records found by listing, not by ownership (`harness/run.ts` 247). The
  terminal UI takes any missing key for a first run (`tui/app.ts` 243).
- The helper script of the application waits for one process; another launch may be alive
  while it works (`gui/updater.ts` 152), hence `overlapped` in `AppIsNeverLost`.
- Memory: an `entries.json` that does not parse is read as none and the next write replaces
  it; overlapping writers lose entries; `MEMORY.md` says it may be edited but is rewritten; an
  update may make two entries equal, and importing a redacted entry again counts it again.

Web:

- An event names no request: a second `interrupted`, or one in flight, is credited to the
  next turn (`dvalinVerification.ts` 5, `DvalinWorkspace.tsx` 220-222). A late session id
  of a chat that was left, the refetch of a replay, and the send that is delayed by 300 ms may
  land in another conversation; an interrupt before the session id splits one in two.
- The end of any socket, also of one the client has replaced, ends the wait for what was sent on
  another (`useChat.ts` 63-71); so does a delayed send that fails. What was waited for goes on, and its events are
  shown with whatever is active then.
- `/compact` without a connection leaves `sending` set (`useChat.ts` 296-301); a session that does not
  load keeps the old messages although the comment says "start fresh" (321); a pending bubble
  stays after the connection is lost.
- The panel shows evidence as ready with a scan older than the review when the scan after it
  fails or is refused (`DvalinWorkspace.tsx` 199-240), when another tab is clicked meanwhile (381, 442), when
  an import clears the busy flag, and after later turns have edited the code. A scan of one workspace
  may land after a switch to another, and "Verification running" may outlast New chat.

## 7. What is not modelled

`PROJECT.json` lists every component with its status. In short:

- Without state across awaits: the read-only tools and MCP tools, parsers (SARIF and other reports),
  evidence packs and reports, provider secrets, workspace grants (two synchronous
  functions over a map), remote MCP requests, most HTTP routes, skills.
- Rendering and input: the terminal UI, the drawing of the web page, the editor extension.
- Outside the source, and present as the outcomes they may return: providers' services, git,
  semgrep and the other engines, package managers, the release server.
- Data that no property tells apart: the text of messages, prompts, findings and
  commands, the pattern language of policies (membership of a set), hashes and signatures (equal or
  not), the size of histories (a message either fits or does not), output a
  multi-byte split may garble, and the `SIGKILL` that follows `SIGTERM`.

Components marked "partly" say in their note which of their operations are left out.

## 8. Plan

What would extend this, most useful first:

1. Composition: `Rebase` as a refinement of the one rebase step of `FixLoop`, and
   `FixLoop` of the loop step of `RemediationRun`; both are separate models joined by equal outcomes today.
2. Liveness of the page and of the command, under the fairness of the server.
3. Larger instances of `platform`'s components as runs of their own.
