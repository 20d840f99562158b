----------------------------- MODULE MCPlatform -----------------------------
(* The parts around the agent whose specifications stand on their own, in   *)
(* one state space: a behaviour is one of a single subject, never an        *)
(* interleaving, so that the state spaces add up.                           *)
EXTENDS Naturals, Sequences, FiniteSets

CONSTANTS
  Texts, Layers, MaxToolCalls, MaxLogFaults,             \* ToolCalls
  Files, Pieces, MaxEdits, MaxOutside,                   \* FileTools
  PoolSize, MaxRetries, MaxRedirects, MaxDeltas, MaxCalls, \* ProviderCall
  Providers, First, Keys, Names, Ids, MaxRequests,       \* ConfigStore
  DefaultLimit, MaxAsked, ListLimit, MaxRecords,         \* Headless
  Updaters, Prereleases, Instances, MaxVersion, MaxFaults, \* CliUpdate, GuiUpdate
  MaxSockets, MaxPosts, MaxUpsets,                       \* ChatClient
  Workspaces, MaxTurns, MaxScans, MaxMoves,              \* DvalinPanel
  Scopes, Secrets, Mask, Scribes, MaxOps, MaxMishaps     \* MemoryStore

(* There are three places for a policy file, the pool is a list, releases    *)
(* are numbered, as many records are listed as a number says, and the mask   *)
(* the dialog shows is nobody's key.                                         *)
ASSUME PlatformAssumption ==
  /\ Layers \subseteq {"machine", "repo", "runtime"}
  /\ PoolSize \in Nat
  /\ Scopes # <<>> /\ Scopes \in Seq({Scopes[i] : i \in DOMAIN Scopes})
  /\ MaxVersion \in Nat \ {0} /\ ListLimit \in Nat
  /\ "mask" \notin Keys

(* Sockets and posts are numbered.                                           *)
ASSUME ChatAssumption == MaxSockets \in Nat /\ MaxPosts \in Nat

VARIABLES
  subject,
  inForce, policy, ctx, toolCall, owed, sink, trail, logFaults, toolCalls, told,
  disk, stack, past, undoing, undone, edits, outside,
  pool, used, call,
  file, req, dialog, requests, expected, spoiled,
  run, store, result, truth,
  published, installed, up, faults, overlapped,
  app, latest, launched, helper, guiFaults, launchedBeside,
  ui, socket, outbox, inbox, server, request, chatPast, upsets,
  panel, turn, scans, code, moves, panelPast,
  notes, markdown, work, bundle, ids, ops, mishaps, memories

toolVars == <<inForce, policy, ctx, toolCall, owed, sink, trail, logFaults, toolCalls, told>>
undoVars == <<disk, stack, past, undoing, undone, edits, outside>>
providerVars == <<pool, used, call>>
configVars == <<file, req, dialog, requests, expected, spoiled>>
harnessVars == <<run, store, result, truth>>
cliVars == <<published, installed, up, faults, overlapped>>
guiVars == <<app, latest, launched, helper, guiFaults, launchedBeside>>
chatVars == <<ui, socket, outbox, inbox, server, request, chatPast, upsets>>
panelVars == <<panel, turn, scans, code, moves, panelPast>>
memoryVars == <<notes, markdown, work, bundle, ids, ops, mishaps, memories>>

Tools == INSTANCE ToolCalls WITH
           MaxCalls <- MaxToolCalls, MaxFaults <- MaxLogFaults,
           call <- toolCall, faults <- logFaults, calls <- toolCalls
Undo == INSTANCE FileTools WITH Texts <- Pieces, MaxCalls <- MaxEdits, calls <- edits
Provider == INSTANCE ProviderCall
Config == INSTANCE ConfigStore
Harness == INSTANCE Headless
Cli == INSTANCE CliUpdate
Gui == INSTANCE GuiUpdate WITH run <- launched, faults <- guiFaults, overlapped <- launchedBeside
Chat == INSTANCE ChatClient WITH
          MaxRequests <- MaxPosts, up <- outbox, down <- inbox, past <- chatPast
Panel == INSTANCE DvalinPanel WITH past <- panelPast
Memory == INSTANCE MemoryStore WITH
            Writers <- Scribes, MaxUpsets <- MaxMishaps, disk <- notes, upsets <- mishaps, truth <- memories

Subjects == {"tools", "undo", "provider", "config", "headless", "cli", "gui", "chat", "panel",
             "memory"}

Init ==
  /\ subject \in Subjects
  /\ Tools!Init /\ Undo!Init /\ Provider!Init /\ Config!Init
  /\ Harness!Init /\ Cli!Init /\ Gui!Init /\ Chat!Init /\ Panel!Init
  /\ Memory!Init
  /\ subject # "undo" => \A f \in Files : disk[f] = Undo!Absent
  /\ subject # "config" => file.cfg.llm.key = "none"
  /\ subject # "panel" => panel.cwd = CHOOSE w \in Workspaces : TRUE

Next ==
  /\ UNCHANGED subject
  /\ subject # "tools" => UNCHANGED toolVars
  /\ subject # "undo" => UNCHANGED undoVars
  /\ subject # "provider" => UNCHANGED providerVars
  /\ subject # "config" => UNCHANGED configVars
  /\ subject # "headless" => UNCHANGED harnessVars
  /\ subject # "cli" => UNCHANGED cliVars
  /\ subject # "gui" => UNCHANGED guiVars
  /\ subject # "chat" => UNCHANGED chatVars
  /\ subject # "panel" => UNCHANGED panelVars
  /\ subject # "memory" => UNCHANGED memoryVars
  /\ \/ subject = "tools" /\ Tools!Next
     \/ subject = "undo" /\ Undo!Next
     \/ subject = "provider" /\ Provider!Next
     \/ subject = "config" /\ Config!Next
     \/ subject = "headless" /\ Harness!Next
     \/ subject = "cli" /\ Cli!Next
     \/ subject = "gui" /\ Gui!Next
     \/ subject = "chat" /\ Chat!Next
     \/ subject = "panel" /\ Panel!Next
     \/ subject = "memory" /\ Memory!Next

vars == <<subject, toolVars, undoVars, providerVars, configVars, harnessVars, cliVars, guiVars,
          chatVars, panelVars, memoryVars>>
Spec == Init /\ [][Next]_vars

(* The other subjects' variables keep their initial values, so the subject's *)
(* own tell the states of a behaviour apart.                                 *)
View ==
  CASE subject = "tools" -> <<subject, toolVars>>
    [] subject = "undo" -> <<subject, undoVars>>
    [] subject = "provider" -> <<subject, providerVars>>
    [] subject = "config" -> <<subject, configVars>>
    [] subject = "headless" -> <<subject, harnessVars>>
    [] subject = "cli" -> <<subject, cliVars>>
    [] subject = "gui" -> <<subject, guiVars>>
    [] subject = "chat" -> <<subject, chatVars>>
    [] subject = "panel" -> <<subject, panelVars>>
    [] subject = "memory" -> <<subject, memoryVars>>

(* Bound: what a ceiling does is looked at with no scans and records.        *)
CeilingsApart ==
  truth.ceiling # Harness!Nothing \/ truth.cap # Harness!Nothing => store = <<>> /\ run.scans = {}

(* Bound: a long conversation or many upsets, not both.                      *)
QuietLongChats == Chat!Count + upsets <= 4

(* Bound: appends to the audit file fail on a host without a sandbox, where  *)
(* a call has the most events; appending itself does not ask for the host.   *)
FaultsOnOneHost == logFaults = 0 \/ ctx.host = "bare"

Bounds == CeilingsApart /\ QuietLongChats /\ FaultsOnOneHost /\ Memory!ShortMemory

(* A machine policy and a repository's, the first the wider or the narrower. *)
TwoLayers == {"machine", "repo"}
TwoScopes == <<"user", "project">>

(* What a tool call runs is admitted by every policy layer, and the audit    *)
(* trail says what ran (ToolCalls; tools/registry.ts, core/policy.ts,        *)
(* audit/log.ts).                                                            *)
GovernanceHolds == subject = "tools" => Tools!GovernanceHolds

(* Undoing one call restores the files, or leaves them (FileTools;           *)
(* agent/runner.ts).                                                         *)
UndoOneRestores == subject = "undo" => Undo!UndoOneRestores

(* A retried or rotated model call shows no text twice and rotates evenly    *)
(* (ProviderCall; providers/retry.ts, providers/pool.ts).                    *)
RetriesAreSafe == subject = "provider" => Provider!RetriesAreSafe

(* Saving the configuration neither invents a key nor loses a part           *)
(* (ConfigStore; server/configStore.ts, server/routes/config.ts).            *)
SavesAreExact == subject = "config" => Config!SavesAreExact

(* An unattended run stays below its ceilings and reports no more than it    *)
(* did (Headless; harness/run.ts).                                           *)
RunIsHonest == subject = "headless" => Harness!RunIsHonest

(* An update of the command line leaves a whole release (CliUpdate;          *)
(* core/selfUpdate.ts, commands/update.ts).                                  *)
InstallIsWhole == subject = "cli" => Cli!InstallIsWhole

(* No step takes back what somebody has: saving a dialog nobody touched      *)
(* changes nothing, and no update installs an older release unasked          *)
(* (ConfigStore, CliUpdate).                                                 *)
NothingIsTakenBack ==
  [][/\ subject = "config" => Config!UntouchedSave
     /\ subject = "cli" => Cli!Forward]_vars

(* The application survives an update that fails half-way (GuiUpdate;        *)
(* gui/updater.ts).                                                          *)
AppIsNeverLost == subject = "gui" => Gui!AppIsNeverLost

(* The page of a conversation shows what the server did, and does not wait   *)
(* for nothing (ChatClient; web hooks/useChat.ts, lib/client.ts); the        *)
(* verification the security panel shows is the one that ran (DvalinPanel;   *)
(* web DvalinWorkspace.tsx).                                                 *)
WebIsHonest ==
  /\ subject = "chat" => Chat!PageIsHonest
  /\ subject = "panel" => Panel!PanelIsHonest

(* What the agent is told to remember is there, once, and nothing else goes  *)
(* with what is deleted (MemoryStore; memory/store.ts).                      *)
MemoryIsKept == subject = "memory" => Memory!MemoryIsKept
=============================================================================
