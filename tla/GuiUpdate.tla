----------------------------- MODULE GuiUpdate -----------------------------
(* The desktop application's own update (gui/updater.ts, core/guiUpdate.ts)  *)
(* and its start (gui/index.ts): the window and the server are two processes *)
(* of one binary; a verified new bundle is put in place by a shell script    *)
(* that waits until the application is gone.  Two instances may run; the     *)
(* script may die and its copy may fail.                                     *)
EXTENDS Naturals, FiniteSets

CONSTANTS
  Instances,    \* launches of the application that may be alive at once
  MaxVersion,   \* bound: versions are 1 .. MaxVersion
  MaxFaults     \* bound: scripts that die and copies that fail

VARIABLES
  app,          \* what is at the application's path, and at the backup's
  latest,       \* newest gui-v release
  run,          \* per instance: the window's process, and its server's
  helper,       \* per instance: its install-update.sh
  faults,
  overlapped    \* history: another launch was alive while a script worked

vars == <<app, latest, run, helper, faults, overlapped>>

Versions == 1 .. MaxVersion
Nothing == 0                  \* no bundle
Partial == MaxVersion + 1     \* a bundle copied in part
Whole(b) == b \in Versions

Gone == [window |-> "gone", server |-> "none", version |-> Nothing, staged |-> Nothing]
NoHelper == [step |-> "none", staged |-> Nothing]

Init ==
  /\ app = [target |-> 1, backup |-> Nothing] /\ latest = 1
  /\ run = [i \in Instances |-> Gone] /\ helper = [i \in Instances |-> NoHelper]
  /\ faults = 0 /\ overlapped = FALSE

Publish ==
  /\ latest < MaxVersion
  /\ latest' = latest + 1
  /\ UNCHANGED <<app, run, helper, faults, overlapped>>

-----------------------------------------------------------------------------
Launch(i) ==
  /\ run[i].window = "gone" /\ helper[i].step = "none" /\ Whole(app.target)
  /\ run' = [run EXCEPT ![i] = [Gone EXCEPT !.window = "checking", !.version = app.target]]
  /\ overlapped' = (overlapped \/ \E j \in Instances : helper[j].step \notin {"none", "waiting"})
  /\ UNCHANGED <<app, latest, helper, faults>>

(* Mutant: the download is staged without its checksum.                      *)
CheckUnverified(i, accepted, archive) ==
  /\ run[i].window = "checking"
  /\ run' = [run EXCEPT ![i].window = IF latest > run[i].version /\ accepted THEN "leaving" ELSE "starting",
                        ![i].staged = IF latest > run[i].version /\ accepted
                                      THEN IF archive = "good" THEN latest ELSE Partial ELSE Nothing]
  /\ UNCHANGED <<app, latest, helper, faults, overlapped>>

(* maybeInstallGuiUpdate.  A newer release that was accepted is downloaded,  *)
(* compared with its checksum and its own version, and staged; anything that *)
(* goes wrong leaves the application as it is and starts it.                 *)
Check(i, accepted, archive) ==
  /\ run[i].window = "checking"
  /\ LET installs == latest > run[i].version /\ accepted /\ archive = "good"
     IN  run' = [run EXCEPT ![i].window = IF installs THEN "leaving" ELSE "starting",
                            ![i].staged = IF installs THEN latest ELSE Nothing]
  /\ UNCHANGED <<app, latest, helper, faults, overlapped>>

(* launchInstallerHelper, then process.exit.                                 *)
Leave(i) ==
  /\ run[i].window = "leaving"
  /\ helper' = [helper EXCEPT ![i] = [step |-> "waiting", staged |-> run[i].staged]]
  /\ run' = [run EXCEPT ![i] = Gone]
  /\ UNCHANGED <<app, latest, faults, overlapped>>

SpawnServer(i) ==
  /\ run[i].window = "starting" /\ run[i].server = "none"
  /\ run' = [run EXCEPT ![i].server = "starting"]
  /\ UNCHANGED <<app, latest, helper, faults, overlapped>>

ServerListens(i) ==
  /\ run[i].server = "starting"
  /\ run' = [run EXCEPT ![i].server = "listening",
                        ![i].window = IF @ = "starting" THEN "open" ELSE @]
  /\ UNCHANGED <<app, latest, helper, faults, overlapped>>

(* The server may die: before it listens the window waits until the timeout. *)
ServerDies(i) ==
  /\ run[i].server \in {"starting", "listening"}
  /\ run' = [run EXCEPT ![i].server = "dead"]
  /\ UNCHANGED <<app, latest, helper, faults, overlapped>>

(* The window is closed, or the server did not start within 30 s: the exit   *)
(* handler kills the server.                                                 *)
Close(i) ==
  /\ run[i].window = "open" \/ (run[i].window = "starting" /\ run[i].server # "none")
  /\ run' = [run EXCEPT ![i] = Gone]
  /\ UNCHANGED <<app, latest, helper, faults, overlapped>>

-----------------------------------------------------------------------------
(* The script.                                                               *)

Goes(i, step) == helper' = [helper EXCEPT ![i].step = step]
At(i, step) == helper[i].step = step

(* `kill -0` fails: this instance is gone; others may not be.                *)
DropOldBackup(i) ==
  /\ At(i, "waiting") /\ run[i].window = "gone"
  /\ app' = [app EXCEPT !.backup = Nothing]
  /\ overlapped' = (overlapped \/ \E j \in Instances \ {i} : run[j].window # "gone" \/ helper[j].step # "none")
  /\ Goes(i, "move")
  /\ UNCHANGED <<latest, run, faults>>

(* Mutant: the old bundle is removed instead of kept until the copy is done. *)
MoveAway(i) ==
  /\ At(i, "move")
  /\ app' = [app EXCEPT !.target = Nothing]
  /\ Goes(i, "copy")
  /\ UNCHANGED <<latest, run, faults, overlapped>>

Move(i) ==
  /\ At(i, "move")
  /\ app' = IF app.target = Nothing THEN app ELSE [target |-> Nothing, backup |-> app.target]
  /\ Goes(i, "copy")
  /\ UNCHANGED <<latest, run, faults, overlapped>>

CopyBegins(i) ==
  /\ At(i, "copy")
  /\ app' = [app EXCEPT !.target = Partial]
  /\ Goes(i, "copying")
  /\ UNCHANGED <<latest, run, faults, overlapped>>

CopyEnds(i) ==
  /\ At(i, "copying")
  /\ app' = [app EXCEPT !.target = helper[i].staged]
  /\ Goes(i, "done")
  /\ UNCHANGED <<latest, run, faults, overlapped>>

(* The copy fails: the backup goes back.                                     *)
CopyFails(i) ==
  /\ At(i, "copying") /\ faults < MaxFaults
  /\ faults' = faults + 1
  /\ app' = IF app.backup = Nothing THEN [app EXCEPT !.target = Nothing]
            ELSE [target |-> app.backup, backup |-> Nothing]
  /\ Goes(i, "none")
  /\ UNCHANGED <<latest, run, overlapped>>

DropBackup(i) ==
  /\ At(i, "done")
  /\ app' = [app EXCEPT !.backup = Nothing]
  /\ Goes(i, "none")
  /\ UNCHANGED <<latest, run, faults, overlapped>>

Die(i) ==
  /\ helper[i].step # "none" /\ faults < MaxFaults
  /\ faults' = faults + 1
  /\ Goes(i, "none")
  /\ UNCHANGED <<app, latest, run, overlapped>>

Next ==
  \/ Publish
  \/ \E i \in Instances :
       \/ Launch(i)
       \/ \E accepted \in BOOLEAN : \E archive \in {"good", "damaged", "other version"} : Check(i, accepted, archive)
       \/ Leave(i) \/ SpawnServer(i) \/ ServerListens(i) \/ ServerDies(i) \/ Close(i)
       \/ DropOldBackup(i) \/ Move(i) \/ CopyBegins(i) \/ CopyEnds(i) \/ CopyFails(i) \/ DropBackup(i) \/ Die(i)

Spec == Init /\ [][Next]_vars

-----------------------------------------------------------------------------
(* As long as no other launch is alive while a script works, there is a      *)
(* whole application at its path or in the backup, whenever a script dies or *)
(* a copy fails; and the path holds a whole one when no script is at work    *)
(* and none died.                                                            *)
AppIsNeverLost ==
  ~overlapped => /\ Whole(app.target) \/ Whole(app.backup)
                 /\ (\A i \in Instances : helper[i].step \in {"none", "waiting"}) /\ faults = 0
                      => Whole(app.target) /\ app.backup = Nothing
=============================================================================
