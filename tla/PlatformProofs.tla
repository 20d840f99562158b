--------------------------- MODULE PlatformProofs ---------------------------
(* Proofs about parts around the agent: the update of the application        *)
(* (GuiUpdate), the unattended run (Headless), undoing tool calls            *)
(* (FileTools), governed tool calls (ToolCalls), the security panel          *)
(* (DvalinPanel) and the page of a conversation (ChatClient).  Each has an   *)
(* inductive invariant of its own, of the instance MCPlatform makes of its   *)
(* module; the theorems at the end state, for every value of the constants,  *)
(* what the platform run checks of them.                                     *)
EXTENDS MCPlatform, FiniteSetTheorems, TLAPS

(* The update of the application (GuiUpdate).                                *)

(* There are releases to number.                                            *)
GuiHasVersions == MaxVersion \in Nat \ {0}

GuiArchives == {"good", "damaged", "other version"}
GuiBundles == Nat
GuiAtWork == {"move", "copy", "copying", "done"}
GuiRuns == [window : {"gone", "checking", "leaving", "starting", "open"},
            server : {"none", "starting", "listening", "dead"}, version : GuiBundles, staged : GuiBundles]
GuiHelpers == [step : {"none", "waiting"} \cup GuiAtWork, staged : GuiBundles]

GuiTypeOK ==
  /\ app \in [target : GuiBundles, backup : GuiBundles]
  /\ latest \in Gui!Versions
  /\ launched \in [Instances -> GuiRuns] /\ helper \in [Instances -> GuiHelpers]
  /\ guiFaults \in Nat

(* Only a bundle that was verified is handed to a script.                    *)
GuiVerified ==
  \A i \in Instances :
    /\ launched[i].window = "leaving" => Gui!Whole(launched[i].staged)
    /\ helper[i].step # "none" => Gui!Whole(helper[i].staged)

(* As long as nothing overlapped, a script at work has nobody beside it.     *)
GuiAlone ==
  ~launchedBeside =>
    \A i \in Instances : helper[i].step \in GuiAtWork =>
      \A j \in Instances : launched[j].window = "gone" /\ (j # i => helper[j].step = "none")

(* Whoever is there to begin or to go on was started from a whole bundle,    *)
(* which is still there when no script is at work.                           *)
GuiStarted ==
  ~launchedBeside /\ (\A i \in Instances : helper[i].step \notin GuiAtWork) =>
    /\ (\E i \in Instances : launched[i].window # "gone" \/ helper[i].step # "none") => Gui!Whole(app.target)
    /\ Gui!Whole(app.target) \/ Gui!Whole(app.backup)
    /\ guiFaults = 0 => Gui!Whole(app.target) /\ app.backup = Gui!Nothing

(* Where the bundles are while a script works.                               *)
GuiSited ==
  ~launchedBeside =>
    \A i \in Instances :
      /\ helper[i].step = "move" => Gui!Whole(app.target)
      /\ helper[i].step \in {"copy", "copying"} => Gui!Whole(app.backup)
      /\ helper[i].step = "done" => Gui!Whole(app.target)

GuiIInv == GuiTypeOK /\ GuiVerified /\ GuiAlone /\ GuiStarted /\ GuiSited

-----------------------------------------------------------------------------
LEMMA GuiInitHolds == ASSUME GuiHasVersions PROVE Gui!Init => GuiIInv
BY DEF GuiHasVersions, Gui!Init, GuiIInv, GuiTypeOK, GuiVerified, GuiAlone, GuiStarted, GuiSited,
   GuiAtWork, GuiBundles, GuiRuns, GuiHelpers,
       Gui!Versions, Gui!Whole, Gui!Gone, Gui!NoHelper, Gui!Nothing

(* A launch that changes is still a launch; what its window decides and what *)
(* its server does keep it one.                                              *)
LEMMA GuiReplaced ==
  ASSUME NEW R, NEW f \in [Instances -> R], NEW i \in Instances, NEW r \in R
  PROVE  [f EXCEPT ![i] = r] \in [Instances -> R]
OBVIOUS

LEMMA GuiRunFields ==
  ASSUME NEW r \in GuiRuns, NEW w \in {"gone", "checking", "leaving", "starting", "open"}
  PROVE  /\ \A b \in GuiBundles : [[r EXCEPT !.window = w] EXCEPT !.staged = b] \in GuiRuns
         /\ [[r EXCEPT !.server = "listening"] EXCEPT !.window = w] \in GuiRuns
         /\ r.window \in {"gone", "checking", "leaving", "starting", "open"}
BY DEF GuiRuns

LEMMA GuiChecks ==
  ASSUME launched \in [Instances -> GuiRuns], latest \in Nat, Gui!Nothing \in Nat, NEW i \in Instances,
         NEW accepted, NEW archive, Gui!Check(i, accepted, archive)
  PROVE  \E r \in GuiRuns : launched' = [launched EXCEPT ![i] = r] /\ r.window # "gone"
<1> DEFINE installs == latest > launched[i].version /\ accepted /\ archive = "good"
           w == IF installs THEN "leaving" ELSE "starting"
           b == IF installs THEN latest ELSE Gui!Nothing
           r == [[launched[i] EXCEPT !.window = w] EXCEPT !.staged = b]
<1>1. w \in {"leaving", "starting"} /\ b \in GuiBundles
  BY DEF GuiBundles
<1>2. launched' = [launched EXCEPT ![i].window = w, ![i].staged = b]
  BY DEF Gui!Check
<1>3. launched[i] \in GuiRuns
  OBVIOUS
<1> HIDE DEF w, b
<1>4. r \in GuiRuns
  BY <1>1, <1>3, GuiRunFields
<1>5. launched' = [launched EXCEPT ![i] = r]
  BY <1>2
<1>6. r.window = w
  BY <1>3 DEF GuiRuns
<1> QED BY <1>1, <1>4, <1>5, <1>6

LEMMA GuiListens ==
  ASSUME launched \in [Instances -> GuiRuns], NEW i \in Instances, Gui!ServerListens(i)
  PROVE  \E r \in GuiRuns : launched' = [launched EXCEPT ![i] = r] /\ (r.window = "gone" <=> launched[i].window = "gone")
<1> DEFINE w == IF launched[i].window = "starting" THEN "open" ELSE launched[i].window
           r == [[launched[i] EXCEPT !.server = "listening"] EXCEPT !.window = w]
<1>1. launched[i] \in GuiRuns
  OBVIOUS
<1>2. w \in {"gone", "checking", "leaving", "starting", "open"}
  BY <1>1, GuiRunFields
<1>3. launched' = [launched EXCEPT ![i].server = "listening", ![i].window = w]
  BY DEF Gui!ServerListens
<1>4. w = "gone" <=> launched[i].window = "gone"
  OBVIOUS
<1> HIDE DEF w
<1>5. r \in GuiRuns
  BY <1>1, <1>2, GuiRunFields
<1>6. launched' = [launched EXCEPT ![i] = r]
  BY <1>3
<1>7. r.window = w
  BY <1>1 DEF GuiRuns
<1> QED BY <1>4, <1>5, <1>6, <1>7

(* These steps touch neither a bundle nor a script, and the window stays.    *)
GuiBeside ==
  /\ UNCHANGED <<app, latest, helper, guiFaults, launchedBeside>>
  /\ \A j \in Instances : launched'[j].window = "gone" <=> launched[j].window = "gone"

LEMMA GuiBesideSteps ==
  ASSUME GuiHasVersions, GuiTypeOK, NEW i \in Instances,
         \/ \E accepted, archive : Gui!Check(i, accepted, archive)
         \/ Gui!SpawnServer(i) \/ Gui!ServerListens(i) \/ Gui!ServerDies(i)
  PROVE  GuiBeside
<1>0. launched \in [Instances -> GuiRuns] /\ latest \in Nat /\ Gui!Nothing \in Nat
  BY DEF GuiTypeOK, GuiHasVersions, Gui!Versions, Gui!Nothing
<1>1. ASSUME NEW r, launched' = [launched EXCEPT ![i] = r], r.window = "gone" <=> launched[i].window = "gone"
      PROVE  \A j \in Instances : launched'[j].window = "gone" <=> launched[j].window = "gone"
  BY <1>0, <1>1
<1>2. ASSUME NEW accepted, NEW archive, Gui!Check(i, accepted, archive) PROVE GuiBeside
  <2>1. launched[i].window # "gone"
    BY <1>2 DEF Gui!Check
  <2>2. PICK r \in GuiRuns : launched' = [launched EXCEPT ![i] = r] /\ r.window # "gone"
    BY <1>0, <1>2, GuiChecks
  <2>3. \A j \in Instances : launched'[j].window = "gone" <=> launched[j].window = "gone"
    BY <1>1, <2>1, <2>2
  <2> QED BY <1>2, <2>3 DEF GuiBeside, Gui!Check
<1>3. CASE Gui!ServerListens(i)
  <2>1. PICK r \in GuiRuns : launched' = [launched EXCEPT ![i] = r] /\ (r.window = "gone" <=> launched[i].window = "gone")
    BY <1>0, <1>3, GuiListens
  <2>2. \A j \in Instances : launched'[j].window = "gone" <=> launched[j].window = "gone"
    BY <1>1, <2>1
  <2> QED BY <1>3, <2>2 DEF GuiBeside, Gui!ServerListens
<1>4. CASE Gui!SpawnServer(i) \/ Gui!ServerDies(i)
  <2>1. \A j \in Instances : launched'[j].window = launched[j].window
    BY <1>0, <1>4 DEF Gui!SpawnServer, Gui!ServerDies, GuiRuns
  <2> QED BY <1>4, <2>1 DEF GuiBeside, Gui!SpawnServer, Gui!ServerDies
<1> QED BY <1>2, <1>3, <1>4

(* A script takes up its work.                                               *)
GuiTakesUp(i) ==
  /\ helper[i].step = "waiting" /\ UNCHANGED <<launched, guiFaults>>
  /\ app'.target = app.target /\ app'.backup = Gui!Nothing
  /\ ~launchedBeside' => /\ ~launchedBeside
                         /\ \A j \in Instances : launched[j].window = "gone" /\ (j # i => helper[j].step = "none")
  /\ \A j \in Instances : helper'[j].step = IF j = i THEN "move" ELSE helper[j].step

LEMMA GuiDropOldBackupSteps ==
  ASSUME GuiTypeOK, NEW i \in Instances, Gui!DropOldBackup(i) PROVE GuiTakesUp(i)
<1>1. \A j \in Instances : helper'[j].step = IF j = i THEN "move" ELSE helper[j].step
  BY DEF GuiTypeOK, Gui!DropOldBackup, Gui!Goes, GuiHelpers
<1>2. app'.target = app.target /\ app'.backup = Gui!Nothing
  BY DEF GuiTypeOK, Gui!DropOldBackup
<1> QED BY <1>1, <1>2 DEF Gui!DropOldBackup, GuiTakesUp, Gui!At

(* The types.                                                                *)
LEMMA GuiTypesKept ==
  ASSUME GuiHasVersions PROVE GuiTypeOK /\ [Gui!Next]_Gui!vars => GuiTypeOK'
<1> SUFFICES ASSUME GuiTypeOK, [Gui!Next]_Gui!vars PROVE GuiTypeOK'
  OBVIOUS
<1>0. latest \in Nat
  BY DEF GuiHasVersions, GuiTypeOK, Gui!Versions
<1> USE DEF GuiHasVersions, GuiAtWork, GuiArchives, Gui!Versions
<1>1. CASE Gui!Publish
  BY <1>1 DEF Gui!Publish, Gui!Whole, Gui!NoHelper, GuiTypeOK, GuiRuns, GuiHelpers, GuiBundles,
     Gui!Nothing, Gui!Partial
<1>2. ASSUME NEW i \in Instances, Gui!Launch(i) PROVE GuiTypeOK'
  <2>1. [Gui!Gone EXCEPT !.window = "checking", !.version = app.target] \in GuiRuns
    BY DEF Gui!Gone, GuiRuns, GuiTypeOK, GuiBundles, Gui!Nothing
  <2>2. launched' \in [Instances -> GuiRuns]
    BY <1>2, <2>1, GuiReplaced DEF Gui!Launch, GuiTypeOK
  <2> QED BY <1>2, <2>2 DEF Gui!Launch, GuiTypeOK
<1>3. ASSUME NEW i \in Instances, NEW accepted \in BOOLEAN,
             NEW archive \in GuiArchives, Gui!Check(i, accepted, archive)
      PROVE  GuiTypeOK'
  <2>1. PICK r \in GuiRuns : launched' = [launched EXCEPT ![i] = r]
    BY <1>0, <1>3, GuiChecks DEF GuiTypeOK, Gui!Nothing
  <2>2. launched' \in [Instances -> GuiRuns]
    BY <2>1, GuiReplaced DEF GuiTypeOK
  <2>3. UNCHANGED <<app, latest, helper, guiFaults>>
    BY <1>3 DEF Gui!Check
  <2> QED BY <2>2, <2>3 DEF GuiTypeOK
<1>4. ASSUME NEW i \in Instances, Gui!Leave(i) PROVE GuiTypeOK'
  BY <1>4 DEF Gui!Leave, Gui!Gone, Gui!Whole, Gui!NoHelper, GuiTypeOK, GuiRuns, GuiHelpers,
     GuiBundles, Gui!Nothing, Gui!Partial
<1>5. ASSUME NEW i \in Instances, Gui!SpawnServer(i) PROVE GuiTypeOK'
  BY <1>5 DEF Gui!SpawnServer, Gui!Whole, Gui!NoHelper, GuiTypeOK, GuiRuns, GuiHelpers,
     GuiBundles, Gui!Nothing, Gui!Partial
<1>6. ASSUME NEW i \in Instances, Gui!ServerListens(i) PROVE GuiTypeOK'
  <2>1. PICK r \in GuiRuns : launched' = [launched EXCEPT ![i] = r]
    BY <1>6, GuiListens DEF GuiTypeOK
  <2>2. launched' \in [Instances -> GuiRuns]
    BY <2>1, GuiReplaced DEF GuiTypeOK
  <2>3. UNCHANGED <<app, latest, helper, guiFaults>>
    BY <1>6 DEF Gui!ServerListens
  <2> QED BY <2>2, <2>3 DEF GuiTypeOK
<1>7. ASSUME NEW i \in Instances, Gui!ServerDies(i) PROVE GuiTypeOK'
  BY <1>7 DEF Gui!ServerDies, Gui!Whole, Gui!NoHelper, GuiTypeOK, GuiRuns, GuiHelpers,
     GuiBundles, Gui!Nothing, Gui!Partial
<1>8. ASSUME NEW i \in Instances, Gui!Close(i) PROVE GuiTypeOK'
  BY <1>8 DEF Gui!Close, Gui!Gone, Gui!Whole, Gui!NoHelper, GuiTypeOK, GuiRuns, GuiHelpers,
     GuiBundles, Gui!Nothing, Gui!Partial
<1>9. ASSUME NEW i \in Instances, Gui!DropOldBackup(i) PROVE GuiTypeOK'
  BY <1>9 DEF Gui!DropOldBackup, Gui!Goes, Gui!At, Gui!Whole, Gui!NoHelper, GuiTypeOK, GuiRuns,
     GuiHelpers, GuiBundles, Gui!Nothing, Gui!Partial
<1>10. ASSUME NEW i \in Instances, Gui!Move(i) PROVE GuiTypeOK'
  BY <1>10 DEF Gui!Move, Gui!Goes, Gui!At, Gui!Whole, Gui!NoHelper, GuiTypeOK, GuiRuns,
     GuiHelpers, GuiBundles, Gui!Nothing, Gui!Partial
<1>11. ASSUME NEW i \in Instances, Gui!CopyBegins(i) PROVE GuiTypeOK'
  BY <1>11 DEF Gui!CopyBegins, Gui!Goes, Gui!At, Gui!Whole, Gui!NoHelper, GuiTypeOK, GuiRuns,
     GuiHelpers, GuiBundles, Gui!Nothing, Gui!Partial
<1>12. ASSUME NEW i \in Instances, Gui!CopyEnds(i) PROVE GuiTypeOK'
  BY <1>12 DEF Gui!CopyEnds, Gui!Goes, Gui!At, Gui!Whole, Gui!NoHelper, GuiTypeOK, GuiRuns,
     GuiHelpers, GuiBundles, Gui!Nothing, Gui!Partial
<1>13. ASSUME NEW i \in Instances, Gui!CopyFails(i) PROVE GuiTypeOK'
  BY <1>13 DEF Gui!CopyFails, Gui!Goes, Gui!At, Gui!Whole, Gui!NoHelper, GuiTypeOK, GuiRuns,
     GuiHelpers, GuiBundles, Gui!Nothing, Gui!Partial
<1>14. ASSUME NEW i \in Instances, Gui!DropBackup(i) PROVE GuiTypeOK'
  BY <1>14 DEF Gui!DropBackup, Gui!Goes, Gui!At, Gui!Whole, Gui!NoHelper, GuiTypeOK, GuiRuns,
     GuiHelpers, GuiBundles, Gui!Nothing, Gui!Partial
<1>15. ASSUME NEW i \in Instances, Gui!Die(i) PROVE GuiTypeOK'
  BY <1>15 DEF Gui!Die, Gui!Goes, Gui!Whole, Gui!NoHelper, GuiTypeOK, GuiRuns, GuiHelpers,
     GuiBundles, Gui!Nothing, Gui!Partial
<1>16. CASE UNCHANGED Gui!vars
  BY <1>16 DEF Gui!vars, GuiTypeOK, GuiRuns, GuiHelpers, GuiBundles, Gui!Nothing, Gui!Partial
<1> HIDE DEF GuiHasVersions, GuiAtWork, GuiArchives, Gui!Versions
<1> QED
  BY <1>1, <1>2, <1>3, <1>4, <1>5, <1>6, <1>7, <1>8, <1>9, <1>10, <1>11, <1>12, <1>13, <1>14,
     <1>15, <1>16 DEF Gui!Next, GuiArchives

(* The scripts' bundles.                                                     *)
LEMMA GuiVerifiedKept ==
  ASSUME GuiHasVersions PROVE GuiTypeOK /\ GuiVerified /\ [Gui!Next]_Gui!vars => GuiVerified'
<1> SUFFICES ASSUME GuiTypeOK, GuiVerified, [Gui!Next]_Gui!vars PROVE GuiVerified'
  OBVIOUS
<1> USE DEF GuiHasVersions, GuiTypeOK, GuiVerified, GuiRuns, GuiHelpers, GuiAtWork, Gui!Whole
<1>1. CASE Gui!Publish
  BY <1>1 DEF Gui!Publish, Gui!Nothing
<1>2. ASSUME NEW i \in Instances, Gui!Launch(i) PROVE GuiVerified'
  BY <1>2 DEF Gui!Launch, Gui!Gone, Gui!Nothing
<1>3. ASSUME NEW i \in Instances, NEW accepted \in BOOLEAN,
             NEW archive \in GuiArchives, Gui!Check(i, accepted, archive)
      PROVE  GuiVerified'
  BY <1>3 DEF Gui!Check, Gui!Nothing
<1>4. ASSUME NEW i \in Instances, Gui!Leave(i) PROVE GuiVerified'
  BY <1>4 DEF Gui!Leave, Gui!Gone, Gui!Nothing
<1>5. ASSUME NEW i \in Instances, Gui!SpawnServer(i) PROVE GuiVerified'
  BY <1>5 DEF Gui!SpawnServer, Gui!Nothing
<1>6. ASSUME NEW i \in Instances, Gui!ServerListens(i) PROVE GuiVerified'
  BY <1>6 DEF Gui!ServerListens, Gui!Nothing
<1>7. ASSUME NEW i \in Instances, Gui!ServerDies(i) PROVE GuiVerified'
  BY <1>7 DEF Gui!ServerDies, Gui!Nothing
<1>8. ASSUME NEW i \in Instances, Gui!Close(i) PROVE GuiVerified'
  BY <1>8 DEF Gui!Close, Gui!Gone, Gui!Nothing
<1>9. ASSUME NEW i \in Instances, Gui!DropOldBackup(i) PROVE GuiVerified'
  BY <1>9 DEF Gui!DropOldBackup, Gui!Goes, Gui!At, Gui!Nothing
<1>10. ASSUME NEW i \in Instances, Gui!Move(i) PROVE GuiVerified'
  BY <1>10 DEF Gui!Move, Gui!Goes, Gui!At, Gui!Nothing
<1>11. ASSUME NEW i \in Instances, Gui!CopyBegins(i) PROVE GuiVerified'
  BY <1>11 DEF Gui!CopyBegins, Gui!Goes, Gui!At, Gui!Nothing
<1>12. ASSUME NEW i \in Instances, Gui!CopyEnds(i) PROVE GuiVerified'
  BY <1>12 DEF Gui!CopyEnds, Gui!Goes, Gui!At, Gui!Nothing
<1>13. ASSUME NEW i \in Instances, Gui!CopyFails(i) PROVE GuiVerified'
  BY <1>13 DEF Gui!CopyFails, Gui!Goes, Gui!At, Gui!Nothing
<1>14. ASSUME NEW i \in Instances, Gui!DropBackup(i) PROVE GuiVerified'
  BY <1>14 DEF Gui!DropBackup, Gui!Goes, Gui!At, Gui!Nothing
<1>15. ASSUME NEW i \in Instances, Gui!Die(i) PROVE GuiVerified'
  BY <1>15 DEF Gui!Die, Gui!Goes, Gui!Nothing
<1>16. CASE UNCHANGED Gui!vars
  BY <1>16 DEF Gui!vars
<1> HIDE DEF GuiHasVersions, GuiTypeOK, GuiVerified, GuiRuns, GuiHelpers, GuiAtWork, Gui!Whole
<1> QED
  BY <1>1, <1>2, <1>3, <1>4, <1>5, <1>6, <1>7, <1>8, <1>9, <1>10, <1>11, <1>12, <1>13, <1>14,
     <1>15, <1>16 DEF Gui!Next, GuiArchives

(* A script at work is alone.                                                *)
LEMMA GuiAloneKept ==
  ASSUME GuiHasVersions PROVE GuiTypeOK /\ GuiAlone /\ [Gui!Next]_Gui!vars => GuiAlone'
<1> SUFFICES ASSUME GuiTypeOK, GuiAlone, [Gui!Next]_Gui!vars PROVE GuiAlone'
  OBVIOUS
<1> USE DEF GuiHasVersions, GuiTypeOK, GuiAlone, GuiRuns, GuiHelpers, GuiAtWork
<1>1. CASE Gui!Publish
  BY <1>1 DEF Gui!Publish, Gui!NoHelper
<1>2. ASSUME NEW i \in Instances, Gui!Launch(i) PROVE GuiAlone'
  BY <1>2 DEF Gui!Launch, Gui!Gone, Gui!NoHelper
<1>3. ASSUME GuiBeside PROVE GuiAlone'
  BY <1>3 DEF GuiBeside
<1>4. ASSUME NEW i \in Instances, Gui!Leave(i) PROVE GuiAlone'
  BY <1>4 DEF Gui!Leave, Gui!Gone, Gui!NoHelper
<1>8. ASSUME NEW i \in Instances, Gui!Close(i) PROVE GuiAlone'
  BY <1>8 DEF Gui!Close, Gui!Gone, Gui!NoHelper
<1>9. ASSUME NEW i \in Instances, GuiTakesUp(i) PROVE GuiAlone'
  BY <1>9 DEF GuiTakesUp
<1>10. ASSUME NEW i \in Instances, Gui!Move(i) PROVE GuiAlone'
  BY <1>10 DEF Gui!Move, Gui!Goes, Gui!At, Gui!NoHelper
<1>11. ASSUME NEW i \in Instances, Gui!CopyBegins(i) PROVE GuiAlone'
  BY <1>11 DEF Gui!CopyBegins, Gui!Goes, Gui!At, Gui!NoHelper
<1>12. ASSUME NEW i \in Instances, Gui!CopyEnds(i) PROVE GuiAlone'
  BY <1>12 DEF Gui!CopyEnds, Gui!Goes, Gui!At, Gui!NoHelper
<1>13. ASSUME NEW i \in Instances, Gui!CopyFails(i) PROVE GuiAlone'
  BY <1>13 DEF Gui!CopyFails, Gui!Goes, Gui!At, Gui!NoHelper
<1>14. ASSUME NEW i \in Instances, Gui!DropBackup(i) PROVE GuiAlone'
  BY <1>14 DEF Gui!DropBackup, Gui!Goes, Gui!At, Gui!NoHelper
<1>15. ASSUME NEW i \in Instances, Gui!Die(i) PROVE GuiAlone'
  BY <1>15 DEF Gui!Die, Gui!Goes, Gui!NoHelper
<1>16. CASE UNCHANGED Gui!vars
  BY <1>16 DEF Gui!vars
<1> HIDE DEF GuiHasVersions, GuiTypeOK, GuiAlone, GuiRuns, GuiHelpers, GuiAtWork
<1> QED
  BY <1>1, <1>2, <1>3, GuiDropOldBackupSteps, GuiBesideSteps, <1>4, <1>8, <1>9, <1>10, <1>11,
     <1>12, <1>13, <1>14, <1>15, <1>16 DEF Gui!Next

(* What a launch and a waiting script rely on.                               *)
LEMMA GuiStartedKept ==
  ASSUME GuiHasVersions PROVE GuiTypeOK /\ GuiVerified /\ GuiAlone /\ GuiStarted /\ GuiSited /\ [Gui!Next]_Gui!vars => GuiStarted'
<1> SUFFICES ASSUME GuiTypeOK, GuiVerified, GuiAlone, GuiStarted, GuiSited, [Gui!Next]_Gui!vars PROVE GuiStarted'
  OBVIOUS
<1> USE DEF GuiHasVersions, GuiTypeOK, GuiRuns, GuiHelpers, GuiAtWork, Gui!Whole, Gui!Versions, GuiBundles, Gui!Nothing, Gui!Partial, GuiVerified, GuiAlone, GuiStarted, GuiSited
<1>1. CASE Gui!Publish
  BY <1>1 DEF Gui!Publish
<1>2. ASSUME NEW i \in Instances, Gui!Launch(i) PROVE GuiStarted'
  BY <1>2 DEF Gui!Launch, Gui!Gone
<1>3. ASSUME GuiBeside PROVE GuiStarted'
  BY <1>3 DEF GuiBeside
<1>4. ASSUME NEW i \in Instances, Gui!Leave(i) PROVE GuiStarted'
  BY <1>4 DEF Gui!Leave, Gui!Gone
<1>8. ASSUME NEW i \in Instances, Gui!Close(i) PROVE GuiStarted'
  BY <1>8 DEF Gui!Close, Gui!Gone
<1>9. ASSUME NEW i \in Instances, GuiTakesUp(i) PROVE GuiStarted'
  BY <1>9 DEF GuiTakesUp
<1>10. ASSUME NEW i \in Instances, Gui!Move(i) PROVE GuiStarted'
  BY <1>10 DEF Gui!Move, Gui!Goes, Gui!At
<1>11. ASSUME NEW i \in Instances, Gui!CopyBegins(i) PROVE GuiStarted'
  BY <1>11 DEF Gui!CopyBegins, Gui!Goes, Gui!At
<1>12. ASSUME NEW i \in Instances, Gui!CopyEnds(i) PROVE GuiStarted'
  BY <1>12 DEF Gui!CopyEnds, Gui!Goes, Gui!At
<1>13. ASSUME NEW i \in Instances, Gui!CopyFails(i) PROVE GuiStarted'
  BY <1>13 DEF Gui!CopyFails, Gui!Goes, Gui!At
<1>14. ASSUME NEW i \in Instances, Gui!DropBackup(i) PROVE GuiStarted'
  BY <1>14 DEF Gui!DropBackup, Gui!Goes, Gui!At
<1>15. ASSUME NEW i \in Instances, Gui!Die(i) PROVE GuiStarted'
  BY <1>15 DEF Gui!Die, Gui!Goes
<1>16. CASE UNCHANGED Gui!vars
  BY <1>16 DEF Gui!vars
<1> HIDE DEF GuiHasVersions, GuiTypeOK, GuiRuns, GuiHelpers, GuiAtWork, Gui!Whole, Gui!Versions, GuiBundles, Gui!Nothing, Gui!Partial, GuiVerified, GuiAlone, GuiStarted, GuiSited
<1> QED
  BY <1>1, <1>2, <1>3, GuiDropOldBackupSteps, GuiBesideSteps, <1>4, <1>8, <1>9, <1>10, <1>11,
     <1>12, <1>13, <1>14, <1>15, <1>16 DEF Gui!Next

(* What a script at work relies on.                                          *)
LEMMA GuiSitedKept ==
  ASSUME GuiHasVersions PROVE GuiTypeOK /\ GuiVerified /\ GuiAlone /\ GuiStarted /\ GuiSited /\ [Gui!Next]_Gui!vars => GuiSited'
<1> SUFFICES ASSUME GuiTypeOK, GuiVerified, GuiAlone, GuiStarted, GuiSited, [Gui!Next]_Gui!vars PROVE GuiSited'
  OBVIOUS
<1> USE DEF GuiHasVersions, GuiTypeOK, GuiRuns, GuiHelpers, GuiAtWork, Gui!Whole, Gui!Versions, GuiBundles, Gui!Nothing, Gui!Partial, GuiVerified, GuiAlone, GuiStarted, GuiSited
<1>1. CASE Gui!Publish
  BY <1>1 DEF Gui!Publish
<1>2. ASSUME NEW i \in Instances, Gui!Launch(i) PROVE GuiSited'
  BY <1>2 DEF Gui!Launch, Gui!Gone
<1>3. ASSUME GuiBeside PROVE GuiSited'
  BY <1>3 DEF GuiBeside
<1>4. ASSUME NEW i \in Instances, Gui!Leave(i) PROVE GuiSited'
  BY <1>4 DEF Gui!Leave, Gui!Gone
<1>8. ASSUME NEW i \in Instances, Gui!Close(i) PROVE GuiSited'
  BY <1>8 DEF Gui!Close, Gui!Gone
<1>9. ASSUME NEW i \in Instances, GuiTakesUp(i) PROVE GuiSited'
  BY <1>9 DEF GuiTakesUp
<1>10. ASSUME NEW i \in Instances, Gui!Move(i) PROVE GuiSited'
  BY <1>10 DEF Gui!Move, Gui!Goes, Gui!At
<1>11. ASSUME NEW i \in Instances, Gui!CopyBegins(i) PROVE GuiSited'
  BY <1>11 DEF Gui!CopyBegins, Gui!Goes, Gui!At
<1>12. ASSUME NEW i \in Instances, Gui!CopyEnds(i) PROVE GuiSited'
  BY <1>12 DEF Gui!CopyEnds, Gui!Goes, Gui!At
<1>13. ASSUME NEW i \in Instances, Gui!CopyFails(i) PROVE GuiSited'
  BY <1>13 DEF Gui!CopyFails, Gui!Goes, Gui!At
<1>14. ASSUME NEW i \in Instances, Gui!DropBackup(i) PROVE GuiSited'
  BY <1>14 DEF Gui!DropBackup, Gui!Goes, Gui!At
<1>15. ASSUME NEW i \in Instances, Gui!Die(i) PROVE GuiSited'
  BY <1>15 DEF Gui!Die, Gui!Goes
<1>16. CASE UNCHANGED Gui!vars
  BY <1>16 DEF Gui!vars
<1> HIDE DEF GuiHasVersions, GuiTypeOK, GuiRuns, GuiHelpers, GuiAtWork, Gui!Whole, Gui!Versions, GuiBundles, Gui!Nothing, Gui!Partial, GuiVerified, GuiAlone, GuiStarted, GuiSited
<1> QED
  BY <1>1, <1>2, <1>3, GuiDropOldBackupSteps, GuiBesideSteps, <1>4, <1>8, <1>9, <1>10, <1>11,
     <1>12, <1>13, <1>14, <1>15, <1>16 DEF Gui!Next

LEMMA GuiNextKeeps == ASSUME GuiHasVersions PROVE GuiIInv /\ [Gui!Next]_Gui!vars => GuiIInv'
BY GuiTypesKept, GuiVerifiedKept, GuiAloneKept, GuiStartedKept, GuiSitedKept DEF GuiIInv

LEMMA GuiSurvives == GuiIInv => Gui!AppIsNeverLost
<1> SUFFICES ASSUME GuiIInv, ~launchedBeside
             PROVE  /\ Gui!Whole(app.target) \/ Gui!Whole(app.backup)
                    /\ (\A i \in Instances : helper[i].step \in {"none", "waiting"}) /\ guiFaults = 0
                         => Gui!Whole(app.target) /\ app.backup = Gui!Nothing
  BY DEF Gui!AppIsNeverLost, GuiIInv, GuiTypeOK
<1>1. CASE \A i \in Instances : helper[i].step \notin GuiAtWork
  BY <1>1 DEF GuiIInv, GuiStarted
<1>2. CASE \E i \in Instances : helper[i].step \in GuiAtWork
  BY <1>2 DEF GuiIInv, GuiSited, GuiAtWork
<1> QED BY <1>1, <1>2

-----------------------------------------------------------------------------
(* The unattended run (Headless).                                            *)

HarnessIsRun(r) ==
  r = [step |-> r.step, perm |-> r.perm, limit |-> r.limit, scans |-> r.scans, known |-> r.known,
       begun |-> r.begun, aborts |-> r.aborts, report |-> r.report, stop |-> r.stop]
HarnessIsTruth(t) ==
  t = [ceiling |-> t.ceiling, cap |-> t.cap, done |-> t.done, saved |-> t.saved, filed |-> t.filed]
HarnessSteps == {"ready", "turn", "report", "over"}

HarnessTyped ==
  /\ HarnessIsRun(run) /\ HarnessIsTruth(truth) /\ run.step \in HarnessSteps
  /\ store \in Seq([project : {"own", "other"}, status : Harness!Statuses])
  /\ run.known \in 0 .. Len(store) /\ run.scans \subseteq Harness!Statuses

(* A run that has not begun has filed nothing; what another has filed is in  *)
(* the store, behind what it found there.                                    *)
HarnessOwnFilings(t, r, s) ==
  \A i \in t.filed : i \in 1 .. Len(s) /\ i > r.known /\ s[i].project = "own"
HarnessBegun ==
  /\ run.step = "ready" => run.scans = {} /\ truth.filed = {}
  /\ run.step \in {"turn", "report"} => run.begun /\ HarnessOwnFilings(truth, run, store)
  /\ run.step = "report" /\ run.stop = "done" => truth.done

(* What is reported is no better than the scans and the records of the run.  *)
HarnessSpeaks(r, s, t, q) ==
  r.step = "over" /\ Len(s) - r.known <= ListLimit =>
    LET known == r.scans \cup {s[i].status : i \in t.filed}
    IN  known # {} => /\ q.coverage # {}
                      /\ \A k \in known, c \in q.coverage : Harness!CoverageRank(c) <= Harness!CoverageRank(k)

HarnessIInv == HarnessTyped /\ HarnessBegun /\ Harness!RunIsHonest

(* Sizes are counted the same way in the module and here.                    *)
LEMMA HarnessCounts == ASSUME NEW S PROVE Harness!Cardinality(S) = Cardinality(S)
BY DEF Harness!Cardinality, Cardinality

-----------------------------------------------------------------------------
LEMMA HarnessRanked == \A s \in Harness!Statuses : Harness!CoverageRank(s) \in 0 .. 2
BY DEF Harness!Statuses, Harness!CoverageRank

(* The weakest of some statuses is none better than any.                     *)
LEMMA HarnessWeakest ==
  ASSUME NEW S, S \subseteq Harness!Statuses, S # {}
  PROVE  Harness!WeakestOf(S) \in S /\ \A s \in S : Harness!CoverageRank(Harness!WeakestOf(S)) <= Harness!CoverageRank(s)
<1>1. \E s \in S : \A t \in S : Harness!CoverageRank(s) <= Harness!CoverageRank(t)
  <2>1. CASE "unknown" \in S
    BY <2>1 DEF Harness!CoverageRank, Harness!Statuses
  <2>2. CASE "unknown" \notin S /\ "partial" \in S
    BY <2>2 DEF Harness!CoverageRank, Harness!Statuses
  <2>3. CASE "unknown" \notin S /\ "partial" \notin S
    BY <2>3 DEF Harness!CoverageRank, Harness!Statuses
  <2> QED BY <2>1, <2>2, <2>3
<1> QED BY <1>1 DEF Harness!WeakestOf

(* While the store lists as many as were filed, the run's own are listed.    *)
LEMMA HarnessOwnAreListed ==
  ASSUME ListLimit \in Nat, HarnessTyped, HarnessBegun, run.step \in {"turn", "report"},
         Len(store) - run.known <= ListLimit, NEW i \in truth.filed
  PROVE  i \in Harness!New
<1> DEFINE mine == {j \in 1 .. Len(store) : store[j].project = "own"}
<1>1. PICK n : n = Len(store)
  OBVIOUS
<1>2. PICK k : k = run.known
  OBVIOUS
<1>3. i \in mine /\ i \in 1 .. n /\ i > k /\ n \in Nat /\ k \in Nat /\ n - k <= ListLimit /\ run.begun
  BY <1>1, <1>2 DEF HarnessBegun, HarnessOwnFilings, HarnessTyped
<1>4. {j \in mine : j > i} \subseteq i + 1 .. n
  BY <1>1, <1>3
<1> HIDE DEF mine
<1>5. IsFiniteSet(i + 1 .. n) /\ Cardinality(i + 1 .. n) = IF i + 1 > n THEN 0 ELSE n - (i + 1) + 1
  <2>1. i + 1 \in Int /\ n \in Int
    BY <1>3
  <2> QED BY <2>1, FS_Interval
<1> DEFINE after == Cardinality({j \in mine : j > i})
<1>6. after <= Cardinality(i + 1 .. n) /\ after \in Nat
  BY <1>4, <1>5, FS_Subset, FS_CardinalityType
<1>7. after < ListLimit
  <2> HIDE DEF after
  <2> QED BY <1>3, <1>5, <1>6
<1>8. i \in Harness!Listed
  BY <1>3, <1>7, HarnessCounts DEF Harness!Listed, mine
<1> QED BY <1>2, <1>3, <1>8 DEF Harness!New

(* On every way out, what is reported is no better than what the run knows.  *)
LEMMA HarnessFinishKeeps ==
  ASSUME ListLimit \in Nat, HarnessTyped, HarnessBegun, NEW exit, NEW stop, Harness!Finish(exit, stop),
         UNCHANGED store, truth'.filed = truth.filed,
         run.step = "ready" \/ run.step \in {"turn", "report"},
         exit = 0 /\ stop = "done" => truth'.done /\ truth'.saved,
         HarnessIsTruth(truth')
  PROVE  HarnessIInv'
<1>1. PICK r : r = [run EXCEPT !.step = "over"]
  OBVIOUS
<1>2. /\ HarnessIsRun(r) /\ r.step = "over" /\ r.scans = run.scans /\ r.known = run.known /\ run' = r
  BY <1>1 DEF Harness!Finish, HarnessTyped, HarnessIsRun
<1>3. HarnessTyped' /\ HarnessBegun'
  BY <1>2 DEF HarnessTyped, HarnessBegun, HarnessSteps
<1>4. Harness!StaysBelowCeilings'
  BY <1>2 DEF Harness!StaysBelowCeilings, Harness!InTurn
<1>5. PICK q : q = [exit |-> exit, ok |-> exit = 0 /\ stop = "done", stop |-> stop,
                    coverage |-> Harness!Collected, credited |-> Harness!New]
  OBVIOUS
<1>6. (q.ok <=> exit = 0 /\ stop = "done") /\ q.exit = exit /\ q.coverage = Harness!Collected /\ result' = q
  BY <1>5 DEF Harness!Finish
<1>7. Harness!OkMeansDone'
  BY <1>6 DEF Harness!OkMeansDone
<1>8. Harness!WeakestSpeaks'
  <2> DEFINE known == run.scans \cup {store[i].status : i \in truth.filed}
             statuses == run.scans \cup {store[i].status : i \in Harness!New}
  <2> SUFFICES ASSUME Len(store) - run.known <= ListLimit, known # {}
               PROVE  /\ Harness!Collected # {}
                      /\ \A s \in known, c \in Harness!Collected : Harness!CoverageRank(c) <= Harness!CoverageRank(s)
    BY <1>2, <1>6 DEF Harness!WeakestSpeaks
  <2>1. run.step \in {"turn", "report"}
    BY DEF HarnessBegun
  <2>2. known \subseteq statuses
    BY <2>1, HarnessOwnAreListed
  <2>3. statuses \subseteq Harness!Statuses
    <3>1. Harness!New \subseteq 1 .. Len(store)
      BY DEF Harness!New, Harness!Listed
    <3>2. ASSUME NEW j \in 1 .. Len(store) PROVE store[j].status \in Harness!Statuses
      <4> DEFINE Records == [project : {"own", "other"}, status : Harness!Statuses]
      <4>1. store \in Seq(Records)
        BY DEF HarnessTyped
      <4>2. \A x \in Records : x.status \in Harness!Statuses
        OBVIOUS
      <4> HIDE DEF Records
      <4>3. store[j] \in Records
        BY <4>1
      <4> QED BY <4>2, <4>3
    <3> QED BY <3>1, <3>2 DEF HarnessTyped
  <2>4. statuses # {} /\ Harness!Collected = {Harness!WeakestOf(statuses)}
    BY <2>2 DEF Harness!Collected
  <2> HIDE DEF statuses, known
  <2> QED BY <2>2, <2>3, <2>4, HarnessWeakest
<1> QED BY <1>3, <1>4, <1>7, <1>8 DEF HarnessIInv, Harness!RunIsHonest

(* A run that goes on reports nothing.                                       *)
LEMMA HarnessGoesOn ==
  ASSUME HarnessTyped', HarnessBegun', run'.step # "over", Harness!StaysBelowCeilings' PROVE HarnessIInv'
BY DEF HarnessIInv, Harness!RunIsHonest, Harness!OkMeansDone, Harness!WeakestSpeaks

LEMMA HarnessInitHolds == Harness!Init => HarnessIInv
<1> SUFFICES ASSUME Harness!Init PROVE HarnessIInv
  OBVIOUS
<1>1. HarnessTyped /\ HarnessBegun /\ run.step = "ready"
  BY DEF Harness!Init, HarnessTyped, HarnessBegun, HarnessIsRun, HarnessIsTruth, Harness!Ready,
     Harness!NoTruth, HarnessSteps
<1> QED BY <1>1 DEF HarnessIInv, Harness!RunIsHonest, Harness!OkMeansDone, Harness!WeakestSpeaks,
           Harness!StaysBelowCeilings, Harness!InTurn

LEMMA HarnessBelow ==
  ASSUME NEW mode \in Harness!Modes \cup {Harness!Nothing}, NEW ceiling \in Harness!Modes \cup {Harness!Nothing},
         ~(mode # Harness!Nothing /\ mode > ceiling)
  PROVE  Harness!Permission(mode, ceiling) <= ceiling
BY DEF Harness!Permission, Harness!Modes, Harness!Nothing, Harness!Plan, Harness!Auto,
   Harness!Bypass

LEMMA HarnessWithin ==
  ASSUME NEW asked \in 1 .. MaxAsked \cup {Harness!Nothing}, NEW cap \in 1 .. MaxAsked \cup {Harness!Nothing},
         ~(asked # Harness!Nothing /\ asked > cap)
  PROVE  Harness!Limit(asked, cap) <= cap
BY DEF Harness!Limit, Harness!Smaller, Harness!Nothing

LEMMA HarnessBeginKeeps ==
  ASSUME ListLimit \in Nat, HarnessIInv, NEW usable \in BOOLEAN, NEW unattended \in BOOLEAN, NEW report \in BOOLEAN,
         NEW served \in Harness!Modes \cup {Harness!Nothing}, NEW mode \in Harness!Modes \cup {Harness!Nothing}, NEW says \in Harness!Says,
         NEW asked \in 1 .. MaxAsked \cup {Harness!Nothing}, Harness!Begin(usable, unattended, says, served, mode, asked, report)
  PROVE  HarnessIInv'
<1>1. PICK ceiling : ceiling = Harness!Smaller(served, IF unattended THEN says.ceiling ELSE Harness!Nothing)
  OBVIOUS
<1>2. PICK cap : cap = IF unattended THEN says.cap ELSE Harness!Nothing
  OBVIOUS
<1>3. ceiling \in Harness!Modes \cup {Harness!Nothing} /\ cap \in 1 .. MaxAsked \cup {Harness!Nothing}
  <2>1. says.ceiling \in Harness!Modes \cup {Harness!Nothing} /\ says.cap \in 1 .. MaxAsked \cup {Harness!Nothing}
    BY DEF Harness!Says
  <2> QED BY <1>1, <1>2, <2>1 DEF Harness!Smaller
<1>4. PICK t : t = [Harness!NoTruth EXCEPT !.ceiling = ceiling, !.cap = cap]
  OBVIOUS
<1>5. HarnessIsTruth(t) /\ t.ceiling = ceiling /\ t.cap = cap /\ t.filed = {} /\ truth' = t /\ store' = store
        /\ run.step = "ready"
  BY <1>1, <1>2, <1>4 DEF Harness!Begin, Harness!NoTruth, HarnessIsTruth
<1>6. CASE Harness!Finish(2, "error") \/ Harness!Finish(3, "error")
  BY <1>5, <1>6, HarnessFinishKeeps DEF HarnessIInv, HarnessBegun
<1>7. CASE ~Harness!Finish(2, "error") /\ ~Harness!Finish(3, "error")
  <2>1. PICK perm : perm = Harness!Permission(mode, ceiling)
    OBVIOUS
  <2>2. PICK limit : limit = Harness!Limit(asked, cap)
    OBVIOUS
  <2>3. PICK known : known = Len(store)
    OBVIOUS
  <2>4. PICK r : r = [Harness!Ready EXCEPT !.step = "turn", !.perm = perm, !.limit = limit, !.report = report,
                                           !.known = known, !.begun = TRUE]
    OBVIOUS
  <2>5. HarnessIsRun(r) /\ r.step = "turn" /\ r.perm = perm /\ r.limit = limit /\ r.known = known /\ r.begun
          /\ r.scans = {}
    BY <2>4 DEF Harness!Ready, HarnessIsRun
  <2>6. ~(mode # Harness!Nothing /\ mode > ceiling) /\ ~(asked # Harness!Nothing /\ asked > cap) /\ run' = r
    BY <1>1, <1>2, <1>7, <2>1, <2>2, <2>3, <2>4 DEF Harness!Begin
  <2>7. perm <= ceiling /\ limit <= cap
    BY <1>3, <2>1, <2>2, <2>6, HarnessBelow, HarnessWithin
  <2>8. known \in 0 .. Len(store)
    BY <2>3 DEF HarnessIInv, HarnessTyped
  <2>9. HarnessTyped'
    BY <1>5, <2>5, <2>6, <2>8 DEF HarnessIInv, HarnessTyped, HarnessSteps
  <2>11. HarnessBegun'
    BY <1>5, <2>5, <2>6 DEF HarnessBegun, HarnessOwnFilings
  <2>10. Harness!StaysBelowCeilings'
    BY <1>5, <2>5, <2>6, <2>7 DEF Harness!StaysBelowCeilings
  <2> QED BY <2>5, <2>6, <2>9, <2>10, <2>11, HarnessGoesOn
<1> QED BY <1>6, <1>7

LEMMA HarnessScanKeeps == ASSUME HarnessIInv, NEW status, Harness!Scan(status) PROVE HarnessIInv'
<1>1. PICK r : r = [run EXCEPT !.scans = @ \cup ({status} \cap Harness!Statuses)]
  OBVIOUS
<1>2. /\ HarnessIsRun(r) /\ r.step = run.step /\ r.perm = run.perm /\ r.limit = run.limit /\ r.known = run.known
      /\ r.begun = run.begun /\ r.scans \subseteq Harness!Statuses /\ run' = r /\ run.step = "turn"
      /\ UNCHANGED <<store, truth>>
  BY <1>1 DEF Harness!Scan, Harness!InTurn, HarnessIInv, HarnessTyped, HarnessIsRun
<1>3. HarnessTyped' /\ HarnessBegun' /\ Harness!StaysBelowCeilings'
  BY <1>2 DEF HarnessIInv, HarnessTyped, HarnessBegun, HarnessOwnFilings, Harness!RunIsHonest,
     Harness!StaysBelowCeilings, Harness!InTurn
<1> QED BY <1>2, <1>3, HarnessGoesOn

LEMMA HarnessAbortKeeps == ASSUME HarnessIInv, NEW by, Harness!Abort(by) PROVE HarnessIInv'
<1>1. PICK r : r = [run EXCEPT !.aborts = @ \cup {by}]
  OBVIOUS
<1>2. /\ HarnessIsRun(r) /\ r.step = run.step /\ r.perm = run.perm /\ r.limit = run.limit /\ r.known = run.known
      /\ r.begun = run.begun /\ r.scans = run.scans /\ run' = r /\ run.step = "turn"
      /\ UNCHANGED <<store, truth>>
  BY <1>1 DEF Harness!Abort, Harness!InTurn, HarnessIInv, HarnessTyped, HarnessIsRun
<1>3. HarnessTyped' /\ HarnessBegun' /\ Harness!StaysBelowCeilings'
  BY <1>2 DEF HarnessIInv, HarnessTyped, HarnessBegun, HarnessOwnFilings, Harness!RunIsHonest,
     Harness!StaysBelowCeilings, Harness!InTurn
<1> QED BY <1>2, <1>3, HarnessGoesOn

(* Filing appends: what was filed before stays where it was.                 *)
LEMMA HarnessFiles ==
  ASSUME HarnessTyped, NEW project \in {"own", "other"}, NEW status \in Harness!Statuses, Harness!File(project, status)
  PROVE  /\ store' \in Seq([project : {"own", "other"}, status : Harness!Statuses])
         /\ Len(store') = Len(store) + 1 /\ store'[Len(store) + 1].project = project
         /\ \A i \in 1 .. Len(store) : store'[i] = store[i]
<1>1. PICK x \in [project : {"own", "other"}, status : Harness!Statuses] : x.project = project /\ store' = Append(store, x)
  BY DEF Harness!File
<1> QED BY <1>1 DEF HarnessTyped

LEMMA HarnessFileOwnKeeps ==
  ASSUME HarnessIInv, NEW status \in Harness!Statuses, Harness!FileOwn(status)
  PROVE  HarnessIInv'
<1>1. PICK n : n = Len(store) + 1
  OBVIOUS
<1>2. PICK t : t = [truth EXCEPT !.filed = @ \cup {n}]
  OBVIOUS
<1>3. /\ HarnessIsTruth(t) /\ t.filed = truth.filed \cup {n} /\ t.ceiling = truth.ceiling /\ t.cap = truth.cap
      /\ t.done = truth.done /\ truth' = t
  BY <1>1, <1>2 DEF Harness!FileOwn, HarnessIInv, HarnessTyped, HarnessIsTruth
<1>4. /\ store' \in Seq([project : {"own", "other"}, status : Harness!Statuses])
      /\ Len(store') = n /\ store'[n].project = "own" /\ \A i \in 1 .. Len(store) : store'[i] = store[i]
  BY <1>1, HarnessFiles DEF Harness!FileOwn, HarnessIInv
<1>5. run' = run /\ run.step = "turn"
  BY DEF Harness!FileOwn, Harness!File, Harness!InTurn
<1>6. HarnessTyped'
  <2>1. run.known \in 0 .. n
    BY <1>1 DEF HarnessIInv, HarnessTyped
  <2> QED BY <1>3, <1>4, <1>5, <2>1 DEF HarnessIInv, HarnessTyped
<1>7. HarnessOwnFilings(truth', run', store')
  <2>1. Len(store) \in Nat /\ run.known \in Nat /\ run.known <= Len(store)
    BY DEF HarnessIInv, HarnessTyped
  <2> QED BY <1>1, <1>3, <1>4, <1>5, <2>1 DEF HarnessIInv, HarnessBegun, HarnessOwnFilings
<1>8. HarnessBegun' /\ Harness!StaysBelowCeilings'
  BY <1>3, <1>5, <1>7 DEF HarnessIInv, HarnessBegun, Harness!RunIsHonest,
     Harness!StaysBelowCeilings, Harness!InTurn
<1> QED BY <1>5, <1>6, <1>8, HarnessGoesOn

LEMMA HarnessFileElsewhereKeeps ==
  ASSUME HarnessIInv, NEW project \in {"own", "other"}, Harness!FileElsewhere(project)
  PROVE  HarnessIInv'
<1>1. run' = run /\ run.step \in {"ready", "turn"} /\ truth' = truth
  BY DEF Harness!FileElsewhere, Harness!File
<1>2. /\ store' \in Seq([project : {"own", "other"}, status : Harness!Statuses])
      /\ Len(store') = Len(store) + 1 /\ \A i \in 1 .. Len(store) : store'[i] = store[i]
  BY HarnessFiles DEF Harness!FileElsewhere, HarnessIInv, Harness!Statuses
<1>3. HarnessOwnFilings(truth, run, store) => HarnessOwnFilings(truth', run', store')
  <2>1. Len(store) \in Nat
    BY DEF HarnessIInv, HarnessTyped
  <2> QED BY <1>1, <1>2, <2>1 DEF HarnessOwnFilings
<1>4. HarnessTyped' /\ HarnessBegun' /\ Harness!StaysBelowCeilings'
  BY <1>1, <1>2, <1>3 DEF HarnessIInv, HarnessTyped, HarnessBegun, Harness!RunIsHonest,
     Harness!StaysBelowCeilings, Harness!InTurn
<1> QED BY <1>1, <1>4, HarnessGoesOn

LEMMA HarnessReturnKeeps == ASSUME HarnessIInv, NEW stop, Harness!Return(stop) PROVE HarnessIInv'
<1>1. PICK r : r = [run EXCEPT !.step = "report", !.stop = stop]
  OBVIOUS
<1>2. /\ HarnessIsRun(r) /\ r.step = "report" /\ r.known = run.known /\ r.stop = stop
      /\ r.begun = run.begun /\ r.scans = run.scans /\ run' = r /\ run.step = "turn" /\ store' = store
  BY <1>1 DEF Harness!Return, Harness!InTurn, HarnessIInv, HarnessTyped, HarnessIsRun
<1>3. PICK t : t = [truth EXCEPT !.done = stop = "done"]
  OBVIOUS
<1>4. HarnessIsTruth(t) /\ t.filed = truth.filed /\ (t.done <=> stop = "done") /\ truth' = t
  BY <1>3 DEF Harness!Return, HarnessIInv, HarnessTyped, HarnessIsTruth
<1>5. HarnessTyped' /\ HarnessBegun' /\ Harness!StaysBelowCeilings'
  BY <1>2, <1>4 DEF HarnessIInv, HarnessTyped, HarnessBegun, HarnessOwnFilings,
     Harness!StaysBelowCeilings, Harness!InTurn, HarnessSteps
<1> QED BY <1>2, <1>5, HarnessGoesOn

LEMMA HarnessThrowKeeps ==
  ASSUME ListLimit \in Nat, HarnessIInv, NEW violation, Harness!Throw(violation)
  PROVE  HarnessIInv'
<1>1. PICK exit, stop : Harness!Finish(exit, stop) /\ exit # 0
  BY DEF Harness!Throw, Harness!Fail
<1> QED BY <1>1, HarnessFinishKeeps DEF Harness!Throw, Harness!InTurn, HarnessIInv, HarnessTyped

LEMMA HarnessReportKeeps ==
  ASSUME ListLimit \in Nat, HarnessIInv, NEW written, Harness!Report(written)
  PROVE  HarnessIInv'
<1>1. PICK t : t = [truth EXCEPT !.saved = written]
  OBVIOUS
<1>2. HarnessIsTruth(t) /\ t.filed = truth.filed /\ t.done = truth.done /\ t.saved = written /\ truth' = t
  BY <1>1 DEF Harness!Report, HarnessIInv, HarnessTyped, HarnessIsTruth
<1>3. CASE written
  BY <1>2, <1>3, HarnessFinishKeeps DEF Harness!Report, HarnessIInv, HarnessBegun
<1>4. CASE ~written
  <2>1. PICK exit, stop : Harness!Finish(exit, stop) /\ exit # 0
    BY <1>4 DEF Harness!Report, Harness!Fail
  <2> QED BY <1>2, <2>1, HarnessFinishKeeps DEF Harness!Report, HarnessIInv
<1> QED BY <1>3, <1>4

LEMMA HarnessNextKeeps ==
  ASSUME ListLimit \in Nat
  PROVE  HarnessIInv /\ [Harness!Next]_Harness!vars => HarnessIInv'
<1> SUFFICES ASSUME HarnessIInv, [Harness!Next]_Harness!vars PROVE HarnessIInv'
  OBVIOUS
<1>1. CASE Harness!Again
  <2>1. HarnessTyped' /\ HarnessBegun' /\ run'.step = "ready"
    BY <1>1 DEF Harness!Again, HarnessIInv, HarnessTyped, HarnessBegun, HarnessIsRun,
       HarnessIsTruth, Harness!Ready, Harness!NoTruth, HarnessSteps
  <2> QED BY <2>1, HarnessGoesOn DEF Harness!StaysBelowCeilings, Harness!InTurn
<1>2. CASE UNCHANGED Harness!vars
  <2>1. HarnessTyped' /\ HarnessBegun' /\ Harness!StaysBelowCeilings' /\ Harness!OkMeansDone'
    BY <1>2 DEF Harness!vars, HarnessIInv, HarnessTyped, HarnessBegun, HarnessOwnFilings,
       Harness!RunIsHonest, Harness!StaysBelowCeilings, Harness!InTurn, Harness!OkMeansDone
  <2>2. UNCHANGED <<run, store, result, truth>> /\ Harness!WeakestSpeaks
    BY <1>2 DEF Harness!vars, HarnessIInv, Harness!RunIsHonest
  <2>3. HarnessSpeaks(run, store, truth, result) <=> Harness!WeakestSpeaks
    BY DEF Harness!WeakestSpeaks, HarnessSpeaks
  <2>4. HarnessSpeaks(run', store', truth', result') <=> Harness!WeakestSpeaks'
    BY DEF Harness!WeakestSpeaks, HarnessSpeaks
  <2>5. Harness!WeakestSpeaks'
    BY <2>2, <2>3, <2>4
  <2> QED BY <2>1, <2>5 DEF HarnessIInv, Harness!RunIsHonest
<1> QED BY <1>1, <1>2, HarnessBeginKeeps, HarnessScanKeeps, HarnessFileOwnKeeps,
           HarnessFileElsewhereKeeps, HarnessAbortKeeps, HarnessReturnKeeps,
           HarnessThrowKeeps, HarnessReportKeeps DEF Harness!Next

-----------------------------------------------------------------------------
(* Undoing calls of the file tools (FileTools).                              *)

UndoStates == {Undo!Absent} \cup {Undo!Holds(text) : text \in Seq(Pieces)}
UndoDisks == [Files -> UndoStates]

(* A function with one value replaced.                                       *)
UndoPut(d, x, v) == [d EXCEPT ![x] = v]

(* A text with one piece replaced, as an edit puts it together; the only     *)
(* place of a piece; an edit of one piece.                                   *)
UndoSpliced(text, i, t) == SubSeq(text, 1, i - 1) \o <<t>> \o SubSeq(text, i + 1, Len(text))
UndoOnly(text, t, i) == Undo!Places(text, t) = {i}
UndoEditOne(d, f, t, u) == Undo!Edited(d, f, <<t>>, <<u>>)

UndoOp(tool, f, old, new) == [tool |-> tool, file |-> f, old |-> old, new |-> new]

(* The call of an entry, run on the files `before`, succeeded and left them  *)
(* as they are `after`; the entry knows what its file was.                   *)
UndoUndoable(e, before, after) ==
  /\ e.input \in Undo!Inputs /\ before \in UndoDisks
  /\ e.was = before[e.input.file]
  /\ Undo!Does(before, e.input).ok /\ after = Undo!Does(before, e.input).disk

(* Sizes are counted the same way in the module and here.                    *)
LEMMA UndoCounts == ASSUME NEW S PROVE Undo!Cardinality(S) = Cardinality(S)
BY DEF Undo!Cardinality, Cardinality

-----------------------------------------------------------------------------
LEMMA UndoJoined ==
  ASSUME NEW S, NEW l \in Seq(S), NEW r \in Seq(S)
  PROVE  l \o r \in Seq(S) /\ Len(l \o r) = Len(l) + Len(r)
OBVIOUS

LEMMA UndoJoinedAt ==
  ASSUME NEW S, NEW l \in Seq(S), NEW r \in Seq(S), NEW k \in 1 .. Len(l) + Len(r)
  PROVE  (l \o r)[k] = IF k <= Len(l) THEN l[k] ELSE r[k - Len(l)]
OBVIOUS

(* Replacing a piece.                                                        *)
LEMMA UndoReplacing ==
  ASSUME NEW S, NEW text \in Seq(S), NEW i \in 1 .. Len(text), NEW t \in S,
         NEW x, x = UndoPut(text, i, t)
  PROVE  UndoSpliced(text, i, t) = x
<1> DEFINE l == SubSeq(text, 1, i - 1)
           r == SubSeq(text, i + 1, Len(text))
<1>1. l \in Seq(S) /\ Len(l) = i - 1 /\ \A k \in 1 .. i - 1 : l[k] = text[k]
  OBVIOUS
<1>2. r \in Seq(S) /\ Len(r) = Len(text) - i /\ \A k \in 1 .. Len(text) - i : r[k] = text[k + i]
  OBVIOUS
<1> HIDE DEF l, r
<1>3. PICK m : m = l \o <<t>>
  OBVIOUS
<1>4. m \in Seq(S) /\ Len(m) = i /\ m[i] = t /\ \A k \in 1 .. i - 1 : m[k] = text[k]
  BY <1>1, <1>3
<1>5. PICK w : w = m \o r
  OBVIOUS
<1>6. w \in Seq(S) /\ Len(w) = Len(text) /\ (\A k \in 1 .. i : w[k] = m[k])
        /\ \A k \in i + 1 .. Len(text) : w[k] = text[k]
  <2>7. m \in Seq(S) /\ r \in Seq(S)
    BY <1>2, <1>4
  <2>6. w \in Seq(S) /\ Len(w) = Len(m) + Len(r)
    BY <1>5, <2>7, UndoJoined
  <2>1. \A k \in 1 .. Len(m) + Len(r) : w[k] = IF k <= Len(m) THEN m[k] ELSE r[k - Len(m)]
    BY <1>5, <2>7, UndoJoinedAt
  <2>2. PICK n \in Nat : n = Len(text)
    OBVIOUS
  <2>3. i \in 1 .. n /\ Len(m) = i /\ Len(r) = n - i /\ Len(w) = n
    BY <1>2, <1>4, <2>2, <2>6
  <2>4. \A k \in 1 .. i : w[k] = m[k]
    BY <2>1, <2>3
  <2>5. ASSUME NEW k \in i + 1 .. n PROVE w[k] = text[k]
    <3>1. k \in 1 .. n /\ ~(k <= i) /\ k - i \in 1 .. n - i /\ (k - i) + i = k
      BY <2>3
    <3>2. w[k] = r[k - i]
      BY <2>1, <2>3, <3>1
    <3> QED BY <1>2, <2>2, <3>1, <3>2
  <2> QED BY <2>2, <2>3, <2>4, <2>5, <2>6
<1>8. x \in Seq(S) /\ Len(x) = Len(text) /\ x[i] = t /\ \A k \in 1 .. Len(text) : k # i => x[k] = text[k]
  BY DEF UndoPut
<1>9. \A k \in 1 .. Len(text) : w[k] = x[k]
  BY <1>4, <1>6, <1>8
<1>10. w = x
  BY <1>6, <1>8, <1>9
<1> QED BY <1>3, <1>5, <1>10 DEF l, r, UndoSpliced

LEMMA UndoPutBack ==
  ASSUME NEW D, NEW d, d = [a \in D |-> d[a]], NEW f \in D, NEW x
  PROVE  UndoPut(UndoPut(d, f, x), f, d[f]) = d
BY DEF UndoPut

LEMMA UndoOncePlace ==
  ASSUME NEW text \in Seq(Pieces), NEW piece
  PROVE  Cardinality(Undo!Places(text, piece)) = 1 <=> \E i \in 1 .. Len(text) : Undo!Places(text, piece) = {i}
<1>1. IsFiniteSet(1 .. Len(text))
  BY FS_Interval
<1>2. Undo!Places(text, piece) \subseteq 1 .. Len(text)
  BY DEF Undo!Places
<1>3. IsFiniteSet(Undo!Places(text, piece))
  BY <1>1, <1>2, FS_Subset
<1> QED BY <1>2, <1>3, FS_Singleton

(* An edit fails, or puts one piece in the place of another.                 *)
LEMMA UndoEditIs ==
  ASSUME NEW d \in UndoDisks, NEW f \in Files, NEW t \in Pieces, NEW u \in Pieces,
         NEW made, made = UndoEditOne(d, f, t, u)
  PROVE  \/ made = Undo!Fails(d)
         \/ \E text \in Seq(Pieces) : \E i \in 1 .. Len(text) :
              /\ d[f] = Undo!Holds(text) /\ UndoOnly(text, t, i)
              /\ made = Undo!Wrote(d, f, UndoPut(text, i, u))
<1>1. CASE ~d[f].exists \/ Cardinality(Undo!Places(d[f].text, t)) # 1
  BY <1>1, UndoCounts DEF Undo!Edited, UndoEditOne
<1>2. CASE d[f].exists /\ Cardinality(Undo!Places(d[f].text, t)) = 1
  <2>1. PICK text \in Seq(Pieces) : d[f] = Undo!Holds(text) /\ d[f].text = text
    BY <1>2 DEF UndoDisks, UndoStates, Undo!Absent, Undo!Holds
  <2>2. PICK i \in 1 .. Len(text) : UndoOnly(text, t, i)
    BY <1>2, <2>1, UndoOncePlace DEF UndoOnly
  <2>3. (CHOOSE j \in Undo!Places(text, t) : TRUE) = i
    BY <2>2 DEF UndoOnly
  <2>4. made = Undo!Wrote(d, f, UndoSpliced(text, i, u))
    BY <1>2, <2>1, <2>3, UndoCounts DEF Undo!Edited, UndoEditOne, UndoSpliced
  <2>5. PICK w : w = UndoPut(text, i, u)
    OBVIOUS
  <2>6. UndoSpliced(text, i, u) = w
    BY <2>1, <2>2, <2>5, UndoReplacing
  <2>7. made = Undo!Wrote(d, f, w)
    BY <2>4, <2>6
  <2> QED BY <2>1, <2>2, <2>5, <2>7
<1> QED BY <1>1, <1>2

LEMMA UndoWroteIs ==
  ASSUME NEW d, NEW f, NEW text, NEW made, made = Undo!Wrote(d, f, text)
  PROVE  made.ok /\ made.disk = UndoPut(d, f, Undo!Holds(text))
BY DEF Undo!Wrote, UndoPut

LEMMA UndoFailsIs == ASSUME NEW d, NEW made, made = Undo!Fails(d) PROVE ~made.ok /\ made.disk = d
BY DEF Undo!Fails

(* Putting the new piece in, then the old one back.                          *)
LEMMA UndoEditsUndo ==
  ASSUME NEW d \in UndoDisks, NEW f \in Files, NEW t \in Pieces, NEW u \in Pieces,
         NEW first, first = UndoEditOne(d, f, t, u), first.ok, NEW after, after = first.disk,
         NEW made, made = UndoEditOne(after, f, u, t)
  PROVE  (made.ok => made.disk = d) /\ (~made.ok => made.disk = after)
<1>1. PICK text \in Seq(Pieces) : \E i \in 1 .. Len(text) :
        d[f] = Undo!Holds(text) /\ UndoOnly(text, t, i) /\ first = Undo!Wrote(d, f, UndoPut(text, i, u))
  <2>1. first # Undo!Fails(d)
    BY UndoFailsIs
  <2> QED BY <2>1, UndoEditIs
<1>2. PICK i \in 1 .. Len(text) :
        d[f] = Undo!Holds(text) /\ UndoOnly(text, t, i) /\ first = Undo!Wrote(d, f, UndoPut(text, i, u))
  BY <1>1
<1>3. PICK new : new = UndoPut(text, i, u)
  OBVIOUS
<1>4. new \in Seq(Pieces) /\ new[i] = u /\ Len(new) = Len(text) /\ text[i] = t
  BY <1>1, <1>2, <1>3 DEF Undo!Places, UndoPut, UndoOnly
<1>5. after = UndoPut(d, f, Undo!Holds(new))
  BY <1>2, <1>3, UndoWroteIs
<1>6. after \in UndoDisks /\ after[f] = Undo!Holds(new)
  <2>1. Undo!Holds(new) \in UndoStates
    BY <1>4 DEF UndoStates
  <2> QED BY <1>5, <2>1 DEF UndoDisks, UndoPut
<1>7. CASE made = Undo!Fails(after)
  BY <1>7, UndoFailsIs
<1>8. CASE made # Undo!Fails(after)
  <2>1. PICK other \in Seq(Pieces) : \E j \in 1 .. Len(other) :
          after[f] = Undo!Holds(other) /\ UndoOnly(other, u, j) /\ made = Undo!Wrote(after, f, UndoPut(other, j, t))
    BY <1>6, <1>8, UndoEditIs
  <2>2. other = new
    BY <1>6, <2>1 DEF Undo!Holds
  <2>3. PICK j \in 1 .. Len(new) : UndoOnly(new, u, j) /\ made = Undo!Wrote(after, f, UndoPut(new, j, t))
    BY <2>1, <2>2
  <2>4. j = i
    <3>1. i \in Undo!Places(new, u)
      BY <1>2, <1>4 DEF Undo!Places
    <3> QED BY <2>3, <3>1 DEF UndoOnly
  <2>5. UndoPut(new, i, t) = text
    <3>1. text = [k \in 1 .. Len(text) |-> text[k]] /\ t = text[i]
      BY <1>1, <1>4
    <3> QED BY <1>2, <1>3, <3>1, UndoPutBack
  <2>6. made = Undo!Wrote(after, f, text)
    BY <2>3, <2>4, <2>5
  <2>7. made.ok /\ made.disk = UndoPut(after, f, d[f])
    BY <1>2, <2>6, UndoWroteIs
  <2>8. made.disk = d
    BY <1>5, <2>7, UndoPutBack DEF UndoDisks
  <2> QED BY <2>7, <2>8
<1> QED BY <1>7, <1>8

LEMMA UndoInputIs ==
  ASSUME NEW c \in Undo!Inputs
  PROVE  /\ \E f \in Files, old, new \in Undo!Contents : c = UndoOp(c.tool, f, old, new)
         /\ c.tool \in {"write_file", "edit_file", "delete_file"}
         /\ c.tool = "edit_file" => /\ \E t \in Pieces : c.old = <<t>>
                                    /\ c.new = Undo!Empty \/ \E u \in Pieces : c.new = <<u>>
<1>1. \A t \in Pieces : <<t>> \in Undo!Contents
  BY DEF Undo!Contents
<1>2. Undo!Empty \in Undo!Contents
  BY DEF Undo!Contents
<1>3. CASE c \in [tool : {"write_file"}, file : Files, old : {Undo!Empty}, new : Undo!Contents]
  BY <1>2, <1>3 DEF UndoOp
<1>4. CASE c \in [tool : {"edit_file"}, file : Files, old : {<<t>> : t \in Pieces},
                  new : {Undo!Empty} \cup {<<t>> : t \in Pieces}]
  BY <1>1, <1>2, <1>4 DEF UndoOp
<1>5. CASE c \in [tool : {"delete_file"}, file : Files, old : {Undo!Empty}, new : {Undo!Empty}]
  BY <1>2, <1>5 DEF UndoOp
<1> QED BY <1>3, <1>4, <1>5 DEF Undo!Inputs

(* A reverse operation that succeeds restores the files before the call; one *)
(* that fails leaves them.                                                   *)
LEMMA UndoReversal ==
  ASSUME NEW e, NEW before, NEW after, UndoUndoable(e, before, after), e.input.tool # "delete_file",
         NEW made, made = Undo!Does(after, Undo!ReverseOp(e))
  PROVE  (made.ok => made.disk = before) /\ (~made.ok => made.disk = after)
<1>1. PICK c : c = e.input
  OBVIOUS
<1>2. PICK f \in Files, old, new \in Undo!Contents : c = UndoOp(c.tool, f, old, new)
  BY <1>1, UndoInputIs DEF UndoUndoable
<1>3. c.file = f /\ c.old = old /\ c.new = new
  BY <1>2 DEF UndoOp
<1>4. CASE c.tool = "edit_file"
  <2>1. PICK r : r = [c EXCEPT !.old = c.new, !.new = c.old]
    OBVIOUS
  <2>2. r = UndoOp("edit_file", f, new, old)
    BY <1>2, <1>3, <1>4, <2>1 DEF UndoOp
  <2>3. Undo!ReverseOp(e) = r
    BY <1>1, <1>4, <2>1 DEF Undo!ReverseOp
  <2>4. made = Undo!Edited(after, f, new, old)
    BY <2>2, <2>3 DEF Undo!Does, UndoOp
  <2>5. PICK t \in Pieces : old = <<t>>
    BY <1>1, <1>3, <1>4, UndoInputIs DEF UndoUndoable
  <2>6. PICK first : first = Undo!Edited(before, f, old, new) /\ first.ok /\ after = first.disk
    BY <1>1, <1>3, <1>4 DEF UndoUndoable, Undo!Does
  <2>7. CASE new = Undo!Empty
    BY <2>4, <2>7 DEF Undo!Edited, Undo!Fails, Undo!Empty
  <2>8. CASE new # Undo!Empty
    <3>1. PICK u \in Pieces : new = <<u>>
      BY <1>1, <1>3, <1>4, <2>8, UndoInputIs DEF UndoUndoable
    <3> QED BY <2>4, <2>5, <2>6, <3>1, UndoEditsUndo DEF UndoUndoable, UndoEditOne
  <2> QED BY <2>7, <2>8
<1>5. CASE c.tool = "write_file"
  <2>1. after = UndoPut(before, f, Undo!Holds(new)) /\ e.was = before[f] /\ before \in UndoDisks
    BY <1>1, <1>3, <1>5 DEF UndoUndoable, Undo!Does, Undo!Wrote, UndoPut
  <2>2. CASE e.was.exists
    <3>1. PICK r : r = [c EXCEPT !.new = e.was.text]
      OBVIOUS
    <3>2. PICK text : text = e.was.text
      OBVIOUS
    <3>3. r = UndoOp("write_file", f, old, text)
      BY <1>2, <1>5, <3>1, <3>2 DEF UndoOp
    <3>4. Undo!ReverseOp(e) = r
      BY <1>1, <1>5, <2>2, <3>1 DEF Undo!ReverseOp
    <3>5. made = Undo!Wrote(after, f, text)
      BY <3>3, <3>4 DEF Undo!Does, UndoOp
    <3>6. before[f] = Undo!Holds(text)
      BY <2>1, <2>2, <3>2 DEF UndoDisks, UndoStates, Undo!Absent, Undo!Holds
    <3>7. made.ok /\ made.disk = UndoPut(after, f, before[f])
      BY <3>5, <3>6 DEF Undo!Wrote, UndoPut
    <3>8. made.disk = before
      BY <2>1, <3>7, UndoPutBack DEF UndoDisks
    <3> QED BY <3>7, <3>8
  <2>3. CASE ~e.was.exists
    <3>1. PICK r : r = [c EXCEPT !.tool = "delete_file", !.new = Undo!Empty]
      OBVIOUS
    <3>2. r.tool = "delete_file" /\ r.file = f
      BY <1>2, <3>1 DEF UndoOp
    <3>3. Undo!ReverseOp(e) = r
      BY <1>1, <1>5, <2>3, <3>1 DEF Undo!ReverseOp
    <3>4. made = Undo!Deleted(after, f)
      BY <3>2, <3>3 DEF Undo!Does
    <3>5. before[f] = Undo!Absent /\ after[f].exists
      BY <2>1, <2>3 DEF UndoDisks, UndoStates, Undo!Absent, Undo!Holds, UndoPut
    <3>6. made.ok /\ made.disk = UndoPut(after, f, before[f])
      BY <3>4, <3>5 DEF Undo!Deleted, UndoPut
    <3>7. made.disk = before
      BY <2>1, <3>6, UndoPutBack DEF UndoDisks
    <3> QED BY <3>6, <3>7
  <2> QED BY <2>2, <2>3
<1> QED BY <1>1, <1>4, <1>5, UndoInputIs DEF UndoUndoable

-----------------------------------------------------------------------------
(* Whatever is run leaves files.                                             *)
UndoAnOp(c) ==
  /\ c.tool \in {"write_file", "edit_file", "delete_file"}
  /\ \E f \in Files, old, new \in Seq(Pieces) : c = UndoOp(c.tool, f, old, new)

LEMMA UndoPutKeeps ==
  ASSUME NEW d \in UndoDisks, NEW f \in Files, NEW s \in UndoStates
  PROVE  UndoPut(d, f, s) \in UndoDisks
BY DEF UndoDisks, UndoPut

LEMMA UndoDoesTyped ==
  ASSUME NEW d \in UndoDisks, NEW c, UndoAnOp(c), NEW made, made = Undo!Does(d, c) PROVE made.disk \in UndoDisks
<1>1. PICK f \in Files, old, new \in Seq(Pieces) : c = UndoOp(c.tool, f, old, new)
  BY DEF UndoAnOp
<1>2. c.file = f /\ c.old = old /\ c.new = new
  BY <1>1 DEF UndoOp
<1>3. ASSUME NEW text \in Seq(Pieces), made = Undo!Wrote(d, f, text) PROVE made.disk \in UndoDisks
  <2>1. Undo!Holds(text) \in UndoStates
    BY DEF UndoStates
  <2> QED BY <1>3, <2>1, UndoWroteIs, UndoPutKeeps
<1>4. CASE c.tool = "write_file"
  BY <1>2, <1>3, <1>4 DEF Undo!Does
<1>5. CASE c.tool = "delete_file"
  <2>1. made = Undo!Deleted(d, f)
    BY <1>2, <1>5 DEF Undo!Does
  <2>2. Undo!Absent \in UndoStates
    BY DEF UndoStates
  <2>3. made.disk = d \/ made.disk = UndoPut(d, f, Undo!Absent)
    BY <2>1 DEF Undo!Deleted, Undo!Fails, UndoPut
  <2> QED BY <2>2, <2>3, UndoPutKeeps
<1>6. CASE c.tool = "edit_file"
  <2>1. made = Undo!Edited(d, f, old, new)
    BY <1>2, <1>6 DEF Undo!Does
  <2>2. CASE made = Undo!Fails(d)
    BY <2>2, UndoFailsIs
  <2>3. CASE made # Undo!Fails(d)
    <3>1. d[f].exists /\ Cardinality(Undo!Places(d[f].text, old[1])) = 1
      BY <2>1, <2>3, UndoCounts DEF Undo!Edited
    <3>2. PICK text \in Seq(Pieces) : d[f].text = text
      BY <3>1 DEF UndoDisks, UndoStates, Undo!Absent, Undo!Holds
    <3>3. PICK i \in 1 .. Len(text) : Undo!Places(text, old[1]) = {i}
      BY <3>1, <3>2, UndoOncePlace
    <3>4. (CHOOSE j \in Undo!Places(text, old[1]) : TRUE) = i
      BY <3>3
    <3>5. PICK w : w = SubSeq(text, 1, i - 1) \o new \o SubSeq(text, i + 1, Len(text))
      OBVIOUS
    <3>6. made = Undo!Wrote(d, f, w)
      BY <2>1, <2>3, <3>1, <3>2, <3>4, <3>5 DEF Undo!Edited
    <3>7. w \in Seq(Pieces)
      BY <1>1, <3>2, <3>3, <3>5
    <3> QED BY <1>3, <3>6, <3>7
  <2> QED BY <2>2, <2>3
<1> QED BY <1>4, <1>5, <1>6 DEF UndoAnOp

LEMMA UndoTextOf == Undo!Contents \subseteq Seq(Pieces)
<1> SUFFICES ASSUME NEW c \in Undo!Contents PROVE c \in Seq(Pieces)
  OBVIOUS
<1>1. CASE c = Undo!Empty
  BY <1>1 DEF Undo!Empty
<1>2. CASE c # Undo!Empty
  <2>1. (\E t \in Pieces : c = <<t>>) \/ (\E t, u \in Pieces : c = <<t, u>>)
    BY <1>2 DEF Undo!Contents
  <2>2. ASSUME NEW t \in Pieces, c = <<t>> PROVE c \in Seq(Pieces)
    BY <2>2
  <2>3. ASSUME NEW t \in Pieces, NEW u \in Pieces, c = <<t, u>> PROVE c \in Seq(Pieces)
    BY <2>3
  <2> QED BY <2>1, <2>2, <2>3
<1> QED BY <1>1, <1>2

LEMMA UndoInputIsOp == ASSUME NEW c \in Undo!Inputs PROVE UndoAnOp(c)
BY UndoInputIs, UndoTextOf DEF UndoAnOp

UndoTurned(c, none) == [c EXCEPT !.tool = "delete_file", !.new = none]

LEMMA UndoMadeDelete ==
  ASSUME NEW tool, NEW f, NEW old, NEW new, NEW none, NEW c, c = UndoOp(tool, f, old, new),
         NEW r, r = UndoTurned(c, none)
  PROVE  r = UndoOp("delete_file", f, old, none)
BY DEF UndoOp, UndoTurned

LEMMA UndoReverseIsOp ==
  ASSUME NEW e, e.input \in Undo!Inputs, e.was \in UndoStates, e.input.tool # "delete_file" PROVE UndoAnOp(Undo!ReverseOp(e))
<1>1. PICK c : c = e.input
  OBVIOUS
<1>2. PICK f \in Files, old, new \in Seq(Pieces) : c = UndoOp(c.tool, f, old, new)
  BY <1>1, UndoInputIs, UndoTextOf
<1>3. c.file = f /\ c.old = old /\ c.new = new
  BY <1>2 DEF UndoOp
<1>4. CASE c.tool = "edit_file"
  <2>1. PICK r : r = [c EXCEPT !.old = c.new, !.new = c.old]
    OBVIOUS
  <2>2. r = UndoOp("edit_file", f, new, old) /\ r.tool = "edit_file"
    BY <1>2, <1>3, <1>4, <2>1 DEF UndoOp
  <2>3. Undo!ReverseOp(e) = r
    BY <1>1, <1>4, <2>1 DEF Undo!ReverseOp
  <2> QED BY <1>2, <2>2, <2>3 DEF UndoAnOp
<1>5. CASE c.tool = "write_file" /\ e.was.exists
  <2>1. PICK text \in Seq(Pieces) : e.was.text = text
    BY <1>5 DEF UndoStates, Undo!Absent, Undo!Holds
  <2>2. PICK r : r = [c EXCEPT !.new = text]
    OBVIOUS
  <2>3. r = UndoOp("write_file", f, old, text) /\ r.tool = "write_file"
    BY <1>2, <1>5, <2>2 DEF UndoOp
  <2>4. Undo!ReverseOp(e) = r
    BY <1>1, <1>5, <2>1, <2>2 DEF Undo!ReverseOp
  <2> QED BY <1>2, <2>1, <2>3, <2>4 DEF UndoAnOp
<1>6. CASE c.tool = "write_file" /\ ~e.was.exists
  <2>0. PICK none : none = Undo!Empty
    OBVIOUS
  <2>1. PICK r : r = UndoTurned(c, none)
    OBVIOUS
  <2>7. PICK tool : tool = c.tool
    OBVIOUS
  <2>6. c = UndoOp(tool, f, old, new)
    BY <1>2, <2>7
  <2>2. r = UndoOp("delete_file", f, old, none)
    BY <2>1, <2>6, UndoMadeDelete
  <2>5. r.tool = "delete_file"
    BY <2>2 DEF UndoOp
  <2>3. Undo!ReverseOp(e) = r
    BY <1>1, <1>6, <2>0, <2>1 DEF Undo!ReverseOp, UndoTurned
  <2>4. none \in Seq(Pieces)
    BY <2>0 DEF Undo!Empty
  <2> QED BY <1>2, <2>2, <2>3, <2>4, <2>5 DEF UndoAnOp
<1> QED BY <1>1, <1>4, <1>5, <1>6, UndoInputIs

-----------------------------------------------------------------------------
UndoEntries == [input : Undo!Inputs, was : UndoStates]
UndoPastOf(d, b) == [disk |-> d, clean |-> b]
UndoPasts == {UndoPastOf(d, TRUE) : d \in UndoDisks} \cup {UndoPastOf(d, FALSE) : d \in UndoDisks}

UndoIsUndone(u) ==
  u = [asked |-> u.asked, before |-> u.before, goal |-> u.goal, ok |-> u.ok, touched |-> u.touched]

UndoTyped ==
  /\ disk \in UndoDisks /\ stack \in Seq(UndoEntries) /\ past \in Seq(UndoPasts) /\ Len(past) = Len(stack)
  /\ undoing \in Seq(UndoEntries) /\ UndoIsUndone(undone)

(* Where the last call of the stack leads: the files, or where an undo under *)
(* way wants to go; and where each leads, when all since can be undone.      *)
UndoTop == IF undoing = <<>> THEN disk ELSE undone.goal
UndoLeads(i) == IF i = Len(stack) THEN UndoTop ELSE past[i + 1].disk
UndoChain == \A i \in 1 .. Len(stack) : past[i].clean => UndoUndoable(stack[i], past[i].disk, UndoLeads(i))

(* An undo of one call, before its only step.                                *)
UndoLastStep ==
  undoing # <<>> /\ undone.asked = 1 /\ ~undone.touched =>
    /\ Len(undoing) = 1 /\ undone.ok /\ disk = undone.before
    /\ UndoUndoable(undoing[1], undone.goal, disk)

UndoIInv == UndoTyped /\ UndoChain /\ UndoLastStep /\ Undo!UndoOneRestores

LEMMA UndoPastIs ==
  ASSUME NEW p \in UndoPasts PROVE \E d \in UndoDisks : \E b \in {TRUE, FALSE} : p = UndoPastOf(d, b)
BY DEF UndoPasts, UndoPastOf

(* Nothing on a stained stack claims anything.                               *)
LEMMA UndoStainedIs ==
  ASSUME past \in Seq(UndoPasts)
  PROVE  Undo!Stained \in Seq(UndoPasts) /\ Len(Undo!Stained) = Len(past) /\ \A i \in 1 .. Len(past) : ~Undo!Stained[i].clean
<1>1. ASSUME NEW i \in 1 .. Len(past)
      PROVE  [past[i] EXCEPT !.clean = FALSE] \in UndoPasts /\ ~[past[i] EXCEPT !.clean = FALSE].clean
  <2>1. past[i] \in UndoPasts
    OBVIOUS
  <2>2. PICK d \in UndoDisks, b \in {TRUE, FALSE} : past[i] = UndoPastOf(d, b)
    BY <2>1, UndoPastIs
  <2>3. PICK x : x = past[i]
    OBVIOUS
  <2>4. x = UndoPastOf(d, b)
    BY <2>2, <2>3
  <2>5. PICK p : p = [x EXCEPT !.clean = FALSE]
    OBVIOUS
  <2>6. p = UndoPastOf(d, FALSE)
    BY <2>4, <2>5 DEF UndoPastOf
  <2>7. p \in UndoPasts
    BY <2>6 DEF UndoPasts
  <2>8. ~p.clean
    BY <2>6 DEF UndoPastOf
  <2> QED BY <2>3, <2>5, <2>7, <2>8
<1>2. PICK n \in Nat : n = Len(past)
  OBVIOUS
<1>3. Undo!Stained = [i \in 1 .. n |-> [past[i] EXCEPT !.clean = FALSE]]
  BY <1>2 DEF Undo!Stained
<1>4. \A i \in 1 .. n : Undo!Stained[i] \in UndoPasts /\ ~Undo!Stained[i].clean
  BY <1>1, <1>2, <1>3
<1>5. Undo!Stained \in Seq(UndoPasts) /\ Len(Undo!Stained) = n
  BY <1>3, <1>4
<1> QED BY <1>2, <1>4, <1>5

LEMMA UndoInitHolds == Undo!Init => UndoIInv
<1> SUFFICES ASSUME Undo!Init PROVE UndoIInv
  OBVIOUS
<1>1. disk \in UndoDisks
  BY UndoTextOf DEF Undo!Init, UndoDisks, UndoStates
<1>2. stack = <<>> /\ past = <<>> /\ undoing = <<>> /\ undone = Undo!NoUndo
  BY DEF Undo!Init
<1>3. UndoIsUndone(undone) /\ undone.asked = 0
  BY <1>2 DEF Undo!NoUndo, UndoIsUndone
<1>4. UndoTyped
  BY <1>1, <1>2, <1>3 DEF UndoTyped
<1>5. UndoChain /\ UndoLastStep /\ Undo!UndoOneRestores
  BY <1>2, <1>3 DEF UndoChain, UndoLastStep, Undo!UndoOneRestores, Undo!Finished
<1> QED BY <1>4, <1>5 DEF UndoIInv

LEMMA UndoAppending ==
  ASSUME NEW S, NEW s \in Seq(S), NEW x \in S, NEW t, t = Append(s, x), NEW n \in Nat, n = Len(s)
  PROVE  t \in Seq(S) /\ Len(t) = n + 1 /\ t[n + 1] = x /\ \A i \in 1 .. n : t[i] = s[i]
OBVIOUS

LEMMA UndoCallKeeps == ASSUME UndoIInv, NEW c \in Undo!Inputs, Undo!Call(c) PROVE UndoIInv'
<1>1. PICK made : made = Undo!Does(disk, c)
  OBVIOUS
<1>2. made.ok /\ disk' = made.disk /\ undoing = <<>> /\ undoing' = <<>> /\ undone' = Undo!NoUndo
  BY <1>1 DEF Undo!Call
<1>3. disk \in UndoDisks /\ disk' \in UndoDisks
  BY <1>1, <1>2, UndoDoesTyped, UndoInputIsOp DEF UndoIInv, UndoTyped
<1>4. PICK e \in UndoEntries : e.input = c /\ e.was = disk[c.file] /\ stack' = Append(stack, e)
  <2>1. PICK f \in Files, o \in Undo!Contents, n \in Undo!Contents : c = UndoOp(c.tool, f, o, n)
    BY UndoInputIs
  <2>2. disk[c.file] \in UndoStates
    BY <1>3, <2>1 DEF UndoDisks, UndoOp
  <2> QED BY <2>2 DEF Undo!Call, UndoEntries
<1>5. PICK p \in UndoPasts : p = UndoPastOf(disk, TRUE) /\ past' = Append(past, p)
  BY <1>3 DEF Undo!Call, UndoPasts, UndoPastOf
<1>6. p.disk = disk
  BY <1>5 DEF UndoPastOf
<1>7. PICK n \in Nat : n = Len(stack) /\ n = Len(past)
  BY DEF UndoIInv, UndoTyped
<1>8. /\ stack' \in Seq(UndoEntries) /\ Len(stack') = n + 1 /\ stack'[n + 1] = e
      /\ \A i \in 1 .. n : stack'[i] = stack[i]
  <2>1. stack \in Seq(UndoEntries)
    BY DEF UndoIInv, UndoTyped
  <2>2. e \in UndoEntries /\ stack' = Append(stack, e)
    BY <1>4
  <2>3. PICK s, t : s = stack /\ t = stack'
    OBVIOUS
  <2>4. s \in Seq(UndoEntries) /\ t = Append(s, e) /\ n = Len(s)
    BY <1>7, <2>1, <2>2, <2>3
  <2>5. t \in Seq(UndoEntries) /\ Len(t) = n + 1 /\ t[n + 1] = e /\ \A i \in 1 .. n : t[i] = s[i]
    BY <2>2, <2>4, UndoAppending
  <2> QED BY <2>3, <2>5
<1>9. /\ past' \in Seq(UndoPasts) /\ Len(past') = n + 1 /\ past'[n + 1] = p
      /\ \A i \in 1 .. n : past'[i] = past[i]
  <2>1. past \in Seq(UndoPasts)
    BY DEF UndoIInv, UndoTyped
  <2>2. p \in UndoPasts /\ past' = Append(past, p)
    BY <1>5
  <2>3. PICK s, t : s = past /\ t = past'
    OBVIOUS
  <2>4. s \in Seq(UndoPasts) /\ t = Append(s, p) /\ n = Len(s)
    BY <1>7, <2>1, <2>2, <2>3
  <2>5. t \in Seq(UndoPasts) /\ Len(t) = n + 1 /\ t[n + 1] = p /\ \A i \in 1 .. n : t[i] = s[i]
    BY <2>2, <2>4, UndoAppending
  <2> QED BY <2>3, <2>5
<1>10. UndoIsUndone(undone') /\ undone'.asked = 0
  BY <1>2 DEF Undo!NoUndo, UndoIsUndone
<1>11. UndoTyped'
  BY <1>2, <1>3, <1>8, <1>9, <1>10 DEF UndoIInv, UndoTyped
<1>12. UndoChain'
  <2> SUFFICES ASSUME NEW i \in 1 .. n + 1, past'[i].clean
               PROVE  UndoUndoable(stack'[i], past'[i].disk, UndoLeads(i)')
    BY <1>8 DEF UndoChain
  <2>1. CASE i = n + 1
    <3>1. UndoLeads(i)' = disk'
      BY <1>2, <1>8, <2>1 DEF UndoLeads, UndoTop
    <3> QED BY <1>1, <1>2, <1>3, <1>4, <1>6, <1>8, <1>9, <2>1, <3>1 DEF UndoUndoable
  <2>2. CASE i # n + 1
    <3>1. i \in 1 .. n /\ i + 1 \in 1 .. n + 1 /\ (i = n \/ i + 1 \in 1 .. n)
      BY <2>2
    <3>2. UndoUndoable(stack[i], past[i].disk, UndoLeads(i))
      BY <1>7, <1>9, <3>1 DEF UndoIInv, UndoChain
    <3>3. UndoLeads(i)' = past'[i + 1].disk
      BY <1>8, <3>1 DEF UndoLeads
    <3>4. past'[i + 1].disk = UndoLeads(i)
      <4>1. CASE i = n
        BY <1>2, <1>6, <1>7, <1>9, <4>1 DEF UndoLeads, UndoTop
      <4>2. CASE i # n
        BY <1>7, <1>9, <3>1, <4>2 DEF UndoLeads
      <4> QED BY <4>1, <4>2
    <3> QED BY <1>8, <1>9, <3>1, <3>2, <3>3, <3>4
  <2> QED BY <2>1, <2>2
<1> QED BY <1>2, <1>10, <1>11, <1>12 DEF UndoIInv, UndoLastStep, Undo!UndoOneRestores, Undo!Finished

LEMMA UndoOutsideKeeps ==
  ASSUME UndoIInv, NEW f \in Files, NEW text \in Undo!Contents, Undo!Outside(f, text)
  PROVE  UndoIInv'
<1>1. disk' \in UndoDisks
  <2>1. Undo!Holds(text) \in UndoStates
    BY UndoTextOf DEF UndoStates
  <2>2. disk' = UndoPut(disk, f, Undo!Holds(text))
    BY DEF Undo!Outside, UndoPut
  <2> QED BY <2>1, <2>2, UndoPutKeeps DEF UndoIInv, UndoTyped
<1>2. PICK u : u = [undone EXCEPT !.touched = TRUE]
  OBVIOUS
<1>3. UndoIsUndone(u) /\ u.touched /\ undone' = u
  BY <1>2 DEF Undo!Outside, UndoIInv, UndoTyped, UndoIsUndone
<1>4. past' = Undo!Stained /\ UNCHANGED <<stack, undoing>>
  BY DEF Undo!Outside
<1>5. past' \in Seq(UndoPasts) /\ Len(past') = Len(past) /\ \A i \in 1 .. Len(past) : ~past'[i].clean
  BY <1>4, UndoStainedIs DEF UndoIInv, UndoTyped
<1>6. UndoTyped'
  BY <1>1, <1>3, <1>4, <1>5 DEF UndoIInv, UndoTyped
<1>7. UndoChain'
  BY <1>4, <1>5 DEF UndoIInv, UndoTyped, UndoChain
<1> QED BY <1>3, <1>6, <1>7 DEF UndoIInv, UndoLastStep, Undo!UndoOneRestores, Undo!Finished

LEMMA UndoBeginning ==
  ASSUME NEW S, NEW s \in Seq(S), NEW k \in 1 .. Len(s), NEW t, t = SubSeq(s, 1, k - 1)
  PROVE  t \in Seq(S) /\ Len(t) = k - 1 /\ \A i \in 1 .. k - 1 : t[i] = s[i]
OBVIOUS

LEMMA UndoEnding ==
  ASSUME NEW S, NEW s \in Seq(S), NEW k \in 1 .. Len(s), NEW t, t = SubSeq(s, k, Len(s))
  PROVE  t \in Seq(S) /\ Len(t) = Len(s) - k + 1 /\ t[1] = s[k]
OBVIOUS

LEMMA UndoUndoKeeps == ASSUME UndoIInv, NEW n \in 1 .. MaxEdits, Undo!Undo(n) PROVE UndoIInv'
<1>1. PICK m \in Nat : m = Len(stack) /\ m = Len(past)
  BY DEF UndoIInv, UndoTyped
<1>2. m >= 1
  <2>1. stack # <<>>
    BY DEF Undo!Undo
  <2> QED BY <1>1, <2>1 DEF UndoIInv, UndoTyped
<1>3. PICK first : first = IF n > Len(stack) THEN 1 ELSE Len(stack) - n + 1
  OBVIOUS
<1>4. first \in 1 .. m /\ (n = 1 => first = m)
  <2>1. first = IF n > m THEN 1 ELSE m - n + 1
    BY <1>1, <1>3
  <2>2. n \in Nat /\ n >= 1
    OBVIOUS
  <2> QED BY <1>2, <2>1, <2>2
<1>5. /\ undoing = <<>> /\ undoing' = SubSeq(stack, first, Len(stack))
      /\ stack' = SubSeq(stack, 1, first - 1) /\ past' = SubSeq(past, 1, first - 1)
      /\ undone' = [asked |-> n, before |-> disk, goal |-> past[first].disk, ok |-> TRUE,
                    touched |-> ~past[first].clean]
      /\ disk' = disk
  BY <1>3 DEF Undo!Undo
<1>6. /\ UndoIsUndone(undone') /\ undone'.asked = n /\ undone'.before = disk /\ undone'.goal = past[first].disk
      /\ undone'.ok /\ (undone'.touched <=> ~past[first].clean)
  BY <1>5 DEF UndoIsUndone
<1>7. /\ stack' \in Seq(UndoEntries) /\ Len(stack') = first - 1 /\ \A i \in 1 .. first - 1 : stack'[i] = stack[i]
  BY <1>1, <1>4, <1>5, UndoBeginning DEF UndoIInv, UndoTyped
<1>8. /\ past' \in Seq(UndoPasts) /\ Len(past') = first - 1 /\ \A i \in 1 .. first - 1 : past'[i] = past[i]
  BY <1>1, <1>4, <1>5, UndoBeginning DEF UndoIInv, UndoTyped
<1>9. /\ undoing' \in Seq(UndoEntries) /\ Len(undoing') = m - first + 1 /\ undoing'[1] = stack[first]
  BY <1>1, <1>4, <1>5, UndoEnding DEF UndoIInv, UndoTyped
<1>10. undoing' # <<>>
  BY <1>4, <1>9
<1>11. UndoTyped'
  BY <1>5, <1>6, <1>7, <1>8, <1>9 DEF UndoIInv, UndoTyped
<1>12. UndoChain'
  <2> SUFFICES ASSUME NEW i \in 1 .. first - 1, past'[i].clean
               PROVE  UndoUndoable(stack'[i], past'[i].disk, UndoLeads(i)')
    BY <1>7 DEF UndoChain
  <2>1. i \in 1 .. m /\ i # m /\ i + 1 \in 1 .. m /\ (i = first - 1 \/ i + 1 \in 1 .. first - 1)
          /\ (i = first - 1 => i + 1 = first)
    BY <1>4
  <2>2. UndoUndoable(stack[i], past[i].disk, past[i + 1].disk)
    BY <1>1, <1>8, <2>1 DEF UndoIInv, UndoChain, UndoLeads
  <2>3. UndoLeads(i)' = past[i + 1].disk
    <3>1. CASE i = first - 1
      BY <1>6, <1>7, <1>10, <2>1, <3>1 DEF UndoLeads, UndoTop
    <3>2. CASE i # first - 1
      BY <1>7, <1>8, <2>1, <3>2 DEF UndoLeads
    <3> QED BY <3>1, <3>2
  <2> QED BY <1>7, <1>8, <2>2, <2>3
<1>13. UndoLastStep'
  <2> SUFFICES ASSUME n = 1, past[first].clean
               PROVE  /\ Len(undoing') = 1 /\ undone'.ok /\ disk' = undone'.before
                      /\ UndoUndoable(undoing'[1], undone'.goal, disk')
    BY <1>6 DEF UndoLastStep
  <2>1. first = m
    BY <1>4
  <2>2. UndoUndoable(stack[m], past[m].disk, disk)
    BY <1>1, <1>2, <1>5, <2>1 DEF UndoIInv, UndoChain, UndoLeads, UndoTop
  <2> QED BY <1>4, <1>5, <1>6, <1>9, <2>1, <2>2
<1> QED BY <1>10, <1>11, <1>12, <1>13 DEF UndoIInv, Undo!UndoOneRestores, Undo!Finished

LEMMA UndoReverseNextKeeps == ASSUME UndoIInv, Undo!ReverseNext PROVE UndoIInv'
<1>1. PICK e : e = Head(undoing)
  OBVIOUS
<1>2. undoing \in Seq(UndoEntries) /\ undoing # <<>> /\ e \in UndoEntries /\ e = undoing[1]
        /\ Tail(undoing) \in Seq(UndoEntries) /\ Len(Tail(undoing)) = Len(undoing) - 1
  BY <1>1 DEF Undo!ReverseNext, UndoIInv, UndoTyped
<1>3. PICK made : made = IF e.input.tool = "delete_file" THEN Undo!Fails(disk) ELSE Undo!Does(disk, Undo!ReverseOp(e))
  OBVIOUS
<1>4. /\ disk' = made.disk /\ undone' = [undone EXCEPT !.ok = @ /\ made.ok]
      /\ undoing' = Tail(undoing) /\ stack' = stack
      /\ past' = IF undoing' = <<>> /\ disk' # undone.goal THEN Undo!Stained ELSE past
  BY <1>1, <1>3 DEF Undo!ReverseNext
<1>5. disk' \in UndoDisks
  <2>1. e.input \in Undo!Inputs /\ e.was \in UndoStates
    BY <1>2 DEF UndoEntries
  <2>2. CASE e.input.tool = "delete_file"
    BY <1>3, <1>4, <2>2, UndoFailsIs DEF UndoIInv, UndoTyped
  <2>3. CASE e.input.tool # "delete_file"
    BY <1>3, <1>4, <2>1, <2>3, UndoReverseIsOp, UndoDoesTyped DEF UndoIInv, UndoTyped
  <2> QED BY <2>2, <2>3
<1>6. /\ UndoIsUndone(undone') /\ undone'.asked = undone.asked /\ undone'.touched = undone.touched
      /\ undone'.before = undone.before /\ undone'.goal = undone.goal
      /\ (undone'.ok <=> undone.ok /\ made.ok)
  BY <1>4 DEF UndoIInv, UndoTyped, UndoIsUndone
<1>7. past' \in Seq(UndoPasts) /\ Len(past') = Len(past)
  BY <1>4, UndoStainedIs DEF UndoIInv, UndoTyped
<1>8. UndoTyped'
  BY <1>2, <1>4, <1>5, <1>6, <1>7 DEF UndoIInv, UndoTyped
<1>9. UndoChain'
  <2>1. CASE undoing' = <<>> /\ disk' # undone.goal
    BY <1>4, <2>1, UndoStainedIs DEF UndoIInv, UndoTyped, UndoChain
  <2>2. CASE ~(undoing' = <<>> /\ disk' # undone.goal)
    <3>1. past' = past /\ stack' = stack /\ UndoTop' = UndoTop
      BY <1>2, <1>4, <1>6, <2>2 DEF UndoTop
    <3>2. \A i : UndoLeads(i)' = UndoLeads(i)
      BY <3>1 DEF UndoLeads
    <3> QED BY <3>1, <3>2 DEF UndoIInv, UndoChain
  <2> QED BY <2>1, <2>2
<1>10. ASSUME undone.asked = 1, ~undone.touched
       PROVE  undoing' = <<>> /\ disk' = IF undone'.ok THEN undone'.goal ELSE undone'.before
  <2>1. Len(undoing) = 1 /\ undone.ok /\ disk = undone.before /\ UndoUndoable(e, undone.goal, disk)
    BY <1>2, <1>10 DEF UndoIInv, UndoLastStep
  <2>2. undoing' = <<>>
    BY <1>2, <1>4, <2>1
  <2>3. CASE e.input.tool = "delete_file"
    <3>1. ~made.ok /\ made.disk = disk
      BY <1>3, <2>3, UndoFailsIs
    <3> QED BY <1>4, <1>6, <2>1, <2>2, <3>1
  <2>4. CASE e.input.tool # "delete_file"
    <3>1. (made.ok => made.disk = undone.goal) /\ (~made.ok => made.disk = disk)
      BY <1>3, <2>1, <2>4, UndoReversal
    <3> QED BY <1>4, <1>6, <2>1, <2>2, <3>1
  <2> QED BY <2>2, <2>3, <2>4
<1>11. UndoLastStep' /\ Undo!UndoOneRestores'
  BY <1>6, <1>10 DEF UndoLastStep, Undo!UndoOneRestores, Undo!Finished
<1> QED BY <1>8, <1>9, <1>11 DEF UndoIInv

LEMMA UndoNextKeeps == UndoIInv /\ [Undo!Next]_Undo!vars => UndoIInv'
<1> SUFFICES ASSUME UndoIInv, [Undo!Next]_Undo!vars PROVE UndoIInv'
  OBVIOUS
<1>1. CASE UNCHANGED Undo!vars
  BY <1>1 DEF Undo!vars, UndoIInv, UndoTyped, UndoChain, UndoLeads, UndoTop, UndoLastStep,
     Undo!UndoOneRestores, Undo!Finished
<1> QED BY <1>1, UndoCallKeeps, UndoOutsideKeeps, UndoUndoKeeps, UndoReverseNextKeeps DEF Undo!Next

-----------------------------------------------------------------------------
(* Governed tool calls (ToolCalls).                                          *)

ToolsLevels == {"on", "endpoint-only", "off"}

(* What a policy file may say of its lists and of the network.               *)
ToolsAuthored(q) ==
  /\ \A x, y \in q.allow : x = y
  /\ \A x, y \in q.pathAllow : x = y
  /\ q.network \in ToolsLevels

(* A policy that refuses all that q refuses.                                 *)
ToolsNarrower(p, q) ==
  /\ q.tools \subseteq p.tools /\ q.deny \subseteq p.deny /\ q.pathDeny \subseteq p.pathDeny
  /\ q.defaultDeny => p.defaultDeny
  /\ q.allow # {} => p.allow # {} /\ \A list \in q.allow, mine \in p.allow : mine \subseteq list
  /\ q.pathAllow # {} => p.pathAllow # {} /\ \A list \in q.pathAllow, mine \in p.pathAllow : mine \subseteq list
  /\ q.network # "on" => p.network # "on"

ToolsWhats == {"run_start", "policy_violation", "approval", "tool_call", "derived", "run_end"}
ToolsEvents == [call : Nat, what : ToolsWhats]
ToolsLines == [whole : BOOLEAN, seq : Nat, event : ToolsEvents, warned : BOOLEAN]

ToolsIsCall(c) == c = [step |-> c.step, tool |-> c.tool, texts |-> c.texts, net |-> c.net,
                       open |-> c.open, isolated |-> c.isolated]

ToolsIsSink(s) ==
  /\ s = [on |-> s.on, seq |-> s.seq, warned |-> s.warned]
  /\ s.on \in BOOLEAN /\ s.seq \in Nat /\ s.warned \in BOOLEAN

ToolsShaped ==
  /\ inForce \in [Layers -> Tools!Sources] /\ policy = Tools!Resolve(inForce)
  /\ ctx.host \in Tools!Hosts
  /\ ToolsIsCall(toolCall) /\ toolCall.tool \in Tools!Tools
  /\ toolCalls \in Nat
  /\ owed \in Seq(ToolsEvents) /\ trail \in Seq(ToolsLines)
  /\ ToolsIsSink(sink)

(* What the resolved policy has admitted of the call by each of its steps.   *)
ToolsAdmitted ==
  /\ toolCall.step \in {"asking", "start", "plan", "running"} => Tools!CheckTool(policy, toolCall.tool)
  /\ toolCall.step \in {"asking", "start"} /\ toolCall.tool = "write_file" =>
       \A t \in toolCall.texts : Tools!CheckPath(policy, t)
  /\ toolCall.step \in {"asking", "start"} /\ toolCall.tool = "shell" =>
       Tools!CheckCommand(policy, toolCall.texts)
  /\ toolCall.step \in {"plan", "running"} => Tools!CheckCommand(policy, toolCall.texts)
  /\ toolCall.step = "running" /\ Tools!Isolates(policy) => toolCall.isolated

ToolsPending == {owed[i] : i \in 1 .. Len(owed)}

(* The sink numbers what it has written; what has happened is in the file or *)
(* about to be appended, unless the sink has warned; and the end of a run is *)
(* the last event of its file.                                               *)
ToolsTold ==
  /\ toolCall.step = "none" => trail = <<>> /\ owed = <<>> /\ told = {}
  /\ ~sink.on => trail = <<>> /\ owed = <<>>
  /\ (\A i \in 1 .. Len(trail) : trail[i].whole) =>
       sink.seq = Len(trail) /\ \A i \in 1 .. Len(trail) : trail[i].seq = i - 1
  /\ sink.on /\ ~sink.warned => told \subseteq Tools!Recorded \cup ToolsPending
  /\ \A i \in 1 .. Len(owed) : owed[i].what = "run_end" => toolCall.step = "ended" /\ Len(owed) = 1
  /\ \A i \in 1 .. Len(trail) : trail[i].event.what = "run_end" =>
       /\ toolCall.step = "ended" /\ owed = <<>>
       /\ ~trail[i].warned => told \subseteq Tools!Recorded

ToolsIInv == ToolsShaped /\ ToolsAdmitted /\ ToolsTold

-----------------------------------------------------------------------------
(* How policies narrow each other.                                           *)

LEMMA ToolsSourceSays ==
  ASSUME NEW q \in Tools!Authored \cup {Tools!Permissive}
  PROVE  ToolsAuthored(q)
<1> DEFINE p == Tools!Permissive
<1>1. /\ p.allow = {} /\ p.pathAllow = {} /\ p.network = "on"
      /\ DOMAIN p = {"tools", "allow", "deny", "defaultDeny", "pathAllow", "pathDeny", "network"}
  BY DEF Tools!Permissive
<1> HIDE DEF p
<1>2. CASE q \in {p, [p EXCEPT !.defaultDeny = TRUE]}
  BY <1>1, <1>2 DEF ToolsAuthored, ToolsLevels
<1>3. CASE \E t \in {"shell", "write_file"} : q = [p EXCEPT !.tools = {t}]
  BY <1>1, <1>3 DEF ToolsAuthored, ToolsLevels
<1>4. CASE \E t \in SUBSET Texts : q = [p EXCEPT !.allow = {t}]
  BY <1>1, <1>4 DEF ToolsAuthored, ToolsLevels
<1>5. CASE \E t \in Texts : q = [p EXCEPT !.deny = {t}]
  BY <1>1, <1>5 DEF ToolsAuthored, ToolsLevels
<1>6. CASE \E t \in Texts : q = [p EXCEPT !.pathAllow = {{t}}]
  BY <1>1, <1>6 DEF ToolsAuthored, ToolsLevels
<1>7. CASE \E t \in Texts : q = [p EXCEPT !.pathDeny = {t}]
  BY <1>1, <1>7 DEF ToolsAuthored, ToolsLevels
<1>8. CASE \E n \in {"off", "endpoint-only"} : q = [p EXCEPT !.network = n]
  BY <1>1, <1>8 DEF ToolsAuthored, ToolsLevels
<1> QED BY <1>2, <1>3, <1>4, <1>5, <1>6, <1>7, <1>8 DEF Tools!Authored, p

LEMMA ToolsIntersects ==
  ASSUME NEW a, NEW b
  PROVE  /\ b # {} /\ (\A x, y \in b : x = y) =>
              /\ Tools!IntersectAllow(a, b) # {}
              /\ \A list \in b, mine \in Tools!IntersectAllow(a, b) : mine \subseteq list
         /\ a # {} =>
              /\ Tools!IntersectAllow(a, b) # {}
              /\ \A mine \in Tools!IntersectAllow(a, b) : \E x \in a : mine \subseteq x
         /\ Tools!IntersectAllow(a, b) # {} => a # {} \/ b # {}
<1> DEFINE both == {x \cap y : x \in a, y \in b}
<1>1. Tools!IntersectAllow(a, b) = IF a = {} THEN b ELSE IF b = {} THEN a ELSE both
  BY DEF Tools!IntersectAllow
<1>2. \A mine \in both : \E x \in a, y \in b : mine \subseteq x /\ mine \subseteq y
  OBVIOUS
<1>3. a # {} /\ b # {} => both # {}
  <2> SUFFICES ASSUME NEW x \in a, NEW y \in b PROVE both # {}
    OBVIOUS
  <2>1. x \cap y \in both
    OBVIOUS
  <2> HIDE DEF both
  <2> QED BY <2>1
<1> HIDE DEF both
<1>4. ASSUME b # {}, \A x, y \in b : x = y
      PROVE  /\ Tools!IntersectAllow(a, b) # {}
             /\ \A list \in b, mine \in Tools!IntersectAllow(a, b) : mine \subseteq list
  BY <1>1, <1>2, <1>3, <1>4
<1>5. ASSUME a # {}
      PROVE  /\ Tools!IntersectAllow(a, b) # {}
             /\ \A mine \in Tools!IntersectAllow(a, b) : \E x \in a : mine \subseteq x
  BY <1>1, <1>2, <1>3, <1>5
<1> QED BY <1>1, <1>4, <1>5

LEMMA ToolsNetworkNarrows ==
  ASSUME NEW p, NEW q, p.network \in ToolsLevels, q.network \in ToolsLevels
  PROVE  /\ Tools!Narrow(p, q).network \in ToolsLevels
         /\ p.network # "on" \/ q.network # "on" => Tools!Narrow(p, q).network # "on"
BY DEF ToolsLevels, Tools!Narrow, Tools!Rank

LEMMA ToolsNarrowsOwn ==
  ASSUME NEW p, NEW q, p.network \in ToolsLevels, ToolsAuthored(q)
  PROVE  ToolsNarrower(Tools!Narrow(p, q), q)
<1> DEFINE r == Tools!Narrow(p, q)
<1>1. /\ r.tools = p.tools \cup q.tools /\ r.deny = p.deny \cup q.deny /\ r.pathDeny = p.pathDeny \cup q.pathDeny
      /\ q.defaultDeny => r.defaultDeny
      /\ r.allow = Tools!IntersectAllow(p.allow, q.allow)
      /\ r.pathAllow = Tools!IntersectAllow(p.pathAllow, q.pathAllow)
  BY DEF Tools!Narrow
<1>2. q.network # "on" => r.network # "on"
  BY ToolsNetworkNarrows DEF ToolsAuthored
<1> HIDE DEF r
<1>3. ASSUME q.allow # {}
      PROVE  r.allow # {} /\ \A list \in q.allow, mine \in r.allow : mine \subseteq list
  BY <1>1, <1>3, ToolsIntersects DEF ToolsAuthored
<1>4. ASSUME q.pathAllow # {}
      PROVE  r.pathAllow # {} /\ \A list \in q.pathAllow, mine \in r.pathAllow : mine \subseteq list
  BY <1>1, <1>4, ToolsIntersects DEF ToolsAuthored
<1>5. q.tools \subseteq r.tools /\ q.deny \subseteq r.deny /\ q.pathDeny \subseteq r.pathDeny
  BY <1>1
<1> QED BY <1>1, <1>2, <1>3, <1>4, <1>5, Zenon DEF ToolsNarrower, r

LEMMA ToolsNarrowsOn ==
  ASSUME NEW p, NEW q, NEW says, p.network \in ToolsLevels, q.network \in ToolsLevels, ToolsNarrower(p, says)
  PROVE  ToolsNarrower(Tools!Narrow(p, q), says)
<1> DEFINE r == Tools!Narrow(p, q)
<1>1. /\ r.tools = p.tools \cup q.tools /\ r.deny = p.deny \cup q.deny /\ r.pathDeny = p.pathDeny \cup q.pathDeny
      /\ p.defaultDeny => r.defaultDeny
      /\ r.allow = Tools!IntersectAllow(p.allow, q.allow)
      /\ r.pathAllow = Tools!IntersectAllow(p.pathAllow, q.pathAllow)
  BY DEF Tools!Narrow
<1>2. p.network # "on" => r.network # "on"
  BY ToolsNetworkNarrows
<1> HIDE DEF r
<1>3. ASSUME p.allow # {}, NEW list, \A mine \in p.allow : mine \subseteq list
      PROVE  r.allow # {} /\ \A mine \in r.allow : mine \subseteq list
  BY <1>1, <1>3, ToolsIntersects
<1>4. ASSUME p.pathAllow # {}, NEW list, \A mine \in p.pathAllow : mine \subseteq list
      PROVE  r.pathAllow # {} /\ \A mine \in r.pathAllow : mine \subseteq list
  BY <1>1, <1>4, ToolsIntersects
<1>5. says.tools \subseteq r.tools /\ says.deny \subseteq r.deny /\ says.pathDeny \subseteq r.pathDeny
  BY <1>1 DEF ToolsNarrower
<1>6. (says.network # "on" => r.network # "on") /\ (says.defaultDeny => r.defaultDeny)
  BY <1>1, <1>2, Zenon DEF ToolsNarrower
<1>7. says.allow # {} =>
        r.allow # {} /\ \A list \in says.allow, mine \in r.allow : mine \subseteq list
  BY <1>3 DEF ToolsNarrower
<1>8. says.pathAllow # {} =>
        r.pathAllow # {} /\ \A list \in says.pathAllow, mine \in r.pathAllow : mine \subseteq list
  BY <1>4 DEF ToolsNarrower
<1> QED BY <1>5, <1>6, <1>7, <1>8, Zenon DEF ToolsNarrower, r

(* One layer after another: each layer that is applied is narrowed in, and   *)
(* an allow list comes from one of them.                                     *)
ToolsLayered(p, done, s) ==
  /\ p.network \in ToolsLevels
  /\ \A l \in Tools!Applied(s) \cap done : ToolsNarrower(p, s[l].says)
  /\ p.allow # {} => \E l \in Tools!Applied(s) : s[l].says.allow # {}

LEMMA ToolsLayers ==
  ASSUME NEW s \in [Layers -> Tools!Sources], NEW p, NEW done, NEW l, ToolsLayered(p, done, s),
         NEW n, n = IF l \in Tools!Applied(s) THEN Tools!Narrow(p, s[l].says) ELSE p
  PROVE  ToolsLayered(n, done \cup {l}, s)
<1>1. CASE l \notin Tools!Applied(s)
  BY <1>1 DEF ToolsLayered
<1>2. CASE l \in Tools!Applied(s)
  <2>1. l \in Layers /\ s[l].says \in Tools!Authored \cup {Tools!Permissive}
    BY <1>2 DEF Tools!Applied, Tools!Sources
  <2>2. ToolsAuthored(s[l].says)
    BY <2>1, ToolsSourceSays
  <2>3. n = Tools!Narrow(p, s[l].says) /\ s[l].says.network \in ToolsLevels
    BY <1>2, <2>2 DEF ToolsAuthored
  <2>4. n.network \in ToolsLevels
    BY <2>3, ToolsNetworkNarrows DEF ToolsLayered
  <2>5. ToolsNarrower(n, s[l].says)
    BY <2>2, <2>3, ToolsNarrowsOwn DEF ToolsLayered
  <2>6. \A k \in Tools!Applied(s) \cap done : ToolsNarrower(n, s[k].says)
    BY <2>3, ToolsNarrowsOn DEF ToolsLayered
  <2>7. n.allow = Tools!IntersectAllow(p.allow, s[l].says.allow)
    BY <2>3 DEF Tools!Narrow
  <2>8. n.allow # {} => p.allow # {} \/ s[l].says.allow # {}
    BY <2>7, ToolsIntersects
  <2> QED BY <1>2, <2>4, <2>5, <2>6, <2>8 DEF ToolsLayered
<1> QED BY <1>1, <1>2

LEMMA ToolsResolves ==
  ASSUME NEW s \in [Layers -> Tools!Sources]
  PROVE  /\ \A l \in Tools!Applied(s) : ToolsNarrower(Tools!Resolve(s), s[l].says)
         /\ Tools!Resolve(s).allow # {} => \E l \in Tools!Applied(s) : s[l].says.allow # {}
<1> DEFINE p0 == Tools!Permissive
           p1 == IF "machine" \in Tools!Applied(s) THEN Tools!Narrow(p0, s["machine"].says) ELSE p0
           p2 == IF "repo" \in Tools!Applied(s) THEN Tools!Narrow(p1, s["repo"].says) ELSE p1
           p3 == IF "runtime" \in Tools!Applied(s) THEN Tools!Narrow(p2, s["runtime"].says) ELSE p2
<1>1. Tools!Resolve(s) = p3
  BY DEF Tools!Resolve
<1>2. ToolsLayered(p0, {}, s)
  BY DEF ToolsLayered, Tools!Permissive, ToolsLevels
<1> HIDE DEF p0
<1>3. ToolsLayered(p1, {} \cup {"machine"}, s)
  BY <1>2, ToolsLayers
<1> HIDE DEF p1
<1>4. ToolsLayered(p2, {} \cup {"machine"} \cup {"repo"}, s)
  BY <1>3, ToolsLayers
<1> HIDE DEF p2
<1>5. ToolsLayered(p3, {} \cup {"machine"} \cup {"repo"} \cup {"runtime"}, s)
  BY <1>4, ToolsLayers
<1> HIDE DEF p3
<1>6. Tools!Applied(s) \subseteq {} \cup {"machine"} \cup {"repo"} \cup {"runtime"}
  BY PlatformAssumption DEF Tools!Applied
<1> QED BY <1>1, <1>5, <1>6 DEF ToolsLayered

LEMMA ToolsRunWhatEachAdmits == ToolsIInv => Tools!RunsWhatEachAdmits
<1> SUFFICES ASSUME ToolsIInv, NEW l \in Tools!Applied(inForce)
             PROVE  /\ toolCall.step = "start" /\ toolCall.tool = "write_file" => Tools!MayWrite(inForce[l].says)
                    /\ toolCall.step = "running" => Tools!MayRun(inForce[l].says)
  BY DEF Tools!RunsWhatEachAdmits
<1> DEFINE says == inForce[l].says
<1>1. /\ ToolsNarrower(policy, says)
      /\ policy.allow # {} => \E k \in Tools!Applied(inForce) : inForce[k].says.allow # {}
  BY ToolsResolves DEF ToolsIInv, ToolsShaped
<1> HIDE DEF says
<1>2. ASSUME toolCall.step = "start", toolCall.tool = "write_file"
      PROVE  Tools!MayWrite(says)
  <2>1. toolCall.tool \notin policy.tools
    BY <1>2 DEF ToolsIInv, ToolsAdmitted, Tools!CheckTool
  <2>2. \A t \in toolCall.texts : t \notin policy.pathDeny /\ \A list \in policy.pathAllow : t \in list
    BY <1>2 DEF ToolsIInv, ToolsAdmitted, Tools!CheckPath
  <2> QED BY <1>1, <2>1, <2>2 DEF ToolsNarrower, Tools!MayWrite
<1>3. ASSUME toolCall.step = "running"
      PROVE  Tools!MayRun(says)
  <2>1. toolCall.tool \notin policy.tools
    BY <1>3 DEF ToolsIInv, ToolsAdmitted, Tools!CheckTool
  <2>2. /\ toolCall.texts \cap policy.deny = {}
        /\ \A list \in policy.allow : toolCall.texts \subseteq list
        /\ policy.allow = {} => ~policy.defaultDeny
    BY <1>3 DEF ToolsIInv, ToolsAdmitted, Tools!CheckCommand
  <2>3. policy.network # "on" => toolCall.isolated
    BY <1>3 DEF ToolsIInv, ToolsAdmitted, Tools!Isolates
  <2> QED BY <1>1, <2>1, <2>2, <2>3 DEF ToolsNarrower, Tools!MayRun
<1> QED BY <1>2, <1>3 DEF says
-----------------------------------------------------------------------------
(* The steps of a call.                                                      *)

(* A call that goes on to the next step, and keeps what it is about.         *)
ToolsGoesOn(w, c, step) == ToolsIsCall(w) /\ w.step = step /\ w.tool = c.tool /\ w.texts = c.texts

LEMMA ToolsStepTaken ==
  ASSUME NEW c, ToolsIsCall(c), NEW x
  PROVE  ToolsGoesOn([c EXCEPT !.step = x], c, x)
<1> DEFINE w == [c EXCEPT !.step = x]
<1>1. ToolsGoesOn(w, c, x)
  BY DEF ToolsIsCall, ToolsGoesOn
<1> QED BY <1>1

LEMMA ToolsOpened ==
  ASSUME NEW c, ToolsIsCall(c), NEW x, NEW y, NEW w, w = [c EXCEPT !.step = x, !.open = y]
  PROVE  ToolsGoesOn(w, c, x)
<1>1. DOMAIN c = {"step", "tool", "texts", "net", "open", "isolated"}
  BY DEF ToolsIsCall
<1>2. w = [f \in DOMAIN c |-> IF f = "step" THEN x ELSE IF f = "open" THEN y ELSE c[f]]
  BY <1>1
<1>3. w.step = x /\ w.tool = c.tool /\ w.texts = c.texts
  BY <1>1, <1>2
<1>4. ToolsIsCall(w)
  BY <1>1, <1>2 DEF ToolsIsCall
<1> QED BY <1>3, <1>4 DEF ToolsGoesOn

LEMMA ToolsIsolated ==
  ASSUME NEW c, ToolsIsCall(c), NEW x, NEW y, NEW w, w = [c EXCEPT !.step = x, !.isolated = y]
  PROVE  ToolsGoesOn(w, c, x) /\ w.isolated = y
<1>1. DOMAIN c = {"step", "tool", "texts", "net", "open", "isolated"}
  BY DEF ToolsIsCall
<1>2. w = [f \in DOMAIN c |-> IF f = "step" THEN x ELSE IF f = "isolated" THEN y ELSE c[f]]
  BY <1>1
<1>3. w.step = x /\ w.tool = c.tool /\ w.texts = c.texts /\ w.isolated = y
  BY <1>1, <1>2
<1>4. ToolsIsCall(w)
  BY <1>1, <1>2 DEF ToolsIsCall
<1> QED BY <1>3, <1>4 DEF ToolsGoesOn

LEMMA ToolsNoCall ==
  ToolsIsCall(Tools!NoCall) /\ Tools!NoCall.tool \in Tools!Tools /\ Tools!NoCall.step = "idle"
BY DEF Tools!NoCall, ToolsIsCall, Tools!Tools

LEMMA ToolsEvent ==
  ASSUME toolCalls \in Nat, NEW what \in ToolsWhats
  PROVE  /\ Tools!Event(what) \in ToolsEvents /\ Tools!Event(what).what = what
         /\ [call |-> toolCalls + 1, what |-> what] \in ToolsEvents
         /\ [call |-> toolCalls + 1, what |-> what].what = what
BY DEF Tools!Event, ToolsEvents

LEMMA ToolsAppends ==
  ASSUME NEW S, NEW s \in Seq(S), NEW x \in S
  PROVE  /\ Append(s, x) \in Seq(S) /\ Len(Append(s, x)) = Len(s) + 1
         /\ \A i \in 1 .. Len(s) : Append(s, x)[i] = s[i]
         /\ Append(s, x)[Len(s) + 1] = x
OBVIOUS

(* An action of the call: it begins with nothing to be appended, and has the *)
(* sink append one event, or two, if any.                                    *)
ToolsActs ==
  /\ UNCHANGED <<inForce, policy, ctx, sink, trail>>
  /\ owed = <<>> /\ toolCall.step \notin {"none", "ended"}
  /\ toolCalls' \in Nat
  /\ ToolsIsCall(toolCall') /\ toolCall'.tool \in Tools!Tools /\ toolCall'.step # "none"
  /\ \/ owed' = owed /\ told' = told
     \/ \E a, b \in ToolsEvents :
          /\ a.what = "run_end" => toolCall'.step = "ended"
          /\ b.what # "run_end"
          /\ \/ owed' = (IF sink.on THEN <<a>> ELSE <<>>) /\ told' \subseteq told \cup {a}
             \/ /\ a.what # "run_end"
                /\ owed' = (IF sink.on THEN <<a, b>> ELSE <<>>) /\ told' \subseteq told \cup {a, b}

LEMMA ToolsCallActs ==
  ASSUME ToolsShaped,
         \/ \E tool \in Tools!Tools, texts \in SUBSET Texts, net \in Tools!Nets : Tools!Call(tool, texts, net)
         \/ \E b \in BOOLEAN : \/ Tools!Approve(b) \/ Tools!FileTool(b) \/ Tools!PickCheck(b)
                              \/ Tools!AskNetwork(b) \/ Tools!Close(b)
         \/ Tools!Plan \/ Tools!End
  PROVE  ToolsActs
<1> USE DEF Tools!Ready, Tools!pol, Tools!log, Tools!Owe, Tools!Tell
<1>0. /\ ToolsIsCall(toolCall) /\ toolCall.tool \in Tools!Tools /\ toolCalls \in Nat
  BY DEF ToolsShaped
<1>1. ASSUME NEW tool \in Tools!Tools, NEW texts, NEW net, Tools!Call(tool, texts, net)
      PROVE  ToolsActs
  <2> DEFINE mine == [call |-> toolCalls + 1, what |-> "policy_violation"]
  <2>1. mine \in ToolsEvents /\ mine.what # "run_end"
    BY <1>0, ToolsEvent DEF ToolsWhats
  <2> HIDE DEF mine
  <2>2. /\ UNCHANGED <<inForce, policy, ctx, sink, trail>>
        /\ owed = <<>> /\ toolCall.step \notin {"none", "ended"} /\ toolCalls' \in Nat
    <3>1. UNCHANGED <<Tools!pol, Tools!log>> /\ toolCalls' = toolCalls + 1
      BY <1>1 DEF Tools!Call
    <3>2. owed = <<>> /\ toolCall.step = "idle"
      BY <1>1 DEF Tools!Call
    <3> QED BY <1>0, <3>1, <3>2
  <2>3. \/ toolCall' = Tools!NoCall /\ owed' = (IF sink.on THEN <<mine>> ELSE <<>>) /\ told' = told \cup {mine}
        \/ UNCHANGED <<toolCall, owed, told>>
        \/ /\ \E x \in {"asking", "start"} :
                toolCall' = [Tools!NoCall EXCEPT !.step = x, !.tool = tool, !.texts = texts, !.net = net]
           /\ UNCHANGED <<owed, told>>
    BY <1>1 DEF Tools!Call, mine
  <2>4. ToolsIsCall(toolCall') /\ toolCall'.tool \in Tools!Tools /\ toolCall'.step \in {"idle", "asking", "start"}
    <3>1. CASE toolCall' = Tools!NoCall
      BY <3>1, ToolsNoCall
    <3>2. CASE UNCHANGED toolCall
      BY <1>0, <3>2, <1>1 DEF Tools!Call
    <3>3. ASSUME NEW x \in {"asking", "start"},
                 toolCall' = [Tools!NoCall EXCEPT !.step = x, !.tool = tool, !.texts = texts, !.net = net]
          PROVE  ToolsIsCall(toolCall') /\ toolCall'.tool = tool /\ toolCall'.step = x
      BY <3>3 DEF Tools!NoCall, ToolsIsCall
    <3> QED BY <2>3, <3>1, <3>2, <3>3
  <2> QED BY <2>1, <2>2, <2>3, <2>4 DEF ToolsActs
<1>2. ASSUME NEW b \in BOOLEAN, Tools!Approve(b)
      PROVE  ToolsActs
  <2>1. Tools!Event("approval") \in ToolsEvents /\ Tools!Event("approval").what # "run_end"
    BY <1>0, ToolsEvent DEF ToolsWhats
  <2>2. ToolsIsCall(toolCall') /\ toolCall'.tool \in Tools!Tools /\ toolCall'.step \in {"start", "idle"}
    <3>1. toolCall' = [toolCall EXCEPT !.step = "start"] \/ toolCall' = Tools!NoCall
      BY <1>2 DEF Tools!Approve
    <3>2. CASE toolCall' = Tools!NoCall
      BY <3>2, ToolsNoCall
    <3>3. CASE toolCall' = [toolCall EXCEPT !.step = "start"]
      <4>1. ToolsGoesOn(toolCall', toolCall, "start")
        BY <1>0, <3>3, ToolsStepTaken
      <4> QED BY <1>0, <4>1 DEF ToolsGoesOn
    <3> QED BY <3>1, <3>2, <3>3
  <2> QED BY <1>0, <1>2, <2>1, <2>2 DEF ToolsActs, Tools!Approve
<1>3. ASSUME NEW b \in BOOLEAN, Tools!FileTool(b) \/ Tools!Close(b)
      PROVE  ToolsActs
  <2> DEFINE one == Tools!Event("tool_call") two == Tools!Event("derived")
  <2>1. one \in ToolsEvents /\ one.what # "run_end" /\ two \in ToolsEvents /\ two.what # "run_end"
    BY <1>0, ToolsEvent DEF ToolsWhats
  <2>2. /\ UNCHANGED <<inForce, policy, ctx, sink, trail, toolCalls>>
        /\ owed = <<>> /\ toolCall.step \notin {"none", "ended"}
        /\ toolCall' = Tools!NoCall
        /\ \/ owed' = (IF sink.on THEN <<one, two>> ELSE <<>>) /\ told' = told \cup {one, two}
           \/ owed' = (IF sink.on THEN <<one>> ELSE <<>>) /\ told' = told \cup {one}
    BY <1>3 DEF Tools!FileTool, Tools!Close, Tools!Settle
  <2> HIDE DEF one, two
  <2> QED BY <1>0, <2>1, <2>2, ToolsNoCall DEF ToolsActs
<1>4. ASSUME NEW b \in BOOLEAN, Tools!PickCheck(b) \/ Tools!Plan \/ Tools!AskNetwork(b)
      PROVE  ToolsActs
  <2> DEFINE one == Tools!Event("tool_call") bad == Tools!Event("policy_violation")
             yes == Tools!Event("approval")
  <2>1. /\ one \in ToolsEvents /\ one.what # "run_end" /\ bad \in ToolsEvents /\ bad.what # "run_end"
        /\ yes \in ToolsEvents /\ yes.what # "run_end"
    BY <1>0, ToolsEvent DEF ToolsWhats
  <2>2. /\ UNCHANGED <<inForce, policy, ctx, sink, trail, toolCalls>>
        /\ owed = <<>> /\ toolCall.step \notin {"none", "ended"}
    BY <1>4 DEF Tools!PickCheck, Tools!Plan, Tools!AskNetwork
  <2>3. \/ UNCHANGED <<owed, told>>
        \/ owed' = (IF sink.on THEN <<one>> ELSE <<>>) /\ told' = told
        \/ owed' = (IF sink.on THEN <<bad, one>> ELSE <<>>) /\ told' = told \cup {bad}
        \/ owed' = (IF sink.on THEN <<yes>> ELSE <<>>) /\ told' = told \cup {yes}
        \/ owed' = (IF sink.on THEN <<yes, one>> ELSE <<>>) /\ told' = told \cup {yes}
    BY <1>4 DEF Tools!PickCheck, Tools!Plan, Tools!AskNetwork, Tools!Settle
  <2>4. \/ toolCall' = Tools!NoCall
        \/ toolCall' = [toolCall EXCEPT !.step = "plan"]
        \/ \E y : toolCall' = [toolCall EXCEPT !.step = "plan", !.open = y]
        \/ \E y : toolCall' = [toolCall EXCEPT !.step = "running", !.isolated = y]
    BY <1>4 DEF Tools!PickCheck, Tools!Plan, Tools!AskNetwork, Tools!Settle
  <2>5. ToolsIsCall(toolCall') /\ toolCall'.tool \in Tools!Tools /\ toolCall'.step \in {"plan", "running", "idle"}
    <3>1. CASE toolCall' = Tools!NoCall
      BY <3>1, ToolsNoCall
    <3>2. CASE ToolsGoesOn(toolCall', toolCall, "plan") \/ ToolsGoesOn(toolCall', toolCall, "running")
      BY <1>0, <3>2 DEF ToolsGoesOn
    <3>3. CASE toolCall' = [toolCall EXCEPT !.step = "plan"]
      BY <1>0, <3>2, <3>3, ToolsStepTaken
    <3>4. ASSUME NEW y, toolCall' = [toolCall EXCEPT !.step = "plan", !.open = y]
          PROVE  ToolsGoesOn(toolCall', toolCall, "plan")
      BY <1>0, <3>4, ToolsOpened
    <3>5. ASSUME NEW y, toolCall' = [toolCall EXCEPT !.step = "running", !.isolated = y]
          PROVE  ToolsGoesOn(toolCall', toolCall, "running")
      BY <1>0, <3>5, ToolsIsolated
    <3> QED BY <2>4, <3>1, <3>2, <3>3, <3>4, <3>5
  <2> HIDE DEF one, bad, yes
  <2> QED BY <1>0, <2>1, <2>2, <2>3, <2>5 DEF ToolsActs
<1>5. CASE Tools!End
  <2> DEFINE last == Tools!Event("run_end") one == Tools!Event("tool_call")
  <2>1. last \in ToolsEvents /\ one \in ToolsEvents /\ one.what # "run_end"
    BY <1>0, ToolsEvent DEF ToolsWhats
  <2>2. /\ UNCHANGED <<inForce, policy, ctx, sink, trail, toolCalls, told>>
        /\ owed = <<>> /\ toolCall.step = "idle"
        /\ owed' = (IF sink.on THEN <<last>> ELSE <<>>)
        /\ toolCall' = [toolCall EXCEPT !.step = "ended"]
    BY <1>5 DEF Tools!End
  <2>3. ToolsIsCall(toolCall') /\ toolCall'.tool \in Tools!Tools /\ toolCall'.step = "ended"
    <3>1. ToolsGoesOn(toolCall', toolCall, "ended")
      BY <1>0, <2>2, ToolsStepTaken
    <3> QED BY <1>0, <3>1 DEF ToolsGoesOn
  <2> HIDE DEF last, one
  <2> QED BY <1>0, <2>1, <2>2, <2>3 DEF ToolsActs
<1> QED BY <1>1, <1>2, <1>3, <1>4, <1>5

-----------------------------------------------------------------------------
(* An append.                                                                *)

(* The line of the event at the head, written whole, in part or not at all.  *)
ToolsEmits ==
  /\ UNCHANGED <<inForce, policy, ctx, toolCall, toolCalls, told>>
  /\ owed # <<>> /\ owed' = Tail(owed)
  /\ ToolsIsSink(sink') /\ sink'.on = sink.on
  /\ \/ trail' = trail /\ sink'.warned /\ sink'.seq = sink.seq
     \/ \E line \in ToolsLines :
          /\ trail' = Append(trail, line)
          /\ line.event = Head(owed) /\ line.seq = sink.seq
          /\ line.warned = (line.event.what = "run_end" /\ sink.warned)
          /\ \/ line.whole /\ sink'.seq = sink.seq + 1 /\ sink'.warned = sink.warned
             \/ ~line.whole /\ sink'.seq = sink.seq /\ sink'.warned

LEMMA ToolsCounted ==
  ASSUME NEW s, ToolsIsSink(s), NEW w, w = [s EXCEPT !.seq = @ + 1]
  PROVE  ToolsIsSink(w) /\ w.on = s.on /\ w.seq = s.seq + 1 /\ w.warned = s.warned
BY DEF ToolsIsSink

LEMMA ToolsWarned ==
  ASSUME NEW s, ToolsIsSink(s), NEW w, w = [s EXCEPT !.warned = TRUE]
  PROVE  ToolsIsSink(w) /\ w.on = s.on /\ w.seq = s.seq /\ w.warned
BY DEF ToolsIsSink

LEMMA ToolsLine ==
  ASSUME NEW whole \in BOOLEAN, NEW n \in Nat, NEW e \in ToolsEvents, NEW warned \in BOOLEAN
  PROVE  [whole |-> whole, seq |-> n, event |-> e, warned |-> warned] \in ToolsLines
BY DEF ToolsLines

LEMMA ToolsHead ==
  ASSUME NEW S, NEW s \in Seq(S), s # <<>>
  PROVE  /\ Head(s) = s[1] /\ Head(s) \in S /\ Tail(s) \in Seq(S)
         /\ Len(s) \in Nat \ {0} /\ Len(Tail(s)) = Len(s) - 1
         /\ \A i \in 1 .. Len(s) - 1 : Tail(s)[i] = s[i + 1]
OBVIOUS

LEMMA ToolsEmitting ==
  ASSUME ToolsShaped, NEW fault \in {"none", "lost", "torn"}, Tools!Emit(fault)
  PROVE  ToolsEmits
<1> DEFINE line == [whole |-> fault = "none", seq |-> sink.seq, event |-> Head(owed),
                    warned |-> Head(owed).what = "run_end" /\ sink.warned]
<1>1. /\ UNCHANGED <<inForce, policy, ctx, toolCall, toolCalls, told>>
      /\ owed # <<>> /\ owed' = Tail(owed)
      /\ sink' = IF fault = "none" THEN [sink EXCEPT !.seq = @ + 1] ELSE [sink EXCEPT !.warned = TRUE]
      /\ trail' = IF fault = "lost" THEN trail ELSE Append(trail, line)
  BY DEF Tools!Emit, Tools!pol
<1>2. ToolsIsSink(sink) /\ sink.seq \in Nat /\ sink.warned \in BOOLEAN
  BY DEF ToolsShaped, ToolsIsSink
<1>3. Head(owed) \in ToolsEvents
  BY <1>1, ToolsHead DEF ToolsShaped
<1>4. /\ line \in ToolsLines /\ line.whole = (fault = "none") /\ line.seq = sink.seq /\ line.event = Head(owed)
      /\ line.warned = (Head(owed).what = "run_end" /\ sink.warned)
  <2>1. (fault = "none") \in BOOLEAN /\ (Head(owed).what = "run_end" /\ sink.warned) \in BOOLEAN
    OBVIOUS
  <2>2. line \in ToolsLines
    BY <1>2, <1>3, <2>1, ToolsLine, Zenon
  <2>3. /\ line.whole = (fault = "none") /\ line.seq = sink.seq /\ line.event = Head(owed)
        /\ line.warned = (Head(owed).what = "run_end" /\ sink.warned)
    OBVIOUS
  <2> QED BY <2>2, <2>3
<1> HIDE DEF line
<1>5. CASE fault = "none"
  <2>1. /\ ToolsIsSink(sink') /\ sink'.on = sink.on
        /\ sink'.seq = sink.seq + 1 /\ sink'.warned = sink.warned
    BY <1>1, <1>2, <1>5, ToolsCounted
  <2>2. trail' = Append(trail, line) /\ line.whole
    BY <1>1, <1>4, <1>5
  <2> QED BY <1>1, <1>4, <2>1, <2>2, Zenon DEF ToolsEmits
<1>6. CASE fault # "none"
  <2>1. ToolsIsSink(sink') /\ sink'.on = sink.on /\ sink'.seq = sink.seq /\ sink'.warned
    BY <1>1, <1>2, <1>6, ToolsWarned
  <2>2. trail' = trail \/ (trail' = Append(trail, line) /\ ~line.whole)
    BY <1>1, <1>4, <1>6
  <2> QED BY <1>1, <1>4, <2>1, <2>2, Zenon DEF ToolsEmits
<1> QED BY <1>5, <1>6

LEMMA ToolsEmitTells ==
  ASSUME ToolsShaped, ToolsTold, ToolsEmits
  PROVE  ToolsTold'
<1>1. /\ owed \in Seq(ToolsEvents) /\ trail \in Seq(ToolsLines) /\ owed # <<>>
      /\ owed' = Tail(owed) /\ UNCHANGED <<toolCall, told>> /\ sink'.on = sink.on
  BY DEF ToolsShaped, ToolsEmits
<1>2. /\ toolCall.step # "none" /\ sink.on
      /\ \A i \in 1 .. Len(trail) : trail[i].event.what # "run_end"
  BY <1>1 DEF ToolsTold
<1>3. /\ Head(owed) = owed[1] /\ Len(owed) \in Nat \ {0} /\ Len(owed') = Len(owed) - 1
      /\ \A i \in 1 .. Len(owed) - 1 : owed'[i] = owed[i + 1]
  BY <1>1, ToolsHead
<1>4. /\ Len(trail) \in Nat /\ sink.seq \in Nat
      /\ \A line \in ToolsLines :
           /\ Len(Append(trail, line)) = Len(trail) + 1
           /\ \A i \in 1 .. Len(trail) : Append(trail, line)[i] = trail[i]
           /\ Append(trail, line)[Len(trail) + 1] = line
  BY <1>1, ToolsAppends DEF ToolsShaped, ToolsIsSink
<1>5. /\ (\A i \in 1 .. Len(trail) : trail[i].whole) =>
           sink.seq = Len(trail) /\ \A i \in 1 .. Len(trail) : trail[i].seq = i - 1
      /\ ~sink.warned => told \subseteq Tools!Recorded \cup ToolsPending
      /\ \A i \in 1 .. Len(owed) : owed[i].what = "run_end" => toolCall.step = "ended" /\ Len(owed) = 1
  BY <1>2 DEF ToolsTold
<1>6. ToolsPending = {Head(owed)} \cup ToolsPending'
  <2>1. ASSUME NEW i \in 1 .. Len(owed) PROVE owed[i] \in {Head(owed)} \cup ToolsPending'
    <3>1. CASE i = 1
      BY <1>3, <3>1
    <3>2. CASE i # 1
      <4>1. i - 1 \in 1 .. Len(owed') /\ owed'[i - 1] = owed[i]
        BY <1>3, <3>2
      <4> QED BY <4>1 DEF ToolsPending
    <3> QED BY <3>1, <3>2
  <2>2. ASSUME NEW i \in 1 .. Len(owed') PROVE owed'[i] \in ToolsPending
    <3>1. i + 1 \in 1 .. Len(owed) /\ owed'[i] = owed[i + 1]
      BY <1>3
    <3> QED BY <3>1 DEF ToolsPending
  <2>3. Head(owed) \in ToolsPending
    BY <1>3 DEF ToolsPending
  <2> QED BY <2>1, <2>2, <2>3 DEF ToolsPending
<1>7. \A i \in 1 .. Len(owed') : owed'[i].what # "run_end"
  <2> SUFFICES ASSUME NEW i \in 1 .. Len(owed'), owed'[i].what = "run_end" PROVE FALSE
    OBVIOUS
  <2>0. /\ Len(owed) \in Nat /\ Len(owed') = Len(owed) - 1 /\ i \in Nat /\ 1 <= i /\ i <= Len(owed')
        /\ owed'[i] = owed[i + 1]
    BY <1>3
  <2>1. i + 1 \in 1 .. Len(owed) /\ owed[i + 1].what = "run_end" /\ Len(owed) # 1
    BY <2>0
  <2> QED BY <1>5, <2>1
<1>8. CASE trail' = trail /\ sink'.warned
  <2>1. \A line \in ToolsLines : trail' # Append(trail, line)
    BY <1>4, <1>8
  <2>2. sink'.seq = sink.seq
    BY <2>1 DEF ToolsEmits
  <2> QED BY <1>1, <1>2, <1>5, <1>7, <1>8, <2>2 DEF ToolsTold
<1>9. ASSUME NEW line \in ToolsLines, trail' = Append(trail, line),
             line.event = Head(owed), line.seq = sink.seq,
             line.warned = (line.event.what = "run_end" /\ sink.warned),
             \/ line.whole /\ sink'.seq = sink.seq + 1 /\ sink'.warned = sink.warned
             \/ ~line.whole /\ sink'.seq = sink.seq /\ sink'.warned
      PROVE  ToolsTold'
  <2>1. /\ Len(trail') = Len(trail) + 1 /\ \A i \in 1 .. Len(trail) : trail'[i] = trail[i]
        /\ trail'[Len(trail) + 1] = line
    BY <1>4, <1>9
  <2>2. Tools!Recorded' = Tools!Recorded \cup {Head(owed)}
    <3>1. \A i \in 1 .. Len(trail') : i \in 1 .. Len(trail) \/ i = Len(trail) + 1
      BY <1>4, <2>1
    <3>2. \A i \in 1 .. Len(trail) : i \in 1 .. Len(trail')
      BY <1>4, <2>1
    <3>3. Len(trail) + 1 \in 1 .. Len(trail')
      BY <1>4, <2>1
    <3> QED BY <1>9, <2>1, <3>1, <3>2, <3>3 DEF Tools!Recorded
  <2>3. (\A i \in 1 .. Len(trail') : trail'[i].whole) =>
          sink'.seq = Len(trail') /\ \A i \in 1 .. Len(trail') : trail'[i].seq = i - 1
    <3> SUFFICES ASSUME \A i \in 1 .. Len(trail') : trail'[i].whole
                 PROVE  sink'.seq = Len(trail') /\ \A i \in 1 .. Len(trail') : trail'[i].seq = i - 1
      OBVIOUS
    <3>1. line.whole /\ \A i \in 1 .. Len(trail) : trail[i].whole
      BY <1>4, <2>1
    <3>2. /\ sink.seq = Len(trail) /\ sink'.seq = sink.seq + 1
          /\ \A i \in 1 .. Len(trail) : trail[i].seq = i - 1
      BY <1>5, <1>9, <3>1
    <3> QED BY <1>4, <1>9, <2>1, <3>2
  <2>4. ~sink'.warned => told' \subseteq Tools!Recorded' \cup ToolsPending'
    BY <1>1, <1>5, <1>6, <1>9, <2>2
  <2>5. ASSUME NEW i \in 1 .. Len(trail'), trail'[i].event.what = "run_end"
        PROVE  toolCall'.step = "ended" /\ owed' = <<>> /\ (~trail'[i].warned => told' \subseteq Tools!Recorded')
    <3>1. i = Len(trail) + 1 /\ trail'[i] = line
      BY <1>2, <1>4, <2>1, <2>5
    <3>2. owed[1].what = "run_end" /\ 1 \in 1 .. Len(owed)
      BY <1>3, <1>9, <2>5, <3>1
    <3>3. toolCall.step = "ended" /\ Len(owed) = 1
      BY <1>5, <3>2
    <3>4. ToolsPending = {Head(owed)}
      BY <1>3, <3>3 DEF ToolsPending
    <3>5. owed' = <<>>
      <4>1. owed' \in Seq(ToolsEvents) /\ Len(owed') = 0
        BY <1>1, <1>3, <3>3, ToolsHead
      <4> QED BY <4>1
    <3>6. ~line.warned => ~sink.warned
      BY <1>9, <2>5, <3>1
    <3> QED BY <1>1, <1>5, <2>2, <3>1, <3>3, <3>4, <3>5, <3>6
  <2> QED BY <1>1, <1>2, <1>7, <2>3, <2>4, <2>5 DEF ToolsTold
<1> QED BY <1>8, <1>9 DEF ToolsEmits

-----------------------------------------------------------------------------
(* What each step keeps.                                                     *)

LEMMA ToolsActTells ==
  ASSUME ToolsShaped, ToolsTold, ToolsActs
  PROVE  ToolsTold'
<1>1. /\ UNCHANGED <<sink, trail>> /\ Tools!Recorded' = Tools!Recorded
      /\ owed = <<>> /\ toolCall.step \notin {"none", "ended"} /\ toolCall'.step # "none"
      /\ Len(owed) = 0 /\ ToolsPending = {}
  BY DEF ToolsActs, ToolsPending, Tools!Recorded
<1>2. /\ ~sink.on => trail = <<>>
      /\ (\A i \in 1 .. Len(trail) : trail[i].whole) =>
           sink.seq = Len(trail) /\ \A i \in 1 .. Len(trail) : trail[i].seq = i - 1
      /\ sink.on /\ ~sink.warned => told \subseteq Tools!Recorded
      /\ \A i \in 1 .. Len(trail) : trail[i].event.what # "run_end"
  BY <1>1 DEF ToolsTold
<1>3. CASE owed' = owed /\ told' = told
  BY <1>1, <1>2, <1>3 DEF ToolsTold
<1>4. ASSUME NEW a, NEW b, a.what = "run_end" => toolCall'.step = "ended", b.what # "run_end",
             \/ owed' = (IF sink.on THEN <<a>> ELSE <<>>) /\ told' \subseteq told \cup {a}
             \/ /\ a.what # "run_end"
                /\ owed' = (IF sink.on THEN <<a, b>> ELSE <<>>) /\ told' \subseteq told \cup {a, b}
      PROVE  ToolsTold'
  <2>1. CASE ~sink.on
    <3>1. owed' = <<>> /\ Len(owed') = 0
      BY <1>4, <2>1
    <3> QED BY <1>1, <1>2, <2>1, <3>1 DEF ToolsTold
  <2>2. CASE sink.on /\ owed' = <<a>> /\ told' \subseteq told \cup {a}
    <3>1. Len(owed') = 1 /\ owed'[1] = a /\ 1 .. Len(owed') = {1}
      BY <2>2
    <3>2. ToolsPending' = {a}
      BY <3>1 DEF ToolsPending
    <3>3. \A i \in 1 .. Len(owed') : owed'[i].what = "run_end" => toolCall'.step = "ended" /\ Len(owed') = 1
      BY <1>4, <3>1
    <3> QED BY <1>1, <1>2, <2>2, <3>2, <3>3 DEF ToolsTold
  <2>3. CASE sink.on /\ a.what # "run_end" /\ owed' = <<a, b>> /\ told' \subseteq told \cup {a, b}
    <3>1. owed'[1] = a /\ owed'[2] = b /\ 1 .. Len(owed') = {1, 2}
      BY <2>3
    <3>2. ToolsPending' = {a, b}
      BY <3>1 DEF ToolsPending
    <3>3. \A i \in 1 .. Len(owed') : owed'[i].what # "run_end"
      BY <1>4, <2>3, <3>1
    <3> QED BY <1>1, <1>2, <2>3, <3>2, <3>3 DEF ToolsTold
  <2> QED BY <1>4, <2>1, <2>2, <2>3
<1> QED BY <1>3, <1>4 DEF ToolsActs

LEMMA ToolsActShaped ==
  ASSUME ToolsShaped, ToolsActs
  PROVE  ToolsShaped'
<1>1. UNCHANGED <<inForce, policy, ctx, sink, trail>> /\ Tools!Resolve(inForce') = policy'
  BY DEF ToolsActs, ToolsShaped
<1>2. ToolsIsCall(toolCall') /\ toolCall'.tool \in Tools!Tools /\ toolCalls' \in Nat
  BY DEF ToolsActs
<1>3. owed' \in Seq(ToolsEvents)
  <2>1. ASSUME NEW a \in ToolsEvents, NEW b \in ToolsEvents, owed' = <<a>> \/ owed' = <<a, b>>
        PROVE  owed' \in Seq(ToolsEvents)
    <3>1. <<a>> \in Seq(ToolsEvents)
      OBVIOUS
    <3>2. <<a, b>> \in Seq(ToolsEvents)
      OBVIOUS
    <3> QED BY <2>1, <3>1, <3>2
  <2>2. <<>> \in Seq(ToolsEvents)
    OBVIOUS
  <2>3. owed \in Seq(ToolsEvents)
    BY DEF ToolsShaped
  <2>4. \/ owed' = owed \/ owed' = <<>>
        \/ \E a, b \in ToolsEvents : owed' = <<a>> \/ owed' = <<a, b>>
    BY Zenon DEF ToolsActs
  <2> QED BY <2>1, <2>2, <2>3, <2>4, Zenon
<1> QED BY <1>1, <1>2, <1>3 DEF ToolsShaped

LEMMA ToolsEmitKeeps ==
  ASSUME ToolsIInv, NEW fault \in {"none", "lost", "torn"}, Tools!Emit(fault)
  PROVE  ToolsIInv'
<1>1. ToolsEmits
  BY ToolsEmitting DEF ToolsIInv
<1>2. ToolsTold'
  BY <1>1, ToolsEmitTells DEF ToolsIInv
<1>3. UNCHANGED <<inForce, policy, ctx, toolCall, toolCalls>> /\ ToolsIsSink(sink')
  BY <1>1 DEF ToolsEmits
<1>4. ToolsAdmitted'
  BY <1>3 DEF ToolsIInv, ToolsAdmitted, Tools!CheckTool, Tools!CheckPath, Tools!CheckCommand,
     Tools!Isolates
<1>5. owed' \in Seq(ToolsEvents)
  BY <1>1, ToolsHead DEF ToolsIInv, ToolsShaped, ToolsEmits
<1>6. trail' \in Seq(ToolsLines)
  BY <1>1, ToolsAppends DEF ToolsIInv, ToolsShaped, ToolsEmits
<1>7. ToolsShaped'
  BY <1>3, <1>5, <1>6 DEF ToolsIInv, ToolsShaped
<1> QED BY <1>2, <1>4, <1>7 DEF ToolsIInv

LEMMA ToolsBeginKeeps ==
  ASSUME ToolsIInv, toolCall.step = "none",
         NEW sources \in [Layers -> Tools!Sources], NEW mode, NEW asker, NEW host \in Tools!Hosts,
         NEW sinks \in BOOLEAN, Tools!Begin(sources, mode, asker, host, sinks)
  PROVE  ToolsIInv'
<1> DEFINE first == Tools!Event("run_start")
<1>1. /\ inForce' = sources /\ policy' = Tools!Resolve(sources) /\ ctx'.host = host
      /\ toolCall' = Tools!NoCall /\ sink' = [Tools!Closed EXCEPT !.on = sinks]
      /\ owed' = IF sinks THEN <<first>> ELSE <<>>
      /\ UNCHANGED <<trail, toolCalls, told>>
  BY DEF Tools!Begin
<1>2. trail = <<>> /\ Len(trail) = 0 /\ told = {} /\ toolCalls \in Nat /\ trail \in Seq(ToolsLines)
  BY DEF ToolsIInv, ToolsTold, ToolsShaped
<1>3. first \in ToolsEvents /\ first.what # "run_end"
  BY <1>2, ToolsEvent DEF ToolsWhats
<1> HIDE DEF first
<1>4. ToolsIsSink(sink') /\ sink'.on = sinks /\ sink'.seq = 0
  BY <1>1 DEF Tools!Closed, ToolsIsSink
<1>5. owed' \in Seq(ToolsEvents) /\ \A i \in 1 .. Len(owed') : owed'[i].what # "run_end"
  <2>1. CASE sinks
    BY <1>1, <1>3, <2>1
  <2>2. CASE ~sinks
    BY <1>1, <2>2
  <2> QED BY <2>1, <2>2
<1>6. ToolsIsCall(toolCall') /\ toolCall'.tool \in Tools!Tools /\ toolCall'.step = "idle"
  BY <1>1, ToolsNoCall
<1>7. ToolsShaped'
  BY <1>1, <1>2, <1>4, <1>5, <1>6 DEF ToolsShaped
<1>8. ToolsAdmitted'
  BY <1>6 DEF ToolsAdmitted
<1>9. ToolsTold'
  BY <1>1, <1>2, <1>4, <1>5, <1>6 DEF ToolsTold
<1> QED BY <1>7, <1>8, <1>9 DEF ToolsIInv

LEMMA ToolsCallAdmits ==
  ASSUME ToolsIInv, NEW tool \in Tools!Tools, NEW texts, NEW net, Tools!Call(tool, texts, net)
  PROVE  ToolsAdmitted'
<1>1. policy' = policy
  BY DEF Tools!Call, Tools!pol
<1>2. \/ toolCall' = Tools!NoCall \/ toolCall' = toolCall
      \/ /\ Tools!CheckTool(policy, tool)
         /\ Tools!TargetsAllowed(tool, texts)
         /\ \E x \in {"asking", "start"} :
              toolCall' = [Tools!NoCall EXCEPT !.step = x, !.tool = tool, !.texts = texts, !.net = net]
  BY DEF Tools!Call
<1>3. CASE toolCall' = Tools!NoCall
  BY <1>3, ToolsNoCall DEF ToolsAdmitted
<1>4. CASE toolCall' = toolCall
  <2>1. toolCall.step = "idle"
    BY DEF Tools!Call, Tools!Ready
  <2> QED BY <1>4, <2>1 DEF ToolsAdmitted
<1>5. ASSUME Tools!CheckTool(policy, tool), Tools!TargetsAllowed(tool, texts),
             NEW x \in {"asking", "start"},
             toolCall' = [Tools!NoCall EXCEPT !.step = x, !.tool = tool, !.texts = texts, !.net = net]
      PROVE  ToolsAdmitted'
  <2>1. toolCall'.tool = tool /\ toolCall'.step = x /\ toolCall'.texts = texts
    BY <1>5 DEF Tools!NoCall
  <2>2. tool = "write_file" => \A t \in texts : Tools!CheckPath(policy, t)
    BY <1>5 DEF Tools!TargetsAllowed
  <2>3. tool = "shell" => Tools!CheckCommand(policy, texts)
    BY <1>5 DEF Tools!TargetsAllowed
  <2> QED BY <1>1, <1>5, <2>1, <2>2, <2>3 DEF ToolsAdmitted, Tools!CheckTool, Tools!CheckPath,
             Tools!CheckCommand
<1> QED BY <1>2, <1>3, <1>4, <1>5

(* The call after the approval.                                              *)
LEMMA ToolsCallGoesOn ==
  ASSUME ToolsIInv,
         \/ \E b \in BOOLEAN : \/ Tools!Approve(b) \/ Tools!FileTool(b) \/ Tools!PickCheck(b)
                              \/ Tools!AskNetwork(b) \/ Tools!Close(b)
         \/ Tools!Plan \/ Tools!End
  PROVE  ToolsAdmitted'
<1>0. ToolsIsCall(toolCall) /\ policy' = policy
  BY DEF ToolsIInv, ToolsShaped, Tools!pol, Tools!Approve, Tools!FileTool, Tools!PickCheck,
     Tools!AskNetwork,
     Tools!Close, Tools!Plan, Tools!End
<1>1. CASE toolCall' = Tools!NoCall
  BY <1>1, ToolsNoCall DEF ToolsAdmitted
<1>2. ASSUME NEW b \in BOOLEAN, Tools!Approve(b), toolCall' # Tools!NoCall
      PROVE  ToolsAdmitted'
  <2>1. toolCall.step = "asking" /\ toolCall' = [toolCall EXCEPT !.step = "start"]
    BY <1>2 DEF Tools!Approve, Tools!Ready
  <2>2. ToolsGoesOn(toolCall', toolCall, "start")
    BY <1>0, <2>1, ToolsStepTaken
  <2> QED BY <1>0, <2>1, <2>2 DEF ToolsIInv, ToolsAdmitted, ToolsGoesOn, Tools!CheckTool,
             Tools!CheckPath,
          Tools!CheckCommand
<1>3. ASSUME NEW b \in BOOLEAN, Tools!PickCheck(b), toolCall' # Tools!NoCall
      PROVE  ToolsAdmitted'
  <2>1. /\ toolCall.step = "start" /\ Tools!CheckCommand(policy, toolCall.texts)
        /\ toolCall' = [toolCall EXCEPT !.step = "plan"]
    BY <1>3 DEF Tools!PickCheck, Tools!Ready, Tools!Settle
  <2>2. ToolsGoesOn(toolCall', toolCall, "plan")
    BY <1>0, <2>1, ToolsStepTaken
  <2> QED BY <1>0, <2>1, <2>2 DEF ToolsIInv, ToolsAdmitted, ToolsGoesOn, Tools!CheckTool,
             Tools!CheckCommand
<1>4. ASSUME NEW b \in BOOLEAN, Tools!AskNetwork(b), toolCall' # Tools!NoCall
      PROVE  ToolsAdmitted'
  <2>1. toolCall.step = "start" /\ toolCall.tool = "shell"
    BY <1>4 DEF Tools!AskNetwork, Tools!Ready
  <2>2. PICK y : toolCall' = [toolCall EXCEPT !.step = "plan", !.open = y]
    BY <1>4 DEF Tools!AskNetwork
  <2>3. ToolsGoesOn(toolCall', toolCall, "plan")
    BY <1>0, <2>2, ToolsOpened
  <2> QED BY <1>0, <2>1, <2>3 DEF ToolsIInv, ToolsAdmitted, ToolsGoesOn, Tools!CheckTool,
             Tools!CheckCommand
<1>5. ASSUME Tools!Plan, toolCall' # Tools!NoCall
      PROVE  ToolsAdmitted'
  <2> DEFINE inside == Tools!Sandboxed
  <2>1. /\ toolCall.step = "plan" /\ ~(Tools!Isolates(policy) /\ ctx.host = "bare")
        /\ toolCall' = [toolCall EXCEPT !.step = "running", !.isolated = inside]
    BY <1>5 DEF Tools!Plan, Tools!Ready
  <2> HIDE DEF inside
  <2>2. ASSUME NEW y, y = inside PROVE ToolsGoesOn(toolCall', toolCall, "running") /\ toolCall'.isolated = inside
    <3>1. toolCall' = [toolCall EXCEPT !.step = "running", !.isolated = y]
      BY <2>1, <2>2
    <3>2. ToolsGoesOn(toolCall', toolCall, "running")
      BY <1>0, <3>1, ToolsIsolated
    <3>3. toolCall'.isolated = y
      BY <1>0, <3>1 DEF ToolsIsCall
    <3> QED BY <2>2, <3>2, <3>3
  <2>3. Tools!Isolates(policy) => inside
    BY <2>1 DEF ToolsIInv, ToolsShaped, Tools!Hosts, Tools!Sandboxed, inside
  <2> QED BY <1>0, <2>1, <2>2, <2>3 DEF ToolsIInv, ToolsAdmitted, ToolsGoesOn, Tools!CheckTool,
          Tools!CheckCommand, Tools!Isolates
<1>6. CASE Tools!End
  <2>1. toolCall' = [toolCall EXCEPT !.step = "ended"]
    BY <1>6 DEF Tools!End
  <2>2. ToolsGoesOn(toolCall', toolCall, "ended")
    BY <1>0, <2>1, ToolsStepTaken
  <2> QED BY <2>2 DEF ToolsAdmitted, ToolsGoesOn
<1>7. ASSUME NEW b, Tools!FileTool(b) \/ Tools!Close(b) PROVE toolCall' = Tools!NoCall
  BY <1>7 DEF Tools!FileTool, Tools!Close, Tools!Settle
<1> QED BY <1>1, <1>2, <1>3, <1>4, <1>5, <1>6, <1>7

LEMMA ToolsInitHolds == Tools!Init => ToolsIInv
<1> SUFFICES ASSUME Tools!Init PROVE ToolsIInv
  OBVIOUS
<1>1. /\ inForce = [l \in Layers |-> [read |-> "absent", says |-> Tools!Permissive]]
      /\ policy = Tools!Permissive /\ ctx = Tools!NoCtx
      /\ toolCall = [Tools!NoCall EXCEPT !.step = "none"] /\ owed = <<>>
      /\ sink = Tools!Closed /\ trail = <<>> /\ toolCalls = 0 /\ told = {}
  BY DEF Tools!Init
<1>2. ToolsGoesOn(toolCall, Tools!NoCall, "none")
  BY <1>1, ToolsNoCall, ToolsStepTaken
<1>3. inForce \in [Layers -> Tools!Sources]
  <2>1. [read |-> "absent", says |-> Tools!Permissive] \in Tools!Sources
    BY DEF Tools!Sources
  <2> QED BY <1>1, <2>1
<1>4. policy = Tools!Resolve(inForce)
  <2>1. Tools!Applied(inForce) = {}
    BY <1>1 DEF Tools!Applied
  <2> QED BY <1>1, <2>1 DEF Tools!Resolve
<1>5. ToolsIsSink(sink) /\ ~sink.on /\ sink.seq = 0
  BY <1>1 DEF Tools!Closed, ToolsIsSink
<1>6. ToolsShaped
  <2>1. ctx.host \in Tools!Hosts
    BY <1>1 DEF Tools!NoCtx, Tools!Hosts
  <2>2. toolCall.tool \in Tools!Tools /\ ToolsIsCall(toolCall)
    BY <1>2, ToolsNoCall DEF ToolsGoesOn
  <2>3. owed \in Seq(ToolsEvents) /\ trail \in Seq(ToolsLines)
    BY <1>1
  <2> QED BY <1>1, <1>3, <1>4, <1>5, <2>1, <2>2, <2>3 DEF ToolsShaped
<1>7. ToolsAdmitted
  BY <1>2 DEF ToolsAdmitted, ToolsGoesOn
<1>8. ToolsTold
  BY <1>1, <1>2, <1>5 DEF ToolsTold, ToolsGoesOn
<1> QED BY <1>6, <1>7, <1>8 DEF ToolsIInv

LEMMA ToolsNextKeeps == ToolsIInv /\ [Tools!Next]_Tools!vars => ToolsIInv'
<1> SUFFICES ASSUME ToolsIInv, [Tools!Next]_Tools!vars PROVE ToolsIInv'
  OBVIOUS
<1>1. CASE UNCHANGED Tools!vars
  BY <1>1 DEF Tools!vars, Tools!pol, Tools!log, ToolsIInv, ToolsShaped, ToolsAdmitted, ToolsTold,
     ToolsPending,
     Tools!Recorded, Tools!CheckTool, Tools!CheckPath, Tools!CheckCommand, Tools!Isolates
<1>2. CASE \/ \E tool \in Tools!Tools, texts \in SUBSET Texts, net \in Tools!Nets : Tools!Call(tool, texts, net)
           \/ \E b \in BOOLEAN : \/ Tools!Approve(b) \/ Tools!FileTool(b) \/ Tools!PickCheck(b)
                                \/ Tools!AskNetwork(b) \/ Tools!Close(b)
           \/ Tools!Plan \/ Tools!End
  <2>1. ToolsShaped /\ ToolsTold
    BY DEF ToolsIInv
  <2>2. ToolsActs
    BY <1>2, <2>1, ToolsCallActs
  <2>3. ToolsAdmitted'
    BY <1>2, ToolsCallAdmits, ToolsCallGoesOn
  <2> QED BY <2>1, <2>2, <2>3, ToolsActTells, ToolsActShaped DEF ToolsIInv
<1>3. CASE /\ toolCall.step = "none"
           /\ \E sources \in [Layers -> Tools!Sources], mode \in Tools!Modes, host \in Tools!Hosts,
                 asker, sinks \in BOOLEAN :
                Tools!Begin(sources, mode, asker, host, sinks)
  BY <1>3, ToolsBeginKeeps
<1>4. CASE \E fault \in {"none", "lost", "torn"} : Tools!Emit(fault)
  BY <1>4, ToolsEmitKeeps
<1> QED BY <1>1, <1>2, <1>3, <1>4 DEF Tools!Next

LEMMA ToolsTellAll == ToolsIInv => Tools!TrailTellsAll
<1> SUFFICES ASSUME ToolsIInv PROVE Tools!TrailTellsAll
  OBVIOUS
<1>1. /\ (\A i \in 1 .. Len(trail) : trail[i].whole) => \A i \in 1 .. Len(trail) : trail[i].seq = i - 1
      /\ \A i \in 1 .. Len(trail) : trail[i].event.what = "run_end" /\ ~trail[i].warned =>
           told \subseteq Tools!Recorded
  BY DEF ToolsIInv, ToolsTold
<1>2. trail # <<>> => Len(trail) \in 1 .. Len(trail)
  BY DEF ToolsIInv, ToolsShaped
<1> QED BY <1>1, <1>2 DEF Tools!TrailTellsAll, Tools!Verifies

-----------------------------------------------------------------------------
(* The security panel (DvalinPanel).                                         *)

PanelFields == {"cwd", "connected", "ready", "busy", "stage", "verifying", "review", "result"}
PanelPastFields == {"asked", "by", "of", "saw", "rescan", "left"}

PanelTyped ==
  /\ DOMAIN panel = PanelFields /\ DOMAIN panelPast = PanelPastFields
  /\ DOMAIN turn = {"active", "count"}
  /\ panel.busy \in BOOLEAN /\ panel.review \in BOOLEAN
  /\ panelPast.saw \in Nat /\ code \in Nat
  /\ panelPast.rescan \in {"none", "refused", "awaited", "unwatched", "back", "failed", "overtaken"}

(* The Verify request awaited is the last one.                               *)
PanelAsked == panel.verifying # Panel!Nothing => panelPast.asked = panel.verifying

(* While the scan after the review is awaited and watched, it shows.         *)
PanelAwaits == panel.review /\ panelPast.rescan = "awaited" => panel.busy /\ panel.stage = "verify"

(* Once it is back, it is the scan that is shown.                            *)
PanelShown ==
  panel.review /\ panelPast.rescan = "back" =>
    panel.result.of = panelPast.of /\ panel.result.saw = panelPast.saw

PanelIInv ==
  /\ PanelTyped /\ PanelAsked /\ PanelAwaits /\ PanelShown
  /\ Panel!ReviewIsOfThis /\ Panel!RunningIsReal

LEMMA PanelInitHolds == Panel!Init => PanelIInv
  BY DEF Panel!Init, Panel!Fresh, Panel!InitPast, Panel!NoResult, Panel!Nothing, PanelIInv,
     PanelTyped, PanelFields, PanelPastFields, PanelAsked, PanelAwaits, PanelShown,
     Panel!ReviewIsOfThis, Panel!RunningIsReal

LEMMA PanelHonestNow == PanelIInv => Panel!PanelIsHonest
<1> SUFFICES ASSUME PanelIInv PROVE Panel!EvidenceIsNew
  BY DEF PanelIInv, Panel!PanelIsHonest
<1> SUFFICES ASSUME Panel!EvidenceReady,
                    panelPast.rescan \notin {"failed", "refused", "unwatched", "overtaken"}
             PROVE  panel.result.of = panel.cwd /\ panel.result.saw >= panelPast.saw
  BY DEF Panel!EvidenceIsNew
<1>1. panel.review /\ ~(panel.busy /\ panel.stage = "verify")
  BY DEF Panel!EvidenceReady, Panel!Running
<1>2. panelPast.of = panel.cwd /\ panelPast.rescan # "none"
  BY <1>1 DEF PanelIInv, Panel!ReviewIsOfThis
<1>3. panelPast.rescan # "awaited"
  BY <1>1 DEF PanelIInv, PanelAwaits
<1>4. panelPast.rescan = "back" /\ panelPast.saw \in Nat
  BY <1>2, <1>3 DEF PanelIInv, PanelTyped
<1>5. panel.result.of = panelPast.of /\ panel.result.saw = panelPast.saw
  BY <1>1, <1>4 DEF PanelIInv, PanelShown
<1> QED
  BY <1>2, <1>4, <1>5

(* What a scan that is begun does to the panel.                              *)
LEMMA PanelRunsScan ==
  ASSUME NEW p, DOMAIN p = PanelFields, p.busy \in BOOLEAN, p.review \in BOOLEAN,
         NEW next, NEW now, Panel!RunScan(p, next, now)
  PROVE  /\ DOMAIN panel' = PanelFields
         /\ panel'.cwd = p.cwd /\ panel'.stage = p.stage /\ panel'.verifying = p.verifying
         /\ panel'.result = p.result
         /\ panel'.busy = IF Panel!Usable(p) THEN TRUE ELSE p.busy
         /\ panel'.review = IF Panel!Usable(p) THEN p.review /\ next = "verify" ELSE p.review
<1>1. CASE Panel!Usable(p)
  <2>1. panel' = [p EXCEPT !.busy = TRUE, !.review = @ /\ next = "verify"]
    BY <1>1 DEF Panel!RunScan
  <2>2. DOMAIN panel' = PanelFields /\ panel'.busy = TRUE
    BY <2>1 DEF PanelFields
  <2>3. /\ panel'.cwd = p.cwd /\ panel'.stage = p.stage /\ panel'.verifying = p.verifying
        /\ panel'.result = p.result
    BY <2>1 DEF PanelFields
  <2>4. panel'.review = (p.review /\ next = "verify")
    BY <2>1 DEF PanelFields
  <2> QED
    BY <1>1, <2>2, <2>3, <2>4
<1>2. CASE ~Panel!Usable(p)
  BY <1>2 DEF Panel!RunScan
<1> QED
  BY <1>1, <1>2

(* What became of the scan after the review when an answer arrives.          *)
LEMMA PanelNotesRescan ==
  ASSUME PanelTyped, NEW s, NEW how \in {"back", "failed"}, Panel!NoteRescan(s, how)
  PROVE  /\ DOMAIN panelPast' = PanelPastFields
         /\ UNCHANGED <<panelPast.asked, panelPast.by, panelPast.of, panelPast.saw, panelPast.left>>
         /\ \/ /\ panelPast'.rescan = how /\ Panel!Verifies(s)
               /\ s.of = panelPast.of /\ s.saw = panelPast.saw
            \/ panelPast'.rescan = "none" /\ panelPast.rescan = "none"
            \/ panelPast'.rescan = "overtaken"
         /\ panelPast.rescan # "none" => panelPast'.rescan # "none"
<1>1. panelPast' = [panelPast EXCEPT !.rescan =
                      IF Panel!Verifies(s) /\ s.of = panelPast.of /\ s.saw = panelPast.saw THEN how
                      ELSE IF panelPast.rescan = "none" THEN panelPast.rescan ELSE "overtaken"]
  BY DEF Panel!NoteRescan
<1>2. /\ DOMAIN panelPast' = PanelPastFields
      /\ UNCHANGED <<panelPast.asked, panelPast.by, panelPast.of, panelPast.saw, panelPast.left>>
  BY <1>1 DEF PanelTyped, PanelPastFields
<1>3. panelPast'.rescan = IF Panel!Verifies(s) /\ s.of = panelPast.of /\ s.saw = panelPast.saw THEN how
                          ELSE IF panelPast.rescan = "none" THEN panelPast.rescan ELSE "overtaken"
  BY <1>1 DEF PanelTyped, PanelPastFields
<1> QED
  BY <1>2, <1>3

(* A step that leaves what the verification is about.                        *)
LEMMA PanelUntouched ==
  ASSUME PanelIInv, UNCHANGED <<panelPast, turn>>,
         DOMAIN panel' = PanelFields, panel'.busy \in BOOLEAN, panel'.review \in BOOLEAN,
         code' \in Nat,
         panel'.verifying = panel.verifying,
         panel'.review => /\ panel.review /\ panel'.cwd = panel.cwd /\ panel'.result = panel.result
                          /\ panel'.busy = panel.busy /\ panel'.stage = panel.stage
  PROVE  PanelIInv'
<1>1. PanelTyped'
  BY DEF PanelIInv, PanelTyped
<1>2. PanelAsked' /\ Panel!RunningIsReal'
  BY DEF PanelIInv, PanelAsked, Panel!RunningIsReal, Panel!Nothing
<1>3. PanelAwaits' /\ PanelShown' /\ Panel!ReviewIsOfThis'
  BY DEF PanelIInv, PanelAwaits, PanelShown, Panel!ReviewIsOfThis
<1> QED
  BY <1>1, <1>2, <1>3 DEF PanelIInv

LEMMA PanelScanKeeps ==
  ASSUME PanelIInv, Panel!Scan
  PROVE  PanelIInv'
<1>1. /\ DOMAIN panel = PanelFields /\ panel.busy \in BOOLEAN /\ panel.review \in BOOLEAN
      /\ code \in Nat
  BY DEF PanelIInv, PanelTyped
<1>2. /\ Panel!RunScan(panel, "other", code) /\ Panel!Usable(panel)
      /\ UNCHANGED <<turn, code, panelPast>>
  BY DEF Panel!Scan
<1>3. panel' = [panel EXCEPT !.busy = TRUE, !.review = FALSE]
  BY <1>2 DEF Panel!RunScan
<1>4. /\ DOMAIN panel' = PanelFields /\ panel'.verifying = panel.verifying
      /\ panel'.busy = TRUE /\ panel'.review = FALSE
  BY <1>1, <1>3 DEF PanelFields
<1> QED
  BY <1>1, <1>2, <1>4, PanelUntouched

LEMMA PanelImportKeeps ==
  ASSUME PanelIInv, Panel!Import
  PROVE  PanelIInv'
<1>1. DOMAIN panel = PanelFields /\ code \in Nat /\ panel.review \in BOOLEAN
  BY DEF PanelIInv, PanelTyped
<1>2. panel' = [panel EXCEPT !.busy = TRUE] /\ UNCHANGED <<turn, code, panelPast>> /\ ~panel.busy
  BY DEF Panel!Import
<1>3. /\ DOMAIN panel' = PanelFields /\ panel'.busy = TRUE /\ panel'.review = panel.review
      /\ panel'.verifying = panel.verifying /\ panel'.cwd = panel.cwd
      /\ panel'.result = panel.result /\ panel'.stage = panel.stage
  BY <1>1, <1>2 DEF PanelFields
<1>4. PanelTyped'
  BY <1>1, <1>2, <1>3 DEF PanelIInv, PanelTyped
<1>5. PanelAwaits' /\ PanelShown' /\ Panel!ReviewIsOfThis'
  BY <1>2, <1>3 DEF PanelIInv, PanelAwaits, PanelShown, Panel!ReviewIsOfThis
<1>6. PanelAsked' /\ Panel!RunningIsReal'
  BY <1>2, <1>3 DEF PanelIInv, PanelAsked, Panel!RunningIsReal, Panel!Nothing
<1> QED
  BY <1>4, <1>5, <1>6 DEF PanelIInv

LEMMA PanelScanDoneKeeps ==
  ASSUME PanelIInv, NEW s, NEW clean, Panel!ScanDone(s, clean)
  PROVE  PanelIInv'
<1> DEFINE shown == [of |-> s.of, saw |-> s.saw, clean |-> clean /\ s.next # "import"]
<1>1. DOMAIN panel = PanelFields /\ panel.review \in BOOLEAN /\ PanelTyped
  BY DEF PanelIInv, PanelTyped
<1>2. /\ panel' = [panel EXCEPT !.busy = FALSE, !.result = shown,
                                !.stage = IF Panel!Verifies(s) THEN "verify" ELSE "other",
                                !.review = @ /\ s.next # "import"]
      /\ Panel!NoteRescan(s, "back") /\ UNCHANGED <<turn, code>>
  BY DEF Panel!ScanDone
<1>3. shown.of = s.of /\ shown.saw = s.saw
  OBVIOUS
<1> HIDE DEF shown
<1>4. /\ DOMAIN panel' = PanelFields /\ panel'.busy = FALSE /\ panel'.result = shown
      /\ panel'.verifying = panel.verifying /\ panel'.cwd = panel.cwd
  BY <1>1, <1>2 DEF PanelFields
<1>5. panel'.review = (panel.review /\ s.next # "import")
  BY <1>1, <1>2 DEF PanelFields
<1>6. /\ DOMAIN panelPast' = PanelPastFields
      /\ UNCHANGED <<panelPast.asked, panelPast.by, panelPast.of, panelPast.saw, panelPast.left>>
      /\ \/ /\ panelPast'.rescan = "back" /\ Panel!Verifies(s)
            /\ s.of = panelPast.of /\ s.saw = panelPast.saw
         \/ panelPast'.rescan = "none" /\ panelPast.rescan = "none"
         \/ panelPast'.rescan = "overtaken"
      /\ panelPast.rescan # "none" => panelPast'.rescan # "none"
  BY <1>1, <1>2, PanelNotesRescan
<1>7. PanelTyped'
  BY <1>1, <1>2, <1>4, <1>5, <1>6 DEF PanelTyped
<1>8. PanelAwaits' /\ PanelShown'
  BY <1>3, <1>4, <1>6 DEF PanelAwaits, PanelShown
<1>9. Panel!ReviewIsOfThis'
  BY <1>4, <1>5, <1>6 DEF PanelIInv, Panel!ReviewIsOfThis
<1>10. PanelAsked' /\ Panel!RunningIsReal'
  BY <1>2, <1>4, <1>6 DEF PanelIInv, PanelAsked, Panel!RunningIsReal, Panel!Nothing
<1> QED
  BY <1>7, <1>8, <1>9, <1>10 DEF PanelIInv

LEMMA PanelScanFailedKeeps ==
  ASSUME PanelIInv, NEW s, NEW unreachable, Panel!ScanFailed(s, unreachable)
  PROVE  PanelIInv'
<1>1. DOMAIN panel = PanelFields /\ panel.review \in BOOLEAN /\ PanelTyped
  BY DEF PanelIInv, PanelTyped
<1>2. /\ panel' = [panel EXCEPT !.busy = FALSE,
                                !.ready = @ /\ ~(unreachable /\ s.next # "import")]
      /\ Panel!NoteRescan(s, "failed") /\ UNCHANGED <<turn, code>>
  BY DEF Panel!ScanFailed
<1>4. /\ DOMAIN panel' = PanelFields /\ panel'.busy = FALSE /\ panel'.result = panel.result
      /\ panel'.verifying = panel.verifying /\ panel'.cwd = panel.cwd
      /\ panel'.review = panel.review
  BY <1>1, <1>2 DEF PanelFields
<1>6. /\ DOMAIN panelPast' = PanelPastFields
      /\ UNCHANGED <<panelPast.asked, panelPast.by, panelPast.of, panelPast.saw, panelPast.left>>
      /\ \/ panelPast'.rescan = "failed"
         \/ panelPast'.rescan = "none" /\ panelPast.rescan = "none"
         \/ panelPast'.rescan = "overtaken"
      /\ panelPast.rescan # "none" => panelPast'.rescan # "none"
  BY <1>1, <1>2, PanelNotesRescan
<1>7. PanelTyped'
  BY <1>1, <1>2, <1>4, <1>6 DEF PanelTyped
<1>8. PanelAwaits' /\ PanelShown'
  BY <1>6 DEF PanelAwaits, PanelShown
<1>9. Panel!ReviewIsOfThis'
  BY <1>4, <1>6 DEF PanelIInv, Panel!ReviewIsOfThis
<1>10. PanelAsked' /\ Panel!RunningIsReal'
  BY <1>2, <1>4, <1>6 DEF PanelIInv, PanelAsked, Panel!RunningIsReal, Panel!Nothing
<1> QED
  BY <1>7, <1>8, <1>9, <1>10 DEF PanelIInv

LEMMA PanelVerifyKeeps ==
  ASSUME PanelIInv, Panel!RequestVerify
  PROVE  PanelIInv'
<1>1. DOMAIN panel = PanelFields /\ panel.busy \in BOOLEAN /\ PanelTyped
  BY DEF PanelIInv, PanelTyped
<1>2. /\ panel' = [panel EXCEPT !.stage = "verify", !.review = FALSE,
                                !.verifying = Panel!NextTurn]
      /\ turn' = [active |-> Panel!NextTurn, count |-> Panel!NextTurn]
      /\ panelPast' = [panelPast EXCEPT !.asked = Panel!NextTurn, !.left = FALSE]
      /\ UNCHANGED code
  BY DEF Panel!RequestVerify, Panel!PostTurn
<1>3. /\ DOMAIN panel' = PanelFields /\ panel'.busy = panel.busy /\ panel'.review = FALSE
      /\ panel'.verifying = Panel!NextTurn
  BY <1>1, <1>2 DEF PanelFields
<1>4. /\ DOMAIN panelPast' = PanelPastFields /\ panelPast'.asked = Panel!NextTurn
      /\ panelPast'.saw = panelPast.saw /\ panelPast'.rescan = panelPast.rescan
  BY <1>1, <1>2 DEF PanelTyped, PanelPastFields
<1>5. turn'.active = Panel!NextTurn /\ DOMAIN turn' = {"active", "count"}
  BY <1>2
<1>6. PanelTyped'
  BY <1>1, <1>2, <1>3, <1>4, <1>5 DEF PanelTyped
<1>7. PanelAsked' /\ PanelAwaits' /\ PanelShown' /\ Panel!ReviewIsOfThis' /\ Panel!RunningIsReal'
  BY <1>3, <1>4, <1>5 DEF PanelAsked, PanelAwaits, PanelShown, Panel!ReviewIsOfThis,
     Panel!RunningIsReal
<1> QED
  BY <1>6, <1>7 DEF PanelIInv

(* A message posted while a Verify request is awaited: its turn was let go.  *)
LEMMA PanelPosts ==
  ASSUME PanelIInv, ~Panel!Sending, Panel!PostTurn, UNCHANGED <<panelPast, code>>,
         DOMAIN panel' = PanelFields, panel'.busy \in BOOLEAN, panel'.review \in BOOLEAN,
         panel'.verifying = panel.verifying,
         panel'.review => UNCHANGED panel
  PROVE  PanelIInv'
<1>1. DOMAIN turn' = {"active", "count"}
  BY DEF Panel!PostTurn
<1>2. panel.verifying # Panel!Nothing => panelPast.left
  BY DEF PanelIInv, Panel!RunningIsReal, Panel!Sending
<1>3. PanelTyped'
  BY <1>1 DEF PanelIInv, PanelTyped
<1>4. PanelAsked' /\ Panel!RunningIsReal'
  BY <1>2 DEF PanelIInv, PanelAsked, Panel!RunningIsReal, Panel!Nothing
<1>5. PanelAwaits' /\ PanelShown' /\ Panel!ReviewIsOfThis'
  BY DEF PanelIInv, PanelAwaits, PanelShown, Panel!ReviewIsOfThis
<1> QED
  BY <1>3, <1>4, <1>5 DEF PanelIInv

LEMMA PanelFixKeeps ==
  ASSUME PanelIInv, Panel!RequestFix
  PROVE  PanelIInv'
<1>1. DOMAIN panel = PanelFields /\ panel.busy \in BOOLEAN
  BY DEF PanelIInv, PanelTyped
<1>2. /\ panel' = [panel EXCEPT !.stage = "other", !.review = FALSE]
      /\ Panel!PostTurn /\ ~Panel!Sending /\ UNCHANGED <<code, panelPast>>
  BY DEF Panel!RequestFix
<1>3. /\ DOMAIN panel' = PanelFields /\ panel'.busy = panel.busy /\ panel'.review = FALSE
      /\ panel'.verifying = panel.verifying
  BY <1>1, <1>2 DEF PanelFields
<1> QED
  BY <1>1, <1>2, <1>3, PanelPosts

LEMMA PanelSayKeeps ==
  ASSUME PanelIInv, Panel!Say
  PROVE  PanelIInv'
<1>1. DOMAIN panel = PanelFields /\ panel.busy \in BOOLEAN /\ panel.review \in BOOLEAN
  BY DEF PanelIInv, PanelTyped
<1>2. Panel!PostTurn /\ ~Panel!Sending /\ UNCHANGED <<panel, code, panelPast>>
  BY DEF Panel!Say
<1> QED
  BY <1>1, <1>2, PanelPosts

LEMMA PanelTurnKeeps ==
  ASSUME PanelIInv, NEW status \in {"completed", "interrupted", "error"}, NEW changed,
         Panel!TurnEnds(status, changed)
  PROVE  PanelIInv'
<1> DEFINE state == Panel!VerifyTurnState(status)
           p == [panel EXCEPT !.verifying = Panel!Nothing, !.review = (state = "completed")]
<1>1. /\ DOMAIN panel = PanelFields /\ panel.busy \in BOOLEAN /\ panel.review \in BOOLEAN
      /\ PanelTyped /\ code \in Nat
  BY DEF PanelIInv, PanelTyped
<1>2. /\ Panel!Sending /\ turn' = [turn EXCEPT !.active = Panel!Nothing]
      /\ code' = IF changed THEN code + 1 ELSE code
      /\ CASE state = "waiting" -> UNCHANGED <<panel, scans, panelPast>>
           [] state = "completed" ->
                /\ Panel!RunScan(p, "verify", code')
                /\ panelPast' = [panelPast EXCEPT !.by = turn.active, !.of = p.cwd, !.saw = code',
                                                  !.rescan = Panel!Rescan(p)]
           [] OTHER -> panel' = p /\ UNCHANGED <<scans, panelPast>>
  BY DEF Panel!TurnEnds
<1>3. /\ turn'.active = Panel!Nothing /\ DOMAIN turn' = {"active", "count"} /\ code' \in Nat
  BY <1>1, <1>2 DEF PanelTyped
<1>4. /\ state \in {"waiting", "completed", "interrupted", "error"}
      /\ state = "waiting" <=> panel.verifying # turn.active
  BY DEF Panel!VerifyTurnState
<1>5. p.review = (state = "completed")
  BY <1>1 DEF PanelFields
<1>6. /\ DOMAIN p = PanelFields /\ p.verifying = Panel!Nothing
      /\ p.cwd = panel.cwd /\ p.busy = panel.busy /\ p.stage = panel.stage
  BY <1>1 DEF PanelFields
<1> HIDE DEF p, state
<1>7. CASE state = "waiting"
  <2>1. UNCHANGED <<panel, panelPast>>
    BY <1>2, <1>7
  <2>2. panel.verifying # Panel!Nothing => panelPast.left
    BY <1>4, <1>7 DEF PanelIInv, Panel!RunningIsReal
  <2>3. PanelTyped'
    BY <1>1, <1>3, <2>1 DEF PanelTyped
  <2>4. PanelAsked' /\ Panel!RunningIsReal'
    BY <2>1, <2>2 DEF PanelIInv, PanelAsked, Panel!RunningIsReal, Panel!Nothing
  <2>5. PanelAwaits' /\ PanelShown' /\ Panel!ReviewIsOfThis'
    BY <2>1 DEF PanelIInv, PanelAwaits, PanelShown, Panel!ReviewIsOfThis
  <2> QED
    BY <2>3, <2>4, <2>5 DEF PanelIInv
<1>8. CASE state = "completed"
  <2>1. /\ Panel!RunScan(p, "verify", code')
        /\ panelPast' = [panelPast EXCEPT !.by = turn.active, !.of = p.cwd, !.saw = code',
                                          !.rescan = Panel!Rescan(p)]
    BY <1>2, <1>8
  <2>2. p.review = TRUE /\ p.busy \in BOOLEAN
    BY <1>1, <1>5, <1>6, <1>8
  <2>3. /\ DOMAIN panel' = PanelFields /\ panel'.verifying = Panel!Nothing
        /\ panel'.cwd = panel.cwd /\ panel'.stage = panel.stage
        /\ panel'.busy = (IF Panel!Usable(p) THEN TRUE ELSE p.busy) /\ panel'.review = TRUE
    BY <1>6, <2>1, <2>2, PanelRunsScan
  <2>4. /\ DOMAIN panelPast' = PanelPastFields /\ panelPast'.by = turn.active
        /\ panelPast'.of = panel.cwd /\ panelPast'.saw = code' /\ panelPast'.asked = panelPast.asked
        /\ panelPast'.rescan = Panel!Rescan(p)
    BY <1>1, <1>6, <2>1 DEF PanelTyped, PanelPastFields
  <2>5. /\ Panel!Rescan(p) \in {"refused", "awaited", "unwatched"}
        /\ Panel!Rescan(p) = "awaited" => Panel!Usable(p) /\ panel.stage = "verify"
    BY <1>6 DEF Panel!Rescan
  <2>6. panelPast.asked = turn.active
    BY <1>2, <1>4, <1>8 DEF PanelIInv, PanelAsked, Panel!Sending
  <2>7. PanelTyped'
    BY <1>3, <2>2, <2>3, <2>4, <2>5 DEF PanelTyped
  <2>8. PanelAwaits' /\ PanelShown' /\ Panel!ReviewIsOfThis'
    BY <2>3, <2>4, <2>5, <2>6 DEF PanelAwaits, PanelShown, Panel!ReviewIsOfThis
  <2>9. PanelAsked' /\ Panel!RunningIsReal'
    BY <2>3 DEF PanelAsked, Panel!RunningIsReal, Panel!Nothing
  <2> QED
    BY <2>7, <2>8, <2>9 DEF PanelIInv
<1>9. CASE state \in {"interrupted", "error"}
  <2>1. panel' = p /\ UNCHANGED panelPast
    BY <1>2, <1>9
  <2>2. p.review = FALSE
    BY <1>5, <1>9
  <2>3. PanelTyped'
    BY <1>1, <1>3, <1>6, <2>1, <2>2 DEF PanelTyped
  <2>4. PanelAwaits' /\ PanelShown' /\ Panel!ReviewIsOfThis'
    BY <2>1, <2>2 DEF PanelAwaits, PanelShown, Panel!ReviewIsOfThis
  <2>5. PanelAsked' /\ Panel!RunningIsReal'
    BY <1>6, <2>1 DEF PanelAsked, Panel!RunningIsReal, Panel!Nothing
  <2> QED
    BY <2>3, <2>4, <2>5 DEF PanelIInv
<1> QED
  BY <1>4, <1>7, <1>8, <1>9

LEMMA PanelCwdKeeps ==
  ASSUME PanelIInv, NEW w, NEW reset, Panel!ChangeCwd(w, reset)
  PROVE  PanelIInv'
<1>1. /\ panel' = [Panel!Fresh(w) EXCEPT !.connected = panel.connected, !.ready = panel.ready,
                                         !.busy = panel.busy]
      /\ turn' = IF reset THEN [turn EXCEPT !.active = Panel!Nothing] ELSE turn
      /\ panelPast' = [panelPast EXCEPT !.rescan = "none"] /\ UNCHANGED code
  BY DEF Panel!ChangeCwd
<1>2. /\ DOMAIN panel' = PanelFields /\ panel'.busy = panel.busy
      /\ panel'.verifying = Panel!Nothing /\ panel'.review = FALSE
  BY <1>1 DEF Panel!Fresh, PanelFields
<1>3. /\ DOMAIN panelPast' = PanelPastFields /\ panelPast'.rescan = "none"
      /\ panelPast'.saw = panelPast.saw
  BY <1>1 DEF PanelIInv, PanelTyped, PanelPastFields
<1>4. DOMAIN turn' = {"active", "count"}
  BY <1>1 DEF PanelIInv, PanelTyped
<1>5. PanelTyped'
  BY <1>1, <1>2, <1>3, <1>4 DEF PanelIInv, PanelTyped
<1>6. PanelAsked' /\ Panel!RunningIsReal' /\ PanelAwaits' /\ PanelShown' /\ Panel!ReviewIsOfThis'
  BY <1>2 DEF PanelAsked, Panel!RunningIsReal, PanelAwaits, PanelShown, Panel!ReviewIsOfThis,
     Panel!Nothing
<1> QED
  BY <1>5, <1>6 DEF PanelIInv

LEMMA PanelNewChatKeeps ==
  ASSUME PanelIInv, Panel!NewChat
  PROVE  PanelIInv'
<1>1. /\ turn' = [turn EXCEPT !.active = Panel!Nothing] /\ UNCHANGED <<panel, code>>
      /\ panelPast' = [panelPast EXCEPT !.left = @ \/ panel.verifying # Panel!Nothing]
  BY DEF Panel!NewChat
<1>2. DOMAIN turn' = {"active", "count"}
  BY <1>1 DEF PanelIInv, PanelTyped
<1>3. /\ DOMAIN panelPast' = PanelPastFields
      /\ UNCHANGED <<panelPast.asked, panelPast.by, panelPast.of, panelPast.saw, panelPast.rescan>>
  BY <1>1 DEF PanelIInv, PanelTyped, PanelPastFields
<1>4. panelPast'.left = (panelPast.left \/ panel.verifying # Panel!Nothing)
  BY <1>1 DEF PanelIInv, PanelTyped, PanelPastFields
<1>5. PanelTyped'
  BY <1>1, <1>2, <1>3 DEF PanelIInv, PanelTyped
<1>6. PanelAsked' /\ Panel!RunningIsReal'
  BY <1>1, <1>3, <1>4 DEF PanelIInv, PanelAsked, Panel!RunningIsReal, Panel!Nothing
<1>7. PanelAwaits' /\ PanelShown' /\ Panel!ReviewIsOfThis'
  BY <1>1, <1>3 DEF PanelIInv, PanelAwaits, PanelShown, Panel!ReviewIsOfThis
<1> QED
  BY <1>5, <1>6, <1>7 DEF PanelIInv

LEMMA PanelLoseKeeps ==
  ASSUME PanelIInv, Panel!Lose
  PROVE  PanelIInv'
<1>1. /\ turn' = [turn EXCEPT !.active = Panel!Nothing] /\ UNCHANGED <<panelPast, code>>
      /\ panel' = IF Panel!Sending /\ panel.verifying = turn.active
                  THEN [panel EXCEPT !.connected = FALSE, !.ready = FALSE,
                                     !.verifying = Panel!Nothing, !.review = FALSE]
                  ELSE [panel EXCEPT !.connected = FALSE, !.ready = FALSE]
  BY DEF Panel!Lose
<1>2. /\ DOMAIN turn' = {"active", "count"} /\ DOMAIN panel = PanelFields
      /\ panel.busy \in BOOLEAN /\ panel.review \in BOOLEAN
  BY <1>1 DEF PanelIInv, PanelTyped
<1>3. CASE Panel!Sending /\ panel.verifying = turn.active
  <2>1. panel' = [panel EXCEPT !.connected = FALSE, !.ready = FALSE,
                               !.verifying = Panel!Nothing, !.review = FALSE]
    BY <1>1, <1>3
  <2>2. /\ DOMAIN panel' = PanelFields /\ panel'.busy = panel.busy
        /\ panel'.verifying = Panel!Nothing /\ panel'.review = FALSE
    BY <1>2, <2>1 DEF PanelFields
  <2>3. PanelTyped'
    BY <1>1, <1>2, <2>2 DEF PanelIInv, PanelTyped
  <2>4. PanelAsked' /\ Panel!RunningIsReal' /\ PanelAwaits' /\ PanelShown' /\ Panel!ReviewIsOfThis'
    BY <2>2 DEF PanelAsked, Panel!RunningIsReal, PanelAwaits, PanelShown, Panel!ReviewIsOfThis,
       Panel!Nothing
  <2> QED
    BY <2>3, <2>4 DEF PanelIInv
<1>4. CASE ~(Panel!Sending /\ panel.verifying = turn.active)
  <2>1. panel' = [panel EXCEPT !.connected = FALSE, !.ready = FALSE]
    BY <1>1, <1>4
  <2>2. /\ DOMAIN panel' = PanelFields /\ panel'.busy = panel.busy
        /\ panel'.verifying = panel.verifying /\ panel'.review = panel.review
        /\ panel'.cwd = panel.cwd /\ panel'.stage = panel.stage /\ panel'.result = panel.result
    BY <1>2, <2>1 DEF PanelFields
  <2>3. panel.verifying # Panel!Nothing => panelPast.left
    BY <1>4 DEF PanelIInv, Panel!RunningIsReal, Panel!Sending
  <2>4. PanelTyped'
    BY <1>1, <1>2, <2>2 DEF PanelIInv, PanelTyped
  <2>5. PanelAsked' /\ Panel!RunningIsReal'
    BY <1>1, <2>2, <2>3 DEF PanelIInv, PanelAsked, Panel!RunningIsReal, Panel!Nothing
  <2>6. PanelAwaits' /\ PanelShown' /\ Panel!ReviewIsOfThis'
    BY <1>1, <2>2 DEF PanelIInv, PanelAwaits, PanelShown, Panel!ReviewIsOfThis
  <2> QED
    BY <2>4, <2>5, <2>6 DEF PanelIInv
<1> QED
  BY <1>3, <1>4

LEMMA PanelInspectKeeps ==
  ASSUME PanelIInv, NEW ok, Panel!Inspect(ok)
  PROVE  PanelIInv'
<1>1. /\ panel' = [panel EXCEPT !.connected = TRUE, !.ready = ok]
      /\ UNCHANGED <<turn, code, panelPast>>
  BY DEF Panel!Inspect
<1>2. /\ DOMAIN panel = PanelFields /\ panel.busy \in BOOLEAN /\ panel.review \in BOOLEAN
      /\ code \in Nat
  BY DEF PanelIInv, PanelTyped
<1>3. /\ DOMAIN panel' = PanelFields /\ panel'.busy = panel.busy
      /\ panel'.verifying = panel.verifying /\ panel'.review = panel.review
      /\ panel'.cwd = panel.cwd /\ panel'.stage = panel.stage /\ panel'.result = panel.result
  BY <1>1, <1>2 DEF PanelFields
<1> QED
  BY <1>1, <1>2, <1>3, PanelUntouched

LEMMA PanelTabKeeps ==
  ASSUME PanelIInv, NEW stage, Panel!ClickTab(stage)
  PROVE  PanelIInv'
<1>1. /\ panel' = [panel EXCEPT !.stage = stage] /\ UNCHANGED <<turn, code>>
      /\ panelPast' = [panelPast EXCEPT !.rescan = IF panelPast.rescan = "awaited" THEN "unwatched"
                                                   ELSE panelPast.rescan]
  BY DEF Panel!ClickTab, Panel!Unwatched
<1>2. DOMAIN panel = PanelFields /\ PanelTyped
  BY DEF PanelIInv, PanelTyped
<1>3. /\ DOMAIN panel' = PanelFields /\ panel'.busy = panel.busy
      /\ panel'.verifying = panel.verifying /\ panel'.review = panel.review
      /\ panel'.cwd = panel.cwd /\ panel'.result = panel.result
  BY <1>1, <1>2 DEF PanelFields
<1>4. /\ DOMAIN panelPast' = PanelPastFields
      /\ UNCHANGED <<panelPast.asked, panelPast.by, panelPast.of, panelPast.saw, panelPast.left>>
      /\ panelPast'.rescan = IF panelPast.rescan = "awaited" THEN "unwatched" ELSE panelPast.rescan
  BY <1>1, <1>2 DEF PanelTyped, PanelPastFields
<1>5. PanelTyped'
  BY <1>1, <1>2, <1>3, <1>4 DEF PanelTyped
<1>6. PanelAsked' /\ Panel!RunningIsReal'
  BY <1>1, <1>3, <1>4 DEF PanelIInv, PanelAsked, Panel!RunningIsReal, Panel!Nothing
<1>7. PanelAwaits' /\ PanelShown' /\ Panel!ReviewIsOfThis'
  BY <1>3, <1>4 DEF PanelIInv, PanelAwaits, PanelShown, Panel!ReviewIsOfThis
<1> QED
  BY <1>5, <1>6, <1>7 DEF PanelIInv

LEMMA PanelNextKeeps == PanelIInv /\ [Panel!Next]_Panel!vars => PanelIInv'
<1> SUFFICES ASSUME PanelIInv, [Panel!Next]_Panel!vars PROVE PanelIInv'
  OBVIOUS
<1>1. CASE UNCHANGED Panel!vars
  BY <1>1 DEF Panel!vars, PanelIInv, PanelTyped, PanelAsked, PanelAwaits, PanelShown,
     Panel!ReviewIsOfThis, Panel!RunningIsReal
<1>2. CASE Panel!Next
  BY <1>2, PanelScanKeeps, PanelImportKeeps, PanelScanDoneKeeps, PanelScanFailedKeeps,
     PanelVerifyKeeps, PanelFixKeeps, PanelSayKeeps, PanelTurnKeeps, PanelCwdKeeps,
     PanelNewChatKeeps, PanelLoseKeeps, PanelInspectKeeps, PanelTabKeeps DEF Panel!Next
<1> QED
  BY <1>1, <1>2

-----------------------------------------------------------------------------
(* A conversation's page (ChatClient).                                       *)

ChatFields == {"kind", "session", "again", "at", "step", "told", "spoke"}
ChatStates == {"unsent", "sent", "running", "parked", "aborted", "over"}
ChatWorking == {"sent", "running", "parked", "aborted"}
ChatAsks == {"send", "compact"}
ChatFinals == {"done", "error", "interrupted", "compacted"}
ChatMessages == [type : ChatAsks \cup {"interrupt", "approval"}, of : Chat!Requests]
ChatEvents == [type : ChatFinals \cup {"session_id", "text", "approval"}, by : Chat!Requests,
               replayed : BOOLEAN]
ChatLetGo == chatPast.letGo

(* The first n requests are those that were sent.                            *)
ChatSentUpTo(n) ==
  n \in 0 .. MaxPosts /\ \A r \in Chat!Requests : request[r].step # "unsent" <=> r <= n

ChatShapes ==
  /\ DOMAIN ui = {"ws", "sending", "active", "session", "thread", "bubbles", "approvals", "loads", "later"}
  /\ DOMAIN ui.later = {"on", "session", "moved"}
  /\ DOMAIN chatPast = {"letGo", "misread", "crossed", "stranded"}
  /\ ui.sending \in BOOLEAN /\ ui.later.on \in BOOLEAN
  /\ ui.ws \in {0} \cup Chat!Sockets /\ ui.approvals \subseteq 1 .. Chat!Count
  /\ ui.bubbles \in Seq(1 .. Chat!Count)
  /\ \A l \in ui.loads : DOMAIN l = {"kind", "session", "moved"}
  /\ Chat!Count = 0 => ~ui.sending /\ ui.session = 0 /\ ui.loads = {}

ChatRequested ==
  /\ ChatSentUpTo(Chat!Count)
  /\ DOMAIN request = Chat!Requests /\ DOMAIN socket = Chat!Sockets
  /\ \A r \in Chat!Requests :
       /\ DOMAIN request[r] = ChatFields
       /\ request[r].kind \in Chat!Kinds /\ request[r].step \in ChatStates
       /\ IF request[r].step = "unsent" THEN ~request[r].told
          ELSE request[r].at \in Chat!Sockets /\ socket[request[r].at] \in {"open", "dropped", "closed"}
       /\ request[r].again \in BOOLEAN /\ (request[r].again => request[r].session # 0)

ChatWired ==
  /\ outbox \in [Chat!Sockets -> Seq(ChatMessages)]
  /\ inbox \in [Chat!Sockets -> Seq(ChatEvents)]
  /\ server \in [Chat!Sockets -> {0} \cup Chat!Requests]
  /\ \A s \in Chat!Sockets :
       server[s] # 0 =>
         /\ server[s] <= Chat!Count
         /\ request[server[s]].at = s /\ request[server[s]].step # "sent"

(* What is asked on a socket is asked in order; the answer to an interrupt   *)
(* is about a request that was let go.                                       *)
ChatAsked ==
  \A s \in Chat!Sockets : \A i \in 1 .. Len(outbox[s]) :
    /\ outbox[s][i].of <= Chat!Count
    /\ outbox[s][i].type = "interrupt" => outbox[s][i].of \in ChatLetGo
    /\ outbox[s][i].type \in ChatAsks =>
         /\ request[outbox[s][i].of].at = s /\ request[outbox[s][i].of].step = "sent"
         /\ request[Chat!Count].at = s => request[Chat!Count].step = "sent"
         /\ \A j \in 1 .. Len(outbox[s]) :
              j > i /\ outbox[s][j].type \in ChatAsks => outbox[s][j].of > outbox[s][i].of

(* Nothing follows the end of a request that was not let go.                 *)
ChatTold ==
  \A s \in Chat!Sockets : \A i \in 1 .. Len(inbox[s]) :
    /\ inbox[s][i].by <= Chat!Count
    /\ inbox[s][i].type = "compacted" => request[inbox[s][i].by].kind = "compaction"
    /\ inbox[s][i].type \in {"text", "session_id", "done"} => request[inbox[s][i].by].kind = "turn"
    /\ inbox[s][i].replayed => inbox[s][i].type = "done" /\ request[inbox[s][i].by].session # 0
    /\ inbox[s][i].by \notin ChatLetGo =>
         /\ request[inbox[s][i].by].at = s
         /\ inbox[s][i].type \in ChatFinals =>
              /\ request[inbox[s][i].by].step = "over"
              /\ \A j \in 1 .. Len(inbox[s]) : j > i => inbox[s][j].by # inbox[s][i].by

(* Something of the request may still reach the page.                        *)
ChatLive(r) ==
  \/ request[r].step \in ChatWorking /\ socket[request[r].at] = "open"
  \/ \E s \in Chat!Sockets : \E i \in 1 .. Len(inbox[s]) : inbox[s][i].by = r

(* The page waits for what may still reach it and was not let go: the last   *)
(* request there was.                                                        *)
ChatOneAwaited ==
  \A r \in Chat!Requests : ChatLive(r) /\ r \notin ChatLetGo => r = Chat!Count /\ ui.sending

ChatActive ==
  ui.active # 0 =>
    /\ ui.active \in Chat!Requests /\ ui.active <= Chat!Count /\ request[ui.active].kind = "turn"
    /\ ui.active = Chat!Count \/ ui.active \in ChatLetGo
    /\ ~ui.sending \/ request[Chat!Count].kind = "compaction" =>
         ui.active \in ChatLetGo /\ \E r \in ChatLetGo : r \in Chat!Requests /\ request[r].kind = "compaction"

(* What will end the wait for request n, on socket s.                        *)
ChatComing(n, s) ==
  \/ \E i \in 1 .. Len(outbox[s]) : outbox[s][i].type \in ChatAsks /\ outbox[s][i].of = n
  \/ request[n].step = "running"
  \/ /\ request[n].step = "parked"
     /\ \/ n \in ui.approvals
        \/ \E i \in 1 .. Len(outbox[s]) : outbox[s][i].type = "approval" /\ outbox[s][i].of = n
        \/ \E i \in 1 .. Len(inbox[s]) : inbox[s][i].type = "approval" /\ inbox[s][i].by = n
  \/ \E i \in 1 .. Len(inbox[s]) : inbox[s][i].type \in ChatFinals

ChatWaits ==
  ui.sending /\ ~chatPast.stranded /\ (\A s \in Chat!Sockets : socket[s] # "dropped") =>
    /\ ui.ws \in Chat!Sockets /\ socket[ui.ws] = "open" /\ request[Chat!Count].at = ui.ws
    /\ ChatComing(Chat!Count, ui.ws)

ChatThread ==
  ~chatPast.crossed => IF ui.session # 0 THEN ui.thread \subseteq {ui.session}
                       ELSE \E x : ui.thread \subseteq {x}

(* What the page is about to do, unless it has moved, is about its session.  *)
ChatPlans ==
  ~chatPast.crossed =>
    /\ ui.later.on /\ ~ui.later.moved => ui.later.session = ui.session
    /\ \A l \in ui.loads : l.kind = "replay" /\ ~l.moved => ui.session = l.session

(* A turn is awaited, and was not let go.                                    *)
ChatCurrent ==
  /\ Chat!Count # 0 /\ request[Chat!Count].kind = "turn"
  /\ ChatLive(Chat!Count) /\ Chat!Count \notin ChatLetGo

ChatCurrentPage ==
  ChatCurrent =>
    /\ ~ui.later.on /\ \A l \in ui.loads : l.kind = "replay" => l.moved
    /\ ~chatPast.crossed =>
         /\ ui.thread \subseteq {Chat!Home(Chat!Count)}
         /\ request[Chat!Count].session # 0 => ui.session = request[Chat!Count].session

ChatIInv ==
  /\ ChatShapes /\ ChatRequested /\ ChatWired /\ ChatAsked /\ ChatTold /\ ChatOneAwaited
  /\ ChatActive /\ ChatWaits /\ ChatThread /\ ChatPlans /\ ChatCurrentPage
  /\ Chat!OwnEvents

LEMMA ChatNumbers ==
  /\ MaxPosts \in Nat /\ MaxSockets \in Nat /\ Chat!Nobody = 0
  /\ 0 \notin Chat!Requests /\ 0 \notin Chat!Sockets
  /\ \A r : r \in Chat!Requests <=> r \in Nat /\ 1 <= r /\ r <= MaxPosts
  BY ChatAssumption DEF Chat!Nobody, Chat!Requests, Chat!Sockets

LEMMA ChatCardinality == ASSUME NEW S PROVE Chat!Cardinality(S) = Cardinality(S)
  BY DEF Chat!Cardinality, Cardinality

LEMMA ChatCounts ==
  ASSUME NEW q, NEW n \in 0 .. MaxPosts, \A r \in Chat!Requests : q[r].step # "unsent" <=> r <= n
  PROVE  Chat!Cardinality({r \in Chat!Requests : q[r].step # "unsent"}) = n
<1>1. {r \in Chat!Requests : q[r].step # "unsent"} = 1 .. n
  BY ChatNumbers
<1>2. Cardinality(1 .. n) = n
  BY ChatNumbers, FS_Interval
<1> QED BY <1>1, <1>2, ChatCardinality

LEMMA ChatInitHolds == Chat!Init => ChatIInv
<1> SUFFICES ASSUME Chat!Init PROVE ChatIInv
  OBVIOUS
<1>1. /\ ui = Chat!InitUi /\ chatPast = Chat!InitPast
      /\ socket = [s \in Chat!Sockets |-> "unused"]
      /\ outbox = [s \in Chat!Sockets |-> <<>>] /\ inbox = [s \in Chat!Sockets |-> <<>>]
      /\ server = [s \in Chat!Sockets |-> 0]
      /\ request = [r \in Chat!Requests |-> Chat!Unsent]
  BY DEF Chat!Init, Chat!Nobody
<1>2. /\ DOMAIN Chat!Unsent = ChatFields /\ Chat!Unsent.kind = "turn" /\ Chat!Unsent.step = "unsent"
      /\ Chat!Unsent.told = FALSE /\ Chat!Unsent.again = FALSE
  BY DEF Chat!Unsent, ChatFields
<1>3. Chat!Count = 0 /\ ChatSentUpTo(0)
  <2>1. \A r \in Chat!Requests : request[r].step # "unsent" <=> r <= 0
    BY <1>1, <1>2, ChatNumbers
  <2>2. 0 \in 0 .. MaxPosts
    BY ChatNumbers
  <2> QED BY <2>1, <2>2, ChatCounts DEF Chat!Count, ChatSentUpTo
<1>4. /\ ui.sending = FALSE /\ ui.active = 0 /\ ui.session = 0 /\ ui.thread = {} /\ ui.bubbles = <<>>
      /\ ui.ws = 0 /\ ui.approvals = {}
      /\ ui.loads = {} /\ ui.later.on = FALSE /\ DOMAIN ui.later = {"on", "session", "moved"}
      /\ DOMAIN ui = {"ws", "sending", "active", "session", "thread", "bubbles", "approvals", "loads",
                      "later"}
  BY <1>1 DEF Chat!InitUi, Chat!NoDelay, Chat!Nobody
<1>5. DOMAIN chatPast = {"letGo", "misread", "crossed", "stranded"} /\ chatPast.misread = {}
  BY <1>1 DEF Chat!InitPast
<1>6. ChatShapes
  <2>1. ui.bubbles \in Seq(1 .. Chat!Count)
    BY <1>4
  <2>2. \A l \in ui.loads : DOMAIN l = {"kind", "session", "moved"}
    BY <1>4
  <2> QED BY <1>3, <1>4, <1>5, <2>1, <2>2 DEF ChatShapes
<1>7. ChatRequested
  BY <1>1, <1>2, <1>3 DEF ChatRequested, ChatStates, Chat!Kinds
<1>8. ChatWired
  BY <1>1 DEF ChatWired
<1>9. ChatAsked /\ ChatTold
  BY <1>1 DEF ChatAsked, ChatTold
<1>10. \A r \in Chat!Requests : ~ChatLive(r)
  BY <1>1, <1>2 DEF ChatLive, ChatWorking
<1>11. ChatOneAwaited /\ ChatActive /\ ChatWaits /\ ChatThread /\ ChatPlans /\ ChatCurrentPage
  BY <1>3, <1>4, <1>10, ChatNumbers
     DEF ChatOneAwaited, ChatActive, ChatWaits, ChatThread, ChatPlans, ChatCurrentPage, ChatCurrent
<1> QED BY <1>5, <1>6, <1>7, <1>8, <1>9, <1>11 DEF ChatIInv, Chat!OwnEvents

LEMMA ChatHonestNow == ChatIInv => Chat!PageIsHonest
<1> SUFFICES ASSUME ChatIInv PROVE Chat!PageIsHonest
  OBVIOUS
<1>1. Chat!NeverStuck
  <2> SUFFICES ASSUME ui.sending, ~chatPast.stranded PROVE Chat!Awaited
    BY DEF Chat!NeverStuck
  <2>1. CASE \E s \in Chat!Sockets : socket[s] = "dropped"
    BY <2>1 DEF Chat!Awaited
  <2>2. CASE \A s \in Chat!Sockets : socket[s] # "dropped"
    <3>1. PICK n, s : n = Chat!Count /\ s = ui.ws
      OBVIOUS
    <3>2. s \in Chat!Sockets /\ socket[s] = "open" /\ request[n].at = s /\ ChatComing(n, s)
      BY <2>2, <3>1 DEF ChatIInv, ChatWaits
    <3>3. n \in Chat!Requests
      BY <3>1, ChatNumbers DEF ChatIInv, ChatShapes, ChatRequested, ChatSentUpTo
    <3>4. DOMAIN outbox[s] = 1 .. Len(outbox[s]) /\ DOMAIN inbox[s] = 1 .. Len(inbox[s])
      BY <3>2 DEF ChatIInv, ChatWired
    <3> QED BY <3>2, <3>3, <3>4 DEF Chat!Awaited, ChatAsks, ChatFinals, ChatComing
  <2> QED BY <2>1, <2>2
<1>2. Chat!OneConversation
  <2> SUFFICES ASSUME ~chatPast.crossed, ui.session = 0 PROVE Chat!Cardinality(ui.thread) <= 1
    BY ChatNumbers DEF Chat!OneConversation, ChatIInv, ChatThread
  <2>1. PICK x : ui.thread \subseteq {x}
    BY DEF ChatIInv, ChatThread
  <2>2. ui.thread = {} \/ ui.thread = {x}
    BY <2>1
  <2>3. Cardinality({}) = 0 /\ Cardinality({x}) = 1
    BY FS_EmptySet, FS_Singleton
  <2> QED BY <2>2, <2>3, ChatCardinality
<1>3. Chat!IdleTakesMessages
  BY ChatNumbers DEF Chat!IdleTakesMessages, ChatIInv, ChatActive, ChatLetGo
<1> QED BY <1>1, <1>2, <1>3 DEF Chat!PageIsHonest, ChatIInv

-----------------------------------------------------------------------------
(* What steps have in common.                                                *)

(* Requests go on, and none begins.                                          *)
ChatProgress ==
  /\ DOMAIN request' = Chat!Requests
  /\ \A r \in Chat!Requests :
       /\ DOMAIN request'[r] = ChatFields
       /\ request'[r].kind = request[r].kind /\ request'[r].session = request[r].session
       /\ request'[r].at = request[r].at
       /\ request'[r].step \in ChatStates
       /\ request'[r].step = "unsent" <=> request[r].step = "unsent"
       /\ request[r].step = "over" => request'[r].step = "over"
       /\ request'[r].step = "sent" => request[r].step = "sent"
       /\ request'[r].again \in BOOLEAN /\ (request'[r].again => request[r].again)
       /\ request[r].step = "unsent" => ~request'[r].told

(* No socket that was in use is opened again.                                *)
ChatSocketStep ==
  /\ DOMAIN socket' = Chat!Sockets
  /\ \A s \in Chat!Sockets :
       /\ socket[s] \in {"open", "dropped", "closed"} => socket'[s] \in {"open", "dropped", "closed"}
       /\ socket[s] \in {"dropped", "closed"} => socket'[s] # "open"

(* What was let go of stays so, and nothing comes to life.                   *)
ChatFading ==
  /\ Chat!Count' = Chat!Count /\ ChatLetGo \subseteq ChatLetGo'
  /\ \A r \in Chat!Requests : ChatLive(r)' /\ r \notin ChatLetGo' => ChatLive(r)

LEMMA ChatProgressKeeps ==
  ASSUME ChatRequested, ChatProgress, ChatSocketStep
  PROVE  ChatRequested' /\ Chat!Count' = Chat!Count
<1>1. Chat!Count \in 0 .. MaxPosts
  BY DEF ChatRequested, ChatSentUpTo
<1>2. \A r \in Chat!Requests : request'[r].step # "unsent" <=> r <= Chat!Count
  BY DEF ChatRequested, ChatSentUpTo, ChatProgress
<1>3. Chat!Count' = Chat!Count
  BY <1>1, <1>2, ChatCounts DEF Chat!Count
<1>4. ChatSentUpTo(Chat!Count)'
  BY <1>1, <1>2, <1>3 DEF ChatSentUpTo
<1>5. ASSUME NEW r \in Chat!Requests
      PROVE  /\ DOMAIN request'[r] = ChatFields
             /\ request'[r].kind \in Chat!Kinds /\ request'[r].step \in ChatStates
             /\ IF request'[r].step = "unsent" THEN ~request'[r].told
                ELSE /\ request'[r].at \in Chat!Sockets
                     /\ socket'[request'[r].at] \in {"open", "dropped", "closed"}
             /\ request'[r].again \in BOOLEAN /\ (request'[r].again => request'[r].session # 0)
  BY DEF ChatRequested, ChatProgress, ChatSocketStep
<1> QED BY <1>3, <1>4, <1>5 DEF ChatRequested, ChatProgress, ChatSocketStep

LEMMA ChatSocketsStay == ASSUME ChatRequested, UNCHANGED socket PROVE ChatSocketStep
  BY DEF ChatRequested, ChatSocketStep

LEMMA ChatRequestsStay == ASSUME ChatRequested, UNCHANGED request PROVE ChatProgress
  BY DEF ChatRequested, ChatProgress

LEMMA ChatFades ==
  ASSUME ChatRequested, ChatProgress, ChatSocketStep, ChatLetGo \subseteq ChatLetGo',
         \A s \in Chat!Sockets : \A i \in 1 .. Len(inbox'[s]) :
           inbox'[s][i].by \in ChatLetGo' \/ ChatLive(inbox'[s][i].by)
  PROVE  ChatFading
<1>1. Chat!Count' = Chat!Count
  BY ChatProgressKeeps
<1>2. ASSUME NEW r \in Chat!Requests, ChatLive(r)', r \notin ChatLetGo' PROVE ChatLive(r)
  <2>1. CASE request'[r].step \in ChatWorking /\ socket'[request'[r].at] = "open"
    <3>1. request'[r].at = request[r].at /\ request[r].step \in ChatWorking
      BY <2>1 DEF ChatRequested, ChatProgress, ChatWorking, ChatStates
    <3>2. /\ request[r].at \in Chat!Sockets
          /\ socket[request[r].at] \in {"open", "dropped", "closed"}
      BY <3>1 DEF ChatRequested, ChatWorking
    <3>3. socket[request[r].at] = "open"
      BY <2>1, <3>1, <3>2 DEF ChatSocketStep
    <3> QED BY <3>1, <3>3 DEF ChatLive
  <2>2. CASE \E s \in Chat!Sockets : \E i \in 1 .. Len(inbox'[s]) : inbox'[s][i].by = r
    BY <1>2, <2>2
  <2> QED BY <1>2, <2>1, <2>2 DEF ChatLive
<1> QED BY <1>1, <1>2 DEF ChatFading

LEMMA ChatFadesToo ==
  ASSUME ChatRequested, ChatProgress, ChatSocketStep, ChatLetGo \subseteq ChatLetGo',
         UNCHANGED inbox
  PROVE  ChatFading
  BY ChatFades DEF ChatLive

(* What was the last request is so still, if it is in reach.                 *)
LEMMA ChatCurrentWas ==
  ASSUME ChatIInv, ChatProgress, ChatFading, ChatCurrent'
  PROVE  ChatCurrent /\ Chat!Home(Chat!Count)' = Chat!Home(Chat!Count)
<1>1. Chat!Count' = Chat!Count /\ Chat!Count \in Chat!Requests
  BY ChatNumbers DEF ChatFading, ChatCurrent, ChatIInv, ChatRequested, ChatSentUpTo
<1>2. /\ request'[Chat!Count].kind = request[Chat!Count].kind
      /\ request'[Chat!Count].session = request[Chat!Count].session
  BY <1>1 DEF ChatProgress
<1>3. ChatLive(Chat!Count)' /\ Chat!Count \notin ChatLetGo'
  BY <1>1 DEF ChatCurrent
<1>4. ChatLive(Chat!Count)
  BY <1>1, <1>3 DEF ChatFading
<1> QED BY <1>1, <1>2, <1>3, <1>4 DEF ChatCurrent, ChatFading, Chat!Home

(* A step of the server, or of the network, leaves the page.                 *)
LEMMA ChatPageStays ==
  ASSUME ChatIInv, UNCHANGED <<ui, chatPast>>, ChatProgress, ChatFading
  PROVE  /\ ChatShapes' /\ ChatOneAwaited' /\ ChatActive' /\ ChatThread' /\ ChatPlans'
         /\ ChatCurrentPage' /\ Chat!OwnEvents'
<1> DEFINE n == Chat!Count
<1>1. /\ Chat!Count' = n /\ ChatLetGo' = ChatLetGo /\ n \in 0 .. MaxPosts
  BY DEF ChatFading, ChatLetGo, ChatIInv, ChatRequested, ChatSentUpTo
<1>2. ChatShapes'
  BY <1>1 DEF ChatIInv, ChatShapes
<1>3. ChatOneAwaited'
  BY <1>1 DEF ChatIInv, ChatOneAwaited, ChatFading
<1>4. ChatActive'
  <2> SUFFICES ASSUME ui.active # 0
               PROVE  /\ ui.active \in Chat!Requests /\ ui.active <= n
                      /\ request'[ui.active].kind = "turn"
                      /\ ui.active = n \/ ui.active \in ChatLetGo
                      /\ ~ui.sending \/ request'[n].kind = "compaction" =>
                           /\ ui.active \in ChatLetGo
                           /\ \E r \in ChatLetGo : r \in Chat!Requests /\ request'[r].kind = "compaction"
    BY <1>1 DEF ChatActive
  <2>1. /\ ui.active \in Chat!Requests /\ ui.active <= n /\ request[ui.active].kind = "turn"
        /\ ui.active = n \/ ui.active \in ChatLetGo
        /\ ~ui.sending \/ request[n].kind = "compaction" =>
             /\ ui.active \in ChatLetGo
             /\ \E r \in ChatLetGo : r \in Chat!Requests /\ request[r].kind = "compaction"
    BY DEF ChatIInv, ChatActive
  <2>2. n \in Chat!Requests
    BY <1>1, <2>1, ChatNumbers
  <2>3. \A r \in Chat!Requests : request'[r].kind = request[r].kind
    BY DEF ChatProgress
  <2> QED BY <2>1, <2>2, <2>3
<1>5. ChatThread' /\ ChatPlans' /\ Chat!OwnEvents'
  BY DEF ChatIInv, ChatThread, ChatPlans, Chat!OwnEvents
<1>6. ChatCurrentPage'
  <2> SUFFICES ASSUME ChatCurrent' PROVE ChatCurrentPage'
    BY DEF ChatCurrentPage
  <2>1. ChatCurrent /\ Chat!Home(n)' = Chat!Home(n) /\ n \in Chat!Requests
    BY <1>1, ChatCurrentWas, ChatNumbers DEF ChatCurrent
  <2>2. request'[n].session = request[n].session
    BY <2>1 DEF ChatProgress
  <2> QED BY <1>1, <2>1, <2>2 DEF ChatIInv, ChatCurrentPage
<1> QED BY <1>2, <1>3, <1>4, <1>5, <1>6

-----------------------------------------------------------------------------
(* What is put on a wire, and taken from it.                                 *)

LEMMA ChatPutsOn ==
  ASSUME NEW I, NEW M, NEW w \in [I -> Seq(M)], NEW s \in I, NEW m \in M, NEW v,
         v = [w EXCEPT ![s] = Append(@, m)]
  PROVE  /\ v \in [I -> Seq(M)]
         /\ \A t \in I : Len(w[t]) <= Len(v[t]) /\ \A i \in 1 .. Len(w[t]) : v[t][i] = w[t][i]
         /\ \A t \in I : t # s => v[t] = w[t]
         /\ Len(v[s]) = Len(w[s]) + 1 /\ v[s][Len(w[s]) + 1] = m
<1>1. w[s] \in Seq(M)
  OBVIOUS
<1>2. /\ Append(w[s], m) \in Seq(M) /\ Len(Append(w[s], m)) = Len(w[s]) + 1
      /\ \A i \in 1 .. Len(w[s]) : Append(w[s], m)[i] = w[s][i]
      /\ Append(w[s], m)[Len(w[s]) + 1] = m
  BY <1>1
<1>3. v[s] = Append(w[s], m) /\ \A t \in I : t # s => v[t] = w[t]
  OBVIOUS
<1>4. v \in [I -> Seq(M)]
  BY <1>2
<1>5. \A t \in I : Len(w[t]) \in Nat
  OBVIOUS
<1> QED BY <1>2, <1>3, <1>4, <1>5

LEMMA ChatTakesOff ==
  ASSUME NEW I, NEW M, NEW w \in [I -> Seq(M)], NEW s \in I, w[s] # <<>>, NEW v,
         v = [w EXCEPT ![s] = Tail(@)]
  PROVE  /\ v \in [I -> Seq(M)]
         /\ \A t \in I : t # s => v[t] = w[t]
         /\ Len(w[s]) \in Nat /\ Len(w[s]) >= 1 /\ Len(v[s]) = Len(w[s]) - 1
         /\ \A i \in 1 .. Len(v[s]) : v[s][i] = w[s][i + 1]
         /\ Head(w[s]) = w[s][1] /\ w[s][1] \in M
<1>1. w[s] \in Seq(M)
  OBVIOUS
<1>2. /\ Tail(w[s]) \in Seq(M) /\ Len(Tail(w[s])) = Len(w[s]) - 1 /\ Len(w[s]) \in Nat
      /\ Len(w[s]) >= 1
      /\ \A i \in 1 .. Len(Tail(w[s])) : Tail(w[s])[i] = w[s][i + 1]
      /\ Head(w[s]) = w[s][1] /\ w[s][1] \in M
  BY <1>1
<1>3. v[s] = Tail(w[s]) /\ \A t \in I : t # s => v[t] = w[t]
  OBVIOUS
<1>4. v \in [I -> Seq(M)]
  BY <1>2
<1> QED BY <1>2, <1>3, <1>4

ChatAdds(s, e) ==
  /\ inbox' \in [Chat!Sockets -> Seq(ChatEvents)]
  /\ \A t \in Chat!Sockets :
       Len(inbox[t]) <= Len(inbox'[t]) /\ \A i \in 1 .. Len(inbox[t]) : inbox'[t][i] = inbox[t][i]
  /\ \A t \in Chat!Sockets : t # s => inbox'[t] = inbox[t]
  /\ Len(inbox'[s]) = Len(inbox[s]) + 1 /\ inbox'[s][Len(inbox[s]) + 1] = e

LEMMA ChatEventsAdd ==
  ASSUME ChatWired, NEW s \in Chat!Sockets, NEW e \in ChatEvents, Chat!Events(s, <<e>>)
  PROVE  IF socket[s] = "open" THEN ChatAdds(s, e) ELSE UNCHANGED inbox
<1>1. CASE socket[s] = "open"
  <2>1. inbox' = [inbox EXCEPT ![s] = @ \o <<e>>]
    BY <1>1 DEF Chat!Events
  <2>2. inbox \in [Chat!Sockets -> Seq(ChatEvents)]
    BY DEF ChatWired
  <2>3. inbox[s] \o <<e>> = Append(inbox[s], e)
    BY <2>2
  <2>4. inbox' = [inbox EXCEPT ![s] = Append(@, e)]
    BY <2>1, <2>3
  <2> QED BY <1>1, <2>2, <2>4, ChatPutsOn DEF ChatAdds
<1>2. CASE socket[s] # "open"
  BY <1>2 DEF Chat!Events
<1> QED BY <1>1, <1>2

LEMMA ChatEventsNone ==
  ASSUME ChatWired, NEW s \in Chat!Sockets, Chat!Events(s, <<>>)
  PROVE  UNCHANGED inbox
<1>1. CASE socket[s] = "open"
  <2>1. inbox' = [inbox EXCEPT ![s] = @ \o <<>>]
    BY <1>1 DEF Chat!Events
  <2>2. inbox \in [Chat!Sockets -> Seq(ChatEvents)]
    BY DEF ChatWired
  <2>3. inbox[s] \o <<>> = inbox[s]
    BY <2>2
  <2> QED BY <2>1, <2>2, <2>3
<1>2. CASE socket[s] # "open"
  BY <1>2 DEF Chat!Events
<1> QED BY <1>1, <1>2

LEMMA ChatEventIs ==
  ASSUME NEW k \in ChatFinals \cup {"session_id", "text", "approval"}, NEW r \in Chat!Requests
  PROVE  /\ Chat!Event(k, r) \in ChatEvents
         /\ Chat!Event(k, r).type = k /\ Chat!Event(k, r).by = r /\ Chat!Event(k, r).replayed = FALSE
  BY DEF Chat!Event, ChatEvents

LEMMA ChatOnWires ==
  ASSUME ChatWired, NEW s \in Chat!Sockets
  PROVE  /\ Len(inbox[s]) \in Nat /\ Len(outbox[s]) \in Nat
         /\ \A i \in 1 .. Len(inbox[s]) : inbox[s][i] \in ChatEvents /\ inbox[s][i].by \in Chat!Requests
         /\ \A i \in 1 .. Len(outbox[s]) :
              outbox[s][i] \in ChatMessages /\ outbox[s][i].of \in Chat!Requests
<1>1. inbox[s] \in Seq(ChatEvents) /\ outbox[s] \in Seq(ChatMessages)
  BY DEF ChatWired
<1>2. \A e \in ChatEvents : e.by \in Chat!Requests
  BY DEF ChatEvents
<1>3. \A m \in ChatMessages : m.of \in Chat!Requests
  BY DEF ChatMessages
<1> QED BY <1>1, <1>2, <1>3

(* An event of what it may be of.                                            *)
ChatEventFits(s, e) ==
  /\ e.by <= Chat!Count
  /\ e.type = "compacted" => request[e.by].kind = "compaction"
  /\ e.type \in {"text", "session_id", "done"} => request[e.by].kind = "turn"
  /\ e.replayed => e.type = "done" /\ request[e.by].session # 0
  /\ e.by \notin ChatLetGo =>
       /\ request[e.by].at = s /\ request[e.by].step # "over"
       /\ e.type \in ChatFinals => request'[e.by].step = "over"

LEMMA ChatToldStays ==
  ASSUME ChatIInv, ChatProgress, Chat!Count' = Chat!Count, ChatLetGo \subseteq ChatLetGo',
         UNCHANGED inbox
  PROVE  ChatTold'
<1> SUFFICES ASSUME NEW s \in Chat!Sockets, NEW i \in 1 .. Len(inbox[s])
             PROVE  /\ inbox[s][i].by <= Chat!Count
                    /\ inbox[s][i].type = "compacted" => request'[inbox[s][i].by].kind = "compaction"
                    /\ inbox[s][i].type \in {"text", "session_id", "done"} =>
                         request'[inbox[s][i].by].kind = "turn"
                    /\ inbox[s][i].replayed =>
                         inbox[s][i].type = "done" /\ request'[inbox[s][i].by].session # 0
                    /\ inbox[s][i].by \notin ChatLetGo' =>
                         /\ request'[inbox[s][i].by].at = s
                         /\ inbox[s][i].type \in ChatFinals =>
                              /\ request'[inbox[s][i].by].step = "over"
                              /\ \A j \in 1 .. Len(inbox[s]) : j > i => inbox[s][j].by # inbox[s][i].by
  BY DEF ChatTold
<1>1. inbox[s][i].by \in Chat!Requests
  BY ChatOnWires DEF ChatIInv
<1> QED BY <1>1 DEF ChatIInv, ChatTold, ChatProgress

LEMMA ChatToldAdds ==
  ASSUME ChatIInv, ChatProgress, Chat!Count' = Chat!Count, ChatLetGo' = ChatLetGo,
         NEW s \in Chat!Sockets, NEW e \in ChatEvents, ChatAdds(s, e), ChatEventFits(s, e)
  PROVE  ChatTold'
<1> DEFINE n == Chat!Count
           Fits(t, i) ==
             /\ inbox'[t][i].by <= n
             /\ inbox'[t][i].type = "compacted" => request'[inbox'[t][i].by].kind = "compaction"
             /\ inbox'[t][i].type \in {"text", "session_id", "done"} =>
                  request'[inbox'[t][i].by].kind = "turn"
             /\ inbox'[t][i].replayed =>
                  inbox'[t][i].type = "done" /\ request'[inbox'[t][i].by].session # 0
             /\ inbox'[t][i].by \notin ChatLetGo =>
                  /\ request'[inbox'[t][i].by].at = t
                  /\ inbox'[t][i].type \in ChatFinals =>
                       /\ request'[inbox'[t][i].by].step = "over"
                       /\ \A j \in 1 .. Len(inbox'[t]) : j > i => inbox'[t][j].by # inbox'[t][i].by
<1> SUFFICES ASSUME NEW t \in Chat!Sockets, NEW i \in 1 .. Len(inbox'[t]) PROVE Fits(t, i)
  BY DEF ChatTold
<1>1. Len(inbox[t]) \in Nat /\ Len(inbox[s]) \in Nat
  BY DEF ChatIInv, ChatWired
<1>2. CASE i \in 1 .. Len(inbox[t])
  <2>1. inbox'[t][i] = inbox[t][i]
    BY <1>2 DEF ChatAdds
  <2>2. inbox[t][i].by \in Chat!Requests
    BY <1>2, ChatOnWires DEF ChatIInv
  <2>3. /\ inbox[t][i].by <= n
        /\ inbox[t][i].type = "compacted" => request[inbox[t][i].by].kind = "compaction"
        /\ inbox[t][i].type \in {"text", "session_id", "done"} => request[inbox[t][i].by].kind = "turn"
        /\ inbox[t][i].replayed => inbox[t][i].type = "done" /\ request[inbox[t][i].by].session # 0
        /\ inbox[t][i].by \notin ChatLetGo =>
             /\ request[inbox[t][i].by].at = t
             /\ inbox[t][i].type \in ChatFinals =>
                  /\ request[inbox[t][i].by].step = "over"
                  /\ \A j \in 1 .. Len(inbox[t]) : j > i => inbox[t][j].by # inbox[t][i].by
    BY <1>2 DEF ChatIInv, ChatTold
  <2>4. ASSUME inbox[t][i].by \notin ChatLetGo, inbox[t][i].type \in ChatFinals,
               NEW j \in 1 .. Len(inbox'[t]), j > i
        PROVE  inbox'[t][j].by # inbox[t][i].by
    <3>1. CASE j \in 1 .. Len(inbox[t])
      BY <2>3, <2>4, <3>1 DEF ChatAdds
    <3>2. CASE j \notin 1 .. Len(inbox[t])
      <4>1. t = s /\ j = Len(inbox[s]) + 1
        BY <1>1, <3>2 DEF ChatAdds
      <4>2. inbox'[t][j] = e
        BY <4>1 DEF ChatAdds
      <4> QED BY <2>3, <2>4, <4>2 DEF ChatEventFits
    <3> QED BY <3>1, <3>2
  <2> QED BY <2>1, <2>2, <2>3, <2>4 DEF ChatProgress
<1>3. CASE i \notin 1 .. Len(inbox[t])
  <2>1. t = s /\ i = Len(inbox[s]) + 1
    BY <1>1, <1>3 DEF ChatAdds
  <2>2. inbox'[t][i] = e /\ Len(inbox'[t]) = i
    BY <2>1 DEF ChatAdds
  <2>3. e.by \in Chat!Requests
    BY DEF ChatEvents
  <2>4. ~\E j \in 1 .. Len(inbox'[t]) : j > i
    BY <1>1, <2>1, <2>2
  <2> QED BY <2>1, <2>2, <2>3, <2>4 DEF ChatEventFits, ChatProgress
<1> QED BY <1>2, <1>3

(* An event told fades as long as its request lives, or was let go.          *)
LEMMA ChatAddsFades ==
  ASSUME ChatIInv, ChatProgress, ChatSocketStep, ChatLetGo' = ChatLetGo,
         NEW s \in Chat!Sockets, NEW e, ChatAdds(s, e), e.by \in ChatLetGo \/ ChatLive(e.by)
  PROVE  ChatFading
<1> SUFFICES ASSUME NEW t \in Chat!Sockets, NEW i \in 1 .. Len(inbox'[t])
             PROVE  inbox'[t][i].by \in ChatLetGo' \/ ChatLive(inbox'[t][i].by)
  BY ChatFades DEF ChatIInv
<1>1. Len(inbox[t]) \in Nat /\ Len(inbox[s]) \in Nat
  BY DEF ChatIInv, ChatWired
<1>2. CASE i \in 1 .. Len(inbox[t])
  BY <1>2 DEF ChatAdds, ChatLive
<1>3. CASE i \notin 1 .. Len(inbox[t])
  <2>1. t = s /\ i = Len(inbox[s]) + 1
    BY <1>1, <1>3 DEF ChatAdds
  <2> QED BY <2>1 DEF ChatAdds
<1> QED BY <1>2, <1>3

-----------------------------------------------------------------------------
(* What the server does.                                                     *)

(* What is put on a socket is a request let go of, or one that lives there.  *)
LEMMA ChatAskedStays ==
  ASSUME ChatIInv, ChatProgress, Chat!Count' = Chat!Count, ChatLetGo \subseteq ChatLetGo',
         UNCHANGED outbox,
         \A r \in Chat!Requests : request[r].step = "sent" => request'[r].step = "sent"
  PROVE  ChatAsked'
<1> DEFINE n == Chat!Count
<1>1. n \in 0 .. MaxPosts
  BY DEF ChatIInv, ChatRequested, ChatSentUpTo
<1> SUFFICES ASSUME NEW s \in Chat!Sockets, NEW i \in 1 .. Len(outbox[s])
             PROVE  /\ outbox[s][i].of <= n
                    /\ outbox[s][i].type = "interrupt" => outbox[s][i].of \in ChatLetGo'
                    /\ outbox[s][i].type \in ChatAsks =>
                         /\ request'[outbox[s][i].of].at = s /\ request'[outbox[s][i].of].step = "sent"
                         /\ request'[n].at = s => request'[n].step = "sent"
                         /\ \A j \in 1 .. Len(outbox[s]) :
                              j > i /\ outbox[s][j].type \in ChatAsks => outbox[s][j].of > outbox[s][i].of
  BY DEF ChatAsked
<1>2. outbox[s][i].of \in Chat!Requests
  BY ChatOnWires DEF ChatIInv
<1>3. outbox[s][i].of <= n
  BY DEF ChatIInv, ChatAsked
<1>4. n \in Chat!Requests
  BY <1>1, <1>2, <1>3, ChatNumbers
<1> QED BY <1>2, <1>4 DEF ChatIInv, ChatAsked, ChatProgress

LEMMA ChatStillComing ==
  ASSUME NEW n, NEW s, ChatComing(n, s), request'[n].step = request[n].step,
         n \in ui.approvals => n \in ui'.approvals,
         \A i \in 1 .. Len(outbox[s]) : i \in 1 .. Len(outbox'[s]) /\ outbox'[s][i] = outbox[s][i],
         \A i \in 1 .. Len(inbox[s]) : i \in 1 .. Len(inbox'[s]) /\ inbox'[s][i] = inbox[s][i]
  PROVE  ChatComing(n, s)'
<1>1. CASE \E i \in 1 .. Len(outbox[s]) : outbox[s][i].type \in ChatAsks /\ outbox[s][i].of = n
  BY <1>1 DEF ChatComing
<1>2. CASE request[n].step = "running"
  BY <1>2 DEF ChatComing
<1>3. CASE request[n].step = "parked" /\ n \in ui.approvals
  BY <1>3 DEF ChatComing
<1>4. CASE /\ request[n].step = "parked"
           /\ \E i \in 1 .. Len(outbox[s]) : outbox[s][i].type = "approval" /\ outbox[s][i].of = n
  BY <1>4 DEF ChatComing
<1>5. CASE /\ request[n].step = "parked"
           /\ \E i \in 1 .. Len(inbox[s]) : inbox[s][i].type = "approval" /\ inbox[s][i].by = n
  BY <1>5 DEF ChatComing
<1>6. CASE \E i \in 1 .. Len(inbox[s]) : inbox[s][i].type \in ChatFinals
  BY <1>6 DEF ChatComing
<1> QED BY <1>1, <1>2, <1>3, <1>4, <1>5, <1>6 DEF ChatComing

(* A wait goes on while the last request, and what there is on the wires,    *)
(* stay.                                                                     *)
LEMMA ChatWaitsStay ==
  ASSUME ChatIInv, ChatProgress, Chat!Count' = Chat!Count, UNCHANGED socket,
         ui'.sending => ui.sending, ui'.ws = ui.ws, chatPast'.stranded = chatPast.stranded,
         ui.approvals \subseteq ui'.approvals,
         \A t \in Chat!Sockets :
           /\ Len(outbox'[t]) \in Nat /\ Len(outbox[t]) <= Len(outbox'[t])
           /\ \A i \in 1 .. Len(outbox[t]) : outbox'[t][i] = outbox[t][i]
           /\ Len(inbox'[t]) \in Nat /\ Len(inbox[t]) <= Len(inbox'[t])
           /\ \A i \in 1 .. Len(inbox[t]) : inbox'[t][i] = inbox[t][i],
         request'[Chat!Count].step = request[Chat!Count].step
  PROVE  ChatWaits'
<1> SUFFICES ASSUME ui'.sending, ~chatPast'.stranded, \A t \in Chat!Sockets : socket'[t] # "dropped"
             PROVE  ChatWaits'
  BY DEF ChatWaits
<1>1. PICK n, s : n = Chat!Count /\ s = ui.ws
  OBVIOUS
<1>2. s \in Chat!Sockets /\ socket[s] = "open" /\ request[n].at = s /\ ChatComing(n, s)
  BY <1>1 DEF ChatIInv, ChatWaits
<1>3. n \in Chat!Requests
  BY <1>1, ChatNumbers DEF ChatIInv, ChatShapes, ChatRequested, ChatSentUpTo
<1>4. request'[n].at = s /\ request'[n].step = request[n].step
  BY <1>1, <1>2, <1>3 DEF ChatProgress
<1>5. /\ Len(outbox[s]) \in Nat /\ Len(inbox[s]) \in Nat
      /\ \A i \in 1 .. Len(outbox[s]) : i \in 1 .. Len(outbox'[s]) /\ outbox'[s][i] = outbox[s][i]
      /\ \A i \in 1 .. Len(inbox[s]) : i \in 1 .. Len(inbox'[s]) /\ inbox'[s][i] = inbox[s][i]
  BY <1>2, ChatOnWires DEF ChatIInv
<1>6. n \in ui.approvals => n \in ui'.approvals
  OBVIOUS
<1>7. ChatComing(n, s)'
  BY <1>2, <1>4, <1>5, <1>6, ChatStillComing
<1> QED BY <1>1, <1>2, <1>4, <1>7 DEF ChatWaits

LEMMA ChatServes ==
  ASSUME ChatWired, NEW s \in Chat!Sockets, server[s] # 0
  PROVE  /\ server[s] \in Chat!Requests /\ server[s] <= Chat!Count /\ request[server[s]].at = s
         /\ request[server[s]].step # "sent"
<1>1. server[s] \in {0} \cup Chat!Requests
  BY DEF ChatWired
<1> QED BY <1>1 DEF ChatWired

(* Tell, Speak and Ask.                                                      *)
LEMMA ChatSpeaks ==
  ASSUME ChatIInv, NEW r \in Chat!Requests,
         NEW k \in {"session_id", "text", "approval"},
         request[r].kind = "turn", request[r].step \in {"running", "aborted"},
         ChatProgress, request'[r].step \in {request[r].step, "parked"},
         request'[r].step # request[r].step => k = "approval" /\ request[r].step = "running",
         \A o \in Chat!Requests : o # r => request'[o].step = request[o].step,
         Chat!Events(request[r].at, <<Chat!Event(k, r)>>),
         UNCHANGED <<ui, socket, outbox, server, chatPast>>
  PROVE  ChatIInv'
<1> DEFINE e == Chat!Event(k, r)
           s == request[r].at
           n == Chat!Count
<1>1. ChatRequested /\ ChatWired /\ n \in 0 .. MaxPosts
  BY DEF ChatIInv, ChatRequested, ChatSentUpTo
<1>2. r <= n /\ s \in Chat!Sockets /\ socket[s] \in {"open", "dropped", "closed"}
  BY DEF ChatIInv, ChatRequested, ChatSentUpTo
<1>3. /\ e \in ChatEvents /\ e.type = k /\ e.by = r /\ e.replayed = FALSE
  BY ChatEventIs
<1>4. IF socket[s] = "open" THEN ChatAdds(s, e) ELSE UNCHANGED inbox
  BY <1>1, <1>2, <1>3, ChatEventsAdd
<1>5. ChatSocketStep /\ ChatRequested' /\ Chat!Count' = n /\ ChatLetGo' = ChatLetGo
  BY <1>1, ChatSocketsStay, ChatProgressKeeps DEF ChatLetGo
<1> HIDE DEF e, n
<1>6. socket[s] = "open" => ChatLive(r)
  BY DEF ChatLive, ChatWorking
<1>7. ChatFading
  BY <1>1, <1>2, <1>3, <1>4, <1>5, <1>6, ChatAddsFades, ChatFadesToo
<1>8. ChatEventFits(s, e)
  BY <1>2, <1>3 DEF ChatEventFits, ChatFinals, n
<1>9. ChatTold'
  BY <1>2, <1>3, <1>4, <1>5, <1>8, ChatToldStays, ChatToldAdds DEF n
<1>10. ChatWired'
  <2>1. inbox' \in [Chat!Sockets -> Seq(ChatEvents)]
    BY <1>1, <1>4 DEF ChatAdds, ChatWired
  <2>2. ASSUME NEW t \in Chat!Sockets, server[t] # 0
        PROVE  server[t] <= n /\ request'[server[t]].at = t /\ request'[server[t]].step # "sent"
    BY <1>1, <2>2, ChatServes DEF ChatProgress, n
  <2> QED BY <1>1, <1>5, <2>1, <2>2 DEF ChatWired
<1>11. ChatAsked'
  BY <1>5, ChatAskedStays DEF n
<1>12. ChatWaits'
  <2>1. /\ \A t \in Chat!Sockets :
             /\ Len(inbox[t]) <= Len(inbox'[t]) /\ Len(inbox'[t]) \in Nat
             /\ \A i \in 1 .. Len(inbox[t]) : inbox'[t][i] = inbox[t][i]
        /\ \A t \in Chat!Sockets : Len(outbox[t]) \in Nat
    BY <1>1, <1>2, <1>4, <1>10, ChatOnWires DEF ChatAdds, ChatWired
  <2>2. CASE request'[n].step = request[n].step
    <3>1. CASE ui.ws \in Chat!Sockets
      BY <1>5, <2>1, <2>2, <3>1, ChatWaitsStay DEF n
    <3>2. CASE ui.ws \notin Chat!Sockets
      BY <3>2 DEF ChatIInv, ChatWaits
    <3> QED BY <3>1, <3>2
  <2>3. CASE request'[n].step # request[n].step
    <3>1. n = r \/ n \notin Chat!Requests
      BY <2>3
    <3>2. CASE n = r
      <4>1. request'[n].step = "parked" /\ k = "approval"
        BY <2>3, <3>2
      <4> SUFFICES ASSUME ui.sending, ~chatPast.stranded, \A t \in Chat!Sockets : socket[t] # "dropped"
                   PROVE  ChatWaits'
        BY DEF ChatWaits
      <4>2. ui.ws \in Chat!Sockets /\ socket[ui.ws] = "open" /\ s = ui.ws
        BY <3>2 DEF ChatIInv, ChatWaits, n
      <4>3. Len(inbox'[s]) = Len(inbox[s]) + 1 /\ inbox'[s][Len(inbox[s]) + 1] = e /\ Len(inbox[s]) \in Nat
        BY <1>1, <1>4, <4>2, ChatOnWires DEF ChatAdds
      <4>4. request'[n].at = ui.ws
        BY <3>2, <4>2 DEF ChatProgress
      <4>5. \E i \in 1 .. Len(inbox'[ui.ws]) : inbox'[ui.ws][i].type = "approval" /\ inbox'[ui.ws][i].by = n
        BY <1>3, <3>2, <4>1, <4>2, <4>3
      <4> QED BY <1>5, <4>1, <4>2, <4>4, <4>5 DEF ChatWaits, ChatComing
    <3>3. CASE n \notin Chat!Requests
      <4>1. n = 0
        BY <1>1, <3>3, ChatNumbers
      <4> QED BY <4>1 DEF ChatIInv, ChatShapes, ChatWaits, n
    <3> QED BY <3>1, <3>2, <3>3
  <2> QED BY <2>2, <2>3
<1> QED BY <1>5, <1>7, <1>9, <1>10, <1>11, <1>12, ChatPageStays DEF ChatIInv

LEMMA ChatTellKeeps ==
  ASSUME ChatIInv, NEW r \in Chat!Requests, Chat!Tell(r)
  PROVE  ChatIInv'
<1>1. /\ request[r].kind = "turn" /\ request[r].step \in {"running", "aborted"}
      /\ request' = [request EXCEPT ![r].told = TRUE]
      /\ Chat!Events(request[r].at, <<Chat!Event("session_id", r)>>)
      /\ UNCHANGED <<ui, socket, outbox, server, chatPast>>
  BY DEF Chat!Tell, Chat!Turn
<1>2. ChatRequested
  BY DEF ChatIInv
<1>3. ChatProgress /\ \A o \in Chat!Requests : request'[o].step = request[o].step
  <2>1. DOMAIN request' = Chat!Requests /\ \A o \in Chat!Requests : o # r => request'[o] = request[o]
    BY <1>1, <1>2 DEF ChatRequested
  <2>2. request'[r] = [request[r] EXCEPT !.told = TRUE]
    BY <1>1, <1>2 DEF ChatRequested
  <2>3. /\ DOMAIN request'[r] = ChatFields /\ request'[r].kind = request[r].kind
        /\ request'[r].session = request[r].session /\ request'[r].at = request[r].at
        /\ request'[r].step = request[r].step /\ request'[r].again = request[r].again
    BY <1>2, <2>2 DEF ChatRequested, ChatFields
  <2>4. request[r].step # "unsent"
    BY <1>1
  <2> QED BY <1>2, <2>1, <2>3, <2>4 DEF ChatRequested, ChatProgress
<1> QED BY <1>1, <1>3, ChatSpeaks

LEMMA ChatSpeakKeeps ==
  ASSUME ChatIInv, NEW r \in Chat!Requests, Chat!Speak(r)
  PROVE  ChatIInv'
<1>1. /\ request[r].kind = "turn" /\ request[r].step \in {"running", "aborted"}
      /\ request' = [request EXCEPT ![r].spoke = TRUE]
      /\ Chat!Events(request[r].at, <<Chat!Event("text", r)>>)
      /\ UNCHANGED <<ui, socket, outbox, server, chatPast>>
  BY DEF Chat!Speak, Chat!Turn
<1>2. ChatRequested
  BY DEF ChatIInv
<1>3. ChatProgress /\ \A o \in Chat!Requests : request'[o].step = request[o].step
  <2>1. DOMAIN request' = Chat!Requests /\ \A o \in Chat!Requests : o # r => request'[o] = request[o]
    BY <1>1, <1>2 DEF ChatRequested
  <2>2. request'[r] = [request[r] EXCEPT !.spoke = TRUE]
    BY <1>1, <1>2 DEF ChatRequested
  <2>3. /\ DOMAIN request'[r] = ChatFields /\ request'[r].kind = request[r].kind
        /\ request'[r].session = request[r].session /\ request'[r].at = request[r].at
        /\ request'[r].step = request[r].step /\ request'[r].again = request[r].again
    BY <1>2, <2>2 DEF ChatRequested, ChatFields
  <2>4. request[r].step # "unsent"
    BY <1>1
  <2> QED BY <1>2, <2>1, <2>3, <2>4 DEF ChatRequested, ChatProgress
<1> QED BY <1>1, <1>3, ChatSpeaks

LEMMA ChatAskKeeps ==
  ASSUME ChatIInv, NEW r \in Chat!Requests, Chat!Ask(r)
  PROVE  ChatIInv'
<1>1. /\ request[r].kind = "turn" /\ request[r].step = "running"
      /\ request' = [request EXCEPT ![r].spoke = TRUE, ![r].step = "parked"]
      /\ Chat!Events(request[r].at, <<Chat!Event("approval", r)>>)
      /\ UNCHANGED <<ui, socket, outbox, server, chatPast>>
  BY DEF Chat!Ask, Chat!Turn
<1>2. ChatRequested
  BY DEF ChatIInv
<1>3. /\ ChatProgress /\ request'[r].step = "parked"
      /\ \A o \in Chat!Requests : o # r => request'[o].step = request[o].step
  <2>1. DOMAIN request' = Chat!Requests /\ \A o \in Chat!Requests : o # r => request'[o] = request[o]
    BY <1>1, <1>2 DEF ChatRequested
  <2>2. request'[r] = [request[r] EXCEPT !.spoke = TRUE, !.step = "parked"]
    BY <1>1, <1>2 DEF ChatRequested
  <2>3. /\ DOMAIN request'[r] = ChatFields /\ request'[r].kind = request[r].kind
        /\ request'[r].session = request[r].session /\ request'[r].at = request[r].at
        /\ request'[r].step = "parked" /\ request'[r].again = request[r].again
    BY <1>2, <2>2 DEF ChatRequested, ChatFields
  <2> QED BY <1>1, <1>2, <2>1, <2>3 DEF ChatRequested, ChatProgress, ChatStates
<1> QED BY <1>1, <1>3, ChatSpeaks

(* What the server may say of the end of request r.                          *)
ChatEnd(r, e) ==
  /\ e \in ChatEvents /\ e.type \in ChatFinals /\ e.by = r
  /\ e.type = "compacted" => request[r].kind = "compaction"
  /\ e.type = "done" => request[r].kind = "turn"
  /\ e.replayed => e.type = "done" /\ request[r].session # 0

LEMMA ChatEnds ==
  ASSUME ChatRequested, NEW r \in Chat!Requests,
         NEW es \in CASE request[r].step = "aborted" -> {<<>>, <<Chat!Event("interrupted", r)>>}
                      [] ~Chat!Turn(r) -> {<<Chat!Event("compacted", r)>>, <<Chat!Event("error", r)>>}
                      [] OTHER -> {<<Chat!Event("error", r)>>, <<Chat!Event("done", r)>>}
                           \cup {<<[Chat!Event("done", r) EXCEPT !.replayed = request[r].again]>>}
  PROVE  (es = <<>> /\ request[r].step = "aborted") \/ \E e : es = <<e>> /\ ChatEnd(r, e)
<1>1. PICK odd : odd = [Chat!Event("done", r) EXCEPT !.replayed = request[r].again]
  OBVIOUS
<1>2. \/ es = <<>> /\ request[r].step = "aborted"
      \/ es = <<Chat!Event("interrupted", r)>> \/ es = <<Chat!Event("error", r)>>
      \/ ~Chat!Turn(r) /\ es = <<Chat!Event("compacted", r)>>
      \/ Chat!Turn(r) /\ es = <<Chat!Event("done", r)>>
      \/ Chat!Turn(r) /\ es = <<odd>>
  BY <1>1
<1>3. Chat!Turn(r) <=> request[r].kind # "compaction"
  BY DEF ChatRequested, Chat!Kinds, Chat!Turn
<1>4. ASSUME NEW k \in ChatFinals, k = "compacted" => ~Chat!Turn(r), k = "done" => Chat!Turn(r)
      PROVE  ChatEnd(r, Chat!Event(k, r))
  <2>1. /\ Chat!Event(k, r) \in ChatEvents /\ Chat!Event(k, r).type = k
        /\ Chat!Event(k, r).by = r /\ Chat!Event(k, r).replayed = FALSE
    BY ChatEventIs
  <2> QED BY <1>3, <1>4, <2>1 DEF ChatEnd, Chat!Turn
<1>5. Chat!Turn(r) => ChatEnd(r, odd)
  <2>1. ASSUME NEW b \in BOOLEAN, NEW d, d = [Chat!Event("done", r) EXCEPT !.replayed = b]
        PROVE  d \in ChatEvents /\ d.type = "done" /\ d.by = r /\ d.replayed = b
    <3>1. d = [type |-> "done", by |-> r, replayed |-> b]
      BY <2>1 DEF Chat!Event
    <3> QED BY <3>1 DEF ChatEvents, ChatFinals
  <2>2. request[r].again \in BOOLEAN /\ (request[r].again => request[r].session # 0)
    BY DEF ChatRequested
  <2>3. odd \in ChatEvents /\ odd.type = "done" /\ odd.by = r /\ odd.replayed = request[r].again
    BY <1>1, <2>1, <2>2
  <2> QED BY <2>2, <2>3 DEF ChatEnd, ChatFinals, Chat!Turn
<1>6. {"interrupted", "error", "compacted", "done"} \subseteq ChatFinals
  BY DEF ChatFinals
<1> QED BY <1>2, <1>4, <1>5, <1>6

LEMMA ChatFinishKeeps ==
  ASSUME ChatIInv, NEW r \in Chat!Requests, Chat!Finish(r)
  PROVE  ChatIInv'
<1> DEFINE s == request[r].at
           n == Chat!Count
<1>1. /\ request[r].step \in {"running", "aborted"}
      /\ request' = [request EXCEPT ![r].step = "over", ![r].spoke = FALSE, ![r].again = FALSE]
      /\ server' = [t \in Chat!Sockets |-> IF server[t] = r THEN 0 ELSE server[t]]
      /\ UNCHANGED <<ui, socket, outbox, chatPast>>
  BY DEF Chat!Finish, Chat!Nobody
<1>2. ChatRequested /\ ChatWired /\ n \in 0 .. MaxPosts
  BY DEF ChatIInv, ChatRequested, ChatSentUpTo
<1>3. PICK es : /\ (es = <<>> /\ request[r].step = "aborted") \/ \E e : es = <<e>> /\ ChatEnd(r, e)
                /\ Chat!Events(s, es)
  BY <1>2, ChatEnds DEF Chat!Finish
<1>4. r <= n /\ s \in Chat!Sockets /\ socket[s] \in {"open", "dropped", "closed"}
  BY <1>1, <1>2 DEF ChatRequested, ChatSentUpTo
<1>5. /\ ChatProgress /\ request'[r].step = "over"
      /\ \A o \in Chat!Requests : o # r => request'[o].step = request[o].step
  <2>1. DOMAIN request' = Chat!Requests /\ \A o \in Chat!Requests : o # r => request'[o] = request[o]
    BY <1>1, <1>2 DEF ChatRequested
  <2>2. request'[r] = [request[r] EXCEPT !.step = "over", !.spoke = FALSE, !.again = FALSE]
    BY <1>1, <1>2 DEF ChatRequested
  <2>3. /\ DOMAIN request'[r] = ChatFields /\ request'[r].kind = request[r].kind
        /\ request'[r].session = request[r].session /\ request'[r].at = request[r].at
        /\ request'[r].step = "over" /\ request'[r].again = FALSE
    BY <1>2, <2>2 DEF ChatRequested, ChatFields
  <2> QED BY <1>1, <1>2, <2>1, <2>3 DEF ChatRequested, ChatProgress, ChatStates
<1>6. ChatSocketStep /\ ChatRequested' /\ Chat!Count' = n /\ ChatLetGo' = ChatLetGo
  BY <1>1, <1>2, <1>5, ChatSocketsStay, ChatProgressKeeps DEF ChatLetGo
<1> HIDE DEF n, s
<1>7. \/ UNCHANGED inbox /\ (request[r].step = "aborted" \/ socket[s] # "open")
      \/ socket[s] = "open" /\ \E e : ChatAdds(s, e) /\ ChatEnd(r, e)
  <2>1. CASE es = <<>> /\ request[r].step = "aborted"
    BY <1>2, <1>3, <1>4, <2>1, ChatEventsNone
  <2>2. CASE \E e : es = <<e>> /\ ChatEnd(r, e)
    <3>1. PICK e : es = <<e>> /\ ChatEnd(r, e)
      BY <2>2
    <3>2. IF socket[s] = "open" THEN ChatAdds(s, e) ELSE UNCHANGED inbox
      BY <1>2, <1>3, <1>4, <3>1, ChatEventsAdd DEF ChatEnd
    <3> QED BY <3>1, <3>2
  <2> QED BY <1>3, <2>1, <2>2
<1>8. ChatFading /\ ChatTold'
  <2>1. CASE UNCHANGED inbox
    BY <1>2, <1>5, <1>6, <2>1, ChatFadesToo, ChatToldStays DEF n
  <2>2. CASE socket[s] = "open" /\ \E e : ChatAdds(s, e) /\ ChatEnd(r, e)
    <3>1. PICK e : ChatAdds(s, e) /\ ChatEnd(r, e)
      BY <2>2
    <3>2. ChatLive(r)
      BY <1>1, <2>2 DEF ChatLive, ChatWorking, s
    <3>3. ChatFading
      BY <1>4, <1>5, <1>6, <3>1, <3>2, ChatAddsFades DEF ChatEnd
    <3>4. ChatEventFits(s, e)
      BY <1>1, <1>4, <1>5, <3>1 DEF ChatEventFits, ChatEnd, ChatFinals, n, s
    <3> QED BY <1>4, <1>5, <1>6, <3>1, <3>3, <3>4, ChatToldAdds DEF ChatEnd, n
  <2> QED BY <1>7, <2>1, <2>2
<1>9. inbox' \in [Chat!Sockets -> Seq(ChatEvents)]
  BY <1>2, <1>7 DEF ChatAdds, ChatWired
<1>10. ChatWired'
  <2>1. ASSUME NEW t \in Chat!Sockets, server'[t] # 0
        PROVE  server'[t] <= n /\ request'[server'[t]].at = t /\ request'[server'[t]].step # "sent"
    <3>1. server'[t] = server[t]
      BY <1>1, <2>1
    <3> QED BY <1>2, <1>5, <2>1, <3>1, ChatServes DEF ChatProgress, n
  <2>2. server' \in [Chat!Sockets -> {0} \cup Chat!Requests]
    BY <1>1, <1>2 DEF ChatWired
  <2> QED BY <1>1, <1>2, <1>6, <1>9, <2>1, <2>2 DEF ChatWired
<1>11. ChatAsked'
  <2>1. \A o \in Chat!Requests : request[o].step = "sent" => request'[o].step = "sent"
    BY <1>1, <1>5
  <2> QED BY <1>1, <1>5, <1>6, <2>1, ChatAskedStays DEF n
<1>12. ChatWaits'
  <2> SUFFICES ASSUME ui.sending, ~chatPast.stranded, \A t \in Chat!Sockets : socket[t] # "dropped"
               PROVE  ChatWaits'
    BY <1>1 DEF ChatWaits
  <2>1. PICK m, w : m = n /\ w = ui.ws
    OBVIOUS
  <2>2. w \in Chat!Sockets /\ socket[w] = "open" /\ request[m].at = w /\ ChatComing(m, w)
    BY <2>1 DEF ChatIInv, ChatWaits, n
  <2>3. m \in Chat!Requests
    <3>1. m \in 0 .. MaxPosts
      BY <1>2, <2>1
    <3>2. m # 0
      BY <2>1 DEF ChatIInv, ChatShapes, n
    <3> QED BY <3>1, <3>2, ChatNumbers
  <2>4. request'[m].at = w
    BY <1>5, <2>2, <2>3 DEF ChatProgress
  <2>5. \A i \in 1 .. Len(outbox[w]) : i \in 1 .. Len(outbox'[w]) /\ outbox'[w][i] = outbox[w][i]
    BY <1>1
  <2>6. \A i \in 1 .. Len(inbox[w]) : i \in 1 .. Len(inbox'[w]) /\ inbox'[w][i] = inbox[w][i]
    <3>1. Len(inbox[w]) \in Nat /\ Len(inbox'[w]) \in Nat
      BY <1>9, <2>2, <1>2, ChatOnWires
    <3> QED BY <1>7, <2>2, <3>1 DEF ChatAdds
  <2> SUFFICES ChatComing(m, w)'
    BY <1>1, <1>6, <2>1, <2>2, <2>4 DEF ChatWaits
  <2>7. CASE m # r
    <3>1. request'[m].step = request[m].step /\ ui' = ui
      BY <1>1, <1>5, <2>3, <2>7
    <3> QED BY <2>2, <2>5, <2>6, <3>1, ChatStillComing
  <2>8. CASE m = r /\ \E e : ChatAdds(s, e) /\ ChatEnd(r, e)
    <3>1. PICK e : ChatAdds(s, e) /\ ChatEnd(r, e)
      BY <2>8
    <3>2. w = s /\ Len(inbox[s]) \in Nat
      BY <1>2, <1>4, <2>2, <2>8, ChatOnWires DEF s
    <3>3. \E i \in 1 .. Len(inbox'[w]) : inbox'[w][i].type \in ChatFinals
      BY <3>1, <3>2 DEF ChatAdds, ChatEnd
    <3> QED BY <3>3 DEF ChatComing
  <2>9. CASE m = r /\ UNCHANGED inbox /\ (request[r].step = "aborted" \/ socket[s] # "open")
    <3>1. request[m].step = "aborted"
      BY <2>2, <2>9 DEF s
    <3>2. ~\E i \in 1 .. Len(outbox[w]) : outbox[w][i].type \in ChatAsks /\ outbox[w][i].of = m
      BY <2>2, <3>1 DEF ChatIInv, ChatAsked
    <3>3. \E i \in 1 .. Len(inbox[w]) : inbox[w][i].type \in ChatFinals
      BY <2>2, <3>1, <3>2 DEF ChatComing
    <3> QED BY <2>9, <3>3 DEF ChatComing
  <2> QED BY <1>7, <2>7, <2>8, <2>9
<1> QED BY <1>1, <1>5, <1>6, <1>8, <1>10, <1>11, <1>12, ChatPageStays DEF ChatIInv

(* The message a socket's handler takes.                                     *)
ChatTakes(s, m) ==
  /\ outbox' \in [Chat!Sockets -> Seq(ChatMessages)]
  /\ \A t \in Chat!Sockets : t # s => outbox'[t] = outbox[t]
  /\ Len(outbox[s]) \in Nat /\ Len(outbox[s]) >= 1 /\ Len(outbox'[s]) = Len(outbox[s]) - 1
  /\ \A i \in 1 .. Len(outbox'[s]) : outbox'[s][i] = outbox[s][i + 1]
  /\ m = outbox[s][1] /\ m \in ChatMessages /\ m.of \in Chat!Requests

LEMMA ChatReceives ==
  ASSUME ChatWired, NEW s \in Chat!Sockets, outbox[s] # <<>>, outbox' = [outbox EXCEPT ![s] = Tail(@)]
  PROVE  ChatTakes(s, Head(outbox[s]))
<1>1. outbox \in [Chat!Sockets -> Seq(ChatMessages)]
  BY DEF ChatWired
<1>2. \A m \in ChatMessages : m.of \in Chat!Requests
  BY DEF ChatMessages
<1> QED BY <1>1, <1>2, ChatTakesOff DEF ChatTakes

LEMMA ChatAskedLess ==
  ASSUME ChatIInv, ChatProgress, Chat!Count' = Chat!Count, ChatLetGo \subseteq ChatLetGo',
         NEW s \in Chat!Sockets, NEW m, ChatTakes(s, m),
         \A r \in Chat!Requests :
           request[r].step = "sent" /\ ~(m.type \in ChatAsks /\ r = m.of) => request'[r].step = "sent"
  PROVE  ChatAsked'
<1>1. PICK n : n = Chat!Count /\ n \in 0 .. MaxPosts
  BY DEF ChatIInv, ChatRequested, ChatSentUpTo
<1> DEFINE Fits(t, i) ==
             /\ outbox'[t][i].of <= n
             /\ outbox'[t][i].type = "interrupt" => outbox'[t][i].of \in ChatLetGo'
             /\ outbox'[t][i].type \in ChatAsks =>
                  /\ request'[outbox'[t][i].of].at = t /\ request'[outbox'[t][i].of].step = "sent"
                  /\ request'[n].at = t => request'[n].step = "sent"
                  /\ \A j \in 1 .. Len(outbox'[t]) :
                       j > i /\ outbox'[t][j].type \in ChatAsks => outbox'[t][j].of > outbox'[t][i].of
<1> SUFFICES ASSUME NEW t \in Chat!Sockets, NEW i \in 1 .. Len(outbox'[t]) PROVE Fits(t, i)
  BY <1>1 DEF ChatAsked
<1>2. \A u \in Chat!Sockets : \A k \in 1 .. Len(outbox[u]) :
        /\ outbox[u][k].of \in Chat!Requests /\ outbox[u][k].of <= n
        /\ outbox[u][k].type = "interrupt" => outbox[u][k].of \in ChatLetGo
        /\ outbox[u][k].type \in ChatAsks =>
             /\ request[outbox[u][k].of].at = u /\ request[outbox[u][k].of].step = "sent"
             /\ request[n].at = u => request[n].step = "sent"
             /\ \A j \in 1 .. Len(outbox[u]) :
                  j > k /\ outbox[u][j].type \in ChatAsks => outbox[u][j].of > outbox[u][k].of
  BY <1>1, ChatOnWires DEF ChatIInv, ChatAsked
<1>3. \A r \in Chat!Requests : request'[r].at = request[r].at
  BY DEF ChatProgress
<1>4. 1 \in 1 .. Len(outbox[s]) /\ m = outbox[s][1]
  BY DEF ChatTakes
<1>5. CASE t # s
  <2>1. outbox'[t] = outbox[t]
    BY <1>5 DEF ChatTakes
  <2>2. n \in Chat!Requests
    BY <1>1, <1>2, <2>1, ChatNumbers
  <2>3. m.type \in ChatAsks => request[m.of].at = s
    BY <1>2, <1>4
  <2>4. \A r \in Chat!Requests : request[r].at = t /\ request[r].step = "sent" => request'[r].step = "sent"
    BY <1>5, <2>3
  <2> QED BY <1>2, <1>3, <2>1, <2>2, <2>4
<1>6. CASE t = s
  <2>1. /\ i + 1 \in 1 .. Len(outbox[s]) /\ outbox'[s][i] = outbox[s][i + 1] /\ i + 1 > 1
        /\ Len(outbox[s]) \in Nat
        /\ \A j \in 1 .. Len(outbox'[s]) : j + 1 \in 1 .. Len(outbox[s]) /\ outbox'[s][j] = outbox[s][j + 1]
    BY <1>6 DEF ChatTakes
  <2>2. PICK k, a : k = i + 1 /\ a = outbox[s][k]
    OBVIOUS
  <2>3. /\ k \in 1 .. Len(outbox[s]) /\ k > 1 /\ a.of \in Chat!Requests /\ a.of <= n
        /\ a.type = "interrupt" => a.of \in ChatLetGo
        /\ outbox'[s][i] = a
    BY <1>2, <2>1, <2>2
  <2>4. n \in Chat!Requests
    BY <1>1, <2>3, ChatNumbers
  <2>5. ASSUME a.type \in ChatAsks
        PROVE  /\ request'[a.of].at = s /\ request'[a.of].step = "sent"
               /\ request'[n].at = s => request'[n].step = "sent"
               /\ \A j \in 1 .. Len(outbox'[s]) :
                    j > i /\ outbox'[s][j].type \in ChatAsks => outbox'[s][j].of > a.of
    <3>1. /\ request[a.of].at = s /\ request[a.of].step = "sent"
          /\ request[n].at = s => request[n].step = "sent"
      BY <1>2, <2>2, <2>3, <2>5
    <3>2. m.type \in ChatAsks => a.of > m.of
      BY <1>2, <1>4, <2>2, <2>3, <2>5
    <3>3. m.of \in Chat!Requests
      BY DEF ChatTakes
    <3>4. m.type \in ChatAsks => a.of # m.of /\ n # m.of
      BY <2>3, <2>4, <3>2, <3>3, ChatNumbers
    <3>5. ASSUME NEW j \in 1 .. Len(outbox'[s]), j > i, outbox'[s][j].type \in ChatAsks
          PROVE  outbox'[s][j].of > a.of
      <4>1. j + 1 \in 1 .. Len(outbox[s]) /\ outbox'[s][j] = outbox[s][j + 1] /\ j + 1 > k
        BY <2>1, <2>2, <3>5
      <4> QED BY <1>2, <2>2, <2>3, <2>5, <3>5, <4>1
    <3> QED BY <1>3, <2>3, <2>4, <3>1, <3>4, <3>5
  <2> QED BY <1>6, <2>3, <2>5 DEF ChatFading
<1> QED BY <1>5, <1>6

(* What the last request awaits, when the handler of another socket works.   *)
LEMMA ChatComingElsewhere ==
  ASSUME ChatWired, NEW n, NEW w \in Chat!Sockets, ChatComing(n, w),
         request'[n].step = request[n].step, UNCHANGED ui,
         outbox'[w] = outbox[w],
         \A i \in 1 .. Len(inbox[w]) : i \in 1 .. Len(inbox'[w]) /\ inbox'[w][i] = inbox[w][i]
  PROVE  ChatComing(n, w)'
  BY ChatStillComing

LEMMA ChatAborts ==
  ASSUME ChatRequested, ChatWired, NEW s \in Chat!Sockets, NEW q, q = Chat!Abort(server[s])
  PROVE  /\ DOMAIN q = Chat!Requests
         /\ \A r \in Chat!Requests : r # server[s] => q[r] = request[r]
         /\ \A r \in Chat!Requests :
              /\ DOMAIN q[r] = ChatFields /\ q[r].kind = request[r].kind
              /\ q[r].session = request[r].session /\ q[r].at = request[r].at
              /\ q[r].again = request[r].again /\ q[r].told = request[r].told
              /\ q[r].step = request[r].step
                   \/ (q[r].step = "aborted" /\ request[r].step \notin {"unsent", "sent", "over"})
<1>1. DOMAIN request = Chat!Requests /\ \A r \in Chat!Requests : DOMAIN request[r] = ChatFields
  BY DEF ChatRequested
<1>2. CASE server[s] = 0 \/ request[server[s]].step = "over"
  BY <1>1, <1>2 DEF Chat!Abort, Chat!Nobody, Chat!Finished
<1>3. CASE server[s] # 0 /\ request[server[s]].step # "over"
  <2>1. PICK r : r = server[s]
    OBVIOUS
  <2>2. r \in Chat!Requests /\ r <= Chat!Count /\ request[r].step # "sent"
    BY <1>3, <2>1, ChatServes
  <2>3. request[r].step \notin {"unsent", "sent", "over"}
    BY <1>3, <2>1, <2>2 DEF ChatRequested, ChatSentUpTo
  <2>4. q = [request EXCEPT ![r] = [request[r] EXCEPT !.step = "aborted"]]
    BY <1>3, <2>1 DEF Chat!Abort, Chat!Nobody, Chat!Finished
  <2>5. /\ DOMAIN q = Chat!Requests /\ q[r] = [request[r] EXCEPT !.step = "aborted"]
        /\ \A o \in Chat!Requests : o # r => q[o] = request[o]
    BY <1>1, <2>2, <2>4
  <2>6. /\ DOMAIN q[r] = ChatFields /\ q[r].kind = request[r].kind
        /\ q[r].session = request[r].session /\ q[r].at = request[r].at /\ q[r].step = "aborted"
    BY <1>1, <2>2, <2>5 DEF ChatFields
  <2>7. q[r].again = request[r].again /\ q[r].told = request[r].told
    BY <1>1, <2>2, <2>5 DEF ChatFields
  <2> QED BY <1>1, <2>1, <2>3, <2>5, <2>6, <2>7
<1> QED BY <1>2, <1>3

LEMMA ChatComingTaken ==
  ASSUME ChatWired, NEW n, NEW s \in Chat!Sockets, NEW m, ChatTakes(s, m), ChatComing(n, s),
         request'[n].step = request[n].step, UNCHANGED ui,
         m.type \in ChatAsks => m.of # n,
         m.type = "approval" => m.of # n \/ request[n].step # "parked",
         \A i \in 1 .. Len(inbox[s]) : i \in 1 .. Len(inbox'[s]) /\ inbox'[s][i] = inbox[s][i]
  PROVE  ChatComing(n, s)'
<1>1. \A i \in 1 .. Len(outbox[s]) :
        outbox[s][i] = m \/ \E j \in 1 .. Len(outbox'[s]) : outbox'[s][j] = outbox[s][i]
  <2> SUFFICES ASSUME NEW i \in 1 .. Len(outbox[s]), i # 1
               PROVE  \E j \in 1 .. Len(outbox'[s]) : outbox'[s][j] = outbox[s][i]
    BY DEF ChatTakes
  <2>1. i - 1 \in 1 .. Len(outbox'[s]) /\ (i - 1) + 1 = i
    BY DEF ChatTakes
  <2> QED BY <2>1 DEF ChatTakes
<1>2. CASE \E i \in 1 .. Len(outbox[s]) : outbox[s][i].type \in ChatAsks /\ outbox[s][i].of = n
  BY <1>1, <1>2 DEF ChatComing
<1>3. CASE request[n].step = "running"
  BY <1>3 DEF ChatComing
<1>4. CASE request[n].step = "parked" /\ n \in ui.approvals
  BY <1>4 DEF ChatComing
<1>5. CASE /\ request[n].step = "parked"
           /\ \E i \in 1 .. Len(outbox[s]) : outbox[s][i].type = "approval" /\ outbox[s][i].of = n
  BY <1>1, <1>5 DEF ChatComing
<1>6. CASE /\ request[n].step = "parked"
           /\ \E i \in 1 .. Len(inbox[s]) : inbox[s][i].type = "approval" /\ inbox[s][i].by = n
  BY <1>6 DEF ChatComing
<1>7. CASE \E i \in 1 .. Len(inbox[s]) : inbox[s][i].type \in ChatFinals
  BY <1>7 DEF ChatComing
<1> QED BY <1>2, <1>3, <1>4, <1>5, <1>6, <1>7 DEF ChatComing

(* What a socket's handler says, if anything.                                *)
ChatReplies(s) ==
  \/ UNCHANGED inbox
  \/ \E e \in ChatEvents : /\ ChatAdds(s, e) /\ ChatEventFits(s, e)
                           /\ e.by \in ChatLetGo \/ ChatLive(e.by)

ChatServesThen ==
  /\ server' \in [Chat!Sockets -> {0} \cup Chat!Requests]
  /\ \A t \in Chat!Sockets : server'[t] # 0 =>
       /\ server'[t] <= Chat!Count
       /\ request'[server'[t]].at = t /\ request'[server'[t]].step # "sent"

ChatSentBut(m) ==
  \A r \in Chat!Requests :
    request[r].step = "sent" /\ ~(m.type \in ChatAsks /\ r = m.of) => request'[r].step = "sent"

ChatComesThen ==
  Chat!Count \in Chat!Requests =>
    \A w \in Chat!Sockets :
      request[Chat!Count].at = w /\ socket[w] = "open" /\ ChatComing(Chat!Count, w) =>
        ChatComing(Chat!Count, w)'

LEMMA ChatTakenKeeps ==
  ASSUME ChatIInv, NEW s \in Chat!Sockets, NEW m, ChatTakes(s, m), ChatProgress, ChatReplies(s),
         UNCHANGED <<ui, socket, chatPast>>, ChatServesThen, ChatSentBut(m), ChatComesThen
  PROVE  ChatIInv'
<1>1. ChatRequested /\ ChatWired
  BY DEF ChatIInv
<1>2. PICK n : n = Chat!Count /\ n \in 0 .. MaxPosts
  BY <1>1 DEF ChatRequested, ChatSentUpTo
<1>3. ChatSocketStep /\ ChatRequested' /\ Chat!Count' = n /\ ChatLetGo' = ChatLetGo
  BY <1>1, <1>2, ChatSocketsStay, ChatProgressKeeps DEF ChatLetGo
<1>4. ChatFading /\ ChatTold' /\ inbox' \in [Chat!Sockets -> Seq(ChatEvents)]
  <2>1. CASE UNCHANGED inbox
    BY <1>1, <1>2, <1>3, <2>1, ChatFadesToo, ChatToldStays DEF ChatWired
  <2>2. CASE \E e \in ChatEvents : /\ ChatAdds(s, e) /\ ChatEventFits(s, e)
                                   /\ e.by \in ChatLetGo \/ ChatLive(e.by)
    BY <1>2, <1>3, <2>2, ChatAddsFades, ChatToldAdds DEF ChatAdds
  <2> QED BY <2>1, <2>2 DEF ChatReplies
<1>5. ChatWired'
  BY <1>1, <1>2, <1>3, <1>4 DEF ChatWired, ChatTakes, ChatServesThen
<1>6. ChatAsked'
  BY <1>2, <1>3, ChatAskedLess DEF ChatSentBut
<1>7. ChatWaits'
  <2> SUFFICES ASSUME ui.sending, ~chatPast.stranded, \A t \in Chat!Sockets : socket[t] # "dropped"
               PROVE  ChatWaits'
    BY DEF ChatWaits
  <2>1. PICK w : w = ui.ws
    OBVIOUS
  <2>2. w \in Chat!Sockets /\ socket[w] = "open" /\ request[n].at = w /\ ChatComing(n, w)
    BY <1>2, <2>1 DEF ChatIInv, ChatWaits
  <2>3. n \in Chat!Requests
    BY <1>2, ChatNumbers DEF ChatIInv, ChatShapes
  <2>4. ChatComing(Chat!Count, w)'
    BY <1>2, <2>2, <2>3 DEF ChatComesThen
  <2>5. request'[n].at = w
    BY <2>2, <2>3 DEF ChatProgress
  <2> QED BY <1>3, <2>1, <2>2, <2>4, <2>5 DEF ChatWaits
<1> QED BY <1>3, <1>4, <1>5, <1>6, <1>7, ChatPageStays DEF ChatIInv

LEMMA ChatInterruptTakenKeeps ==
  ASSUME ChatIInv, NEW s \in Chat!Sockets, NEW m, ChatTakes(s, m), m.type = "interrupt",
         request' = Chat!Abort(server[s]), server' = [server EXCEPT ![s] = 0],
         Chat!Events(s, <<Chat!Event("interrupted", m.of)>>),
         UNCHANGED <<ui, socket, chatPast>>
  PROVE  ChatIInv'
<1>1. ChatRequested /\ ChatWired
  BY DEF ChatIInv
<1>2. /\ DOMAIN request' = Chat!Requests
      /\ \A r \in Chat!Requests : r # server[s] => request'[r] = request[r]
      /\ \A r \in Chat!Requests :
           /\ DOMAIN request'[r] = ChatFields /\ request'[r].kind = request[r].kind
           /\ request'[r].session = request[r].session /\ request'[r].at = request[r].at
           /\ request'[r].again = request[r].again /\ request'[r].told = request[r].told
           /\ request'[r].step = request[r].step
                \/ (request'[r].step = "aborted" /\ request[r].step \notin {"unsent", "sent", "over"})
  BY <1>1, ChatAborts
<1>3. ChatProgress
  BY <1>1, <1>2 DEF ChatRequested, ChatProgress, ChatStates
<1>4. PICK e : e = Chat!Event("interrupted", m.of)
  OBVIOUS
<1>5. m.of \in Chat!Requests /\ m.of <= Chat!Count /\ m.of \in ChatLetGo
  BY DEF ChatTakes, ChatIInv, ChatAsked
<1>6. /\ e \in ChatEvents /\ e.type = "interrupted" /\ e.by = m.of /\ e.replayed = FALSE
      /\ e.type \in ChatFinals
  BY <1>4, <1>5, ChatEventIs DEF ChatFinals
<1>7. IF socket[s] = "open" THEN ChatAdds(s, e) ELSE UNCHANGED inbox
  BY <1>1, <1>4, <1>6, ChatEventsAdd
<1>8. ChatReplies(s)
  BY <1>5, <1>6, <1>7 DEF ChatReplies, ChatEventFits
<1>9. /\ server' \in [Chat!Sockets -> {0} \cup Chat!Requests]
      /\ \A t \in Chat!Sockets : server'[t] # 0 => server'[t] = server[t]
  BY <1>1 DEF ChatWired
<1>10. ASSUME NEW t \in Chat!Sockets, server'[t] # 0
       PROVE  server'[t] <= Chat!Count /\ request'[server'[t]].at = t /\ request'[server'[t]].step # "sent"
  BY <1>1, <1>2, <1>9, <1>10, ChatServes
<1>11. ASSUME NEW w \in Chat!Sockets, Chat!Count \in Chat!Requests, request[Chat!Count].at = w,
              socket[w] = "open", ChatComing(Chat!Count, w)
       PROVE  ChatComing(Chat!Count, w)'
  <2>1. PICK n : n = Chat!Count
    OBVIOUS
  <2>2. Chat!Count' = n
    BY <1>1, <1>3, <2>1, ChatSocketsStay, ChatProgressKeeps
  <2>3. CASE w = s
    <3>1. Len(inbox[s]) \in Nat
      BY <1>1, ChatOnWires
    <3>2. \E i \in 1 .. Len(inbox'[w]) : inbox'[w][i].type \in ChatFinals
      BY <1>6, <1>7, <1>11, <2>3, <3>1 DEF ChatAdds
    <3> QED BY <3>2 DEF ChatComing
  <2>4. CASE w # s
    <3>1. n # server[s]
      BY <1>1, <1>11, <2>1, <2>4, ChatServes, ChatNumbers
    <3>2. request'[n].step = request[n].step /\ outbox'[w] = outbox[w] /\ inbox'[w] = inbox[w]
      BY <1>2, <1>7, <1>11, <2>1, <2>4, <3>1 DEF ChatAdds, ChatTakes
    <3>3. ChatComing(n, w)'
      BY <1>1, <1>11, <2>1, <3>2, ChatComingElsewhere
    <3> QED BY <2>2, <3>3
  <2> QED BY <2>3, <2>4
<1>12. \A r \in Chat!Requests : request[r].step = "sent" => request'[r].step = "sent"
  BY <1>2
<1>13. ChatServesThen /\ ChatSentBut(m) /\ ChatComesThen
  <2>1. ChatServesThen
    BY <1>9, <1>10 DEF ChatServesThen
  <2>2. ChatSentBut(m)
    BY <1>12 DEF ChatSentBut
  <2>3. ChatComesThen
    BY <1>11 DEF ChatComesThen
  <2> QED BY <2>1, <2>2, <2>3
<1> QED BY <1>3, <1>8, <1>13, ChatTakenKeeps

LEMMA ChatApprovalTakenKeeps ==
  ASSUME ChatIInv, NEW s \in Chat!Sockets, NEW m, ChatTakes(s, m), m.type = "approval",
         request' = IF request[m.of].step = "parked" THEN [request EXCEPT ![m.of].step = "running"]
                    ELSE request,
         UNCHANGED <<ui, socket, chatPast, server, inbox>>
  PROVE  ChatIInv'
<1>1. ChatRequested /\ ChatWired
  BY DEF ChatIInv
<1>2. PICK o : o = m.of /\ o \in Chat!Requests
  BY DEF ChatTakes
<1>3. /\ DOMAIN request' = Chat!Requests
      /\ \A r \in Chat!Requests :
           /\ DOMAIN request'[r] = ChatFields /\ request'[r].kind = request[r].kind
           /\ request'[r].session = request[r].session /\ request'[r].at = request[r].at
           /\ request'[r].again = request[r].again /\ request'[r].told = request[r].told
           /\ request'[r].step = IF r = o /\ request[r].step = "parked" THEN "running" ELSE request[r].step
  <2>1. DOMAIN request = Chat!Requests /\ \A r \in Chat!Requests : DOMAIN request[r] = ChatFields
    BY <1>1 DEF ChatRequested
  <2>2. CASE request[o].step # "parked"
    BY <1>2, <2>1, <2>2
  <2>3. CASE request[o].step = "parked"
    <3>1. request' = [request EXCEPT ![o] = [request[o] EXCEPT !.step = "running"]]
      BY <1>2, <2>3
    <3>2. /\ DOMAIN request' = Chat!Requests /\ request'[o] = [request[o] EXCEPT !.step = "running"]
          /\ \A r \in Chat!Requests : r # o => request'[r] = request[r]
      BY <1>2, <2>1, <3>1
    <3>3. /\ DOMAIN request'[o] = ChatFields /\ request'[o].kind = request[o].kind
          /\ request'[o].session = request[o].session /\ request'[o].at = request[o].at
          /\ request'[o].step = "running"
      BY <1>2, <2>1, <3>2 DEF ChatFields
    <3>4. request'[o].again = request[o].again /\ request'[o].told = request[o].told
      BY <1>2, <2>1, <3>2 DEF ChatFields
    <3> QED BY <1>2, <2>1, <2>3, <3>2, <3>3, <3>4
  <2> QED BY <2>2, <2>3
<1>4. ChatProgress
  BY <1>1, <1>3 DEF ChatRequested, ChatProgress, ChatStates
<1>5. ChatReplies(s)
  BY DEF ChatReplies
<1>6. ASSUME NEW t \in Chat!Sockets, server'[t] # 0
      PROVE  server'[t] <= Chat!Count /\ request'[server'[t]].at = t /\ request'[server'[t]].step # "sent"
  BY <1>1, <1>3, <1>6, ChatServes
<1>7. ASSUME NEW w \in Chat!Sockets, Chat!Count \in Chat!Requests, request[Chat!Count].at = w,
             socket[w] = "open", ChatComing(Chat!Count, w)
      PROVE  ChatComing(Chat!Count, w)'
  <2>1. PICK n : n = Chat!Count
    OBVIOUS
  <2>2. Chat!Count' = n
    BY <1>1, <1>4, <2>1, ChatSocketsStay, ChatProgressKeeps
  <2> SUFFICES ChatComing(n, w)'
    BY <2>2
  <2>3. CASE n = o /\ request[n].step = "parked"
    <3>1. request'[n].step = "running"
      BY <1>2, <1>3, <2>3
    <3> QED BY <3>1 DEF ChatComing
  <2>4. CASE ~(n = o /\ request[n].step = "parked")
    <3>1. request'[n].step = request[n].step
      BY <1>3, <1>7, <2>1, <2>4
    <3>2. CASE w = s
      <4>1. m.type \notin ChatAsks
        BY DEF ChatAsks
      <4> QED BY <1>1, <1>2, <1>7, <2>1, <2>4, <3>1, <3>2, <4>1, ChatComingTaken
    <3>3. CASE w # s
      <4>1. outbox'[w] = outbox[w]
        BY <1>7, <3>3 DEF ChatTakes
      <4> QED BY <1>1, <1>7, <2>1, <3>1, <4>1, ChatComingElsewhere
    <3> QED BY <3>2, <3>3
  <2> QED BY <2>3, <2>4
<1>8. \A r \in Chat!Requests : request[r].step = "sent" => request'[r].step = "sent"
  BY <1>3
<1>9. server' \in [Chat!Sockets -> {0} \cup Chat!Requests]
  BY <1>1 DEF ChatWired
<1>10. ChatServesThen /\ ChatSentBut(m) /\ ChatComesThen
  <2>1. ChatServesThen
    BY <1>6, <1>9 DEF ChatServesThen
  <2>2. ChatSentBut(m)
    BY <1>8 DEF ChatSentBut
  <2>3. ChatComesThen
    BY <1>7 DEF ChatComesThen
  <2> QED BY <2>1, <2>2, <2>3
<1> QED BY <1>4, <1>5, <1>10, ChatTakenKeeps

(* A request that reached the server is admitted or refused.                *)
ChatAdmits(s, m, admitted) ==
  /\ request' = [(IF m.type = "send" THEN Chat!Abort(server[s]) ELSE request)
                   EXCEPT ![m.of].step = IF admitted THEN "running" ELSE "over"]
  /\ server' = IF m.type = "send" THEN [server EXCEPT ![s] = m.of] ELSE server
  /\ IF admitted THEN UNCHANGED inbox ELSE Chat!Events(s, <<Chat!Event("error", m.of)>>)

LEMMA ChatAskTakenKeeps ==
  ASSUME ChatIInv, NEW s \in Chat!Sockets, NEW m, ChatTakes(s, m), m.type \in ChatAsks,
         NEW admitted \in BOOLEAN, ChatAdmits(s, m, admitted), UNCHANGED <<ui, socket, chatPast>>
  PROVE  ChatIInv'
<1>1. ChatRequested /\ ChatWired
  BY DEF ChatIInv
<1>2. PICK o, k : o = m.of /\ o \in Chat!Requests /\ k = IF admitted THEN "running" ELSE "over"
  BY DEF ChatTakes
<1>3. /\ o <= Chat!Count /\ request[o].at = s /\ request[o].step = "sent"
      /\ request[Chat!Count].at = s => request[Chat!Count].step = "sent"
  BY <1>2 DEF ChatTakes, ChatIInv, ChatAsked
<1>4. PICK q : q = IF m.type = "send" THEN Chat!Abort(server[s]) ELSE request
  OBVIOUS
<1>5. /\ DOMAIN q = Chat!Requests
      /\ \A r \in Chat!Requests : r # server[s] => q[r] = request[r]
      /\ \A r \in Chat!Requests :
           /\ DOMAIN q[r] = ChatFields /\ q[r].kind = request[r].kind
           /\ q[r].session = request[r].session /\ q[r].at = request[r].at
           /\ q[r].again = request[r].again /\ q[r].told = request[r].told
           /\ q[r].step = request[r].step
                \/ (q[r].step = "aborted" /\ request[r].step \notin {"unsent", "sent", "over"})
  <2>1. CASE m.type = "send"
    BY <1>1, <1>4, <2>1, ChatAborts
  <2>2. CASE m.type # "send"
    BY <1>1, <1>4, <2>2 DEF ChatRequested
  <2> QED BY <2>1, <2>2
<1>6. /\ DOMAIN request' = Chat!Requests
      /\ \A r \in Chat!Requests : r # o => request'[r] = q[r]
      /\ request'[o] = [q[o] EXCEPT !.step = k]
  <2>1. request' = [q EXCEPT ![o] = [q[o] EXCEPT !.step = k]]
    BY <1>2, <1>4 DEF ChatAdmits
  <2> QED BY <1>2, <1>5, <2>1
<1>7. /\ DOMAIN request'[o] = ChatFields /\ request'[o].kind = request[o].kind
      /\ request'[o].session = request[o].session /\ request'[o].at = request[o].at
      /\ request'[o].step = k
  BY <1>2, <1>5, <1>6 DEF ChatFields
<1>8. request'[o].again = request[o].again /\ request'[o].told = request[o].told
  BY <1>2, <1>5, <1>6 DEF ChatFields
<1>9. ChatProgress
  <2>1. k \in {"running", "over"} /\ k \in ChatStates
    BY <1>2 DEF ChatStates
  <2>2. ASSUME NEW r \in Chat!Requests, r # o
        PROVE  /\ DOMAIN request'[r] = ChatFields /\ request'[r].kind = request[r].kind
               /\ request'[r].session = request[r].session /\ request'[r].at = request[r].at
               /\ request'[r].again = request[r].again /\ request'[r].told = request[r].told
               /\ request'[r].step = request[r].step
                    \/ (request'[r].step = "aborted" /\ request[r].step \notin {"unsent", "sent", "over"})
    <3>1. request'[r] = q[r]
      BY <1>6, <2>2
    <3> QED BY <1>5, <3>1
  <2>3. \A r \in Chat!Requests :
          /\ request[r].step \in ChatStates /\ request[r].again \in BOOLEAN
          /\ request[r].step = "unsent" => ~request[r].told
    BY <1>1 DEF ChatRequested
  <2>4. "aborted" \in ChatStates
    BY DEF ChatStates
  <2>5. ASSUME NEW r \in Chat!Requests
        PROVE  /\ DOMAIN request'[r] = ChatFields
               /\ request'[r].kind = request[r].kind /\ request'[r].session = request[r].session
               /\ request'[r].at = request[r].at
               /\ request'[r].step \in ChatStates
               /\ request'[r].step = "unsent" <=> request[r].step = "unsent"
               /\ request[r].step = "over" => request'[r].step = "over"
               /\ request'[r].step = "sent" => request[r].step = "sent"
               /\ request'[r].again \in BOOLEAN /\ (request'[r].again => request[r].again)
               /\ request[r].step = "unsent" => ~request'[r].told
    <3>1. CASE r = o
      BY <1>2, <1>3, <1>7, <1>8, <2>1, <2>3, <3>1
    <3>2. CASE r # o
      BY <2>2, <2>3, <2>4, <3>2
    <3> QED BY <3>1, <3>2
  <2> QED BY <1>6, <2>5 DEF ChatProgress
<1>10. PICK e : e = Chat!Event("error", o)
  OBVIOUS
<1>11. /\ e \in ChatEvents /\ e.type = "error" /\ e.by = o /\ e.replayed = FALSE
       /\ e.type \in ChatFinals
  <2>1. "error" \in ChatFinals
    BY DEF ChatFinals
  <2>2. /\ Chat!Event("error", o) \in ChatEvents
        /\ Chat!Event("error", o).type = "error" /\ Chat!Event("error", o).by = o
        /\ Chat!Event("error", o).replayed = FALSE
    <3>1. o \in Chat!Requests
      BY <1>2
    <3> HIDE <1>2
    <3> QED BY <2>1, <3>1, ChatEventIs
  <2> QED BY <1>10, <2>1, <2>2
<1>12. IF ~admitted /\ socket[s] = "open" THEN ChatAdds(s, e) ELSE UNCHANGED inbox
  BY <1>1, <1>2, <1>10, <1>11, ChatEventsAdd DEF ChatAdmits
<1>13. ChatReplies(s)
  <2>1. CASE ~admitted /\ socket[s] = "open"
    <3>1. ChatLive(o)
      BY <1>3, <2>1 DEF ChatLive, ChatWorking
    <3>2. ChatEventFits(s, e)
      BY <1>2, <1>3, <1>7, <1>11, <2>1 DEF ChatEventFits
    <3> QED BY <1>11, <1>12, <2>1, <3>1, <3>2 DEF ChatReplies
  <2>2. CASE ~(~admitted /\ socket[s] = "open")
    BY <1>12, <2>2 DEF ChatReplies
  <2> QED BY <2>1, <2>2
<1>14. /\ server' \in [Chat!Sockets -> {0} \cup Chat!Requests]
       /\ \A t \in Chat!Sockets : server'[t] = server[t] \/ (t = s /\ server'[t] = o)
  BY <1>1, <1>2 DEF ChatWired, ChatAdmits
<1>15. ASSUME NEW t \in Chat!Sockets, server'[t] # 0
       PROVE  server'[t] <= Chat!Count /\ request'[server'[t]].at = t /\ request'[server'[t]].step # "sent"
  <2>1. CASE server'[t] = o /\ t = s
    BY <1>2, <1>3, <1>7, <2>1
  <2>2. CASE server'[t] = server[t]
    <3>1. PICK r : r = server[t]
      OBVIOUS
    <3>2. r \in Chat!Requests /\ r <= Chat!Count /\ request[r].at = t /\ request[r].step # "sent"
      BY <1>1, <1>15, <2>2, <3>1, ChatServes
    <3>3. r # o
      BY <1>3, <3>2
    <3>4. request'[r] = q[r]
      BY <1>6, <3>2, <3>3
    <3>5. q[r].at = request[r].at
      BY <1>5, <3>2
    <3>6. q[r].step = request[r].step \/ q[r].step = "aborted"
      BY <1>5, <3>2
    <3>7. request'[r].at = t /\ request'[r].step # "sent"
      BY <3>2, <3>4, <3>5, <3>6
    <3> QED BY <2>2, <3>1, <3>2, <3>7
  <2> QED BY <1>14, <2>1, <2>2
<1>16. ASSUME NEW w \in Chat!Sockets, Chat!Count \in Chat!Requests, request[Chat!Count].at = w,
              socket[w] = "open", ChatComing(Chat!Count, w)
       PROVE  ChatComing(Chat!Count, w)'
  <2>1. PICK n : n = Chat!Count
    OBVIOUS
  <2>2. Chat!Count' = n
    BY <1>1, <1>9, <2>1, ChatSocketsStay, ChatProgressKeeps
  <2> SUFFICES ChatComing(n, w)'
    BY <2>2
  <2>3. Len(inbox[w]) \in Nat
    BY <1>1, ChatOnWires
  <2>4. \A i \in 1 .. Len(inbox[w]) : i \in 1 .. Len(inbox'[w]) /\ inbox'[w][i] = inbox[w][i]
    BY <1>12, <2>3 DEF ChatAdds
  <2>5. CASE w # s
    <3>1. n # o /\ n # server[s]
      BY <1>1, <1>3, <1>16, <2>1, <2>5, ChatServes, ChatNumbers
    <3>2. request'[n].step = request[n].step /\ outbox'[w] = outbox[w]
      <4>1. n \in Chat!Requests
        BY <1>16, <2>1
      <4>2. request'[n] = q[n] /\ q[n] = request[n]
        BY <1>5, <1>6, <3>1, <4>1
      <4>3. outbox'[w] = outbox[w]
        BY <1>16, <2>5 DEF ChatTakes
      <4> QED BY <4>2, <4>3
    <3> QED BY <1>1, <1>16, <2>1, <2>4, <3>2, ChatComingElsewhere
  <2>6. CASE w = s /\ n = o
    <3>1. CASE admitted
      <4>1. request'[n].step = "running"
        BY <1>2, <1>7, <2>6, <3>1
      <4> QED BY <4>1 DEF ChatComing
    <3>2. CASE ~admitted
      <4>1. ChatAdds(s, e)
        BY <1>12, <1>16, <2>6, <3>2
      <4>2. Len(inbox'[w]) = Len(inbox[w]) + 1 /\ inbox'[w][Len(inbox[w]) + 1] = e
        BY <2>6, <4>1 DEF ChatAdds
      <4>3. \E i \in 1 .. Len(inbox'[w]) : inbox'[w][i].type \in ChatFinals
        BY <1>11, <2>3, <4>2
      <4> QED BY <4>3 DEF ChatComing
    <3> QED BY <3>1, <3>2
  <2>7. CASE w = s /\ n # o
    <3>1. request[n].step = "sent"
      BY <1>3, <1>16, <2>1, <2>7
    <3>2. n # server[s]
      BY <1>1, <1>16, <2>1, <3>1, ChatServes, ChatNumbers
    <3>3. request'[n].step = request[n].step
      <4>1. n \in Chat!Requests
        BY <1>16, <2>1
      <4>2. request'[n] = q[n] /\ q[n] = request[n]
        BY <1>5, <1>6, <2>7, <3>2, <4>1
      <4> QED BY <4>2
    <3>4. m.type # "approval"
      BY DEF ChatAsks
    <3> QED BY <1>1, <1>2, <1>16, <2>1, <2>4, <2>7, <3>3, <3>4, ChatComingTaken
  <2> QED BY <2>5, <2>6, <2>7
<1>17. ASSUME NEW r \in Chat!Requests, request[r].step = "sent", r # o
       PROVE  request'[r].step = "sent"
  <2>1. r # server[s]
    BY <1>1, <1>17, ChatServes, ChatNumbers
  <2>2. request'[r] = q[r]
    BY <1>6, <1>17
  <2>3. q[r] = request[r]
    BY <1>5, <2>1
  <2> QED BY <1>17, <2>2, <2>3
<1>18. ChatServesThen /\ ChatSentBut(m) /\ ChatComesThen
  <2>1. ChatServesThen
    BY <1>14, <1>15 DEF ChatServesThen
  <2>2. ChatSentBut(m)
    BY <1>2, <1>17 DEF ChatSentBut
  <2>3. ChatComesThen
    BY <1>16 DEF ChatComesThen
  <2> QED BY <2>1, <2>2, <2>3
<1> QED BY <1>9, <1>13, <1>18, ChatTakenKeeps

LEMMA ChatReceiveKeeps ==
  ASSUME ChatIInv, NEW s \in Chat!Sockets, NEW admitted \in BOOLEAN, Chat!Receive(s, admitted)
  PROVE  ChatIInv'
<1>1. PICK m : m = Head(outbox[s])
  OBVIOUS
<1>2. /\ outbox[s] # <<>> /\ outbox' = [outbox EXCEPT ![s] = Tail(@)]
      /\ UNCHANGED <<ui, socket, chatPast>>
      /\ CASE m.type = "interrupt" ->
               /\ request' = Chat!Abort(server[s])
               /\ server' = [server EXCEPT ![s] = 0]
               /\ Chat!Events(s, <<Chat!Event("interrupted", m.of)>>)
          [] m.type = "approval" ->
               /\ request' = IF request[m.of].step = "parked"
                               THEN [request EXCEPT ![m.of].step = "running"] ELSE request
               /\ UNCHANGED <<server, inbox>>
          [] OTHER ->
               /\ request' = [(IF m.type = "send" THEN Chat!Abort(server[s]) ELSE request)
                                EXCEPT ![m.of].step = IF admitted THEN "running" ELSE "over"]
               /\ server' = IF m.type = "send" THEN [server EXCEPT ![s] = m.of] ELSE server
               /\ IF admitted THEN UNCHANGED inbox
                  ELSE Chat!Events(s, <<Chat!Event("error", m.of)>>)
  BY <1>1 DEF Chat!Receive, Chat!Nobody
<1>3. ChatTakes(s, m)
  BY <1>1, <1>2, ChatReceives DEF ChatIInv
<1>4. m.type \in ChatAsks \cup {"interrupt", "approval"}
  <2>1. \A x \in ChatMessages : x.type \in ChatAsks \cup {"interrupt", "approval"}
    BY DEF ChatMessages
  <2> QED BY <1>3, <2>1 DEF ChatTakes
<1>5. CASE m.type = "interrupt"
  BY <1>2, <1>3, <1>5, ChatInterruptTakenKeeps
<1>6. CASE m.type = "approval"
  BY <1>2, <1>3, <1>6, ChatApprovalTakenKeeps
<1>7. CASE m.type \in ChatAsks
  <2>1. m.type \notin {"interrupt", "approval"}
    BY <1>7 DEF ChatAsks
  <2>2. ChatAdmits(s, m, admitted)
    BY <1>2, <2>1 DEF ChatAdmits
  <2> QED BY <1>2, <1>3, <1>7, <2>2, ChatAskTakenKeeps
<1> QED BY <1>4, <1>5, <1>6, <1>7

-----------------------------------------------------------------------------
(* The network.                                                              *)

LEMMA ChatWiresStay ==
  ASSUME ChatIInv, UNCHANGED <<outbox, inbox, server, request>>, ChatSocketStep,
         ChatLetGo \subseteq ChatLetGo'
  PROVE  /\ ChatRequested' /\ ChatWired' /\ ChatAsked' /\ ChatTold' /\ ChatProgress /\ ChatFading
         /\ Chat!Count' = Chat!Count /\ Chat!Count \in 0 .. MaxPosts
<1>1. ChatRequested /\ ChatWired /\ Chat!Count \in 0 .. MaxPosts
  BY DEF ChatIInv, ChatRequested, ChatSentUpTo
<1>2. ChatProgress
  BY <1>1, ChatRequestsStay
<1>3. ChatRequested' /\ Chat!Count' = Chat!Count
  BY <1>1, <1>2, ChatProgressKeeps
<1>4. ChatFading
  BY <1>1, <1>2, ChatFadesToo
<1>5. ChatWired'
  BY <1>1, <1>3 DEF ChatWired
<1>6. ChatAsked' /\ ChatTold'
  BY <1>2, <1>3, ChatAskedStays, ChatToldStays
<1> QED BY <1>1, <1>2, <1>3, <1>4, <1>5, <1>6

LEMMA ChatOpenKeeps ==
  ASSUME ChatIInv, NEW s \in Chat!Sockets, Chat!Open(s)
  PROVE  ChatIInv'
<1>1. /\ socket[s] = "connecting" /\ socket' = [socket EXCEPT ![s] = "open"]
      /\ UNCHANGED <<ui, outbox, inbox, server, request, chatPast>>
  BY DEF Chat!Open
<1>2. ChatSocketStep
  BY <1>1 DEF ChatSocketStep, ChatIInv, ChatRequested
<1>3. /\ ChatRequested' /\ ChatWired' /\ ChatAsked' /\ ChatTold' /\ ChatProgress /\ ChatFading
      /\ Chat!Count' = Chat!Count
  BY <1>1, <1>2, ChatWiresStay DEF ChatLetGo
<1>4. ChatWaits'
  <2> SUFFICES ASSUME ui.sending, ~chatPast.stranded, \A t \in Chat!Sockets : socket'[t] # "dropped"
               PROVE  ChatWaits'
    BY <1>1 DEF ChatWaits
  <2>1. PICK n, w : n = Chat!Count /\ w = ui.ws
    OBVIOUS
  <2>2. \A t \in Chat!Sockets : socket[t] # "dropped"
    BY <1>1 DEF ChatIInv, ChatRequested
  <2>3. w \in Chat!Sockets /\ socket[w] = "open" /\ request[n].at = w /\ ChatComing(n, w)
    BY <2>1, <2>2 DEF ChatIInv, ChatWaits
  <2>4. socket'[w] = "open"
    BY <1>1, <2>3 DEF ChatIInv, ChatRequested
  <2>5. ChatComing(n, w)'
    BY <1>1, <2>3 DEF ChatComing
  <2> QED BY <1>1, <1>3, <2>1, <2>3, <2>4, <2>5 DEF ChatWaits
<1> QED BY <1>1, <1>3, <1>4, ChatPageStays DEF ChatIInv

LEMMA ChatDropKeeps ==
  ASSUME ChatIInv, NEW s \in Chat!Sockets, Chat!Drop(s)
  PROVE  ChatIInv'
<1>1. /\ socket[s] \in {"connecting", "open"} /\ socket' = [socket EXCEPT ![s] = "dropped"]
      /\ outbox' = [outbox EXCEPT ![s] = <<>>] /\ inbox' = [inbox EXCEPT ![s] = <<>>]
      /\ request' = [r \in Chat!Requests |->
                       IF request[r].at # s THEN request[r]
                       ELSE IF request[r].step = "sent" THEN [request[r] EXCEPT !.step = "over"]
                       ELSE IF r = server[s] /\ request[r].step # "over"
                         THEN [request[r] EXCEPT !.step = "aborted"]
                       ELSE request[r]]
      /\ UNCHANGED <<ui, server, chatPast>>
  BY DEF Chat!Drop, Chat!Finished
<1>2. ChatRequested /\ ChatWired /\ Chat!Count \in 0 .. MaxPosts
  BY DEF ChatIInv, ChatRequested, ChatSentUpTo
<1>3. ChatSocketStep /\ socket'[s] = "dropped"
  BY <1>1, <1>2 DEF ChatSocketStep, ChatRequested
<1>4. ASSUME NEW r \in Chat!Requests
      PROVE  /\ DOMAIN request'[r] = ChatFields /\ request'[r].kind = request[r].kind
             /\ request'[r].session = request[r].session /\ request'[r].at = request[r].at
             /\ request'[r].again = request[r].again /\ request'[r].told = request[r].told
             /\ \/ request'[r].step = request[r].step
                \/ request[r].at = s /\ request'[r].step = "over" /\ request[r].step = "sent"
                \/ /\ request[r].at = s /\ request'[r].step = "aborted"
                   /\ request[r].step \notin {"unsent", "sent", "over"}
  <2>1. DOMAIN request[r] = ChatFields
    BY <1>2 DEF ChatRequested
  <2>2. CASE request'[r] = request[r]
    BY <2>1, <2>2
  <2>3. CASE request[r].at = s /\ request[r].step = "sent" /\ request'[r] = [request[r] EXCEPT !.step = "over"]
    <3>1. /\ DOMAIN request'[r] = ChatFields /\ request'[r].kind = request[r].kind
          /\ request'[r].session = request[r].session /\ request'[r].at = request[r].at
          /\ request'[r].step = "over"
      BY <2>1, <2>3 DEF ChatFields
    <3>2. request'[r].again = request[r].again /\ request'[r].told = request[r].told
      BY <2>1, <2>3 DEF ChatFields
    <3> QED BY <2>3, <3>1, <3>2
  <2>4. CASE /\ request[r].at = s /\ r = server[s] /\ request[r].step \notin {"sent", "over"}
             /\ request'[r] = [request[r] EXCEPT !.step = "aborted"]
    <3>1. /\ DOMAIN request'[r] = ChatFields /\ request'[r].kind = request[r].kind
          /\ request'[r].session = request[r].session /\ request'[r].at = request[r].at
          /\ request'[r].step = "aborted"
      BY <2>1, <2>4 DEF ChatFields
    <3>2. request'[r].again = request[r].again /\ request'[r].told = request[r].told
      BY <2>1, <2>4 DEF ChatFields
    <3>3. r <= Chat!Count
      BY <1>2, <2>4, ChatServes, ChatNumbers
    <3>4. request[r].step # "unsent"
      BY <1>2, <3>3 DEF ChatRequested, ChatSentUpTo
    <3> QED BY <2>4, <3>1, <3>2, <3>4
  <2> QED BY <1>1, <2>2, <2>3, <2>4
<1>5. ChatProgress
  <2>1. DOMAIN request' = Chat!Requests
    BY <1>1
  <2>2. \A r \in Chat!Requests :
          /\ request[r].step \in ChatStates /\ request[r].again \in BOOLEAN
          /\ request[r].step = "unsent" => ~request[r].told
    BY <1>2 DEF ChatRequested
  <2>3. {"over", "aborted"} \subseteq ChatStates
    BY DEF ChatStates
  <2> QED BY <1>4, <2>1, <2>2, <2>3 DEF ChatProgress
<1>6. ChatRequested' /\ Chat!Count' = Chat!Count /\ ChatLetGo' = ChatLetGo
  BY <1>1, <1>2, <1>3, <1>5, ChatProgressKeeps DEF ChatLetGo
<1>7. /\ outbox' \in [Chat!Sockets -> Seq(ChatMessages)] /\ inbox' \in [Chat!Sockets -> Seq(ChatEvents)]
      /\ \A t \in Chat!Sockets : t # s => outbox'[t] = outbox[t] /\ inbox'[t] = inbox[t]
      /\ Len(outbox'[s]) = 0 /\ Len(inbox'[s]) = 0
  BY <1>1, <1>2 DEF ChatWired
<1>8. ChatFading
  <2>1. ASSUME NEW t \in Chat!Sockets, NEW i \in 1 .. Len(inbox'[t]) PROVE ChatLive(inbox'[t][i].by)
    <3>1. inbox'[t] = inbox[t] /\ i \in 1 .. Len(inbox[t])
      BY <1>7, <2>1
    <3> QED BY <3>1 DEF ChatLive
  <2> QED BY <1>2, <1>3, <1>5, <1>6, <2>1, ChatFades
<1>9. ChatWired'
  <2>1. ASSUME NEW t \in Chat!Sockets, server[t] # 0
        PROVE  server[t] <= Chat!Count /\ request'[server[t]].at = t /\ request'[server[t]].step # "sent"
    BY <1>2, <1>4, <2>1, ChatServes
  <2> QED BY <1>1, <1>2, <1>6, <1>7, <2>1 DEF ChatWired
<1>10. ChatAsked'
  <2>1. PICK n : n = Chat!Count
    OBVIOUS
  <2> DEFINE Fits(t, i) ==
               /\ outbox'[t][i].of <= n
               /\ outbox'[t][i].type = "interrupt" => outbox'[t][i].of \in ChatLetGo
               /\ outbox'[t][i].type \in ChatAsks =>
                    /\ request'[outbox'[t][i].of].at = t /\ request'[outbox'[t][i].of].step = "sent"
                    /\ request'[n].at = t => request'[n].step = "sent"
                    /\ \A j \in 1 .. Len(outbox'[t]) :
                         j > i /\ outbox'[t][j].type \in ChatAsks => outbox'[t][j].of > outbox'[t][i].of
  <2> SUFFICES ASSUME NEW t \in Chat!Sockets, NEW i \in 1 .. Len(outbox'[t]) PROVE Fits(t, i)
    BY <1>6, <2>1 DEF ChatAsked
  <2>2. t # s /\ outbox'[t] = outbox[t] /\ i \in 1 .. Len(outbox[t])
    BY <1>7
  <2>3. outbox[t][i].of \in Chat!Requests /\ outbox[t][i].of <= n
    BY <1>2, <2>1, <2>2, ChatOnWires DEF ChatIInv, ChatAsked
  <2>4. n \in Chat!Requests
    BY <1>2, <2>1, <2>3, ChatNumbers
  <2>5. \A r \in Chat!Requests : request'[r].at = request[r].at
    BY <1>4
  <2>6. \A r \in Chat!Requests : request[r].at = t /\ request[r].step = "sent" => request'[r].step = "sent"
    BY <1>4, <2>2
  <2> QED BY <2>1, <2>2, <2>3, <2>4, <2>5, <2>6 DEF ChatIInv, ChatAsked
<1>11. ChatTold'
  <2>1. PICK n : n = Chat!Count
    OBVIOUS
  <2> DEFINE Fits(t, i) ==
               /\ inbox'[t][i].by <= n
               /\ inbox'[t][i].type = "compacted" => request'[inbox'[t][i].by].kind = "compaction"
               /\ inbox'[t][i].type \in {"text", "session_id", "done"} =>
                    request'[inbox'[t][i].by].kind = "turn"
               /\ inbox'[t][i].replayed =>
                    inbox'[t][i].type = "done" /\ request'[inbox'[t][i].by].session # 0
               /\ inbox'[t][i].by \notin ChatLetGo =>
                    /\ request'[inbox'[t][i].by].at = t
                    /\ inbox'[t][i].type \in ChatFinals =>
                         /\ request'[inbox'[t][i].by].step = "over"
                         /\ \A j \in 1 .. Len(inbox'[t]) : j > i => inbox'[t][j].by # inbox'[t][i].by
  <2> SUFFICES ASSUME NEW t \in Chat!Sockets, NEW i \in 1 .. Len(inbox'[t]) PROVE Fits(t, i)
    BY <1>6, <2>1 DEF ChatTold
  <2>2. inbox'[t] = inbox[t] /\ i \in 1 .. Len(inbox[t])
    BY <1>7
  <2>3. inbox[t][i].by \in Chat!Requests
    BY <1>2, <2>2, ChatOnWires
  <2>4. \A r \in Chat!Requests :
          /\ request'[r].at = request[r].at /\ request'[r].kind = request[r].kind
          /\ request'[r].session = request[r].session
          /\ request[r].step = "over" => request'[r].step = "over"
    BY <1>4
  <2> QED BY <2>1, <2>2, <2>3, <2>4 DEF ChatIInv, ChatTold
<1>12. ChatWaits'
  BY <1>3 DEF ChatWaits
<1> QED BY <1>1, <1>5, <1>6, <1>8, <1>9, <1>10, <1>11, <1>12, ChatPageStays DEF ChatIInv

-----------------------------------------------------------------------------
(* What the user and the page's timers do, without a word to the server.     *)

(* The page lets go of everything, or nothing was in reach.                  *)
LEMMA ChatNobodyAwaited ==
  ASSUME ChatIInv, ChatProgress, ChatFading,
         \/ ~ui.sending
         \/ Chat!Count \in Chat!Requests => Chat!Count \in ChatLetGo'
  PROVE  ChatOneAwaited' /\ ~ChatCurrent'
<1>1. ASSUME NEW r \in Chat!Requests, ChatLive(r)', r \notin ChatLetGo' PROVE FALSE
  <2>1. ChatLive(r) /\ r \notin ChatLetGo
    BY <1>1 DEF ChatFading
  <2>2. r = Chat!Count /\ ui.sending
    BY <2>1 DEF ChatIInv, ChatOneAwaited
  <2> QED BY <1>1, <2>2
<1>2. ChatOneAwaited'
  BY <1>1 DEF ChatOneAwaited
<1>3. Chat!Count' = Chat!Count /\ (Chat!Count # 0 => Chat!Count \in Chat!Requests)
  BY ChatNumbers DEF ChatFading, ChatIInv, ChatRequested, ChatSentUpTo
<1> QED BY <1>1, <1>2, <1>3 DEF ChatCurrent

(* The active message stays, and as much as was let go.                      *)
LEMMA ChatActiveStays ==
  ASSUME ChatIInv, ChatFading, ChatProgress, ui'.active = ui.active,
         ui.sending => ui'.sending
  PROVE  ChatActive'
<1> SUFFICES ASSUME ui.active # 0 PROVE ChatActive'
  BY DEF ChatActive
<1>1. PICK n, a : n = Chat!Count /\ a = ui.active
  OBVIOUS
<1>2. /\ a \in Chat!Requests /\ a <= n /\ request[a].kind = "turn" /\ (a = n \/ a \in ChatLetGo)
      /\ ~ui.sending \/ request[n].kind = "compaction" =>
           a \in ChatLetGo /\ \E r \in ChatLetGo : r \in Chat!Requests /\ request[r].kind = "compaction"
  BY <1>1 DEF ChatIInv, ChatActive
<1>3. n \in Chat!Requests
  BY <1>1, <1>2, ChatNumbers DEF ChatIInv, ChatRequested, ChatSentUpTo
<1>4. \A r \in Chat!Requests : request'[r].kind = request[r].kind
  BY DEF ChatProgress
<1>5. Chat!Count' = n /\ ChatLetGo \subseteq ChatLetGo'
  BY <1>1 DEF ChatFading
<1>6. ~ui'.sending \/ request'[n].kind = "compaction" =>
        a \in ChatLetGo' /\ \E r \in ChatLetGo' : r \in Chat!Requests /\ request'[r].kind = "compaction"
  BY <1>2, <1>3, <1>4, <1>5
<1> QED BY <1>1, <1>2, <1>3, <1>4, <1>5, <1>6 DEF ChatActive

LEMMA ChatConnectKeeps ==
  ASSUME ChatIInv, Chat!Connect
  PROVE  ChatIInv'
<1>1. PICK s \in Chat!Sockets : /\ socket[s] = "unused" /\ socket' = [socket EXCEPT ![s] = "connecting"]
                                /\ ui' = [ui EXCEPT !.ws = s]
  BY DEF Chat!Connect
<1>2. /\ UNCHANGED <<outbox, inbox, server, request, chatPast>>
      /\ ~(ui.ws # 0 /\ socket[ui.ws] = "open")
  BY DEF Chat!Connect, Chat!Online, Chat!Nobody
<1>3. ChatSocketStep /\ ChatLetGo' = ChatLetGo
  BY <1>1, <1>2 DEF ChatSocketStep, ChatIInv, ChatRequested, ChatLetGo
<1>4. /\ ChatRequested' /\ ChatWired' /\ ChatAsked' /\ ChatTold' /\ ChatProgress /\ ChatFading
      /\ Chat!Count' = Chat!Count
  BY <1>2, <1>3, ChatWiresStay
<1>5. /\ DOMAIN ui' = DOMAIN ui /\ ui'.sending = ui.sending /\ ui'.active = ui.active
      /\ ui'.session = ui.session /\ ui'.thread = ui.thread /\ ui'.bubbles = ui.bubbles
      /\ ui'.approvals = ui.approvals /\ ui'.loads = ui.loads /\ ui'.later = ui.later
      /\ ui'.ws \in Chat!Sockets
  BY <1>1 DEF ChatIInv, ChatShapes
<1>6. ChatShapes'
  BY <1>2, <1>4, <1>5 DEF ChatIInv, ChatShapes
<1>7. ChatOneAwaited'
  BY <1>4, <1>5 DEF ChatIInv, ChatOneAwaited, ChatFading
<1>8. ChatActive'
  BY <1>4, <1>5, ChatActiveStays
<1>9. ChatWaits'
  <2> SUFFICES ASSUME ui.sending, ~chatPast.stranded, \A t \in Chat!Sockets : socket'[t] # "dropped"
               PROVE  FALSE
    BY <1>2, <1>5 DEF ChatWaits
  <2>1. \A t \in Chat!Sockets : socket[t] # "dropped"
    BY <1>1 DEF ChatIInv, ChatRequested
  <2>2. ui.ws \in Chat!Sockets /\ socket[ui.ws] = "open"
    BY <2>1 DEF ChatIInv, ChatWaits
  <2> QED BY <1>2, <2>2, ChatNumbers
<1>10. ChatThread' /\ ChatPlans' /\ Chat!OwnEvents'
  BY <1>2, <1>5 DEF ChatIInv, ChatThread, ChatPlans, Chat!OwnEvents
<1>11. ChatCurrentPage'
  <2> SUFFICES ASSUME ChatCurrent' PROVE ChatCurrentPage'
    BY DEF ChatCurrentPage
  <2>1. ChatCurrent /\ Chat!Home(Chat!Count)' = Chat!Home(Chat!Count)
    BY <1>4, ChatCurrentWas
  <2> QED BY <1>2, <1>4, <1>5, <2>1 DEF ChatIInv, ChatCurrentPage
<1> QED BY <1>4, <1>6, <1>7, <1>8, <1>9, <1>10, <1>11 DEF ChatIInv

LEMMA ChatClosedKeeps ==
  ASSUME ChatIInv, NEW s \in Chat!Sockets, Chat!Closed(s)
  PROVE  ChatIInv'
<1>1. /\ socket[s] = "dropped" /\ socket' = [socket EXCEPT ![s] = "closed"]
      /\ ui' = [[ui EXCEPT !.sending = FALSE, !.active = 0] EXCEPT !.ws = 0]
      /\ chatPast' = [chatPast EXCEPT !.letGo = @ \cup {r \in Chat!Requests : request[r].at = s} \cup Chat!Awaiting,
                                      !.stranded = FALSE]
      /\ UNCHANGED <<outbox, inbox, server, request>>
  BY DEF Chat!Closed, Chat!Idle, Chat!Nobody
<1>2. /\ DOMAIN ui' = DOMAIN ui /\ ui'.sending = FALSE /\ ui'.active = 0
      /\ ui'.session = ui.session /\ ui'.thread = ui.thread /\ ui'.bubbles = ui.bubbles
      /\ ui'.approvals = ui.approvals /\ ui'.loads = ui.loads /\ ui'.later = ui.later
      /\ ui'.ws = 0
  BY <1>1 DEF ChatIInv, ChatShapes
<1>3. /\ DOMAIN chatPast' = DOMAIN chatPast /\ ChatLetGo \subseteq ChatLetGo'
      /\ Chat!Awaiting \subseteq ChatLetGo'
      /\ chatPast'.misread = chatPast.misread /\ chatPast'.crossed = chatPast.crossed
  BY <1>1 DEF ChatIInv, ChatShapes, ChatLetGo
<1>4. ChatSocketStep
  BY <1>1 DEF ChatSocketStep, ChatIInv, ChatRequested
<1>5. /\ ChatRequested' /\ ChatWired' /\ ChatAsked' /\ ChatTold' /\ ChatProgress /\ ChatFading
      /\ Chat!Count' = Chat!Count
  BY <1>1, <1>3, <1>4, ChatWiresStay
<1>6. ChatShapes'
  BY <1>2, <1>3, <1>5 DEF ChatIInv, ChatShapes
<1>7. ChatOneAwaited' /\ ~ChatCurrent'
  <2>1. ui.sending /\ Chat!Count \in Chat!Requests => Chat!Count \in ChatLetGo'
    BY <1>3, ChatNumbers DEF Chat!Awaiting
  <2> QED BY <1>5, <2>1, ChatNobodyAwaited
<1>8. ChatActive' /\ ChatWaits' /\ ChatCurrentPage'
  BY <1>2, <1>7 DEF ChatActive, ChatWaits, ChatCurrentPage
<1>9. ChatThread' /\ ChatPlans' /\ Chat!OwnEvents'
  BY <1>2, <1>3 DEF ChatIInv, ChatThread, ChatPlans, Chat!OwnEvents
<1> QED BY <1>5, <1>6, <1>7, <1>8, <1>9 DEF ChatIInv

LEMMA ChatSendLaterKeeps ==
  ASSUME ChatIInv, Chat!SendLater
  PROVE  ChatIInv'
<1>1. /\ ~ui.sending
      /\ ui' = [ui EXCEPT !.later = [on |-> TRUE, session |-> ui.session, moved |-> FALSE]]
      /\ UNCHANGED <<socket, outbox, inbox, server, request, chatPast>>
  BY DEF Chat!SendLater
<1>2. /\ DOMAIN ui' = DOMAIN ui /\ ui'.sending = ui.sending /\ ui'.active = ui.active
      /\ ui'.session = ui.session /\ ui'.thread = ui.thread /\ ui'.bubbles = ui.bubbles
      /\ ui'.approvals = ui.approvals /\ ui'.loads = ui.loads /\ ui'.ws = ui.ws
      /\ ui'.later = [on |-> TRUE, session |-> ui.session, moved |-> FALSE]
  BY <1>1 DEF ChatIInv, ChatShapes
<1>3. /\ ui'.later.on = TRUE /\ ui'.later.session = ui.session /\ ui'.later.moved = FALSE
      /\ DOMAIN ui'.later = {"on", "session", "moved"}
  BY <1>2
<1>4. ChatSocketStep /\ ChatLetGo' = ChatLetGo
  BY <1>1, ChatSocketsStay DEF ChatIInv, ChatLetGo
<1>5. /\ ChatRequested' /\ ChatWired' /\ ChatAsked' /\ ChatTold' /\ ChatProgress /\ ChatFading
      /\ Chat!Count' = Chat!Count
  BY <1>1, <1>4, ChatWiresStay
<1>6. ChatShapes'
  BY <1>1, <1>2, <1>3, <1>5 DEF ChatIInv, ChatShapes
<1>7. ChatOneAwaited' /\ ~ChatCurrent'
  BY <1>1, <1>5, ChatNobodyAwaited
<1>8. ChatWaits' /\ ChatCurrentPage'
  BY <1>1, <1>2, <1>7 DEF ChatWaits, ChatCurrentPage
<1>9. ChatActive'
  BY <1>2, <1>5, ChatActiveStays
<1>10. ChatThread' /\ ChatPlans' /\ Chat!OwnEvents'
  BY <1>1, <1>2, <1>3 DEF ChatIInv, ChatThread, ChatPlans, Chat!OwnEvents
<1> QED BY <1>5, <1>6, <1>7, <1>8, <1>9, <1>10 DEF ChatIInv

(* The delayed message is dropped: a turn has started, or nothing can be     *)
(* sent.                                                                     *)
LEMMA ChatSendDroppedKeeps ==
  ASSUME ChatIInv,
         ui' = [ui EXCEPT !.later = Chat!NoDelay,
                          !.sending = IF ui.active = 0 THEN FALSE ELSE ui.sending],
         chatPast' = IF ui.active = 0
                       THEN [chatPast EXCEPT !.letGo = @ \cup Chat!Awaiting, !.stranded = FALSE]
                       ELSE chatPast,
         UNCHANGED <<socket, outbox, inbox, server, request>>
  PROVE  ChatIInv'
<1>1. /\ DOMAIN ui' = DOMAIN ui /\ ui'.active = ui.active
      /\ ui'.session = ui.session /\ ui'.thread = ui.thread /\ ui'.bubbles = ui.bubbles
      /\ ui'.approvals = ui.approvals /\ ui'.loads = ui.loads /\ ui'.ws = ui.ws
      /\ ui'.later = Chat!NoDelay
  BY DEF ChatIInv, ChatShapes
<1>2. ui'.sending = IF ui.active = 0 THEN FALSE ELSE ui.sending
  BY DEF ChatIInv, ChatShapes
<1>3. ui'.later.on = FALSE /\ DOMAIN ui'.later = {"on", "session", "moved"}
  BY <1>1 DEF Chat!NoDelay
<1>4. /\ DOMAIN chatPast' = DOMAIN chatPast /\ ChatLetGo \subseteq ChatLetGo'
      /\ ui.active = 0 => Chat!Awaiting \subseteq ChatLetGo'
      /\ chatPast'.misread = chatPast.misread /\ chatPast'.crossed = chatPast.crossed
      /\ ui.active # 0 => chatPast' = chatPast
  BY DEF ChatIInv, ChatShapes, ChatLetGo
<1>5. ChatSocketStep
  BY ChatSocketsStay DEF ChatIInv
<1>6. /\ ChatRequested' /\ ChatWired' /\ ChatAsked' /\ ChatTold' /\ ChatProgress /\ ChatFading
      /\ Chat!Count' = Chat!Count
  BY <1>4, <1>5, ChatWiresStay
<1>7. ChatShapes'
  BY <1>1, <1>2, <1>3, <1>4, <1>6 DEF ChatIInv, ChatShapes
<1>8. ChatThread' /\ ChatPlans' /\ Chat!OwnEvents'
  BY <1>1, <1>3, <1>4 DEF ChatIInv, ChatThread, ChatPlans, Chat!OwnEvents
<1>9. CASE ui.active = 0
  <2>1. ui.sending /\ Chat!Count \in Chat!Requests => Chat!Count \in ChatLetGo'
    BY <1>4, <1>9, ChatNumbers DEF Chat!Awaiting
  <2>2. ChatOneAwaited' /\ ~ChatCurrent'
    BY <1>6, <2>1, ChatNobodyAwaited
  <2>3. ChatActive' /\ ChatWaits' /\ ChatCurrentPage'
    BY <1>1, <1>2, <1>9, <2>2 DEF ChatActive, ChatWaits, ChatCurrentPage
  <2> QED BY <1>6, <1>7, <1>8, <2>2, <2>3 DEF ChatIInv
<1>10. CASE ui.active # 0
  <2>1. ui'.sending = ui.sending /\ chatPast' = chatPast
    BY <1>2, <1>4, <1>10
  <2>2. ChatOneAwaited'
    BY <1>6, <2>1 DEF ChatIInv, ChatOneAwaited, ChatFading
  <2>3. ChatActive'
    BY <1>1, <1>6, <2>1, ChatActiveStays
  <2>4. ChatWaits'
    BY <1>1, <1>6, <2>1 DEF ChatIInv, ChatWaits, ChatComing
  <2>5. ChatCurrentPage'
    <3> SUFFICES ASSUME ChatCurrent' PROVE ChatCurrentPage'
      BY DEF ChatCurrentPage
    <3>1. ChatCurrent /\ Chat!Home(Chat!Count)' = Chat!Home(Chat!Count)
      BY <1>6, ChatCurrentWas
    <3> QED BY <1>1, <1>3, <1>6, <2>1, <3>1 DEF ChatIInv, ChatCurrentPage
  <2> QED BY <1>6, <1>7, <1>8, <2>2, <2>3, <2>4, <2>5 DEF ChatIInv
<1> QED BY <1>9, <1>10

LEMMA ChatCompactOfflineKeeps ==
  ASSUME ChatIInv, ~ui.sending, ui.session # 0,
         ui' = [ui EXCEPT !.sending = TRUE], chatPast' = [chatPast EXCEPT !.stranded = TRUE],
         UNCHANGED <<socket, outbox, inbox, server, request>>
  PROVE  ChatIInv'
<1>1. /\ DOMAIN ui' = DOMAIN ui /\ ui'.sending = TRUE /\ ui'.active = ui.active
      /\ ui'.session = ui.session /\ ui'.thread = ui.thread /\ ui'.bubbles = ui.bubbles
      /\ ui'.approvals = ui.approvals /\ ui'.loads = ui.loads /\ ui'.later = ui.later
      /\ ui'.ws = ui.ws
  BY DEF ChatIInv, ChatShapes
<1>2. /\ DOMAIN chatPast' = DOMAIN chatPast /\ ChatLetGo' = ChatLetGo /\ chatPast'.stranded = TRUE
      /\ chatPast'.misread = chatPast.misread /\ chatPast'.crossed = chatPast.crossed
  BY DEF ChatIInv, ChatShapes, ChatLetGo
<1>3. ChatSocketStep
  BY ChatSocketsStay DEF ChatIInv
<1>4. /\ ChatRequested' /\ ChatWired' /\ ChatAsked' /\ ChatTold' /\ ChatProgress /\ ChatFading
      /\ Chat!Count' = Chat!Count
  BY <1>2, <1>3, ChatWiresStay
<1>5. ChatShapes'
  BY <1>1, <1>2, <1>4 DEF ChatIInv, ChatShapes
<1>6. ChatOneAwaited' /\ ~ChatCurrent'
  BY <1>4, ChatNobodyAwaited
<1>7. ChatActive'
  BY <1>1, <1>4, ChatActiveStays
<1>8. ChatWaits' /\ ChatCurrentPage'
  BY <1>2, <1>6 DEF ChatWaits, ChatCurrentPage
<1>9. ChatThread' /\ ChatPlans' /\ Chat!OwnEvents'
  BY <1>1, <1>2 DEF ChatIInv, ChatThread, ChatPlans, Chat!OwnEvents
<1> QED BY <1>4, <1>5, <1>6, <1>7, <1>8, <1>9 DEF ChatIInv

(* The page moves: what it had planned knows.                                *)
LEMMA ChatMoves ==
  ASSUME ChatShapes, NEW u, u = Chat!Moved(ui)
  PROVE  /\ DOMAIN u = DOMAIN ui /\ u.ws = ui.ws /\ u.sending = ui.sending /\ u.active = ui.active
         /\ u.session = ui.session /\ u.thread = ui.thread /\ u.bubbles = ui.bubbles
         /\ u.approvals = ui.approvals
         /\ DOMAIN u.later = {"on", "session", "moved"} /\ u.later.on \in BOOLEAN
         /\ u.later.on => u.later.moved
         /\ \A l \in u.loads : DOMAIN l = {"kind", "session", "moved"} /\ l.moved
         /\ ui.loads = {} => u.loads = {}
<1>1. PICK L : L = {[l EXCEPT !.moved = TRUE] : l \in ui.loads}
  OBVIOUS
<1>2. ASSUME NEW l \in ui.loads, NEW k, k = [l EXCEPT !.moved = TRUE]
      PROVE  DOMAIN k = {"kind", "session", "moved"} /\ k.moved = TRUE
  BY <1>2 DEF ChatShapes
<1>3. \A k \in L : DOMAIN k = {"kind", "session", "moved"} /\ k.moved = TRUE
  BY <1>1, <1>2
<1>4. PICK d : d = [ui.later EXCEPT !.moved = ui.later.on]
  OBVIOUS
<1>5. /\ DOMAIN d = {"on", "session", "moved"} /\ d.session = ui.later.session
  BY <1>4 DEF ChatShapes
<1>6. d.on = ui.later.on /\ d.moved = ui.later.on
  BY <1>4 DEF ChatShapes
<1>7. u = [ui EXCEPT !.loads = L, !.later = d]
  BY <1>1, <1>4 DEF Chat!Moved, ChatShapes
<1>8. /\ DOMAIN u = DOMAIN ui /\ u.ws = ui.ws /\ u.active = ui.active
      /\ u.session = ui.session /\ u.thread = ui.thread /\ u.bubbles = ui.bubbles
      /\ u.approvals = ui.approvals /\ u.loads = L /\ u.later = d
  BY <1>7 DEF ChatShapes
<1>9. u.sending = ui.sending
  BY <1>7 DEF ChatShapes
<1>10. ui.loads = {} => L = {}
  BY <1>1
<1>11. u.later.on \in BOOLEAN /\ (u.later.on => u.later.moved)
  BY <1>6, <1>8 DEF ChatShapes
<1> QED BY <1>3, <1>5, <1>8, <1>9, <1>10, <1>11

LEMMA ChatNewChatKeeps ==
  ASSUME ChatIInv, Chat!NewChat
  PROVE  ChatIInv'
<1>1. PICK u : u = Chat!Moved(ui)
  OBVIOUS
<1>2. /\ DOMAIN u = DOMAIN ui /\ u.ws = ui.ws /\ u.approvals = ui.approvals
      /\ DOMAIN u.later = {"on", "session", "moved"} /\ u.later.on \in BOOLEAN
      /\ u.later.on => u.later.moved
      /\ \A l \in u.loads : DOMAIN l = {"kind", "session", "moved"} /\ l.moved
      /\ ui.loads = {} => u.loads = {}
  BY <1>1, ChatMoves DEF ChatIInv
<1>3. /\ ui' = [[u EXCEPT !.sending = FALSE, !.active = 0] EXCEPT !.thread = {}, !.bubbles = <<>>, !.session = 0]
      /\ chatPast' = [chatPast EXCEPT !.letGo = Chat!Left, !.stranded = FALSE]
      /\ UNCHANGED <<socket, outbox, inbox, server, request>>
  BY <1>1 DEF Chat!NewChat, Chat!Idle, Chat!Nobody
<1>4. /\ DOMAIN ui' = DOMAIN ui /\ ui'.sending = FALSE /\ ui'.active = 0 /\ ui'.session = 0
      /\ ui'.thread = {} /\ ui'.bubbles = <<>> /\ ui'.loads = u.loads /\ ui'.later = u.later
      /\ ui'.ws = ui.ws /\ ui'.approvals = ui.approvals
  BY <1>2, <1>3 DEF ChatIInv, ChatShapes
<1>5. /\ DOMAIN chatPast' = DOMAIN chatPast /\ chatPast'.letGo = Chat!Left
      /\ chatPast'.misread = chatPast.misread /\ chatPast'.crossed = chatPast.crossed
  BY <1>3 DEF ChatIInv, ChatShapes
<1>6. ChatLetGo \subseteq ChatLetGo' /\ (Chat!Count # 0 => Chat!Count \in ChatLetGo')
  BY <1>5, ChatNumbers DEF Chat!Left, ChatLetGo
<1>7. ChatSocketStep
  BY <1>3, ChatSocketsStay DEF ChatIInv
<1>8. /\ ChatRequested' /\ ChatWired' /\ ChatAsked' /\ ChatTold' /\ ChatProgress /\ ChatFading
      /\ Chat!Count' = Chat!Count
  BY <1>3, <1>6, <1>7, ChatWiresStay
<1>9. ChatShapes'
  <2>1. ui'.bubbles \in Seq(1 .. Chat!Count)
    BY <1>4
  <2> QED BY <1>2, <1>4, <1>5, <1>8, <2>1 DEF ChatIInv, ChatShapes
<1>10. ChatOneAwaited' /\ ~ChatCurrent'
  BY <1>6, <1>8, ChatNumbers, ChatNobodyAwaited
<1>11. ChatActive' /\ ChatWaits' /\ ChatCurrentPage'
  BY <1>4, <1>10 DEF ChatActive, ChatWaits, ChatCurrentPage
<1>12. ChatThread' /\ ChatPlans' /\ Chat!OwnEvents'
  BY <1>2, <1>4, <1>5 DEF ChatIInv, ChatThread, ChatPlans, Chat!OwnEvents
<1> QED BY <1>8, <1>9, <1>10, <1>11, <1>12 DEF ChatIInv

LEMMA ChatSelectKeeps ==
  ASSUME ChatIInv, Chat!Select
  PROVE  ChatIInv'
<1>1. PICK r \in Chat!Requests :
        /\ request[r].told
        /\ ui' = [ui EXCEPT !.loads = @ \cup {[kind |-> "select", session |-> Chat!Home(r), moved |-> FALSE]}]
  BY DEF Chat!Select
<1>2. UNCHANGED <<socket, outbox, inbox, server, request, chatPast>>
  BY DEF Chat!Select
<1>3. PICK k : k = [kind |-> "select", session |-> Chat!Home(r), moved |-> FALSE]
  OBVIOUS
<1>4. k.kind = "select" /\ DOMAIN k = {"kind", "session", "moved"}
  BY <1>3
<1>5. /\ DOMAIN ui' = DOMAIN ui /\ ui'.sending = ui.sending /\ ui'.active = ui.active
      /\ ui'.session = ui.session /\ ui'.thread = ui.thread /\ ui'.bubbles = ui.bubbles
      /\ ui'.approvals = ui.approvals /\ ui'.later = ui.later /\ ui'.ws = ui.ws
      /\ ui'.loads = ui.loads \cup {k}
  BY <1>1, <1>3 DEF ChatIInv, ChatShapes
<1>6. ChatSocketStep /\ ChatLetGo' = ChatLetGo
  BY <1>2, ChatSocketsStay DEF ChatIInv, ChatLetGo
<1>7. /\ ChatRequested' /\ ChatWired' /\ ChatAsked' /\ ChatTold' /\ ChatProgress /\ ChatFading
      /\ Chat!Count' = Chat!Count /\ Chat!Count \in 0 .. MaxPosts
  BY <1>2, <1>6, ChatWiresStay
<1>8. Chat!Count # 0
  <2>1. request[r].step # "unsent"
    BY <1>1 DEF ChatIInv, ChatRequested
  <2>2. r <= Chat!Count
    BY <2>1 DEF ChatIInv, ChatRequested, ChatSentUpTo
  <2> QED BY <1>7, <2>2, ChatNumbers
<1>9. ChatShapes'
  BY <1>2, <1>4, <1>5, <1>7, <1>8 DEF ChatIInv, ChatShapes
<1>10. ChatOneAwaited'
  BY <1>5, <1>7 DEF ChatIInv, ChatOneAwaited, ChatFading
<1>11. ChatActive'
  BY <1>5, <1>7, ChatActiveStays
<1>12. ChatWaits'
  BY <1>2, <1>5, <1>7 DEF ChatIInv, ChatWaits, ChatComing
<1>13. ChatThread' /\ Chat!OwnEvents'
  BY <1>2, <1>5 DEF ChatIInv, ChatThread, Chat!OwnEvents
<1>14. ChatPlans'
  BY <1>2, <1>4, <1>5 DEF ChatIInv, ChatPlans
<1>15. ChatCurrentPage'
  <2> SUFFICES ASSUME ChatCurrent' PROVE ChatCurrentPage'
    BY DEF ChatCurrentPage
  <2>1. ChatCurrent /\ Chat!Home(Chat!Count)' = Chat!Home(Chat!Count)
    BY <1>7, ChatCurrentWas
  <2>2. \A l \in ui'.loads : l.kind = "replay" => l.moved
    BY <1>4, <1>5, <2>1 DEF ChatIInv, ChatCurrentPage
  <2> QED BY <1>2, <1>5, <1>7, <2>1, <2>2 DEF ChatIInv, ChatCurrentPage
<1> QED BY <1>7, <1>9, <1>10, <1>11, <1>12, <1>13, <1>14, <1>15 DEF ChatIInv

LEMMA ChatSelectedKeeps ==
  ASSUME ChatIInv, NEW l, NEW ok \in BOOLEAN, Chat!Selected(l, ok)
  PROVE  ChatIInv'
<1>1. PICK u : u = Chat!Moved(ui)
  OBVIOUS
<1>2. /\ DOMAIN u = DOMAIN ui /\ u.ws = ui.ws /\ u.approvals = ui.approvals
      /\ u.sending = ui.sending /\ u.active = ui.active /\ u.thread = ui.thread
      /\ u.bubbles = ui.bubbles
      /\ DOMAIN u.later = {"on", "session", "moved"} /\ u.later.on \in BOOLEAN
      /\ u.later.on => u.later.moved
  BY <1>1, ChatMoves DEF ChatIInv
<1>3. PICK L : L = {[m EXCEPT !.moved = TRUE] : m \in u.loads \ {l}}
  OBVIOUS
<1>4. \A k \in L : DOMAIN k = {"kind", "session", "moved"} /\ k.moved
  <2>1. \A m \in u.loads : DOMAIN m = {"kind", "session", "moved"}
    BY <1>1, ChatMoves DEF ChatIInv
  <2>2. ASSUME NEW m \in u.loads, NEW k, k = [m EXCEPT !.moved = TRUE]
        PROVE  DOMAIN k = {"kind", "session", "moved"} /\ k.moved = TRUE
    BY <2>1, <2>2
  <2> QED BY <1>3, <2>2
<1>5. PICK v : v = [u EXCEPT !.session = l.session, !.loads = L]
  OBVIOUS
<1>6. /\ DOMAIN v = DOMAIN ui /\ v.ws = ui.ws /\ v.approvals = ui.approvals
      /\ v.active = ui.active /\ v.thread = ui.thread
      /\ v.bubbles = ui.bubbles /\ v.later = u.later /\ v.session = l.session /\ v.loads = L
  BY <1>2, <1>5 DEF ChatIInv, ChatShapes
<1>7. v.sending = ui.sending
  BY <1>2, <1>5 DEF ChatIInv, ChatShapes
<1>8. /\ l \in ui.loads
      /\ ui' = IF ok THEN [v EXCEPT !.thread = {l.session}, !.bubbles = <<>>] ELSE v
      /\ chatPast' = [chatPast EXCEPT !.letGo = Chat!Left, !.crossed = @ \/ ~ok]
      /\ UNCHANGED <<socket, outbox, inbox, server, request>>
  BY <1>1, <1>3, <1>5 DEF Chat!Selected
<1>9. /\ DOMAIN ui' = DOMAIN ui /\ ui'.ws = ui.ws /\ ui'.approvals = ui.approvals
      /\ ui'.active = ui.active /\ ui'.later = u.later /\ ui'.session = l.session /\ ui'.loads = L
      /\ IF ok THEN ui'.thread = {l.session} /\ ui'.bubbles = <<>>
         ELSE ui'.thread = ui.thread /\ ui'.bubbles = ui.bubbles
  BY <1>6, <1>8 DEF ChatIInv, ChatShapes
<1>10. ui'.sending = ui.sending
  BY <1>6, <1>7, <1>8 DEF ChatIInv, ChatShapes
<1>11. /\ DOMAIN chatPast' = DOMAIN chatPast /\ chatPast'.letGo = Chat!Left
       /\ chatPast'.misread = chatPast.misread
  BY <1>8 DEF ChatIInv, ChatShapes
<1>12. chatPast'.stranded = chatPast.stranded
  BY <1>8 DEF ChatIInv, ChatShapes
<1>13. ~chatPast'.crossed => ok
  BY <1>8 DEF ChatIInv, ChatShapes
<1>14. ChatLetGo \subseteq ChatLetGo' /\ (Chat!Count # 0 => Chat!Count \in ChatLetGo')
  BY <1>11, ChatNumbers DEF Chat!Left, ChatLetGo
<1>15. ChatSocketStep
  BY <1>8, ChatSocketsStay DEF ChatIInv
<1>16. /\ ChatRequested' /\ ChatWired' /\ ChatAsked' /\ ChatTold' /\ ChatProgress /\ ChatFading
       /\ Chat!Count' = Chat!Count
  BY <1>8, <1>14, <1>15, ChatWiresStay
<1>17. ChatShapes'
  <2>1. ui'.bubbles \in Seq(1 .. Chat!Count)
    <3>1. <<>> \in Seq(1 .. Chat!Count) /\ ui.bubbles \in Seq(1 .. Chat!Count)
      BY DEF ChatIInv, ChatShapes
    <3> QED BY <1>9, <3>1
  <2>2. Chat!Count # 0
    BY <1>8 DEF ChatIInv, ChatShapes
  <2> QED BY <1>2, <1>4, <1>9, <1>10, <1>11, <1>16, <2>1, <2>2 DEF ChatIInv, ChatShapes
<1>18. ChatOneAwaited' /\ ~ChatCurrent'
  BY <1>14, <1>16, ChatNumbers, ChatNobodyAwaited
<1>19. ChatActive'
  BY <1>9, <1>10, <1>16, ChatActiveStays
<1>20. ChatWaits'
  BY <1>8, <1>9, <1>10, <1>12, <1>16 DEF ChatIInv, ChatWaits, ChatComing
<1>21. ChatCurrentPage'
  BY <1>18 DEF ChatCurrentPage
<1>22. ChatThread'
  BY <1>9, <1>13 DEF ChatThread
<1>23. ChatPlans' /\ Chat!OwnEvents'
  BY <1>2, <1>4, <1>9, <1>11 DEF ChatIInv, ChatPlans, Chat!OwnEvents
<1> QED BY <1>16, <1>17, <1>18, <1>19, <1>20, <1>21, <1>22, <1>23 DEF ChatIInv

LEMMA ChatFront ==
  ASSUME NEW S, NEW b \in Seq(S)
  PROVE  (IF b = <<>> THEN b ELSE Chat!Front(b)) \in Seq(S)
  BY DEF Chat!Front

LEMMA ChatRefetchedKeeps ==
  ASSUME ChatIInv, NEW l, NEW ok \in BOOLEAN, Chat!Refetched(l, ok)
  PROVE  ChatIInv'
<1>1. PICK bs : bs = IF ui.bubbles = <<>> THEN ui.bubbles ELSE Chat!Front(ui.bubbles)
  OBVIOUS
<1>2. /\ l \in ui.loads /\ l.kind = "replay"
      /\ ui' = IF ok THEN [ui EXCEPT !.loads = @ \ {l}, !.thread = {l.session}, !.bubbles = <<>>]
               ELSE [ui EXCEPT !.loads = @ \ {l}, !.bubbles = bs]
      /\ chatPast' = [chatPast EXCEPT !.crossed = @ \/ l.moved]
      /\ UNCHANGED <<socket, outbox, inbox, server, request>>
  BY <1>1 DEF Chat!Refetched, ChatIInv, ChatShapes
<1>3. /\ DOMAIN ui' = DOMAIN ui /\ ui'.ws = ui.ws /\ ui'.approvals = ui.approvals
      /\ ui'.active = ui.active /\ ui'.later = ui.later /\ ui'.session = ui.session
      /\ ui'.loads = ui.loads \ {l}
      /\ IF ok THEN ui'.thread = {l.session} /\ ui'.bubbles = <<>>
         ELSE ui'.thread = ui.thread /\ ui'.bubbles = bs
  BY <1>2 DEF ChatIInv, ChatShapes
<1>4. ui'.sending = ui.sending
  BY <1>2 DEF ChatIInv, ChatShapes
<1>5. /\ DOMAIN chatPast' = DOMAIN chatPast /\ ChatLetGo' = ChatLetGo
      /\ chatPast'.misread = chatPast.misread
  BY <1>2 DEF ChatIInv, ChatShapes, ChatLetGo
<1>6. chatPast'.stranded = chatPast.stranded
  BY <1>2 DEF ChatIInv, ChatShapes
<1>7. ~chatPast'.crossed => ~chatPast.crossed /\ ~l.moved
  BY <1>2 DEF ChatIInv, ChatShapes
<1>8. ChatSocketStep
  BY <1>2, ChatSocketsStay DEF ChatIInv
<1>9. /\ ChatRequested' /\ ChatWired' /\ ChatAsked' /\ ChatTold' /\ ChatProgress /\ ChatFading
      /\ Chat!Count' = Chat!Count
  BY <1>2, <1>5, <1>8, ChatWiresStay
<1>10. ChatShapes'
  <2>1. ui'.bubbles \in Seq(1 .. Chat!Count)
    <3>1. <<>> \in Seq(1 .. Chat!Count) /\ ui.bubbles \in Seq(1 .. Chat!Count)
      BY DEF ChatIInv, ChatShapes
    <3>2. bs \in Seq(1 .. Chat!Count)
      BY <1>1, <3>1, ChatFront
    <3> QED BY <1>3, <3>1, <3>2
  <2> QED BY <1>3, <1>4, <1>5, <1>9, <2>1 DEF ChatIInv, ChatShapes
<1>11. ChatOneAwaited'
  BY <1>4, <1>9 DEF ChatIInv, ChatOneAwaited, ChatFading
<1>12. ChatActive'
  BY <1>3, <1>4, <1>9, ChatActiveStays
<1>13. ChatWaits'
  BY <1>2, <1>3, <1>4, <1>6, <1>9 DEF ChatIInv, ChatWaits, ChatComing
<1>14. ChatPlans' /\ Chat!OwnEvents'
  BY <1>3, <1>5, <1>7 DEF ChatIInv, ChatPlans, Chat!OwnEvents
<1>15. ChatThread'
  <2> SUFFICES ASSUME ~chatPast'.crossed PROVE ChatThread'
    BY DEF ChatThread
  <2>1. ui.session = l.session
    BY <1>2, <1>7 DEF ChatIInv, ChatPlans
  <2>2. CASE ok
    BY <1>3, <2>1, <2>2 DEF ChatThread
  <2>3. CASE ~ok
    BY <1>3, <1>7, <2>3 DEF ChatIInv, ChatThread
  <2> QED BY <2>2, <2>3
<1>16. ChatCurrentPage'
  <2> SUFFICES ASSUME ChatCurrent' PROVE ChatCurrentPage'
    BY DEF ChatCurrentPage
  <2>1. ChatCurrent
    BY <1>9, ChatCurrentWas
  <2>2. l.moved
    BY <1>2, <2>1 DEF ChatIInv, ChatCurrentPage
  <2> QED BY <1>3, <1>7, <2>1, <2>2 DEF ChatIInv, ChatCurrentPage
<1> QED BY <1>9, <1>10, <1>11, <1>12, <1>13, <1>14, <1>15, <1>16 DEF ChatIInv

-----------------------------------------------------------------------------
(* What the user says to the server.                                         *)

(* A message that asks for nothing.                                          *)
LEMMA ChatSaysMore ==
  ASSUME ChatIInv, UNCHANGED <<inbox, server, request, socket>>, ChatLetGo \subseteq ChatLetGo',
         NEW s \in Chat!Sockets, NEW m \in ChatMessages,
         outbox' = [outbox EXCEPT ![s] = Append(@, m)],
         m.type \notin ChatAsks, m.of <= Chat!Count, m.type = "interrupt" => m.of \in ChatLetGo'
  PROVE  /\ ChatRequested' /\ ChatWired' /\ ChatAsked' /\ ChatTold' /\ ChatProgress /\ ChatFading
         /\ Chat!Count' = Chat!Count /\ Chat!Count \in 0 .. MaxPosts
         /\ \A t \in Chat!Sockets :
              /\ Len(outbox'[t]) \in Nat /\ Len(outbox[t]) <= Len(outbox'[t])
              /\ \A i \in 1 .. Len(outbox[t]) : outbox'[t][i] = outbox[t][i]
              /\ Len(inbox'[t]) \in Nat /\ Len(inbox[t]) <= Len(inbox'[t])
              /\ \A i \in 1 .. Len(inbox[t]) : inbox'[t][i] = inbox[t][i]
         /\ Len(outbox[s]) \in Nat /\ Len(outbox'[s]) = Len(outbox[s]) + 1
         /\ outbox'[s][Len(outbox[s]) + 1] = m
<1>1. ChatRequested /\ ChatWired /\ Chat!Count \in 0 .. MaxPosts
  BY DEF ChatIInv, ChatRequested, ChatSentUpTo
<1>2. ChatProgress /\ ChatSocketStep
  BY <1>1, ChatRequestsStay, ChatSocketsStay
<1>3. ChatRequested' /\ Chat!Count' = Chat!Count
  BY <1>1, <1>2, ChatProgressKeeps
<1>4. ChatFading
  BY <1>1, <1>2, ChatFadesToo
<1>5. ChatTold'
  BY <1>2, <1>3, ChatToldStays
<1>6. outbox \in [Chat!Sockets -> Seq(ChatMessages)]
  BY <1>1 DEF ChatWired
<1>7. /\ outbox' \in [Chat!Sockets -> Seq(ChatMessages)]
      /\ \A t \in Chat!Sockets : /\ Len(outbox[t]) <= Len(outbox'[t])
                                 /\ \A i \in 1 .. Len(outbox[t]) : outbox'[t][i] = outbox[t][i]
      /\ \A t \in Chat!Sockets : t # s => outbox'[t] = outbox[t]
      /\ Len(outbox'[s]) = Len(outbox[s]) + 1 /\ outbox'[s][Len(outbox[s]) + 1] = m
  BY <1>6, ChatPutsOn
<1>8. \A t \in Chat!Sockets :
        Len(outbox[t]) \in Nat /\ Len(outbox'[t]) \in Nat /\ Len(inbox[t]) \in Nat
  BY <1>1, <1>6, <1>7, ChatOnWires
<1>9. ChatWired'
  BY <1>1, <1>3, <1>7 DEF ChatWired
<1>10. ChatAsked'
  <2>1. PICK n : n = Chat!Count
    OBVIOUS
  <2> DEFINE Fits(t, i) ==
               /\ outbox'[t][i].of <= n
               /\ outbox'[t][i].type = "interrupt" => outbox'[t][i].of \in ChatLetGo'
               /\ outbox'[t][i].type \in ChatAsks =>
                    /\ request[outbox'[t][i].of].at = t /\ request[outbox'[t][i].of].step = "sent"
                    /\ request[n].at = t => request[n].step = "sent"
                    /\ \A j \in 1 .. Len(outbox'[t]) :
                         j > i /\ outbox'[t][j].type \in ChatAsks => outbox'[t][j].of > outbox'[t][i].of
  <2> SUFFICES ASSUME NEW t \in Chat!Sockets, NEW i \in 1 .. Len(outbox'[t]) PROVE Fits(t, i)
    BY <1>3, <2>1 DEF ChatAsked
  <2>2. \A j \in 1 .. Len(outbox'[t]) : j \in 1 .. Len(outbox[t]) \/ outbox'[t][j] = m
    BY <1>7, <1>8
  <2>3. CASE outbox'[t][i] = m
    BY <2>1, <2>3
  <2>4. CASE i \in 1 .. Len(outbox[t])
    <3>1. outbox'[t][i] = outbox[t][i]
      BY <1>7, <2>4
    <3>2. /\ outbox[t][i].of <= n
          /\ outbox[t][i].type = "interrupt" => outbox[t][i].of \in ChatLetGo
          /\ outbox[t][i].type \in ChatAsks =>
               /\ request[outbox[t][i].of].at = t /\ request[outbox[t][i].of].step = "sent"
               /\ request[n].at = t => request[n].step = "sent"
               /\ \A j \in 1 .. Len(outbox[t]) :
                    j > i /\ outbox[t][j].type \in ChatAsks => outbox[t][j].of > outbox[t][i].of
      BY <2>1, <2>4 DEF ChatIInv, ChatAsked
    <3>3. ASSUME outbox[t][i].type \in ChatAsks, NEW j \in 1 .. Len(outbox'[t]), j > i,
                 outbox'[t][j].type \in ChatAsks
          PROVE  outbox'[t][j].of > outbox[t][i].of
      <4>1. j \in 1 .. Len(outbox[t])
        BY <2>2, <3>3
      <4>2. outbox'[t][j] = outbox[t][j]
        BY <1>7, <4>1
      <4> QED BY <3>2, <3>3, <4>1, <4>2
    <3> QED BY <3>1, <3>2, <3>3
  <2> QED BY <2>2, <2>3, <2>4
<1> QED BY <1>1, <1>2, <1>3, <1>4, <1>5, <1>7, <1>8, <1>9, <1>10

LEMMA ChatInterruptKeeps ==
  ASSUME ChatIInv, Chat!Interrupt
  PROVE  ChatIInv'
<1>1. PICK n, s, m : n = Chat!Count /\ s = ui.ws /\ m = [type |-> "interrupt", of |-> n]
  OBVIOUS
<1>2. /\ ui.sending /\ s # 0 /\ socket[s] = "open"
      /\ outbox' = [outbox EXCEPT ![s] = Append(@, m)]
      /\ chatPast' = [chatPast EXCEPT !.letGo = Chat!Left]
      /\ UNCHANGED <<ui, socket, inbox, server, request>>
  BY <1>1 DEF Chat!Interrupt, Chat!Online, Chat!Nobody
<1>3. s \in Chat!Sockets /\ n # 0
  BY <1>1, <1>2 DEF ChatIInv, ChatShapes
<1>4. n \in Chat!Requests
  BY <1>1, <1>3, ChatNumbers DEF ChatIInv, ChatRequested, ChatSentUpTo
<1>5. m \in ChatMessages /\ m.type = "interrupt" /\ m.of = n /\ m.type \notin ChatAsks /\ n <= n
  BY <1>1, <1>4, ChatNumbers DEF ChatMessages, ChatAsks
<1>6. /\ DOMAIN chatPast' = DOMAIN chatPast /\ chatPast'.letGo = Chat!Left
      /\ chatPast'.misread = chatPast.misread /\ chatPast'.crossed = chatPast.crossed
  BY <1>2 DEF ChatIInv, ChatShapes
<1>7. chatPast'.stranded = chatPast.stranded
  BY <1>2 DEF ChatIInv, ChatShapes
<1>8. ChatLetGo \subseteq ChatLetGo' /\ n \in ChatLetGo'
  BY <1>1, <1>3, <1>6, ChatNumbers DEF Chat!Left, ChatLetGo
<1>9. /\ ChatRequested' /\ ChatWired' /\ ChatAsked' /\ ChatTold' /\ ChatProgress /\ ChatFading
      /\ Chat!Count' = n
      /\ \A t \in Chat!Sockets :
           /\ Len(outbox'[t]) \in Nat /\ Len(outbox[t]) <= Len(outbox'[t])
           /\ \A i \in 1 .. Len(outbox[t]) : outbox'[t][i] = outbox[t][i]
           /\ Len(inbox'[t]) \in Nat /\ Len(inbox[t]) <= Len(inbox'[t])
           /\ \A i \in 1 .. Len(inbox[t]) : inbox'[t][i] = inbox[t][i]
  BY <1>1, <1>2, <1>3, <1>5, <1>8, ChatSaysMore
<1>10. ChatOneAwaited' /\ ~ChatCurrent'
  BY <1>1, <1>8, <1>9, ChatNobodyAwaited
<1>11. ChatShapes'
  BY <1>1, <1>2, <1>6, <1>9 DEF ChatIInv, ChatShapes
<1>12. ChatActive'
  BY <1>2, <1>9, ChatActiveStays
<1>13. ChatWaits'
  BY <1>1, <1>2, <1>7, <1>9, ChatWaitsStay
<1>14. ChatThread' /\ ChatPlans' /\ Chat!OwnEvents' /\ ChatCurrentPage'
  BY <1>2, <1>6, <1>10 DEF ChatIInv, ChatThread, ChatPlans, Chat!OwnEvents, ChatCurrentPage
<1> QED BY <1>9, <1>10, <1>11, <1>12, <1>13, <1>14 DEF ChatIInv

LEMMA ChatAnswerKeeps ==
  ASSUME ChatIInv, NEW r \in Chat!Requests, Chat!Answer(r)
  PROVE  ChatIInv'
<1>1. PICK n, s, m : n = Chat!Count /\ s = ui.ws /\ m = [type |-> "approval", of |-> r]
  OBVIOUS
<1>2. /\ r \in ui.approvals /\ ui' = [ui EXCEPT !.approvals = @ \ {r}]
      /\ outbox' = IF s # 0 /\ socket[s] = "open" THEN [outbox EXCEPT ![s] = Append(@, m)] ELSE outbox
      /\ UNCHANGED <<socket, inbox, server, request, chatPast>>
  BY <1>1 DEF Chat!Answer, Chat!Online, Chat!Nobody
<1>3. /\ DOMAIN ui' = DOMAIN ui /\ ui'.sending = ui.sending /\ ui'.active = ui.active
      /\ ui'.session = ui.session /\ ui'.thread = ui.thread /\ ui'.bubbles = ui.bubbles
      /\ ui'.later = ui.later /\ ui'.ws = ui.ws /\ ui'.loads = ui.loads
      /\ ui'.approvals = ui.approvals \ {r}
  BY <1>2 DEF ChatIInv, ChatShapes
<1>4. r <= n /\ ChatLetGo' = ChatLetGo
  BY <1>1, <1>2 DEF ChatIInv, ChatShapes, ChatLetGo
<1>5. m \in ChatMessages /\ m.type = "approval" /\ m.of = r /\ m.type \notin ChatAsks
  BY <1>1 DEF ChatMessages, ChatAsks
<1>6. /\ ChatRequested' /\ ChatWired' /\ ChatAsked' /\ ChatTold' /\ ChatProgress /\ ChatFading
      /\ Chat!Count' = n /\ ChatWaits'
  <2>1. CASE s # 0 /\ socket[s] = "open"
    <3>1. s \in Chat!Sockets
      BY <1>1, <2>1 DEF ChatIInv, ChatShapes
    <3> DEFINE Longer ==
                 \A t \in Chat!Sockets :
                   /\ Len(outbox'[t]) \in Nat /\ Len(outbox[t]) <= Len(outbox'[t])
                   /\ \A i \in 1 .. Len(outbox[t]) : outbox'[t][i] = outbox[t][i]
                   /\ Len(inbox'[t]) \in Nat /\ Len(inbox[t]) <= Len(inbox'[t])
                   /\ \A i \in 1 .. Len(inbox[t]) : inbox'[t][i] = inbox[t][i]
    <3>2. /\ ChatRequested' /\ ChatWired' /\ ChatAsked' /\ ChatTold' /\ ChatProgress /\ ChatFading
          /\ Chat!Count' = n /\ Longer
          /\ Len(outbox[s]) \in Nat /\ Len(outbox'[s]) = Len(outbox[s]) + 1
          /\ outbox'[s][Len(outbox[s]) + 1] = m
      BY <1>1, <1>2, <1>4, <1>5, <2>1, <3>1, ChatSaysMore
    <3>3. ChatWaits'
      <4> SUFFICES ASSUME ui.sending, ~chatPast.stranded, \A t \in Chat!Sockets : socket[t] # "dropped"
                   PROVE  ChatWaits'
        BY <1>2, <1>3 DEF ChatWaits
      <4>1. request[n].at = s /\ ChatComing(n, s)
        BY <1>1 DEF ChatIInv, ChatWaits
      <4>2. ChatComing(n, s)'
        <5>1. CASE request[n].step = "parked" /\ n = r
          <6>1. \E i \in 1 .. Len(outbox'[s]) : outbox'[s][i].type = "approval" /\ outbox'[s][i].of = n
            BY <1>5, <3>2, <5>1
          <6> QED BY <1>2, <5>1, <6>1 DEF ChatComing
        <5>2. CASE n # r
          <6>1. \A i \in 1 .. Len(outbox[s]) : i \in 1 .. Len(outbox'[s]) /\ outbox'[s][i] = outbox[s][i]
            BY <3>1, <3>2
          <6>2. n \in ui.approvals => n \in ui'.approvals
            BY <1>3, <5>2
          <6> QED BY <1>2, <4>1, <6>1, <6>2, ChatStillComing
        <5>3. CASE request[n].step # "parked"
          <6>1. \A i \in 1 .. Len(outbox[s]) : i \in 1 .. Len(outbox'[s]) /\ outbox'[s][i] = outbox[s][i]
            BY <3>1, <3>2
          <6> QED BY <1>2, <4>1, <5>3, <6>1 DEF ChatComing
        <5> QED BY <5>1, <5>2, <5>3
      <4> QED BY <1>1, <1>2, <1>3, <2>1, <3>1, <3>2, <4>1, <4>2 DEF ChatWaits
    <3> QED BY <3>2, <3>3
  <2>2. CASE ~(s # 0 /\ socket[s] = "open")
    <3>1. ChatSocketStep /\ outbox' = outbox
      BY <1>2, <2>2, ChatSocketsStay DEF ChatIInv
    <3>2. /\ ChatRequested' /\ ChatWired' /\ ChatAsked' /\ ChatTold' /\ ChatProgress /\ ChatFading
          /\ Chat!Count' = n
      BY <1>1, <1>2, <1>4, <3>1, ChatWiresStay
    <3>3. ChatWaits'
      BY <1>1, <1>2, <1>3, <2>2, ChatNumbers DEF ChatIInv, ChatWaits
    <3> QED BY <3>2, <3>3
  <2> QED BY <2>1, <2>2
<1>7. ChatShapes'
  BY <1>1, <1>2, <1>3, <1>6 DEF ChatIInv, ChatShapes
<1>8. ChatOneAwaited'
  BY <1>1, <1>3, <1>6 DEF ChatIInv, ChatOneAwaited, ChatFading
<1>9. ChatActive'
  BY <1>3, <1>6, ChatActiveStays
<1>10. ChatThread' /\ ChatPlans' /\ Chat!OwnEvents'
  BY <1>2, <1>3 DEF ChatIInv, ChatThread, ChatPlans, Chat!OwnEvents
<1>11. ChatCurrentPage'
  <2> SUFFICES ASSUME ChatCurrent' PROVE ChatCurrentPage'
    BY DEF ChatCurrentPage
  <2>1. ChatCurrent /\ Chat!Home(Chat!Count)' = Chat!Home(Chat!Count)
    BY <1>6, ChatCurrentWas
  <2> QED BY <1>1, <1>2, <1>3, <1>6, <2>1 DEF ChatIInv, ChatCurrentPage
<1> QED BY <1>6, <1>7, <1>8, <1>9, <1>10, <1>11 DEF ChatIInv

-----------------------------------------------------------------------------
(* What the user asks for.                                                   *)

(* Request r as it is asked for on socket s.                                 *)
ChatFresh(q, s) ==
  /\ DOMAIN q = ChatFields /\ q.kind \in Chat!Kinds /\ q.step = "sent" /\ q.at = s
  /\ ~q.told /\ q.again \in BOOLEAN /\ (q.again => q.session # 0)

(* Request r, of value q, is sent on socket s.                               *)
ChatSends(r, s, q, k) ==
  /\ request' = [request EXCEPT ![r] = q]
  /\ outbox' = [outbox EXCEPT ![s] = Append(@, [type |-> k, of |-> r])]
  /\ UNCHANGED <<inbox, server, socket>>

ChatWiresHold == ChatRequested /\ ChatWired /\ ChatAsked /\ ChatTold /\ ChatOneAwaited /\ ChatWaits

LEMMA ChatAsksMore ==
  ASSUME ChatIInv, ChatLetGo \subseteq ChatLetGo',
         NEW r, r = Chat!Count + 1, r \in Chat!Requests,
         NEW s \in Chat!Sockets, socket[s] = "open", NEW q, ChatFresh(q, s),
         NEW k \in ChatAsks, ChatSends(r, s, q, k),
         ui.ws = s, ui'.ws = s, ui'.sending,
         \A o \in Chat!Requests : ChatLive(o) => o \in ChatLetGo'
  PROVE  /\ Chat!Count' = r /\ request'[r] = q
         /\ \A o \in Chat!Requests : o # r => request'[o] = request[o]
         /\ ChatWiresHold'
<1> /\ request' = [request EXCEPT ![r] = q]
    /\ outbox' = [outbox EXCEPT ![s] = Append(@, [type |-> k, of |-> r])]
    /\ UNCHANGED <<inbox, server, socket>>
  BY DEF ChatSends
<1>1. ChatRequested /\ ChatWired
  BY DEF ChatIInv
<1>2. PICK n : n = Chat!Count /\ n \in 0 .. MaxPosts
  BY <1>1 DEF ChatRequested, ChatSentUpTo
<1>3. /\ DOMAIN request' = Chat!Requests /\ request'[r] = q
      /\ \A o \in Chat!Requests : o # r => request'[o] = request[o]
  BY <1>1 DEF ChatRequested
<1>4. r \in 0 .. MaxPosts /\ n < r
  BY <1>2, ChatNumbers
<1>5. \A o \in Chat!Requests : request'[o].step # "unsent" <=> o <= r
  BY <1>1, <1>2, <1>3, ChatNumbers DEF ChatRequested, ChatSentUpTo, ChatFresh
<1>6. Chat!Count' = r
  BY <1>4, <1>5, ChatCounts DEF Chat!Count
<1>7. ChatRequested'
  <2>1. ChatSentUpTo(Chat!Count)'
    BY <1>4, <1>5, <1>6 DEF ChatSentUpTo
  <2>2. ASSUME NEW o \in Chat!Requests
        PROVE  /\ DOMAIN request'[o] = ChatFields
               /\ request'[o].kind \in Chat!Kinds /\ request'[o].step \in ChatStates
               /\ IF request'[o].step = "unsent" THEN ~request'[o].told
                  ELSE request'[o].at \in Chat!Sockets /\ socket[request'[o].at] \in {"open", "dropped", "closed"}
               /\ request'[o].again \in BOOLEAN /\ (request'[o].again => request'[o].session # 0)
    <3>1. CASE o = r
      BY <1>3, <3>1 DEF ChatFresh, ChatStates
    <3>2. CASE o # r
      BY <1>1, <1>3, <3>2 DEF ChatRequested
    <3> QED BY <3>1, <3>2
  <2> QED BY <1>1, <1>3, <2>1, <2>2 DEF ChatRequested
<1>8. PICK m : m = [type |-> k, of |-> r]
  OBVIOUS
<1>9. m \in ChatMessages /\ m.type = k /\ m.of = r
  BY <1>8 DEF ChatMessages
<1>10. outbox \in [Chat!Sockets -> Seq(ChatMessages)]
  BY <1>1 DEF ChatWired
<1>11. /\ outbox' \in [Chat!Sockets -> Seq(ChatMessages)]
       /\ \A t \in Chat!Sockets : /\ Len(outbox[t]) <= Len(outbox'[t])
                                  /\ \A i \in 1 .. Len(outbox[t]) : outbox'[t][i] = outbox[t][i]
       /\ \A t \in Chat!Sockets : t # s => outbox'[t] = outbox[t]
       /\ Len(outbox'[s]) = Len(outbox[s]) + 1 /\ outbox'[s][Len(outbox[s]) + 1] = m
  BY <1>8, <1>9, <1>10, ChatPutsOn
<1>12. \A t \in Chat!Sockets : Len(outbox[t]) \in Nat
  BY <1>1, ChatOnWires
<1>13. ChatWired'
  <2>1. ASSUME NEW t \in Chat!Sockets, server[t] # 0
        PROVE  server[t] <= r /\ request'[server[t]].at = t /\ request'[server[t]].step # "sent"
    <3>1. PICK o : o = server[t]
      OBVIOUS
    <3>2. o \in Chat!Requests /\ o <= n /\ request[o].at = t /\ request[o].step # "sent"
      BY <1>1, <1>2, <2>1, <3>1, ChatServes
    <3>3. o # r /\ o <= r
      BY <1>2, <1>4, <3>2, ChatNumbers
    <3> QED BY <1>3, <3>1, <3>2, <3>3
  <2> QED BY <1>1, <1>6, <1>11, <2>1 DEF ChatWired
<1>14. ChatAsked'
  <2> DEFINE Fits(t, i) ==
               /\ outbox'[t][i].of <= r
               /\ outbox'[t][i].type = "interrupt" => outbox'[t][i].of \in ChatLetGo'
               /\ outbox'[t][i].type \in ChatAsks =>
                    /\ request'[outbox'[t][i].of].at = t /\ request'[outbox'[t][i].of].step = "sent"
                    /\ request'[r].at = t => request'[r].step = "sent"
                    /\ \A j \in 1 .. Len(outbox'[t]) :
                         j > i /\ outbox'[t][j].type \in ChatAsks => outbox'[t][j].of > outbox'[t][i].of
  <2> SUFFICES ASSUME NEW t \in Chat!Sockets, NEW i \in 1 .. Len(outbox'[t]) PROVE Fits(t, i)
    BY <1>6 DEF ChatAsked
  <2>1. request'[r].at = s /\ request'[r].step = "sent"
    BY <1>3 DEF ChatFresh
  <2>2. \A j \in 1 .. Len(outbox'[t]) :
          \/ j \in 1 .. Len(outbox[t])
          \/ t = s /\ j = Len(outbox[s]) + 1 /\ outbox'[t][j] = m
    BY <1>11, <1>12
  <2>3. CASE i \in 1 .. Len(outbox[t])
    <3>1. PICK a : a = outbox[t][i]
      OBVIOUS
    <3>2. outbox'[t][i] = a
      BY <1>11, <2>3, <3>1
    <3>3. /\ a.of \in Chat!Requests /\ a.of <= n
          /\ a.type = "interrupt" => a.of \in ChatLetGo
          /\ a.type \in ChatAsks =>
               /\ request[a.of].at = t /\ request[a.of].step = "sent"
               /\ \A j \in 1 .. Len(outbox[t]) :
                    j > i /\ outbox[t][j].type \in ChatAsks => outbox[t][j].of > a.of
      BY <1>1, <1>2, <2>3, <3>1, ChatOnWires DEF ChatIInv, ChatAsked
    <3>4. a.of <= r /\ a.of # r /\ r > a.of
      BY <1>2, <1>4, <3>3, ChatNumbers
    <3>5. ASSUME a.type \in ChatAsks, NEW j \in 1 .. Len(outbox'[t]), j > i,
                 outbox'[t][j].type \in ChatAsks
          PROVE  outbox'[t][j].of > a.of
      <4>1. CASE j \in 1 .. Len(outbox[t])
        <5>1. outbox'[t][j] = outbox[t][j]
          BY <1>11, <4>1
        <5> QED BY <3>3, <3>5, <4>1, <5>1
      <4>2. CASE outbox'[t][j] = m
        BY <1>9, <3>4, <4>2
      <4> QED BY <2>2, <4>1, <4>2
    <3> QED BY <1>3, <2>1, <3>2, <3>3, <3>4, <3>5
  <2>4. CASE t = s /\ i = Len(outbox[s]) + 1 /\ outbox'[t][i] = m
    <3>1. ~\E j \in 1 .. Len(outbox'[t]) : j > i
      BY <1>11, <1>12, <2>4
    <3>2. r <= r /\ m.type # "interrupt"
      BY <1>4, <1>9 DEF ChatAsks
    <3> QED BY <1>9, <2>1, <2>4, <3>1, <3>2
  <2> QED BY <2>2, <2>3, <2>4
<1>15. ChatTold'
  <2> DEFINE Fits(t, i) ==
               /\ inbox[t][i].by <= r
               /\ inbox[t][i].type = "compacted" => request'[inbox[t][i].by].kind = "compaction"
               /\ inbox[t][i].type \in {"text", "session_id", "done"} =>
                    request'[inbox[t][i].by].kind = "turn"
               /\ inbox[t][i].replayed =>
                    inbox[t][i].type = "done" /\ request'[inbox[t][i].by].session # 0
               /\ inbox[t][i].by \notin ChatLetGo' =>
                    /\ request'[inbox[t][i].by].at = t
                    /\ inbox[t][i].type \in ChatFinals =>
                         /\ request'[inbox[t][i].by].step = "over"
                         /\ \A j \in 1 .. Len(inbox[t]) : j > i => inbox[t][j].by # inbox[t][i].by
  <2> SUFFICES ASSUME NEW t \in Chat!Sockets, NEW i \in 1 .. Len(inbox[t]) PROVE Fits(t, i)
    BY <1>6 DEF ChatTold
  <2>1. PICK o : o = inbox[t][i].by
    OBVIOUS
  <2>2. o \in Chat!Requests /\ o <= n
    BY <1>1, <1>2, <2>1, ChatOnWires DEF ChatIInv, ChatTold
  <2>3. o <= r /\ o # r
    BY <1>2, <1>4, <2>2, ChatNumbers
  <2>4. request'[o] = request[o]
    BY <1>3, <2>2, <2>3
  <2> QED BY <2>1, <2>3, <2>4 DEF ChatIInv, ChatTold
<1>16. ChatOneAwaited'
  <2> SUFFICES ASSUME NEW o \in Chat!Requests, ChatLive(o)', o \notin ChatLetGo', o # r PROVE FALSE
    BY <1>6 DEF ChatOneAwaited
  <2>1. request'[o] = request[o]
    BY <1>3
  <2>2. ChatLive(o)
    BY <2>1 DEF ChatLive
  <2> QED BY <2>2
<1>17. ChatWaits'
  <2>1. \E i \in 1 .. Len(outbox'[s]) : outbox'[s][i].type \in ChatAsks /\ outbox'[s][i].of = r
    BY <1>9, <1>11, <1>12
  <2>2. request'[r].at = s
    BY <1>3 DEF ChatFresh
  <2>3. ChatComing(r, s)'
    BY <2>1 DEF ChatComing
  <2> QED BY <1>6, <2>2, <2>3 DEF ChatWaits
<1> QED BY <1>3, <1>6, <1>7, <1>13, <1>14, <1>15, <1>16, <1>17 DEF ChatWiresHold

LEMMA ChatCompactOnlineKeeps ==
  ASSUME ChatIInv, Chat!Compact, Chat!Online
  PROVE  ChatIInv'
<1>1. PICK r, s, q : /\ r = Chat!Count + 1 /\ s = ui.ws
                     /\ q = [Chat!Unsent EXCEPT !.kind = "compaction", !.session = ui.session,
                                                !.at = ui.ws, !.step = "sent"]
  OBVIOUS
<1>2. /\ Chat!Count < MaxPosts /\ ~ui.sending /\ ui.session # 0
      /\ ui' = [ui EXCEPT !.sending = TRUE]
      /\ request' = [request EXCEPT ![r] = q]
      /\ outbox' = [outbox EXCEPT ![s] = Append(@, [type |-> "compact", of |-> r])]
      /\ UNCHANGED <<chatPast, socket, inbox, server>>
  BY <1>1 DEF Chat!Compact, Chat!Nobody
<1>3. PICK n : n = Chat!Count /\ n \in 0 .. MaxPosts
  BY DEF ChatIInv, ChatRequested, ChatSentUpTo
<1>4. r \in Chat!Requests /\ r = n + 1 /\ n <= r
  BY <1>2, <1>1, <1>3, ChatNumbers
<1>5. s \in Chat!Sockets /\ socket[s] = "open"
  BY <1>1 DEF ChatIInv, ChatShapes, Chat!Online, Chat!Nobody
<1>6. ChatFresh(q, s) /\ q.kind = "compaction"
  <2>1. q = [kind |-> "compaction", session |-> ui.session, again |-> FALSE, at |-> s, step |-> "sent",
             told |-> FALSE, spoke |-> FALSE]
    BY <1>1 DEF Chat!Unsent
  <2>2. DOMAIN q = ChatFields
    BY <2>1 DEF ChatFields
  <2>3. q.kind = "compaction" /\ q.step = "sent" /\ q.at = s
    BY <2>1
  <2>4. q.told = FALSE /\ q.again = FALSE
    BY <2>1
  <2> QED BY <2>2, <2>3, <2>4 DEF ChatFresh, Chat!Kinds
<1>7. /\ DOMAIN ui' = DOMAIN ui /\ ui'.active = ui.active /\ ui'.ws = ui.ws
      /\ ui'.session = ui.session /\ ui'.thread = ui.thread /\ ui'.bubbles = ui.bubbles
      /\ ui'.approvals = ui.approvals /\ ui'.loads = ui.loads /\ ui'.later = ui.later
      /\ ui'.sending = TRUE
  BY <1>2 DEF ChatIInv, ChatShapes
<1>8. \A o \in Chat!Requests : ChatLive(o) => o \in ChatLetGo
  BY <1>2 DEF ChatIInv, ChatOneAwaited
<1>9. ChatLetGo' = ChatLetGo
  BY <1>2 DEF ChatLetGo
<1>10. /\ Chat!Count' = r /\ request'[r] = q
       /\ \A o \in Chat!Requests : o # r => request'[o] = request[o]
       /\ ChatWiresHold'
  <2>1. /\ "compact" \in ChatAsks /\ ui.ws = s /\ ui'.ws = s /\ ui'.sending /\ r = Chat!Count + 1
        /\ ChatLetGo \subseteq ChatLetGo'
    BY <1>2, <1>1, <1>7, <1>9 DEF ChatAsks
  <2>2. ChatSends(r, s, q, "compact")
    BY <1>2 DEF ChatSends
  <2>3. \A o \in Chat!Requests : ChatLive(o) => o \in ChatLetGo'
    BY <1>8, <1>9
  <2>4. ChatFresh(q, s)
    BY <1>6
  <2> QED BY <1>4, <1>5, <2>1, <2>2, <2>3, <2>4, ChatAsksMore
<1>11. ChatShapes'
  <2>1. ui.bubbles \in Seq(1 .. n) /\ ui.approvals \subseteq 1 .. n
    BY <1>3 DEF ChatIInv, ChatShapes
  <2>2. ui.bubbles \in Seq(1 .. r) /\ ui.approvals \subseteq 1 .. r
    BY <1>3, <1>4, <2>1
  <2>3. r # 0
    BY <1>4, ChatNumbers
  <2> QED BY <1>2, <1>7, <1>10, <2>2, <2>3 DEF ChatIInv, ChatShapes
<1>12. ChatActive'
  <2> SUFFICES ASSUME ui.active # 0 PROVE ChatActive'
    BY <1>7 DEF ChatActive
  <2>1. PICK a : a = ui.active
    OBVIOUS
  <2>2. /\ a \in Chat!Requests /\ a <= n /\ request[a].kind = "turn" /\ a \in ChatLetGo
        /\ \E o \in ChatLetGo : o \in Chat!Requests /\ request[o].kind = "compaction"
    BY <1>2, <1>3, <2>1 DEF ChatIInv, ChatActive
  <2>3. a <= r /\ a # r
    BY <1>3, <1>4, <2>2, ChatNumbers
  <2>4. \E o \in ChatLetGo : o \in Chat!Requests /\ request'[o].kind = "compaction"
    BY <1>6, <1>10, <2>2
  <2> QED BY <1>7, <1>9, <1>10, <2>1, <2>2, <2>3, <2>4 DEF ChatActive
<1>13. ChatThread' /\ ChatPlans' /\ Chat!OwnEvents'
  BY <1>2, <1>7 DEF ChatIInv, ChatThread, ChatPlans, Chat!OwnEvents
<1>14. ChatCurrentPage'
  <2>1. ~ChatCurrent'
    BY <1>6, <1>10 DEF ChatCurrent
  <2> QED BY <2>1 DEF ChatCurrentPage
<1> QED BY <1>10, <1>11, <1>12, <1>13, <1>14 DEF ChatIInv, ChatWiresHold

LEMMA ChatCompactKeeps ==
  ASSUME ChatIInv, Chat!Compact
  PROVE  ChatIInv'
<1>1. /\ ~ui.sending /\ ui.session # 0 /\ ui' = [ui EXCEPT !.sending = TRUE]
      /\ UNCHANGED <<socket, inbox, server>>
  BY DEF Chat!Compact, Chat!Nobody
<1>2. CASE Chat!Online
  BY <1>2, ChatCompactOnlineKeeps
<1>3. CASE ~Chat!Online
  BY <1>1, <1>3, ChatCompactOfflineKeeps DEF Chat!Compact
<1> QED BY <1>2, <1>3

LEMMA ChatPostKeeps ==
  ASSUME ChatIInv, Chat!Online, NEW session, NEW again \in BOOLEAN, again => session # 0,
         ~chatPast.crossed /\ ~ui.later.moved => session = ui.session,
         Chat!Post(session, again)
  PROVE  ChatIInv'
<1>1. PICK r, s, n : r = Chat!Count + 1 /\ s = ui.ws /\ n = Chat!Count /\ n \in 0 .. MaxPosts
  BY DEF ChatIInv, ChatRequested, ChatSentUpTo
<1>2. PICK q, L : /\ q = [Chat!Unsent EXCEPT !.session = session, !.again = again, !.at = s, !.step = "sent"]
                  /\ L = {[l EXCEPT !.moved = TRUE] : l \in ui.loads}
  OBVIOUS
<1>3. PICK h : h = IF session = 0 THEN r ELSE session
  OBVIOUS
<1>4. /\ n < MaxPosts
      /\ request' = [request EXCEPT ![r] = q]
      /\ outbox' = [outbox EXCEPT ![s] = Append(@, [type |-> "send", of |-> r])]
      /\ ui' = [ui EXCEPT !.sending = TRUE, !.active = r, !.bubbles = Append(@, r),
                          !.later = Chat!NoDelay, !.thread = @ \cup {h}, !.loads = L]
      /\ chatPast' = [chatPast EXCEPT !.crossed = @ \/ (session = 0 /\ ui.thread # {}) \/ ui.later.moved,
                        !.letGo = IF ui.sending THEN @ \cup {n} ELSE @, !.stranded = FALSE]
      /\ UNCHANGED <<socket, inbox, server>>
  BY <1>1, <1>2, <1>3 DEF Chat!Post, Chat!Nobody
<1>5. r \in Chat!Requests /\ r = n + 1 /\ n <= r
  BY <1>1, <1>4, ChatNumbers
<1>6. s \in Chat!Sockets /\ socket[s] = "open"
  BY <1>1 DEF ChatIInv, ChatShapes, Chat!Online, Chat!Nobody
<1>7. ChatFresh(q, s) /\ q.kind = "turn" /\ q.session = session
  <2>1. q = [kind |-> "turn", session |-> session, again |-> again, at |-> s, step |-> "sent",
             told |-> FALSE, spoke |-> FALSE]
    BY <1>2 DEF Chat!Unsent
  <2>2. DOMAIN q = ChatFields
    BY <2>1 DEF ChatFields
  <2>3. q.kind = "turn" /\ q.step = "sent" /\ q.at = s /\ q.session = session
    BY <2>1
  <2>4. q.told = FALSE /\ q.again = again
    BY <2>1
  <2> QED BY <2>2, <2>3, <2>4 DEF ChatFresh, Chat!Kinds
<1>8. /\ DOMAIN ui' = DOMAIN ui /\ ui'.active = r /\ ui'.ws = ui.ws
      /\ ui'.session = ui.session /\ ui'.thread = ui.thread \cup {h} /\ ui'.bubbles = Append(ui.bubbles, r)
      /\ ui'.approvals = ui.approvals /\ ui'.loads = L /\ ui'.later = Chat!NoDelay
      /\ ui'.sending = TRUE
  BY <1>4 DEF ChatIInv, ChatShapes
<1>9. ui'.later.on = FALSE /\ DOMAIN ui'.later = {"on", "session", "moved"}
  BY <1>8 DEF Chat!NoDelay
<1>10. \A l \in L : DOMAIN l = {"kind", "session", "moved"} /\ l.moved
  <2>1. ASSUME NEW l \in ui.loads, NEW k, k = [l EXCEPT !.moved = TRUE]
        PROVE  DOMAIN k = {"kind", "session", "moved"} /\ k.moved = TRUE
    BY <2>1 DEF ChatIInv, ChatShapes
  <2> QED BY <1>2, <2>1
<1>11. /\ DOMAIN chatPast' = DOMAIN chatPast
       /\ chatPast'.letGo = IF ui.sending THEN ChatLetGo \cup {n} ELSE ChatLetGo
       /\ chatPast'.misread = chatPast.misread
  BY <1>4 DEF ChatIInv, ChatShapes, ChatLetGo
<1>12. ~chatPast'.crossed => ~chatPast.crossed /\ ~ui.later.moved /\ ~(session = 0 /\ ui.thread # {})
  BY <1>4 DEF ChatIInv, ChatShapes
<1>13. ChatLetGo \subseteq ChatLetGo'
  BY <1>11 DEF ChatLetGo
<1>14. \A o \in Chat!Requests : ChatLive(o) => o \in ChatLetGo'
  BY <1>1, <1>11, <1>13 DEF ChatIInv, ChatOneAwaited, ChatLetGo
<1>15. /\ Chat!Count' = r /\ request'[r] = q
       /\ ChatWiresHold'
  <2>1. /\ "send" \in ChatAsks /\ ui.ws = s /\ ui'.ws = s /\ ui'.sending /\ r = Chat!Count + 1
    BY <1>1, <1>4, <1>8 DEF ChatAsks
  <2>2. ChatSends(r, s, q, "send")
    BY <1>4 DEF ChatSends
  <2> QED BY <1>5, <1>6, <1>7, <1>13, <1>14, <2>1, <2>2, ChatAsksMore
<1>16. ChatShapes'
  <2>1. ui.bubbles \in Seq(1 .. n) /\ ui.approvals \subseteq 1 .. n
    BY <1>1 DEF ChatIInv, ChatShapes
  <2>2. ui.bubbles \in Seq(1 .. r) /\ ui.approvals \subseteq 1 .. r /\ r \in 1 .. r
    BY <1>1, <1>5, <2>1
  <2>3. Append(ui.bubbles, r) \in Seq(1 .. r)
    BY <2>2
  <2>4. r # 0
    BY <1>5, ChatNumbers
  <2> QED BY <1>8, <1>9, <1>10, <1>11, <1>15, <2>2, <2>3, <2>4 DEF ChatIInv, ChatShapes
<1>17. ChatActive'
  BY <1>5, <1>7, <1>8, <1>15, ChatNumbers DEF ChatActive
<1>18. ~chatPast'.crossed => session = ui.session /\ ui.thread \cup {h} \subseteq {h}
  <2> SUFFICES ASSUME ~chatPast'.crossed PROVE session = ui.session /\ ui.thread \subseteq {h}
    OBVIOUS
  <2>1. session = ui.session
    BY <1>12
  <2>2. CASE session = 0
    BY <1>12, <2>1, <2>2
  <2>3. CASE session # 0
    BY <1>3, <1>12, <2>1, <2>3 DEF ChatIInv, ChatThread
  <2> QED BY <2>1, <2>2, <2>3
<1>19. ChatThread'
  <2>1. ~chatPast'.crossed /\ ui.session # 0 => h = ui.session
    BY <1>3, <1>18
  <2> QED BY <1>8, <1>18, <2>1 DEF ChatThread
<1>20. ChatPlans' /\ Chat!OwnEvents'
  BY <1>8, <1>9, <1>10, <1>11 DEF ChatIInv, ChatPlans, Chat!OwnEvents
<1>21. ChatCurrentPage'
  <2>1. Chat!Home(Chat!Count)' = h
    BY <1>3, <1>7, <1>15 DEF Chat!Home, Chat!Nobody
  <2> QED BY <1>7, <1>8, <1>9, <1>10, <1>15, <1>18, <2>1 DEF ChatCurrentPage
<1> QED BY <1>15, <1>16, <1>17, <1>19, <1>20, <1>21 DEF ChatIInv, ChatWiresHold

LEMMA ChatSendKeeps ==
  ASSUME ChatIInv, Chat!Send
  PROVE  ChatIInv'
<1>1. PICK again \in {FALSE} \cup {ui.session # 0 /\ chatPast.letGo # {}} : Chat!Post(ui.session, again)
  BY DEF Chat!Send, Chat!Nobody
<1>2. again \in BOOLEAN /\ (again => ui.session # 0)
  BY <1>1
<1>3. Chat!Online
  BY DEF Chat!Send
<1> QED BY <1>1, <1>2, <1>3, ChatPostKeeps

LEMMA ChatSendDelayedKeeps ==
  ASSUME ChatIInv, Chat!SendDelayed
  PROVE  ChatIInv'
<1>1. CASE ui.active = 0 /\ Chat!Online
  <2>1. Chat!Post(ui.later.session, FALSE) /\ ui.later.on
    BY <1>1 DEF Chat!SendDelayed, Chat!Nobody
  <2>2. ~chatPast.crossed /\ ~ui.later.moved => ui.later.session = ui.session
    BY <2>1 DEF ChatIInv, ChatPlans
  <2> QED BY <1>1, <2>1, <2>2, ChatPostKeeps
<1>2. CASE ~(ui.active = 0 /\ Chat!Online)
  <2>1. ui' = [ui EXCEPT !.later = Chat!NoDelay, !.sending = IF ui.active = 0 THEN FALSE ELSE ui.sending]
    BY <1>2 DEF Chat!SendDelayed, Chat!Nobody
  <2>2. /\ chatPast' = IF ui.active = 0
                         THEN [chatPast EXCEPT !.letGo = @ \cup Chat!Awaiting, !.stranded = FALSE]
                         ELSE chatPast
        /\ UNCHANGED <<socket, outbox, inbox, server, request>>
    BY <1>2 DEF Chat!SendDelayed, Chat!Nobody
  <2> QED BY <2>1, <2>2, ChatSendDroppedKeeps
<1> QED BY <1>1, <1>2

-----------------------------------------------------------------------------
(* What the page hears.                                                      *)

(* The event the page takes from a socket.                                   *)
ChatHeard(s, e) ==
  /\ inbox' \in [Chat!Sockets -> Seq(ChatEvents)]
  /\ \A t \in Chat!Sockets : t # s => inbox'[t] = inbox[t]
  /\ Len(inbox[s]) \in Nat /\ Len(inbox[s]) >= 1 /\ Len(inbox'[s]) = Len(inbox[s]) - 1
  /\ \A i \in 1 .. Len(inbox'[s]) : inbox'[s][i] = inbox[s][i + 1]
  /\ e = inbox[s][1] /\ e \in ChatEvents /\ e.by \in Chat!Requests
  /\ UNCHANGED <<socket, outbox, server, request>>

LEMMA ChatHears ==
  ASSUME ChatWired, NEW s \in Chat!Sockets, inbox[s] # <<>>, inbox' = [inbox EXCEPT ![s] = Tail(@)],
         UNCHANGED <<socket, outbox, server, request>>
  PROVE  ChatHeard(s, Head(inbox[s]))
<1>1. inbox \in [Chat!Sockets -> Seq(ChatEvents)]
  BY DEF ChatWired
<1>2. \A e \in ChatEvents : e.by \in Chat!Requests
  BY DEF ChatEvents
<1> QED BY <1>1, <1>2, ChatTakesOff DEF ChatHeard

LEMMA ChatHeardBefore ==
  ASSUME ChatWired, NEW s \in Chat!Sockets, NEW e, ChatHeard(s, e),
         NEW t \in Chat!Sockets, NEW i \in 1 .. Len(inbox'[t])
  PROVE  IF t = s THEN i + 1 \in 1 .. Len(inbox[t]) /\ inbox'[t][i] = inbox[t][i + 1]
         ELSE i \in 1 .. Len(inbox[t]) /\ inbox'[t][i] = inbox[t][i]
<1>1. CASE t = s
  <2>1. Len(inbox[s]) \in Nat /\ Len(inbox'[s]) = Len(inbox[s]) - 1
    BY DEF ChatHeard
  <2> QED BY <1>1, <2>1 DEF ChatHeard
<1>2. CASE t # s
  BY <1>2 DEF ChatHeard
<1> QED BY <1>1, <1>2

LEMMA ChatHeardWires ==
  ASSUME ChatIInv, NEW s \in Chat!Sockets, NEW e, ChatHeard(s, e), ChatLetGo \subseteq ChatLetGo'
  PROVE  /\ ChatRequested' /\ ChatWired' /\ ChatAsked' /\ ChatTold' /\ ChatProgress /\ ChatFading
         /\ Chat!Count' = Chat!Count /\ Chat!Count \in 0 .. MaxPosts
         /\ Chat!Count \in Chat!Requests /\ Chat!Count # 0
<1>1. ChatRequested /\ ChatWired /\ Chat!Count \in 0 .. MaxPosts
  BY DEF ChatIInv, ChatRequested, ChatSentUpTo
<1>2. UNCHANGED <<socket, outbox, server, request>>
  BY DEF ChatHeard
<1>3. ChatProgress /\ ChatSocketStep
  BY <1>1, <1>2, ChatRequestsStay, ChatSocketsStay
<1>4. ChatRequested' /\ Chat!Count' = Chat!Count
  BY <1>1, <1>3, ChatProgressKeeps
<1>5. ChatWired'
  BY <1>1, <1>2, <1>4 DEF ChatWired, ChatHeard
<1>6. ChatAsked'
  BY <1>2, <1>3, <1>4, ChatAskedStays
<1>7. ChatFading
  <2>1. ASSUME NEW t \in Chat!Sockets, NEW i \in 1 .. Len(inbox'[t]) PROVE ChatLive(inbox'[t][i].by)
    <3>1. \E j \in 1 .. Len(inbox[t]) : inbox[t][j] = inbox'[t][i]
      BY <1>1, <2>1, ChatHeardBefore
    <3> QED BY <3>1 DEF ChatLive
  <2> QED BY <1>1, <1>3, <2>1, ChatFades
<1>8. ChatTold'
  <2>1. PICK n : n = Chat!Count
    OBVIOUS
  <2> DEFINE Fits(t, i) ==
               /\ inbox'[t][i].by <= n
               /\ inbox'[t][i].type = "compacted" => request[inbox'[t][i].by].kind = "compaction"
               /\ inbox'[t][i].type \in {"text", "session_id", "done"} =>
                    request[inbox'[t][i].by].kind = "turn"
               /\ inbox'[t][i].replayed =>
                    inbox'[t][i].type = "done" /\ request[inbox'[t][i].by].session # 0
               /\ inbox'[t][i].by \notin ChatLetGo' =>
                    /\ request[inbox'[t][i].by].at = t
                    /\ inbox'[t][i].type \in ChatFinals =>
                         /\ request[inbox'[t][i].by].step = "over"
                         /\ \A j \in 1 .. Len(inbox'[t]) : j > i => inbox'[t][j].by # inbox'[t][i].by
  <2> SUFFICES ASSUME NEW t \in Chat!Sockets, NEW i \in 1 .. Len(inbox'[t]) PROVE Fits(t, i)
    BY <1>2, <1>4, <2>1 DEF ChatTold
  <2>2. PICK d : d = IF t = s THEN 1 ELSE 0
    OBVIOUS
  <2>3. \A j \in 1 .. Len(inbox'[t]) : j + d \in 1 .. Len(inbox[t]) /\ inbox'[t][j] = inbox[t][j + d]
    BY <1>1, <2>2, ChatHeardBefore
  <2>4. PICK k : k = i + d /\ k \in 1 .. Len(inbox[t]) /\ inbox'[t][i] = inbox[t][k]
    BY <2>3
  <2>5. \A j \in 1 .. Len(inbox'[t]) : j > i => j + d > k
    BY <2>2, <2>4
  <2>6. /\ inbox[t][k].by <= n
        /\ inbox[t][k].type = "compacted" => request[inbox[t][k].by].kind = "compaction"
        /\ inbox[t][k].type \in {"text", "session_id", "done"} => request[inbox[t][k].by].kind = "turn"
        /\ inbox[t][k].replayed => inbox[t][k].type = "done" /\ request[inbox[t][k].by].session # 0
        /\ inbox[t][k].by \notin ChatLetGo =>
             /\ request[inbox[t][k].by].at = t
             /\ inbox[t][k].type \in ChatFinals =>
                  /\ request[inbox[t][k].by].step = "over"
                  /\ \A j \in 1 .. Len(inbox[t]) : j > k => inbox[t][j].by # inbox[t][k].by
    BY <2>1, <2>4 DEF ChatIInv, ChatTold
  <2> QED BY <2>3, <2>4, <2>5, <2>6
<1>9. Chat!Count \in Chat!Requests /\ Chat!Count # 0
  <2>1. 1 \in 1 .. Len(inbox[s]) /\ e = inbox[s][1] /\ e.by \in Chat!Requests
    BY DEF ChatHeard
  <2>2. e.by <= Chat!Count
    BY <2>1 DEF ChatIInv, ChatTold
  <2> QED BY <1>1, <2>1, <2>2, ChatNumbers
<1> QED BY <1>1, <1>3, <1>4, <1>5, <1>6, <1>7, <1>8, <1>9

(* The event heard lives, and is the last request's or one's let go.         *)
LEMMA ChatHeardOf ==
  ASSUME ChatIInv, NEW s \in Chat!Sockets, NEW e, ChatHeard(s, e)
  PROVE  /\ e.by <= Chat!Count /\ ChatLive(e.by)
         /\ e.by \notin ChatLetGo => e.by = Chat!Count /\ ui.sending
         /\ e.type = "compacted" => request[e.by].kind = "compaction"
         /\ e.type \in {"text", "session_id", "done"} => request[e.by].kind = "turn"
         /\ e.replayed => e.type = "done" /\ request[e.by].session # 0
<1>1. 1 \in 1 .. Len(inbox[s]) /\ e = inbox[s][1] /\ e.by \in Chat!Requests
  BY DEF ChatHeard
<1>2. ChatLive(e.by)
  BY <1>1 DEF ChatLive
<1> QED BY <1>1, <1>2 DEF ChatIInv, ChatTold, ChatOneAwaited

(* An outcome: nobody is awaited any more.                                   *)
LEMMA ChatOutcome ==
  ASSUME ChatIInv, NEW s \in Chat!Sockets, NEW e, ChatHeard(s, e), e.type \in ChatFinals,
         ChatLetGo' = IF ui.sending /\ e.by # Chat!Count THEN ChatLetGo \cup {Chat!Count} ELSE ChatLetGo
  PROVE  ChatOneAwaited' /\ ~ChatCurrent'
<1>1. PICK b : b = e.by
  OBVIOUS
<1>2. ChatFading /\ ChatProgress /\ Chat!Count \in Chat!Requests /\ Chat!Count' = Chat!Count
  BY ChatHeardWires
<1>3. b \notin ChatLetGo => b = Chat!Count
  BY <1>1, ChatHeardOf
<1>4. CASE b \in ChatLetGo
  <2>1. ~ui.sending \/ Chat!Count \in ChatLetGo'
    BY <1>1, <1>4
  <2> QED BY <1>2, <2>1, ChatNobodyAwaited
<1>5. CASE b \notin ChatLetGo
  <2>1. /\ 1 \in 1 .. Len(inbox[s]) /\ b \in Chat!Requests /\ inbox[s][1].by = b
        /\ inbox[s][1].type \in ChatFinals
    BY <1>1 DEF ChatHeard
  <2>2. /\ request[b].at = s /\ request[b].step = "over"
        /\ \A j \in 1 .. Len(inbox[s]) : j > 1 => inbox[s][j].by # b
    BY <1>5, <2>1 DEF ChatIInv, ChatTold
  <2>3. \A t \in Chat!Sockets : \A i \in 1 .. Len(inbox[t]) : inbox[t][i].by = b => t = s
    BY <1>5, <2>2 DEF ChatIInv, ChatTold
  <2>4. ASSUME NEW t \in Chat!Sockets, NEW i \in 1 .. Len(inbox'[t]) PROVE inbox'[t][i].by # b
    <3>1. CASE t # s
      BY <2>3, <2>4, <3>1, ChatHeardBefore DEF ChatIInv
    <3>2. CASE t = s
      <4>1. i + 1 \in 1 .. Len(inbox[s]) /\ inbox'[s][i] = inbox[s][i + 1] /\ i + 1 > 1
        BY <2>4, <3>2, ChatHeardBefore DEF ChatIInv
      <4> QED BY <2>2, <3>2, <4>1
    <3> QED BY <3>1, <3>2
  <2>5. request' = request
    BY DEF ChatHeard
  <2>6. ~ChatLive(b)'
    BY <2>2, <2>4, <2>5 DEF ChatLive, ChatWorking
  <2>7. ASSUME NEW r \in Chat!Requests, ChatLive(r)', r \notin ChatLetGo' PROVE FALSE
    <3>1. ChatLive(r) /\ r \notin ChatLetGo
      BY <1>2, <2>7 DEF ChatFading
    <3>2. r = Chat!Count
      BY <3>1 DEF ChatIInv, ChatOneAwaited
    <3> QED BY <1>3, <1>5, <2>6, <2>7, <3>2
  <2>8. ChatOneAwaited'
    BY <2>7 DEF ChatOneAwaited
  <2> QED BY <1>2, <2>7, <2>8 DEF ChatCurrent
<1> QED BY <1>4, <1>5

(* The page's wait after an event that ends none.                            *)
LEMMA ChatWaitsHeard ==
  ASSUME ChatIInv, NEW s \in Chat!Sockets, NEW e, ChatHeard(s, e), e.type \notin ChatFinals,
         ui'.ws = ui.ws, ui'.sending = ui.sending, chatPast'.stranded = chatPast.stranded,
         Chat!Count' = Chat!Count,
         ui.approvals \subseteq ui'.approvals, e.type = "approval" => e.by \in ui'.approvals
  PROVE  ChatWaits'
<1>1. PICK n, w : n = Chat!Count /\ w = ui.ws
  OBVIOUS
<1>2. UNCHANGED <<socket, outbox, request>> /\ ChatWired
  BY DEF ChatHeard, ChatIInv
<1> SUFFICES ASSUME ui.sending, ~chatPast.stranded, \A t \in Chat!Sockets : socket[t] # "dropped"
             PROVE  ChatWaits'
  BY <1>2 DEF ChatWaits
<1>3. w \in Chat!Sockets /\ socket[w] = "open" /\ request[n].at = w /\ ChatComing(n, w)
  BY <1>1 DEF ChatIInv, ChatWaits
<1>4. \A i \in 1 .. Len(inbox[w]) :
        inbox[w][i] = e \/ \E j \in 1 .. Len(inbox'[w]) : inbox'[w][j] = inbox[w][i]
  <2> SUFFICES ASSUME NEW i \in 1 .. Len(inbox[w]), inbox[w][i] # e
               PROVE  \E j \in 1 .. Len(inbox'[w]) : inbox'[w][j] = inbox[w][i]
    OBVIOUS
  <2>1. CASE w # s
    BY <1>3, <2>1 DEF ChatHeard
  <2>2. CASE w = s
    <3>1. i # 1
      BY <2>2 DEF ChatHeard
    <3>2. i - 1 \in 1 .. Len(inbox'[s]) /\ (i - 1) + 1 = i
      BY <2>2, <3>1 DEF ChatHeard
    <3> QED BY <2>2, <3>2 DEF ChatHeard
  <2> QED BY <2>1, <2>2
<1>5. ChatComing(n, w)'
  <2>1. CASE \E i \in 1 .. Len(outbox[w]) : outbox[w][i].type \in ChatAsks /\ outbox[w][i].of = n
    BY <1>2, <2>1 DEF ChatComing
  <2>2. CASE request[n].step = "running"
    BY <1>2, <2>2 DEF ChatComing
  <2>3. CASE request[n].step = "parked" /\ n \in ui.approvals
    BY <1>2, <2>3 DEF ChatComing
  <2>4. CASE /\ request[n].step = "parked"
             /\ \E i \in 1 .. Len(outbox[w]) : outbox[w][i].type = "approval" /\ outbox[w][i].of = n
    BY <1>2, <2>4 DEF ChatComing
  <2>5. CASE /\ request[n].step = "parked"
             /\ \E i \in 1 .. Len(inbox[w]) : inbox[w][i].type = "approval" /\ inbox[w][i].by = n
    BY <1>2, <1>4, <2>5 DEF ChatComing
  <2>6. CASE \E i \in 1 .. Len(inbox[w]) : inbox[w][i].type \in ChatFinals
    BY <1>4, <2>6 DEF ChatComing
  <2> QED BY <1>3, <2>1, <2>2, <2>3, <2>4, <2>5, <2>6 DEF ChatComing
<1> QED BY <1>1, <1>2, <1>3, <1>5 DEF ChatWaits

(* What an event is misread for.                                             *)
LEMMA ChatReadRight ==
  ASSUME NEW o, NEW b, o = b \/ b \in ChatLetGo
  PROVE  chatPast.misread \cup Chat!Misread(o, b) = chatPast.misread
  BY DEF Chat!Misread, ChatLetGo

LEMMA ChatSessionHeardKeeps ==
  ASSUME ChatIInv, NEW s \in Chat!Sockets, NEW e, ChatHeard(s, e), e.type = "session_id",
         ui' = [ui EXCEPT !.session = Chat!Home(e.by)],
         chatPast' = [chatPast EXCEPT !.crossed = @ \/ e.by \in chatPast.letGo]
  PROVE  ChatIInv'
<1>1. PICK b, h : b = e.by /\ h = Chat!Home(b)
  OBVIOUS
<1>2. /\ DOMAIN ui' = DOMAIN ui /\ ui'.sending = ui.sending /\ ui'.active = ui.active
      /\ ui'.session = h /\ ui'.thread = ui.thread /\ ui'.bubbles = ui.bubbles
      /\ ui'.approvals = ui.approvals /\ ui'.loads = ui.loads /\ ui'.later = ui.later
      /\ ui'.ws = ui.ws
  BY <1>1 DEF ChatIInv, ChatShapes
<1>3. /\ DOMAIN chatPast' = DOMAIN chatPast /\ ChatLetGo' = ChatLetGo
      /\ chatPast'.misread = chatPast.misread
  BY DEF ChatIInv, ChatShapes, ChatLetGo
<1>4. chatPast'.stranded = chatPast.stranded
  BY DEF ChatIInv, ChatShapes
<1>5. ~chatPast'.crossed => ~chatPast.crossed /\ b \notin ChatLetGo
  BY <1>1 DEF ChatIInv, ChatShapes, ChatLetGo
<1>6. /\ ChatRequested' /\ ChatWired' /\ ChatAsked' /\ ChatTold' /\ ChatProgress /\ ChatFading
      /\ Chat!Count' = Chat!Count /\ Chat!Count \in Chat!Requests /\ Chat!Count # 0
  BY <1>3, ChatHeardWires
<1>7. ~chatPast'.crossed => b = Chat!Count /\ ChatCurrent
  BY <1>1, <1>5, <1>6, ChatHeardOf DEF ChatCurrent
<1>8. ChatShapes'
  BY <1>2, <1>3, <1>6 DEF ChatIInv, ChatShapes
<1>9. ChatOneAwaited'
  BY <1>2, <1>6 DEF ChatIInv, ChatOneAwaited, ChatFading
<1>10. ChatActive'
  BY <1>2, <1>6, ChatActiveStays
<1>11. ChatWaits'
  <2>1. e.type \notin ChatFinals /\ e.type # "approval"
    BY DEF ChatFinals
  <2> QED BY <1>2, <1>4, <1>6, <2>1, ChatWaitsHeard
<1>12. ChatThread' /\ ChatPlans' /\ Chat!OwnEvents'
  <2>1. ~chatPast'.crossed =>
          ui.thread \subseteq {h} /\ ~ui.later.on /\ \A l \in ui.loads : l.kind = "replay" => l.moved
    BY <1>1, <1>5, <1>7 DEF ChatIInv, ChatCurrentPage
  <2> QED BY <1>2, <1>3, <2>1 DEF ChatIInv, ChatThread, ChatPlans, Chat!OwnEvents
<1>13. ChatCurrentPage'
  <2> SUFFICES ASSUME ChatCurrent' PROVE ChatCurrentPage'
    BY DEF ChatCurrentPage
  <2>1. ChatCurrent /\ Chat!Home(Chat!Count)' = Chat!Home(Chat!Count)
    BY <1>6, ChatCurrentWas
  <2>2. request' = request
    BY DEF ChatHeard
  <2>3. ~chatPast'.crossed /\ request[Chat!Count].session # 0 => h = request[Chat!Count].session
    BY <1>1, <1>7 DEF Chat!Home, Chat!Nobody
  <2> QED BY <1>2, <1>5, <1>6, <2>1, <2>2, <2>3 DEF ChatIInv, ChatCurrentPage
<1> QED BY <1>6, <1>8, <1>9, <1>10, <1>11, <1>12, <1>13 DEF ChatIInv

LEMMA ChatTextHeardKeeps ==
  ASSUME ChatIInv, NEW s \in Chat!Sockets, NEW e, ChatHeard(s, e), e.type = "text", UNCHANGED ui,
         IF Chat!LastIsPending
           THEN chatPast' = [chatPast EXCEPT !.misread = @ \cup Chat!Misread(Chat!Last(ui.bubbles), e.by)]
           ELSE UNCHANGED chatPast
  PROVE  ChatIInv'
<1>1. ASSUME Chat!LastIsPending PROVE Chat!Last(ui.bubbles) = e.by \/ e.by \in ChatLetGo
  <2> SUFFICES ASSUME e.by \notin ChatLetGo PROVE Chat!Last(ui.bubbles) = e.by
    OBVIOUS
  <2>1. PICK n, o : n = Chat!Count /\ o = Chat!Last(ui.bubbles)
    OBVIOUS
  <2>2. e.by = n /\ request[n].kind = "turn" /\ n \in Chat!Requests /\ n \in 0 .. MaxPosts
    BY <2>1, ChatHeardOf DEF ChatHeard, ChatIInv, ChatRequested, ChatSentUpTo
  <2>3. n \in 1 .. n
    BY <2>2, ChatNumbers
  <2>4. n <= o /\ ui.bubbles # <<>>
    BY <1>1, <2>1, <2>2, <2>3 DEF Chat!LastIsPending, Chat!Turn
  <2>5. ui.bubbles \in Seq(1 .. n)
    BY <2>1 DEF ChatIInv, ChatShapes
  <2>6. o \in 1 .. n
    <3>1. ASSUME NEW S, NEW bs \in Seq(S), bs # <<>> PROVE bs[Len(bs)] \in S
      <4>1. Len(bs) \in Nat /\ Len(bs) # 0
        BY <3>1
      <4>2. Len(bs) \in 1 .. Len(bs)
        BY <4>1
      <4> QED BY <4>2
    <3>2. o = ui.bubbles[Len(ui.bubbles)]
      BY <2>1 DEF Chat!Last
    <3> QED BY <2>4, <2>5, <3>1, <3>2
  <2> QED BY <2>1, <2>2, <2>4, <2>6
<1>2. /\ DOMAIN chatPast' = DOMAIN chatPast /\ ChatLetGo' = ChatLetGo
      /\ chatPast'.misread = chatPast.misread /\ chatPast'.crossed = chatPast.crossed
  <2>1. CASE Chat!LastIsPending
    <3>1. PICK x : x = Chat!Misread(Chat!Last(ui.bubbles), e.by)
      OBVIOUS
    <3>2. chatPast.misread \cup x = chatPast.misread
      BY <1>1, <2>1, <3>1, ChatReadRight
    <3>3. chatPast' = [chatPast EXCEPT !.misread = chatPast.misread \cup x]
      BY <2>1, <3>1
    <3> QED BY <3>2, <3>3 DEF ChatIInv, ChatShapes, ChatLetGo
  <2>2. CASE ~Chat!LastIsPending
    BY <2>2 DEF ChatLetGo
  <2> QED BY <2>1, <2>2
<1>3. chatPast'.stranded = chatPast.stranded
  BY DEF ChatIInv, ChatShapes
<1>4. /\ ChatRequested' /\ ChatWired' /\ ChatAsked' /\ ChatTold' /\ ChatProgress /\ ChatFading
      /\ Chat!Count' = Chat!Count
  BY <1>2, ChatHeardWires
<1>5. ChatShapes'
  BY <1>2, <1>4 DEF ChatIInv, ChatShapes
<1>6. ChatOneAwaited'
  BY <1>4 DEF ChatIInv, ChatOneAwaited, ChatFading
<1>7. ChatActive'
  BY <1>4, ChatActiveStays
<1>8. ChatWaits'
  <2>1. e.type \notin ChatFinals /\ e.type # "approval"
    BY DEF ChatFinals
  <2> QED BY <1>3, <1>4, <2>1, ChatWaitsHeard
<1>9. ChatThread' /\ ChatPlans' /\ Chat!OwnEvents'
  BY <1>2 DEF ChatIInv, ChatThread, ChatPlans, Chat!OwnEvents
<1>10. ChatCurrentPage'
  <2> SUFFICES ASSUME ChatCurrent' PROVE ChatCurrentPage'
    BY DEF ChatCurrentPage
  <2>1. ChatCurrent /\ Chat!Home(Chat!Count)' = Chat!Home(Chat!Count)
    BY <1>4, ChatCurrentWas
  <2>2. request' = request
    BY DEF ChatHeard
  <2> QED BY <1>2, <1>4, <2>1, <2>2 DEF ChatIInv, ChatCurrentPage
<1> QED BY <1>4, <1>5, <1>6, <1>7, <1>8, <1>9, <1>10 DEF ChatIInv

LEMMA ChatApprovalHeardKeeps ==
  ASSUME ChatIInv, NEW s \in Chat!Sockets, NEW e, ChatHeard(s, e), e.type = "approval",
         ui' = [ui EXCEPT !.approvals = @ \cup {e.by}], UNCHANGED chatPast
  PROVE  ChatIInv'
<1>1. /\ DOMAIN ui' = DOMAIN ui /\ ui'.sending = ui.sending /\ ui'.active = ui.active
      /\ ui'.session = ui.session /\ ui'.thread = ui.thread /\ ui'.bubbles = ui.bubbles
      /\ ui'.approvals = ui.approvals \cup {e.by} /\ ui'.loads = ui.loads /\ ui'.later = ui.later
      /\ ui'.ws = ui.ws
  BY DEF ChatIInv, ChatShapes
<1>2. ChatLetGo' = ChatLetGo
  BY DEF ChatLetGo
<1>3. /\ ChatRequested' /\ ChatWired' /\ ChatAsked' /\ ChatTold' /\ ChatProgress /\ ChatFading
      /\ Chat!Count' = Chat!Count /\ Chat!Count \in 0 .. MaxPosts
  BY <1>2, ChatHeardWires
<1>4. ChatShapes'
  <2>1. e.by \in 1 .. Chat!Count
    <3>1. e.by <= Chat!Count
      BY ChatHeardOf
    <3>2. e.by \in Chat!Requests
      BY DEF ChatHeard
    <3>3. PICK b, n : b = e.by /\ n = Chat!Count
      OBVIOUS
    <3> QED BY <1>3, <3>1, <3>2, <3>3, ChatNumbers
  <2> QED BY <1>1, <1>3, <2>1 DEF ChatIInv, ChatShapes
<1>5. ChatOneAwaited'
  BY <1>1, <1>3 DEF ChatIInv, ChatOneAwaited, ChatFading
<1>6. ChatActive'
  BY <1>1, <1>3, ChatActiveStays
<1>7. ChatWaits'
  <2>1. e.type \notin ChatFinals
    BY DEF ChatFinals
  <2> QED BY <1>1, <1>3, <2>1, ChatWaitsHeard
<1>8. ChatThread' /\ ChatPlans' /\ Chat!OwnEvents'
  BY <1>1 DEF ChatIInv, ChatThread, ChatPlans, Chat!OwnEvents
<1>9. ChatCurrentPage'
  <2> SUFFICES ASSUME ChatCurrent' PROVE ChatCurrentPage'
    BY DEF ChatCurrentPage
  <2>1. ChatCurrent /\ Chat!Home(Chat!Count)' = Chat!Home(Chat!Count)
    BY <1>3, ChatCurrentWas
  <2>2. request' = request
    BY DEF ChatHeard
  <2> QED BY <1>1, <1>3, <2>1, <2>2 DEF ChatIInv, ChatCurrentPage
<1> QED BY <1>3, <1>4, <1>5, <1>6, <1>7, <1>8, <1>9 DEF ChatIInv

LEMMA ChatCompactedHeardKeeps ==
  ASSUME ChatIInv, NEW s \in Chat!Sockets, NEW e, ChatHeard(s, e), e.type = "compacted",
         ui' = [ui EXCEPT !.sending = FALSE],
         chatPast' = [chatPast EXCEPT !.stranded = FALSE,
                        !.letGo = IF ui.sending /\ e.by # Chat!Count THEN @ \cup {Chat!Count} ELSE @]
  PROVE  ChatIInv'
<1>1. PICK n, b : n = Chat!Count /\ b = e.by
  OBVIOUS
<1>2. /\ DOMAIN ui' = DOMAIN ui /\ ui'.sending = FALSE /\ ui'.active = ui.active
      /\ ui'.session = ui.session /\ ui'.thread = ui.thread /\ ui'.bubbles = ui.bubbles
      /\ ui'.approvals = ui.approvals /\ ui'.loads = ui.loads /\ ui'.later = ui.later
      /\ ui'.ws = ui.ws
  BY DEF ChatIInv, ChatShapes
<1>3. /\ DOMAIN chatPast' = DOMAIN chatPast
      /\ ChatLetGo' = IF ui.sending /\ b # n THEN ChatLetGo \cup {n} ELSE ChatLetGo
      /\ chatPast'.misread = chatPast.misread /\ chatPast'.crossed = chatPast.crossed
  BY <1>1 DEF ChatIInv, ChatShapes, ChatLetGo
<1>4. ChatLetGo \subseteq ChatLetGo'
  BY <1>3
<1>5. /\ ChatRequested' /\ ChatWired' /\ ChatAsked' /\ ChatTold' /\ ChatProgress /\ ChatFading
      /\ Chat!Count' = n
  BY <1>1, <1>4, ChatHeardWires
<1>6. ChatOneAwaited' /\ ~ChatCurrent'
  BY <1>1, <1>3, ChatOutcome DEF ChatFinals
<1>7. ChatShapes'
  BY <1>1, <1>2, <1>3, <1>5 DEF ChatIInv, ChatShapes
<1>8. ChatActive'
  <2> SUFFICES ASSUME ui.active # 0 PROVE ChatActive'
    BY <1>2 DEF ChatActive
  <2>1. PICK a : a = ui.active
    OBVIOUS
  <2>2. /\ a \in Chat!Requests /\ a <= n /\ request[a].kind = "turn" /\ (a = n \/ a \in ChatLetGo)
        /\ ~ui.sending \/ request[n].kind = "compaction" =>
             a \in ChatLetGo /\ \E r \in ChatLetGo : r \in Chat!Requests /\ request[r].kind = "compaction"
    BY <1>1, <2>1 DEF ChatIInv, ChatActive
  <2>3. /\ b \in Chat!Requests /\ request[b].kind = "compaction"
        /\ b \notin ChatLetGo => b = n
    BY <1>1, ChatHeardOf DEF ChatHeard
  <2>4. a \in ChatLetGo' /\ \E r \in ChatLetGo' : r \in Chat!Requests /\ request[r].kind = "compaction"
    <3>1. CASE ui.sending /\ b # n
      BY <1>3, <2>2, <2>3, <3>1
    <3>2. CASE ~ui.sending \/ b = n
      BY <1>4, <2>2, <2>3, <3>2
    <3> QED BY <3>1, <3>2
  <2>5. request' = request
    BY DEF ChatHeard
  <2> QED BY <1>2, <1>5, <2>1, <2>2, <2>4, <2>5 DEF ChatActive
<1>9. ChatWaits' /\ ChatCurrentPage'
  BY <1>2, <1>6 DEF ChatWaits, ChatCurrentPage
<1>10. ChatThread' /\ ChatPlans' /\ Chat!OwnEvents'
  BY <1>2, <1>3 DEF ChatIInv, ChatThread, ChatPlans, Chat!OwnEvents
<1> QED BY <1>5, <1>6, <1>7, <1>8, <1>9, <1>10 DEF ChatIInv

(* done, error and interrupted: the wait and the active message end.         *)
LEMMA ChatEndHeardKeeps ==
  ASSUME ChatIInv, NEW s \in Chat!Sockets, NEW e, ChatHeard(s, e),
         e.type \in {"done", "error", "interrupted"}, Chat!Ended(e.by),
         DOMAIN ui' = DOMAIN ui, ui'.sending = FALSE, ui'.active = 0,
         ui'.ws = ui.ws, ui'.session = ui.session, ui'.thread = ui.thread, ui'.later = ui.later,
         ui'.bubbles \in Seq(1 .. Chat!Count), ui'.approvals \subseteq ui.approvals,
         \A l \in ui'.loads :
           \/ l \in ui.loads
           \/ /\ DOMAIN l = {"kind", "session", "moved"}
              /\ ~l.moved /\ ~chatPast.crossed => ui.session = l.session
  PROVE  ChatIInv'
<1>1. PICK n, b : n = Chat!Count /\ b = e.by
  OBVIOUS
<1>2. PICK o, x : o = ui.active /\ x = Chat!Misread(o, b)
  OBVIOUS
<1>3. chatPast' = [chatPast EXCEPT !.letGo = IF ui.sending /\ b # n THEN @ \cup {n} ELSE @,
                     !.misread = IF o \in {0} \cup chatPast.letGo THEN @ ELSE @ \cup x,
                     !.stranded = FALSE]
  BY <1>1, <1>2 DEF Chat!Ended, Chat!Nobody
<1>4. /\ DOMAIN chatPast' = DOMAIN chatPast
      /\ ChatLetGo' = IF ui.sending /\ b # n THEN ChatLetGo \cup {n} ELSE ChatLetGo
      /\ chatPast'.misread = IF o \in {0} \cup ChatLetGo THEN chatPast.misread
                             ELSE chatPast.misread \cup x
      /\ chatPast'.crossed = chatPast.crossed
  BY <1>3 DEF ChatIInv, ChatShapes, ChatLetGo
<1>5. /\ ChatRequested' /\ ChatWired' /\ ChatAsked' /\ ChatTold' /\ ChatProgress /\ ChatFading
      /\ Chat!Count' = n /\ n # 0
  BY <1>1, <1>4, ChatHeardWires
<1>6. ChatOneAwaited' /\ ~ChatCurrent'
  BY <1>1, <1>4, ChatOutcome DEF ChatFinals
<1>7. ChatShapes'
  BY <1>1, <1>4, <1>5 DEF ChatIInv, ChatShapes
<1>8. ChatActive' /\ ChatWaits' /\ ChatCurrentPage'
  BY <1>6 DEF ChatActive, ChatWaits, ChatCurrentPage
<1>9. ChatThread' /\ ChatPlans'
  BY <1>4 DEF ChatIInv, ChatThread, ChatPlans
<1>10. Chat!OwnEvents'
  <2>1. chatPast'.misread = chatPast.misread
    <3>1. CASE o \in {0} \cup ChatLetGo
      BY <1>4, <3>1
    <3>2. CASE o \notin {0} \cup ChatLetGo
      <4>1. o = n
        BY <1>1, <1>2, <3>2 DEF ChatIInv, ChatActive
      <4>2. o = b \/ b \in ChatLetGo
        BY <1>1, <4>1, ChatHeardOf
      <4>3. chatPast.misread \cup x = chatPast.misread
        BY <1>2, <4>2, ChatReadRight
      <4> QED BY <1>4, <3>2, <4>3
    <3> QED BY <3>1, <3>2
  <2> QED BY <2>1 DEF ChatIInv, Chat!OwnEvents
<1> QED BY <1>5, <1>6, <1>7, <1>8, <1>9, <1>10 DEF ChatIInv

LEMMA ChatSettles ==
  ASSUME ChatIInv
  PROVE  Chat!SettleLast(ui.bubbles) \in Seq(1 .. Chat!Count) /\ ui.bubbles \in Seq(1 .. Chat!Count)
<1>1. ui.bubbles \in Seq(1 .. Chat!Count)
  BY DEF ChatIInv, ChatShapes
<1> QED BY <1>1, ChatFront DEF Chat!SettleLast

(* A replayed answer is fetched, for the page of its session.                *)
LEMMA ChatReplayHeardKeeps ==
  ASSUME ChatIInv, NEW s \in Chat!Sockets, NEW e, ChatHeard(s, e),
         e.type = "done", e.replayed, Chat!Ended(e.by),
         ui' = [Chat!Idle(ui) EXCEPT !.approvals = {},
                  !.loads = @ \cup {[kind |-> "replay", session |-> Chat!Home(e.by),
                                     moved |-> e.by \in chatPast.letGo]}]
  PROVE  ChatIInv'
<1>1. PICK b, k : /\ b = e.by
                  /\ k = [kind |-> "replay", session |-> Chat!Home(b), moved |-> b \in chatPast.letGo]
  OBVIOUS
<1>2. k.session = Chat!Home(b) /\ DOMAIN k = {"kind", "session", "moved"}
  BY <1>1
<1>3. k.moved <=> b \in ChatLetGo
  BY <1>1 DEF ChatLetGo
<1>4. ui' = [[ui EXCEPT !.sending = FALSE, !.active = 0] EXCEPT !.approvals = {}, !.loads = @ \cup {k}]
  BY <1>1 DEF Chat!Idle, Chat!Nobody
<1>5. /\ DOMAIN ui' = DOMAIN ui /\ ui'.sending = FALSE /\ ui'.active = 0
      /\ ui'.ws = ui.ws /\ ui'.session = ui.session /\ ui'.thread = ui.thread /\ ui'.later = ui.later
      /\ ui'.bubbles = ui.bubbles /\ ui'.approvals = {} /\ ui'.loads = ui.loads \cup {k}
  BY <1>4 DEF ChatIInv, ChatShapes
<1>6. ASSUME ~k.moved, ~chatPast.crossed PROVE ui.session = k.session
  <2>1. b \notin ChatLetGo
    BY <1>3, <1>6
  <2>2. /\ b = Chat!Count /\ request[b].session # 0 /\ request[b].kind = "turn" /\ ChatLive(b)
        /\ b \in Chat!Requests
    BY <1>1, <2>1, ChatHeardOf DEF ChatHeard
  <2>3. ChatCurrent
    BY <2>1, <2>2, ChatNumbers DEF ChatCurrent
  <2>4. ui.session = request[b].session
    BY <1>6, <2>2, <2>3 DEF ChatIInv, ChatCurrentPage
  <2> QED BY <1>2, <2>2, <2>4 DEF Chat!Home, Chat!Nobody
<1>7. \A l \in ui'.loads :
        \/ l \in ui.loads
        \/ /\ DOMAIN l = {"kind", "session", "moved"}
           /\ ~l.moved /\ ~chatPast.crossed => ui.session = l.session
  BY <1>2, <1>5, <1>6
<1>8. ui'.bubbles \in Seq(1 .. Chat!Count) /\ ui'.approvals \subseteq ui.approvals
  BY <1>5, ChatSettles
<1> QED BY <1>5, <1>7, <1>8, ChatEndHeardKeeps

LEMMA ChatHandleKeeps ==
  ASSUME ChatIInv, NEW s \in Chat!Sockets, Chat!Handle(s)
  PROVE  ChatIInv'
<1>1. PICK e : e = Head(inbox[s])
  OBVIOUS
<1>2. /\ inbox[s] # <<>> /\ inbox' = [inbox EXCEPT ![s] = Tail(@)]
      /\ UNCHANGED <<socket, outbox, server, request>>
      /\ ui' = Chat!After(e)
      /\ CASE e.type \in {"done", "error", "interrupted"} -> Chat!Ended(e.by)
           [] e.type = "text" /\ Chat!LastIsPending ->
                chatPast' = [chatPast EXCEPT !.misread = @ \cup Chat!Misread(Chat!Last(ui.bubbles), e.by)]
           [] e.type = "session_id" ->
                chatPast' = [chatPast EXCEPT !.crossed = @ \/ e.by \in chatPast.letGo]
           [] e.type = "compacted" ->
                chatPast' = [chatPast EXCEPT !.stranded = FALSE,
                               !.letGo = IF ui.sending /\ e.by # Chat!Count THEN @ \cup {Chat!Count} ELSE @]
           [] OTHER -> UNCHANGED chatPast
  BY <1>1 DEF Chat!Handle
<1>3. ChatHeard(s, e)
  BY <1>1, <1>2, ChatHears DEF ChatIInv
<1>4. e.type \in {"done", "error", "interrupted", "compacted", "session_id", "text", "approval"}
  <2>1. \A x \in ChatEvents : x.type \in ChatFinals \cup {"session_id", "text", "approval"}
    BY DEF ChatEvents
  <2> QED BY <1>3, <2>1 DEF ChatHeard, ChatFinals
<1>5. CASE e.type = "session_id"
  BY <1>2, <1>3, <1>5, ChatSessionHeardKeeps DEF Chat!After
<1>6. CASE e.type = "text"
  BY <1>2, <1>3, <1>6, ChatTextHeardKeeps DEF Chat!After
<1>7. CASE e.type = "approval"
  BY <1>2, <1>3, <1>7, ChatApprovalHeardKeeps DEF Chat!After
<1>8. CASE e.type = "compacted"
  BY <1>2, <1>3, <1>8, ChatCompactedHeardKeeps DEF Chat!After
<1>9. CASE e.type = "done" /\ e.replayed
  BY <1>2, <1>3, <1>9, ChatReplayHeardKeeps DEF Chat!After
<1>10. CASE e.type \in {"done", "error", "interrupted"} /\ ~(e.type = "done" /\ e.replayed)
  <2>1. PICK bs : bs = Chat!SettleLast(ui.bubbles)
    OBVIOUS
  <2>2. \/ ui' = [[ui EXCEPT !.sending = FALSE, !.active = 0] EXCEPT !.bubbles = bs]
        \/ ui' = [[ui EXCEPT !.sending = FALSE, !.active = 0] EXCEPT !.bubbles = bs, !.approvals = {}]
    <3>1. \/ ui' = [Chat!Idle(ui) EXCEPT !.bubbles = Chat!SettleLast(@)]
          \/ ui' = [Chat!Idle(ui) EXCEPT !.bubbles = Chat!SettleLast(@), !.approvals = {}]
      BY <1>2, <1>10 DEF Chat!After
    <3>2. Chat!Idle(ui).bubbles = ui.bubbles
      BY DEF Chat!Idle, ChatIInv, ChatShapes
    <3>3. \/ ui' = [Chat!Idle(ui) EXCEPT !.bubbles = bs]
          \/ ui' = [Chat!Idle(ui) EXCEPT !.bubbles = bs, !.approvals = {}]
      BY <2>1, <3>1, <3>2
    <3> QED BY <3>3 DEF Chat!Idle, Chat!Nobody
  <2>3. /\ DOMAIN ui' = DOMAIN ui /\ ui'.sending = FALSE /\ ui'.active = 0
        /\ ui'.ws = ui.ws /\ ui'.session = ui.session /\ ui'.thread = ui.thread /\ ui'.later = ui.later
        /\ ui'.bubbles = bs /\ ui'.approvals \subseteq ui.approvals /\ ui'.loads = ui.loads
    BY <2>2 DEF ChatIInv, ChatShapes
  <2>4. bs \in Seq(1 .. Chat!Count)
    BY <2>1, ChatSettles
  <2>5. Chat!Ended(e.by)
    BY <1>2, <1>10
  <2> QED BY <1>3, <1>10, <2>3, <2>4, <2>5, ChatEndHeardKeeps
<1> QED BY <1>4, <1>5, <1>6, <1>7, <1>8, <1>9, <1>10

LEMMA ChatNextKeeps == ChatIInv /\ [Chat!Next]_Chat!vars => ChatIInv'
<1> SUFFICES ASSUME ChatIInv, [Chat!Next]_Chat!vars PROVE ChatIInv'
  OBVIOUS
<1>1. CASE Chat!Connect \/ Chat!SendLater \/ Chat!NewChat \/ Chat!Select
  BY <1>1, ChatConnectKeeps, ChatSendLaterKeeps, ChatNewChatKeeps, ChatSelectKeeps
<1>2. CASE Chat!Send \/ Chat!SendDelayed \/ Chat!Compact \/ Chat!Interrupt
  BY <1>2, ChatSendKeeps, ChatSendDelayedKeeps, ChatCompactKeeps, ChatInterruptKeeps
<1>3. ASSUME NEW s \in Chat!Sockets,
             Chat!Open(s) \/ Chat!Drop(s) \/ Chat!Closed(s) \/ Chat!Handle(s)
               \/ \E admitted \in BOOLEAN : Chat!Receive(s, admitted)
      PROVE  ChatIInv'
  BY <1>3, ChatOpenKeeps, ChatDropKeeps, ChatClosedKeeps, ChatHandleKeeps, ChatReceiveKeeps
<1>4. ASSUME NEW r \in Chat!Requests,
             Chat!Answer(r) \/ Chat!Tell(r) \/ Chat!Speak(r) \/ Chat!Ask(r) \/ Chat!Finish(r)
      PROVE  ChatIInv'
  BY <1>4, ChatAnswerKeeps, ChatTellKeeps, ChatSpeakKeeps, ChatAskKeeps, ChatFinishKeeps
<1>5. ASSUME NEW l, NEW ok \in BOOLEAN, Chat!Selected(l, ok) \/ Chat!Refetched(l, ok)
      PROVE  ChatIInv'
  BY <1>5, ChatSelectedKeeps, ChatRefetchedKeeps
<1>6. CASE UNCHANGED Chat!vars
  <2>1. UNCHANGED <<ui, socket, outbox, inbox, server, request, chatPast>>
    BY <1>6 DEF Chat!vars
  <2>2. ChatSocketStep /\ ChatLetGo' = ChatLetGo
    BY <2>1, ChatSocketsStay DEF ChatIInv, ChatLetGo
  <2>3. /\ ChatRequested' /\ ChatWired' /\ ChatAsked' /\ ChatTold' /\ ChatProgress /\ ChatFading
        /\ Chat!Count' = Chat!Count
    BY <2>1, <2>2, ChatWiresStay
  <2>4. ChatWaits'
    BY <2>1, <2>3 DEF ChatIInv, ChatWaits, ChatComing
  <2> QED BY <2>1, <2>3, <2>4, ChatPageStays DEF ChatIInv
<1> QED BY <1>1, <1>2, <1>3, <1>4, <1>5, <1>6 DEF Chat!Next

-----------------------------------------------------------------------------
(* The composition: a behaviour of the parts is one of each part.            *)

LEMMA PartsStep ==
  [Next]_vars =>
    /\ [Gui!Next]_Gui!vars /\ [Harness!Next]_Harness!vars /\ [Undo!Next]_Undo!vars
    /\ [Tools!Next]_Tools!vars /\ [Panel!Next]_Panel!vars /\ [Chat!Next]_Chat!vars
<1>1. UNCHANGED guiVars => UNCHANGED Gui!vars
  BY DEF guiVars, Gui!vars
<1>2. UNCHANGED harnessVars => UNCHANGED Harness!vars
  BY DEF harnessVars, Harness!vars
<1>3. UNCHANGED undoVars => UNCHANGED Undo!vars
  BY DEF undoVars, Undo!vars
<1>4. UNCHANGED toolVars => UNCHANGED Tools!vars
  BY DEF toolVars, Tools!vars, Tools!pol, Tools!log
<1>5. UNCHANGED panelVars => UNCHANGED Panel!vars
  BY DEF panelVars, Panel!vars
<1>6. UNCHANGED chatVars => UNCHANGED Chat!vars
  BY DEF chatVars, Chat!vars
<1>7. CASE UNCHANGED vars
  BY <1>1, <1>2, <1>3, <1>4, <1>5, <1>6, <1>7 DEF vars
<1>8. CASE Next
  BY <1>1, <1>2, <1>3, <1>4, <1>5, <1>6, <1>8 DEF Next
<1> QED BY <1>7, <1>8

LEMMA GuiInvariant == Spec => []GuiIInv
<1>1. GuiHasVersions
  BY PlatformAssumption DEF GuiHasVersions
<1>2. Init => GuiIInv
  BY <1>1, GuiInitHolds DEF Init
<1>3. GuiIInv /\ [Next]_vars => GuiIInv'
  BY <1>1, GuiNextKeeps, PartsStep
<1> QED BY <1>2, <1>3, PTL DEF Spec

(* A launch and a script have no other states than those of their types      *)
(* (gui/updater.ts).                                                         *)
THEOREM GuiTyped == Spec => []GuiTypeOK
<1>1. GuiIInv => GuiTypeOK
  BY DEF GuiIInv
<1> QED BY <1>1, GuiInvariant, PTL

(* Wherever a script dies and whatever copy fails, a whole application is at *)
(* its path or in the backup, for any number of launches, releases and       *)
(* failures (gui/updater.ts).                                                *)
THEOREM AppSurvives == Spec => []AppIsNeverLost
<1>1. GuiIInv => AppIsNeverLost
  BY GuiSurvives DEF AppIsNeverLost
<1> QED BY <1>1, GuiInvariant, PTL

(* An unattended run begins no turn at or above a ceiling, is ok only when   *)
(* the turn was done, and says of its coverage what its weakest record says, *)
(* for any number of records and any place other runs file theirs            *)
(* (harness/run.ts).                                                         *)
THEOREM RunCorrect == Spec => []RunIsHonest
<1>1. Init => HarnessIInv
  BY HarnessInitHolds DEF Init
<1>2. HarnessIInv /\ [Next]_vars => HarnessIInv'
  BY PlatformAssumption, HarnessNextKeeps, PartsStep
<1>3. HarnessIInv => RunIsHonest
  BY DEF HarnessIInv, RunIsHonest
<1> QED BY <1>1, <1>2, <1>3, PTL DEF Spec

(* Undoing one call restores the files as they were before it, or says that  *)
(* it failed and leaves them, for any files and texts, whatever was called,  *)
(* undone and changed by others before, when all that happened since the     *)
(* call has been undone (agent/runner.ts, tools/editFile.ts,                 *)
(* tools/writeFile.ts, tools/deleteFile.ts).                                 *)
THEOREM UndoCorrect == Spec => []UndoOneRestores
<1>1. Init => UndoIInv
  BY UndoInitHolds DEF Init
<1>2. UndoIInv /\ [Next]_vars => UndoIInv'
  BY UndoNextKeeps, PartsStep
<1>3. UndoIInv => UndoOneRestores
  BY DEF UndoIInv, UndoOneRestores
<1> QED BY <1>1, <1>2, <1>3, PTL DEF Spec

(* What is written or run is admitted by every readable policy file of the   *)
(* run on its own, and nothing runs with the network when one takes it away; *)
(* and a file of the audit trail that verifies and ends without a warning    *)
(* tells all that was done, refused and allowed: for any texts the policies  *)
(* name and any number of calls and failed appends (tools/registry.ts,       *)
(* core/policy.ts, core/subprocessSandbox.ts, audit/log.ts).                 *)
THEOREM GovernanceCorrect == Spec => []GovernanceHolds
<1>1. Init => ToolsIInv
  BY ToolsInitHolds DEF Init
<1>2. ToolsIInv /\ [Next]_vars => ToolsIInv'
  BY ToolsNextKeeps, PartsStep
<1>3. ToolsIInv => GovernanceHolds
  BY ToolsRunWhatEachAdmits, ToolsTellAll DEF GovernanceHolds, Tools!GovernanceHolds
<1> QED BY <1>1, <1>2, <1>3, PTL DEF Spec

LEMMA PanelInvariant == Spec => []PanelIInv
<1>1. Init => PanelIInv
  BY PanelInitHolds DEF Init
<1>2. PanelIInv /\ [Next]_vars => PanelIInv'
  BY PanelNextKeeps, PartsStep
<1> QED BY <1>1, <1>2, PTL DEF Spec

LEMMA ChatInvariant == Spec => []ChatIInv
<1>1. Init => ChatIInv
  BY ChatInitHolds DEF Init
<1>2. ChatIInv /\ [Next]_vars => ChatIInv'
  BY ChatNextKeeps, PartsStep
<1> QED BY <1>1, <1>2, PTL DEF Spec

(* What the web shows is what happened.  In a conversation, the events shown *)
(* for a turn are of that turn, the page waits for something that is still   *)
(* to come, and shows no messages of another conversation, but in the cases  *)
(* the property names (hooks/useChat.ts, lib/client.ts).  In the security    *)
(* panel, a review shown is the completed turn of the last Verify request,   *)
(* of the open workspace; the clean scan shown with it is of that workspace  *)
(* and no older; and a verification shown as running has its turn            *)
(* (DvalinWorkspace.tsx, lib/dvalinVerification.ts).  For any number of      *)
(* sockets, requests, lost connections, workspaces, turns, scans and moves.  *)
THEOREM WebCorrect == Spec => []WebIsHonest
<1>1. ChatIInv /\ PanelIInv => WebIsHonest
  BY ChatHonestNow, PanelHonestNow DEF WebIsHonest
<1> QED BY <1>1, ChatInvariant, PanelInvariant, PTL
=============================================================================
