----------------------------- MODULE CliUpdate -----------------------------
(* `dvalincode update` (commands/update.ts, core/selfUpdate.ts): find the    *)
(* release, download its archive and its checksums, and put the new binary   *)
(* and the new web/ directory where the old ones were.  Two updates may run  *)
(* at once, any of them may die, and a file operation may fail.  What GitHub *)
(* serves is external: a release is published, an archive may arrive damaged *)
(* or lack a part.                                                           *)
EXTENDS Naturals, FiniteSets

CONSTANTS
  Updaters,     \* processes
  MaxVersion,   \* bound: versions are 1 .. MaxVersion, in semver order
  Prereleases,  \* those that are prereleases
  MaxFaults     \* bound: processes that die and operations that fail

VARIABLES
  published,    \* versions
  installed,    \* version of the binary, of web/, and of what `npm` installed
  up,           \* per process: its update
  faults,
  overlapped    \* history: two updates were under way at once

vars == <<published, installed, up, faults, overlapped>>

Versions == 1 .. MaxVersion
None == 0

Idle == [step |-> "idle", release |-> None, archive |-> "good", wants |-> "newer"]

Init ==
  /\ published = {1}
  /\ installed = [binary |-> 1, web |-> 1, npm |-> 1]
  /\ up = [u \in Updaters |-> Idle] /\ faults = 0 /\ overlapped = FALSE

Publish(v) ==
  /\ v \notin published
  /\ published' = published \cup {v}
  /\ UNCHANGED <<installed, up, faults, overlapped>>

-----------------------------------------------------------------------------
(* fetchLatestRelease: the newest stable release, or the newest of all.      *)
Latest(release, prerelease) ==
  LET candidates == IF prerelease THEN published ELSE published \ Prereleases
  IN  release \in candidates /\ \A v \in candidates : v <= release

(* Mutant: any release but the installed one counts as an update.            *)
StartUnordered(u, method, release, prerelease, wants, goes) ==
  LET current == IF method = "npm" THEN installed.npm ELSE installed.binary
  IN  /\ Latest(release, prerelease)
      /\ up[u].step = "idle"
      /\ (release # current \/ wants = "any") /\ goes
      /\ up' = [up EXCEPT ![u] = [Idle EXCEPT !.step = IF method = "npm" THEN "npm" ELSE "download",
                                             !.release = release, !.wants = wants]]
      /\ overlapped' = (overlapped \/ \E v \in Updaters \ {u} : up[v].step # "idle")
      /\ UNCHANGED <<published, installed, faults>>

(* runUpdate up to the confirmation, in a process of the installed binary;   *)
(* --check, --json and a refused confirmation end here.                      *)
Start(u, method, release, prerelease, wants, goes) ==
  LET current == IF method = "npm" THEN installed.npm ELSE installed.binary
  IN  /\ Latest(release, prerelease)
      /\ up[u].step = "idle"
      /\ (release > current \/ wants = "any") /\ goes
      /\ up' = [up EXCEPT ![u] = [Idle EXCEPT !.step = IF method = "npm" THEN "npm" ELSE "download",
                                             !.release = release, !.wants = wants]]
      /\ overlapped' = (overlapped \/ \E v \in Updaters \ {u} : up[v].step # "idle")
      /\ UNCHANGED <<published, installed, faults>>

Goes(u, step) == up' = [up EXCEPT ![u].step = step]
Ends(u) == up' = [up EXCEPT ![u] = Idle]

(* applyBinaryUpdate.  The archive and its checksum file are fetched into a  *)
(* directory of this process; a download that fails ends the update.         *)
Download(u, archive) ==
  /\ up[u].step = "download"
  /\ \/ up' = [up EXCEPT ![u].step = "verify", ![u].archive = archive]
     \/ Ends(u)
  /\ UNCHANGED <<published, installed, faults, overlapped>>

(* Mutant: the checksum is not compared.                                     *)
VerifyNothing(u) ==
  /\ up[u].step = "verify"
  /\ Goes(u, "extract")
  /\ UNCHANGED <<published, installed, faults, overlapped>>

Verify(u) ==
  /\ up[u].step = "verify"
  /\ IF up[u].archive = "damaged" THEN Ends(u) ELSE Goes(u, "extract")
  /\ UNCHANGED <<published, installed, faults, overlapped>>

(* Mutant: the binary is swapped before web/ is looked for.                  *)
ExtractLate(u) ==
  /\ up[u].step = "extract"
  /\ IF up[u].archive = "without web"
     THEN Ends(u) /\ installed' = [installed EXCEPT !.binary = up[u].release]
     ELSE Goes(u, "binary") /\ UNCHANGED installed
  /\ UNCHANGED <<published, faults, overlapped>>

(* tar, findArchiveRoot, findBinary and the look for web/.                   *)
Extract(u) ==
  /\ up[u].step = "extract"
  /\ IF up[u].archive = "without web" THEN Ends(u) ELSE Goes(u, "binary")
  /\ UNCHANGED <<published, installed, faults, overlapped>>

Installs(u, part) ==
  installed' = [installed EXCEPT ![part] = IF up[u].archive = "damaged" THEN None ELSE up[u].release]

(* The binary is replaced by one rename.                                     *)
SwapBinary(u) ==
  /\ up[u].step = "binary"
  /\ Installs(u, "binary") /\ Goes(u, "remove web")
  /\ UNCHANGED <<published, faults, overlapped>>

RemoveWeb(u) ==
  /\ up[u].step = "remove web"
  /\ installed' = [installed EXCEPT !.web = None] /\ Goes(u, "web")
  /\ UNCHANGED <<published, faults, overlapped>>

(* A directory is not renamed onto another update's web/.                    *)
SwapWeb(u) ==
  /\ up[u].step = "web"
  /\ IF installed.web = None THEN Installs(u, "web") ELSE UNCHANGED installed
  /\ Ends(u)
  /\ UNCHANGED <<published, faults, overlapped>>

(* applyNpmUpdate: what npm does is all or nothing.                          *)
Npm(u, works) ==
  /\ up[u].step = "npm"
  /\ installed' = IF works THEN [installed EXCEPT !.npm = up[u].release] ELSE installed
  /\ Ends(u)
  /\ UNCHANGED <<published, faults, overlapped>>

(* The process dies, or a file operation of it fails: what was done stays.   *)
Break(u) ==
  /\ up[u].step # "idle" /\ faults < MaxFaults
  /\ faults' = faults + 1
  /\ Ends(u)
  /\ UNCHANGED <<published, installed, overlapped>>

Next ==
  \/ \E v \in Versions : Publish(v)
  \/ \E u \in Updaters :
       \/ \E method \in {"binary", "npm"} : \E release \in published :
            \E wants \in {"newer", "any"} : \E prerelease, goes \in BOOLEAN : Start(u, method, release, prerelease, wants, goes)
       \/ \E archive \in {"good", "damaged", "without web"} : Download(u, archive)
       \/ Verify(u) \/ Extract(u) \/ SwapBinary(u) \/ RemoveWeb(u) \/ SwapWeb(u)
       \/ \E works \in BOOLEAN : Npm(u, works)
       \/ Break(u)

Spec == Init /\ [][Next]_vars

-----------------------------------------------------------------------------
Swapping == {"remove web", "web"}

(* Whatever dies or overlaps, the binary is a published release, whole; and  *)
(* without either, it and web/ are of one release whenever no update is      *)
(* between its two swaps, however the update ended.                          *)
InstallIsWhole ==
  /\ installed.binary \in published /\ installed.npm \in published
  /\ installed.web \in published \cup {None}
  /\ faults = 0 /\ ~overlapped /\ (\A u \in Updaters : up[u].step \notin Swapping)
       => installed.web = installed.binary

(* Nothing goes back to an older release unless that was forced or two       *)
(* updates overlapped.                                                       *)
Forward ==
  \A part \in {"binary", "npm"} :
    installed'[part] < installed[part] => overlapped \/ \E u \in Updaters : up[u].wants = "any"
NeverBack == [][Forward]_vars
=============================================================================
