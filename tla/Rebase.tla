------------------------------- MODULE Rebase -------------------------------
(* sync of runFixLoop (remediation/fixLoop.ts) and syncWithUpstream          *)
(* (remediation/rebase.ts): before every round the executor's uncommitted    *)
(* work is put into a temporary commit, replayed on the upstream's commit    *)
(* and taken out of that commit again.  Git's own repository is modelled as  *)
(* far as that code looks at it: the branch is a list of commits on top of a *)
(* base, each with the files it changes.                                     *)
EXTENDS Naturals, Sequences, SequencesExt

CONSTANTS
  Files,
  MaxConflictRounds,    \* --conflict-rounds
  MaxMoves              \* bound: how often upstream moves

VARIABLES
  pc,           \* where syncWithUpstream is
  upstream,     \* upstream's commit, as a number: each one contains the last
  target,       \* the last one fetched
  base,         \* what the branch is built on
  branch,       \* the commits on top of it: the executor's own, then perhaps
                \* the temporary one
  tree,         \* files with uncommitted work of the executor
  todo,         \* a rebase in progress: the commits still to be replayed
  replayed,     \* and those already replayed
  unmerged,     \* files in conflict
  marked,       \* those with conflict markers in them
  attempt,
  baseCommit,   \* input.baseCommit: what the loop measures the work against
  baselineOf,   \* the commit baselineSnapshots was scanned at
  result,
  asked         \* history: the branch, base and tree sync began with

repo == <<base, branch, tree, todo, replayed, unmerged, marked>>
loop == <<baseCommit, baselineOf>>
vars == <<pc, upstream, target, repo, attempt, loop, result, asked>>

Own == "own"
Wip == "wip"
Commits == [by : {Own, Wip}, changes : (SUBSET Files) \ {{}}]

(* HEAD carries the temporary commit: its subject is all the code looks at. *)
WipOnTop(commits) == commits # <<>> /\ Last(commits).by = Wip
InProgress == todo # <<>>
Clear == todo' = <<>> /\ replayed' = <<>> /\ unmerged' = {}

Init ==
  /\ pc = "work" /\ upstream = 0 /\ target = 0 /\ base = 0 /\ branch = <<>> /\ tree = {}
  /\ todo = <<>> /\ replayed = <<>> /\ unmerged = {} /\ marked = {} /\ attempt = 0
  /\ baseCommit = <<0, <<>>>> /\ baselineOf = <<0, <<>>>> /\ result = "none"
  /\ asked = [base |-> 0, branch |-> <<>>, tree |-> {}]

-----------------------------------------------------------------------------
UpstreamMoves ==
  /\ upstream < MaxMoves
  /\ upstream' = upstream + 1
  /\ UNCHANGED <<pc, target, repo, attempt, loop, result, asked>>

(* A turn of the executor: edits, and commits although its prompt forbids   *)
(* them.                                                                    *)
Edit(files, commits) ==
  /\ pc = "work" /\ Len(branch) = 0
  /\ IF commits
     THEN branch' = Append(branch, [by |-> Own, changes |-> files]) /\ UNCHANGED tree
     ELSE tree' = files /\ UNCHANGED branch
  /\ UNCHANGED <<pc, upstream, target, base, todo, replayed, unmerged, marked, attempt, loop, result, asked>>

(* fetchIfRemote, the target, the ancestor test and the temporary commit.   *)
(* A fetch that fails leaves the last fetched ref.                          *)
Sync(fetches) ==
  /\ pc = "work"
  /\ target' = IF fetches THEN upstream ELSE target
  /\ asked' = [base |-> base, branch |-> branch, tree |-> tree]
  /\ IF target' <= baseCommit[1]
     THEN result' = "up-to-date" /\ pc' = "synced" /\ UNCHANGED <<repo, attempt>>
     ELSE LET temporary == IF tree = {} THEN branch
                           ELSE Append(branch, [by |-> Wip, changes |-> tree])
          IN  /\ branch' = temporary /\ tree' = {}
              /\ todo' = temporary /\ replayed' = <<>>
              /\ attempt' = 0 /\ pc' = "replay"
              /\ UNCHANGED <<base, unmerged, marked, result>>
  /\ UNCHANGED <<upstream, loop>>

(* Git replays the next commit: it applies, it is dropped because upstream  *)
(* made the same change, or it stops on conflicts.  A conflict between a    *)
(* change and a deletion leaves no markers.                                 *)
Apply(commit, conflicts, unmarked) ==
  IF conflicts = {}
  THEN /\ todo' = Tail(todo) /\ replayed' = Append(replayed, commit)
       /\ UNCHANGED <<pc, unmerged, marked>>
  ELSE /\ unmerged' = conflicts /\ marked' = conflicts \ unmarked
       /\ pc' = "stopped" /\ UNCHANGED <<todo, replayed>>

Replay(conflicts, unmarked) ==
  /\ pc = "replay" /\ InProgress
  /\ conflicts \subseteq Head(todo).changes /\ unmarked \subseteq conflicts
  /\ Apply(Head(todo), conflicts, unmarked)
  /\ UNCHANGED <<upstream, target, base, branch, tree, attempt, loop, result, asked>>

Drop ==
  /\ pc = "replay" /\ InProgress
  /\ todo' = Tail(todo)
  /\ UNCHANGED <<pc, upstream, target, base, branch, tree, replayed, unmerged, marked, attempt, loop, result, asked>>

(* Mutant: what the executor leaves is committed whether or not it holds    *)
(* markers.                                                                 *)
ResolveUnread(left, empty) ==
  /\ pc = "stopped" /\ attempt < MaxConflictRounds
  /\ attempt' = attempt + 1
  /\ left \subseteq marked
  /\ unmerged' = {} /\ marked' = left
  /\ replayed' = Append(replayed, Head(todo)) /\ todo' = Tail(todo)
  /\ pc' = "replay"
  /\ UNCHANGED <<upstream, target, base, branch, tree, loop, result, asked>>

(* resolveConflicts: the executor edits the files in conflict, and leaves   *)
(* markers in some of them, which is another attempt.  Otherwise `add -A`   *)
(* and `rebase --continue`, which drops a commit that has become empty.     *)
Resolve(left, empty) ==
  /\ pc = "stopped" /\ attempt < MaxConflictRounds
  /\ attempt' = attempt + 1
  /\ left \subseteq marked
  /\ IF left # {}
     THEN marked' = left /\ UNCHANGED <<pc, todo, replayed, unmerged>>
     ELSE /\ unmerged' = {} /\ marked' = {} /\ todo' = Tail(todo)
          /\ replayed' = IF empty THEN replayed ELSE Append(replayed, Head(todo))
          /\ pc' = "replay"
  /\ UNCHANGED <<upstream, target, base, branch, tree, loop, result, asked>>

(* The executor fails, or any git command the code does not catch: the      *)
(* rebase stays in progress, with the work in the temporary commit.         *)
Throw ==
  /\ pc \in {"stopped", "replay", "rescan"}
  /\ pc' = "ended" /\ result' = "threw"
  /\ UNCHANGED <<upstream, target, repo, attempt, loop, asked>>

UndoWip(commits, work) ==
  IF WipOnTop(commits)
  THEN branch' = Front(commits) /\ tree' = Last(commits).changes
  ELSE branch' = commits /\ tree' = work

(* Mutant: the temporary commit is left after an abort.                     *)
GiveUpCommitted(aborts) ==
  /\ pc = "stopped" /\ attempt = MaxConflictRounds
  /\ result' = "conflict" /\ pc' = "ended"
  /\ IF aborts
     THEN Clear /\ marked' = {} /\ UNCHANGED <<branch, tree>>
     ELSE UNCHANGED <<branch, tree, todo, replayed, unmerged, marked>>
  /\ UNCHANGED <<upstream, target, base, attempt, loop, asked>>

(* Out of attempts: `rebase --abort`, whose failure is not looked at.       *)
GiveUp(aborts) ==
  /\ pc = "stopped" /\ attempt = MaxConflictRounds
  /\ result' = "conflict" /\ pc' = "ended"
  /\ IF aborts
     THEN Clear /\ marked' = {} /\ UndoWip(branch, {})
     ELSE UNCHANGED <<branch, tree, todo, replayed, unmerged, marked>>
  /\ UNCHANGED <<upstream, target, base, attempt, loop, asked>>

(* Mutant: HEAD is read before the temporary commit is taken out.           *)
LandEarly ==
  /\ pc = "replay" /\ ~InProgress
  /\ base' = target
  /\ UndoWip(replayed, {})
  /\ Clear
  /\ baseCommit' = <<target, replayed>>
  /\ pc' = "rescan"
  /\ UNCHANGED <<upstream, target, marked, attempt, baselineOf, result, asked>>

(* The rebase is over: HEAD is on upstream's commit, and is the new base    *)
(* once the temporary commit is off it.                                     *)
Land ==
  /\ pc = "replay" /\ ~InProgress
  /\ base' = target
  /\ UndoWip(replayed, {})
  /\ Clear
  /\ baseCommit' = <<target, branch'>>
  /\ pc' = "rescan"
  /\ UNCHANGED <<upstream, target, marked, attempt, baselineOf, result, asked>>

(* The baseline is scanned again at the new base.                           *)
Rescan ==
  /\ pc = "rescan"
  /\ baselineOf' = baseCommit /\ result' = "rebased" /\ pc' = "synced"
  /\ UNCHANGED <<upstream, target, repo, attempt, baseCommit, asked>>

(* The round goes on to its observation, and the next turn edits again.     *)
NextRound ==
  /\ pc = "synced"
  /\ pc' = "work" /\ result' = "none"
  /\ UNCHANGED <<upstream, target, repo, attempt, loop, asked>>

Next ==
  \/ UpstreamMoves
  \/ \E files \in (SUBSET Files) \ {{}}, commits \in BOOLEAN : Edit(files, commits)
  \/ \E fetches \in BOOLEAN : Sync(fetches)
  \/ Drop
  \/ \E conflicts, unmarked \in SUBSET Files : Replay(conflicts, unmarked)
  \/ \E left \in SUBSET Files, empty \in BOOLEAN : Resolve(left, empty)
  \/ Throw
  \/ \E aborts \in BOOLEAN : GiveUp(aborts)
  \/ Land \/ Rescan \/ NextRound

Spec == Init /\ [][Next]_vars

-----------------------------------------------------------------------------
(* Wherever the rebase stops, the work it began with is kept: a conflict    *)
(* handed to a person leaves the branch and the tree as they were, unless   *)
(* `rebase --abort` itself fails; a throw leaves the work in a commit; and  *)
(* a finished rebase leaves no temporary commit and no conflict marker.     *)
WorkSurvives ==
  /\ result = "conflict" /\ ~InProgress =>
       <<base, branch, tree>> = <<asked.base, asked.branch, asked.tree>>
  /\ result \in {"conflict", "threw"} /\ base = asked.base /\ tree # asked.tree =>
       WipOnTop(branch) /\ Last(branch).changes = asked.tree
  /\ pc \in {"synced", "work"} => ~WipOnTop(branch) /\ marked = {} /\ ~InProgress

(* What a round is judged against is what its change sits on: the baseline  *)
(* was scanned at the commit the work is measured from, which contains the  *)
(* upstream commit that was fetched and no temporary commit.                *)
JudgedOnBase ==
  result \in {"up-to-date", "rebased"} =>
    /\ baselineOf = baseCommit /\ baseCommit[1] = base /\ target <= base
    /\ ~WipOnTop(baseCommit[2])

(* A rebase keeps the work, and what the loop then judges is on its base.   *)
RebaseKeepsWork == WorkSurvives /\ JudgedOnBase
=============================================================================
