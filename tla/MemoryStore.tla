----------------------------- MODULE MemoryStore -----------------------------
(* The local memory (memory/store.ts): one file of entries per scope, read,  *)
(* changed and written back in place by the memory tools of any session, by  *)
(* the import of other agents' notes (memory/importers.ts) and by the        *)
(* restore of a backup (data/archive.ts).  There is no lock, and a file that *)
(* cannot be parsed reads as no entries.                                     *)
EXTENDS Naturals, Sequences, FiniteSets, Functions

CONSTANTS
  Scopes,           \* candidateDirs: the directories, in the order they are searched
  Texts,            \* contents, as normalizeForDedupe tells them apart
  Secrets,          \* those of Texts that hold something to redact
  Mask,             \* what is left of one of those
  Writers,          \* sessions, commands and servers at work at a time
  MaxOps,           \* bound: operations begun
  MaxUpsets         \* bound: crashes and hand edits

VARIABLES
  disk,             \* per scope: entries.json
  markdown,         \* per scope: the entries MEMORY.md shows
  work,             \* per writer: the operation it is in
  bundle,           \* per scope: what the last backup has of it
  ids,              \* entry ids handed out
  ops, upsets,
  truth             \* history: what should be there, and what may be missing

vars == <<disk, markdown, work, bundle, ids, ops, upsets, truth>>

Places == Range(Scopes)
Absent == [status |-> "absent", entries |-> {}]
Torn == [status |-> "torn", entries |-> {}]
Whole(entries) == [status |-> "whole", entries |-> entries]
Rest == [op |-> "none", step |-> "idle", dirs |-> <<>>, text |-> Mask, id |-> 0, copy |-> Absent,
         left |-> <<>>, known |-> {}, imported |-> 0, added |-> 0, alone |-> TRUE]
NoTruth == [live |-> [s \in Places |-> {}], risk |-> {}, updated |-> {}, stale |-> {}, miscounted |-> FALSE]

Init ==
  /\ disk = [s \in Places |-> Absent] /\ markdown = [s \in Places |-> {}]
  /\ work = [w \in Writers |-> Rest] /\ bundle = [s \in Places |-> Absent]
  /\ ids = 0 /\ ops = 0 /\ upsets = 0 /\ truth = NoTruth

-----------------------------------------------------------------------------
Stored(text) == IF text \in Secrets THEN Mask ELSE text

(* Mutant: the new content is compared as it came in.                        *)
SameAsGiven(entry, text) == entry.text = text

Same(entry, text) == entry.text = Stored(text)

ReadEntries(s) == disk[s].entries

Scope(w) == Head(work[w].dirs)

(* The other writers that hold a copy of a scope's entries and will write    *)
(* it, and those that still owe the Markdown.                                *)
Holders(w, s) == {v \in Writers \ {w} : work[v].step \in {"truncate", "fill"} /\ Scope(v) = s}
Owing(w, s) == {v \in Writers \ {w} : work[v].step = "markdown" /\ Scope(v) = s}

IdsOf(entries) == {e.id : e \in entries}

(* The entries an operation stands for: a restore replaces all there are.    *)
Touched(v, s) ==
  IF work[v].op = "restore" THEN IdsOf(work[v].copy.entries) \cup IdsOf(truth.live[s]) ELSE {work[v].id}

(* A writer comes to hold a copy.  What it may cost: of operations that      *)
(* overlap, the entries they are about; of a file it could not read, all.    *)
Hold(w, record) ==
  LET s == Head(record.dirs)
      others == Holders(w, s)
      mine == IF record.op = "restore" THEN IdsOf(record.copy.entries) \cup IdsOf(truth.live[s]) ELSE {record.id}
  IN  /\ work' = [work EXCEPT ![w] = [record EXCEPT !.step = "truncate"]]
      /\ truth' = [truth EXCEPT
           !.risk = @ \cup (IF others = {} THEN {} ELSE mine \cup UNION {Touched(v, s) : v \in others})
                      \cup (IF disk[s].status = "torn" /\ record.op # "restore" THEN IdsOf(truth.live[s]) ELSE {}),
           !.stale = IF others \cup Owing(w, s) = {} THEN @ ELSE @ \cup {s}]

Begin(w) == work[w].step = "idle" /\ ops < MaxOps /\ ops' = ops + 1

(* memory_write.                                                             *)
Write(w, s, text) ==
  /\ Begin(w)
  /\ work' = [work EXCEPT ![w] = [Rest EXCEPT !.op = "add", !.step = "read", !.dirs = <<s>>, !.text = text]]
  /\ UNCHANGED <<disk, markdown, bundle, ids, upsets, truth>>

(* memory_update and memory_delete, of an entry a search has shown.          *)
Change(w, op, id, text) ==
  /\ Begin(w) /\ id \in 1 .. ids
  /\ work' = [work EXCEPT ![w] = [Rest EXCEPT !.op = op, !.step = "seek", !.dirs = Scopes, !.text = text, !.id = id]]
  /\ UNCHANGED <<disk, markdown, bundle, ids, upsets, truth>>

(* importMemory: candidates of another agent's notes, without repetitions.   *)
Import(w, s, candidates) ==
  /\ Begin(w)
  /\ work' = [work EXCEPT ![w] = [Rest EXCEPT !.op = "import", !.step = "list", !.dirs = <<s>>, !.left = candidates]]
  /\ UNCHANGED <<disk, markdown, bundle, ids, upsets, truth>>

(* addMemoryEntries: what is known before the first candidate.               *)
List(w) ==
  /\ work[w].step = "list"
  /\ work' = [work EXCEPT ![w].step = "next", ![w].known = {e.text : e \in ReadEntries(Scope(w))}]
  /\ UNCHANGED <<disk, markdown, bundle, ids, ops, upsets, truth>>

(* A candidate that is known is skipped.                                     *)
NextCandidate(w) ==
  /\ work[w].step = "next"
  /\ LET r == work[w]
     IN  IF r.left = <<>>
         THEN /\ work' = [work EXCEPT ![w] = Rest]
              /\ truth' = [truth EXCEPT !.miscounted = @ \/ (r.alone /\ r.imported # r.added)]
         ELSE /\ LET t == Head(r.left)
                     now == [r EXCEPT !.left = Tail(@)]
                 IN  work' = [work EXCEPT ![w] =
                       IF t \in r.known THEN now
                       ELSE [now EXCEPT !.step = "read", !.text = t, !.known = @ \cup {t},
                                        !.imported = @ + 1, !.alone = @ /\ t \notin Secrets]]
              /\ UNCHANGED truth
  /\ UNCHANGED <<disk, markdown, bundle, ids, ops, upsets>>

(* What comes after one entry: the next candidate, or the end.               *)
After(record) == IF record.op = "import" THEN [record EXCEPT !.step = "next"] ELSE Rest

(* addMemoryEntry: the entries are read, and a duplicate is returned as if   *)
(* it had been added.                                                        *)
Read(w) ==
  /\ work[w].step = "read"
  /\ LET r == work[w]
         entries == ReadEntries(Scope(w))
     IN  IF \E e \in entries : Same(e, r.text)
         THEN work' = [work EXCEPT ![w] = After(r)] /\ UNCHANGED <<ids, truth>>
         ELSE /\ ids' = ids + 1
              /\ Hold(w, [r EXCEPT !.id = ids + 1, !.added = @ + 1,
                            !.copy = Whole(entries \cup {[id |-> ids + 1, text |-> Stored(r.text)]})])
  /\ UNCHANGED <<disk, markdown, bundle, ops, upsets>>

(* Mutant: an update is put beside what it replaces.                         *)
Appended(record, entries) ==
  IF record.op = "update" THEN entries \cup {[id |-> record.id, text |-> Stored(record.text)]}
  ELSE {e \in entries : e.id # record.id}

(* What an update or a deletion makes of the entries it found its own in.    *)
Changed(record, entries) ==
  {e \in entries : e.id # record.id}
    \cup (IF record.op = "update" THEN {[id |-> record.id, text |-> Stored(record.text)]} ELSE {})

(* updateMemoryEntry and deleteMemoryEntry: one directory after the other.   *)
Seek(w) ==
  /\ work[w].step = "seek"
  /\ LET r == work[w]
         entries == ReadEntries(Scope(w))
     IN  IF r.id \in IdsOf(entries) THEN Hold(w, [r EXCEPT !.copy = Whole(Changed(r, entries))])
         ELSE /\ work' = [work EXCEPT ![w] = IF Len(r.dirs) = 1 THEN Rest ELSE [r EXCEPT !.dirs = Tail(@)]]
              /\ UNCHANGED truth
  /\ UNCHANGED <<disk, markdown, bundle, ids, ops, upsets>>

(* writeEntries: the file is opened, which empties it, and then written.     *)
Truncate(w) ==
  /\ work[w].step = "truncate"
  /\ disk' = [disk EXCEPT ![Scope(w)] = Torn]
  /\ work' = [work EXCEPT ![w].step = "fill"]
  /\ UNCHANGED <<markdown, bundle, ids, ops, upsets, truth>>

(* What should be there after an operation.                                  *)
Promised(r, live) ==
  CASE r.op = "restore" -> r.copy.entries
    [] r.op = "delete" -> {e \in live : e.id # r.id}
    [] OTHER -> {e \in live : e.id # r.id} \cup {[id |-> r.id, text |-> Stored(r.text)]}

(* If another has filled the file meanwhile, and what it wrote is longer,    *)
(* the rest of that stays behind the text.                                   *)
Fill(w) ==
  /\ work[w].step = "fill"
  /\ LET r == work[w]
         s == Scope(w)
     IN  /\ \E content \in {r.copy} \cup (IF disk[s].status = "whole" THEN {Torn} ELSE {}) :
              disk' = [disk EXCEPT ![s] = content]
         /\ work' = [v \in Writers |->
              IF v = w THEN [r EXCEPT !.step = "markdown"]
              ELSE IF work[v].op = "import" /\ Scope(v) = s THEN [work[v] EXCEPT !.alone = FALSE]
              ELSE work[v]]
         /\ truth' = [truth EXCEPT !.live[s] = Promised(r, @),
                                   !.updated = IF r.op = "update" THEN @ \cup {r.id} ELSE @]
  /\ UNCHANGED <<markdown, bundle, ids, ops, upsets>>

(* MEMORY.md, of the same entries; nobody reads it back.                     *)
Markdown(w) ==
  /\ work[w].step = "markdown"
  /\ LET r == work[w]
         s == Scope(w)
     IN  /\ markdown' = [markdown EXCEPT ![s] = r.copy.entries]
         /\ truth' = [truth EXCEPT !.stale = IF Holders(w, s) \cup Owing(w, s) = {} /\ disk[s] = r.copy
                                             THEN @ \ {s} ELSE @]
         /\ work' = [work EXCEPT ![w] =
              IF r.op = "restore" /\ Len(r.dirs) > 1 THEN [r EXCEPT !.dirs = Tail(@), !.step = "restore"]
              ELSE After(r)]
  /\ UNCHANGED <<disk, bundle, ids, ops, upsets>>

-----------------------------------------------------------------------------
(* exportData takes each file as it is when it comes to it.                  *)
Export(s) ==
  /\ bundle' = [bundle EXCEPT ![s] = disk[s]]
  /\ UNCHANGED <<disk, markdown, work, ids, ops, upsets, truth>>

(* importData, of files the bundle has; without overwrite, of those that are *)
(* missing.                                                                  *)
Restore(w) ==
  /\ Begin(w) /\ \E s \in Places : bundle[s] # Absent
  /\ work' = [work EXCEPT ![w] = [Rest EXCEPT !.op = "restore", !.step = "restore", !.dirs = Scopes]]
  /\ UNCHANGED <<disk, markdown, bundle, ids, upsets, truth>>

RestoreFile(w, overwrite) ==
  /\ work[w].step = "restore"
  /\ LET s == Scope(w)
         r == work[w]
     IN  IF bundle[s] = Absent \/ (~overwrite /\ disk[s] # Absent)
         THEN /\ work' = [work EXCEPT ![w] = IF Len(r.dirs) = 1 THEN Rest ELSE [r EXCEPT !.dirs = Tail(@)]]
              /\ UNCHANGED truth
         ELSE Hold(w, [r EXCEPT !.copy = bundle[s]])
  /\ UNCHANGED <<disk, markdown, bundle, ids, ops, upsets>>

(* The process ends.                                                         *)
Crash(w) ==
  /\ work[w].step # "idle" /\ upsets < MaxUpsets
  /\ upsets' = upsets + 1
  /\ work' = [work EXCEPT ![w] = Rest]
  /\ truth' = IF work[w].step \in {"fill", "markdown"} THEN [truth EXCEPT !.stale = @ \cup {Scope(w)}] ELSE truth
  /\ UNCHANGED <<disk, markdown, bundle, ids, ops>>

(* The user edits entries.json, as MEMORY.md suggests, and leaves out a      *)
(* comma.                                                                    *)
HandEdit(s) ==
  /\ disk[s].status = "whole" /\ upsets < MaxUpsets
  /\ upsets' = upsets + 1 /\ disk' = [disk EXCEPT ![s] = Torn]
  /\ truth' = [truth EXCEPT !.stale = @ \cup {s}]
  /\ UNCHANGED <<markdown, work, bundle, ids, ops>>

Candidates == {c \in [1 .. 2 -> Texts] : c[1] # c[2]}

Next ==
  \/ \E w \in Writers :
       \/ \E s \in Places, t \in Texts : Write(w, s, t)
       \/ \E id \in 1 .. MaxOps, t \in Texts : Change(w, "update", id, t)
       \/ \E id \in 1 .. MaxOps : Change(w, "delete", id, Mask)
       \/ \E s \in Places, c \in Candidates : Import(w, s, c)
       \/ List(w) \/ NextCandidate(w) \/ Read(w) \/ Seek(w)
       \/ Truncate(w) \/ Fill(w) \/ Markdown(w)
       \/ Restore(w) \/ Crash(w)
       \/ \E overwrite \in BOOLEAN : RestoreFile(w, overwrite)
  \/ \E s \in Places : Export(s) \/ HandEdit(s)

Spec == Init /\ [][Next]_vars

-----------------------------------------------------------------------------
(* Nobody is between reading and writing the entries of a scope.             *)
Quiet(s) == \A w \in Writers : work[w].step \in {"truncate", "fill"} => Scope(w) # s

(* The file of a scope holds what the operations have promised; of those     *)
(* that overlapped, only the entries they were about may be wrong, whatever  *)
(* else was there, and of a file that once could not be read, any.           *)
EntriesAddUp ==
  \A s \in Places : Quiet(s) /\ disk[s].status = "whole" =>
    \A e \in (disk[s].entries \ truth.live[s]) \cup (truth.live[s] \ disk[s].entries) : e.id \in truth.risk

(* No content is there twice, redacted or not, but by an update or a race.   *)
NoTwins ==
  \A s \in Places : \A e, f \in disk[s].entries :
    e.text = f.text => e = f \/ {e.id, f.id} \cap (truth.updated \cup truth.risk) # {}

(* An import says how many entries it added, unless another was at work, or  *)
(* a candidate is redacted: what is known is compared with the content as it *)
(* came in.                                                                  *)
ImportsAddUp == ~truth.miscounted

(* What the reader of MEMORY.md sees are the entries, up to a race or a      *)
(* crash, and the next write repairs that.                                   *)
MarkdownAgrees ==
  \A s \in Places :
    (\A w \in Writers : work[w].step \in {"truncate", "fill", "markdown"} => Scope(w) # s)
      /\ disk[s].status = "whole" /\ s \notin truth.stale =>
        markdown[s] = disk[s].entries

(* The memory is what its users made it.                                     *)
MemoryIsKept == EntriesAddUp /\ NoTwins /\ ImportsAddUp /\ MarkdownAgrees

(* Bound: of long runs of operations, two scopes in use, a backup and an     *)
(* upset, not all; few entries; one import at a time.                        *)
Oddities ==
  upsets + (IF \E s \in Places : bundle[s] # Absent THEN 1 ELSE 0)
         + (IF \A s \in Places : disk[s] # Absent THEN 1 ELSE 0)
ShortMemory ==
  ops + Oddities <= 3 /\ ids <= 3 /\ Cardinality({w \in Writers : work[w].op = "import"}) <= 1
=============================================================================
