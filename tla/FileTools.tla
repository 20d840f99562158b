----------------------------- MODULE FileTools -----------------------------
(* The file tools (tools/writeFile.ts, editFile.ts, deleteFile.ts) and       *)
(* `/undo [N]` over the stack of calls that succeeded (agent/runner.ts       *)
(* undoLast, agent/loop.ts).  The reverse of a call is run as a tool of its  *)
(* own, past the registry: nothing of it is on the stack.                    *)
EXTENDS Naturals, Sequences, FiniteSets

CONSTANTS
  Files,
  Texts,        \* pieces of text; a file is a sequence of them, and no piece
                \* occurs across the border of two others
  MaxCalls,     \* bound: tool calls
  MaxOutside    \* bound: changes of the files by somebody else

VARIABLES
  disk,         \* per file: whether it exists, and its content
  stack,        \* undoStack: the calls that can be asked to be undone
  past,         \* history: per entry of the stack, the files before the call,
                \* and whether all that happened to them since can be undone
  undoing,      \* entries taken off the stack, still to be reversed
  undone,       \* what the last /undo came to
  calls, outside

vars == <<disk, stack, past, undoing, undone, calls, outside>>

Empty == <<>>
Absent == [exists |-> FALSE, text |-> Empty]
Holds(text) == [exists |-> TRUE, text |-> text]
Contents == {Empty} \cup {<<t>> : t \in Texts} \cup {<<t, u>> : t, u \in Texts}

(* Places where a piece of text occurs.                                      *)
Places(text, piece) == {i \in 1 .. Len(text) : text[i] = piece}

NoUndo == [asked |-> 0, before |-> [f \in Files |-> Absent], goal |-> [f \in Files |-> Absent],
           ok |-> FALSE, touched |-> FALSE]

Init ==
  /\ disk \in [Files -> {Absent} \cup {Holds(c) : c \in Contents}]
  /\ stack = <<>> /\ past = <<>> /\ undoing = <<>> /\ undone = NoUndo
  /\ calls = 0 /\ outside = 0

-----------------------------------------------------------------------------
(* What a tool does to the files, and whether it succeeds.                   *)

Wrote(d, f, text) == [ok |-> TRUE, disk |-> [d EXCEPT ![f] = Holds(text)]]
Fails(d) == [ok |-> FALSE, disk |-> d]

(* edit_file: the text to replace must occur exactly once, and not be empty. *)
Edited(d, f, old, new) ==
  IF ~d[f].exists \/ Len(old) # 1 THEN Fails(d)
  ELSE LET at == Places(d[f].text, old[1])
       IN  IF Cardinality(at) # 1 THEN Fails(d)
           ELSE LET i == CHOOSE i \in at : TRUE
                IN  Wrote(d, f, SubSeq(d[f].text, 1, i - 1) \o new \o SubSeq(d[f].text, i + 1, Len(d[f].text)))

Deleted(d, f) == IF d[f].exists THEN [ok |-> TRUE, disk |-> [d EXCEPT ![f] = Absent]] ELSE Fails(d)

(* The input of a call; `old` of an edit, `new` of an edit or a write.       *)
Does(d, c) ==
  CASE c.tool = "write_file" -> Wrote(d, c.file, c.new)
    [] c.tool = "edit_file" -> Edited(d, c.file, c.old, c.new)
    [] c.tool = "delete_file" -> Deleted(d, c.file)

Inputs ==
  [tool : {"write_file"}, file : Files, old : {Empty}, new : Contents]
    \cup [tool : {"edit_file"}, file : Files, old : {<<t>> : t \in Texts}, new : {Empty} \cup {<<t>> : t \in Texts}]
    \cup [tool : {"delete_file"}, file : Files, old : {Empty}, new : {Empty}]

(* A call that fails is not recorded; one that succeeds is, with what its    *)
(* result says of the file before.                                           *)
Call(c) ==
  /\ undoing = <<>> /\ calls < MaxCalls
  /\ Does(disk, c).ok
  /\ calls' = calls + 1
  /\ disk' = Does(disk, c).disk
  /\ stack' = Append(stack, [input |-> c, was |-> disk[c.file]])
  /\ past' = Append(past, [disk |-> disk, clean |-> TRUE])
  /\ undone' = NoUndo
  /\ UNCHANGED <<undoing, outside>>

Stained == [i \in 1 .. Len(past) |-> [past[i] EXCEPT !.clean = FALSE]]

(* A command, an editor or another session changes a file.                   *)
Outside(f, text) ==
  /\ outside < MaxOutside /\ disk[f] # Holds(text)
  /\ outside' = outside + 1
  /\ disk' = [disk EXCEPT ![f] = Holds(text)]
  /\ undone' = [undone EXCEPT !.touched = TRUE]
  /\ past' = Stained
  /\ UNCHANGED <<stack, undoing, calls>>

(* Mutant: a write that created the file is undone by writing nothing.       *)
ReverseEmptied(e) ==
  CASE e.input.tool = "edit_file" -> [e.input EXCEPT !.old = e.input.new, !.new = e.input.old]
    [] e.input.tool = "write_file" -> [e.input EXCEPT !.new = e.was.text]

(* The reverse operation a tool gives for a call; a delete has none.         *)
ReverseOp(e) ==
  CASE e.input.tool = "edit_file" -> [e.input EXCEPT !.old = e.input.new, !.new = e.input.old]
    [] e.input.tool = "write_file" /\ e.was.exists -> [e.input EXCEPT !.new = e.was.text]
    [] e.input.tool = "write_file" /\ ~e.was.exists -> [e.input EXCEPT !.tool = "delete_file", !.new = Empty]

(* `undoStack.splice(-count)`.                                               *)
Undo(n) ==
  /\ undoing = <<>> /\ stack # <<>>
  /\ LET first == IF n > Len(stack) THEN 1 ELSE Len(stack) - n + 1
     IN  /\ undoing' = SubSeq(stack, first, Len(stack))
         /\ stack' = SubSeq(stack, 1, first - 1)
         /\ past' = SubSeq(past, 1, first - 1)
         /\ undone' = [asked |-> n, before |-> disk, goal |-> past[first].disk, ok |-> TRUE,
                      touched |-> ~past[first].clean]
  /\ UNCHANGED <<disk, calls, outside>>

(* The entries taken off are reversed in the order they were made.           *)
ReverseNext ==
  /\ undoing # <<>>
  /\ LET e == Head(undoing)
         made == IF e.input.tool = "delete_file" THEN Fails(disk) ELSE Does(disk, ReverseOp(e))
     IN  /\ disk' = made.disk
         /\ undone' = [undone EXCEPT !.ok = @ /\ made.ok]
  /\ undoing' = Tail(undoing)
  /\ past' = IF undoing' = <<>> /\ disk' # undone.goal THEN Stained ELSE past
  /\ UNCHANGED <<stack, calls, outside>>

Next ==
  \/ \E c \in Inputs : Call(c)
  \/ \E f \in Files, text \in Contents : Outside(f, text)
  \/ \E n \in 1 .. MaxCalls : Undo(n)
  \/ ReverseNext

Spec == Init /\ [][Next]_vars

-----------------------------------------------------------------------------
Finished == undoing = <<>> /\ undone.asked > 0 /\ ~undone.touched

(* `/undo` of one call that says it succeeded leaves the files as they were  *)
(* before that call, and one that says it failed leaves them as they are,    *)
(* when all that happened since has been undone.                             *)
UndoOneRestores ==
  Finished /\ undone.asked = 1 => disk = IF undone.ok THEN undone.goal ELSE undone.before

(* `/undo N` that reports success for every call leaves the files as they    *)
(* were before the N calls ("Undo the last N tool calls", agent/loop.ts).    *)
UndoRestores == Finished /\ undone.ok => disk = undone.goal
=============================================================================
