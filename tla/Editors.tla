--------------------------------- MODULE Editors ---------------------------------
(***************************************************************************)
(* vi and nano of the host (engine/host/editors.ts).  One loop waits for a  *)
(* chunk of keys or for a new size of the terminal; the read that is under  *)
(* way stays the same across a resize.  A key has its number in the order   *)
(* of typing.  The buffer is known by the number of its changes, and where  *)
(* the cursor stands decides whether a deletion is one.                     *)
(***************************************************************************)
EXTENDS Naturals, Sequences, SequencesExt, FiniteSetsExt

CONSTANTS
    Kind,       \* the editors: a subset of {"vi", "nano"}
    MaxKey,     \* bound: keys typed
    MaxEdit,    \* bound: changes of the buffer
    MaxResize   \* bound: changes of the terminal's size

VARIABLES
    editor,     \* its mode, its command line, its buffer and whether that is dirty, the file, its exit code
    input,      \* the read under way: resolved with its keys, or Pending
    buffered,   \* chunks no read has taken
    orphans,    \* reads under way whose result nobody awaits any more
    count,      \* keys typed, and keys handled
    size        \* changes of the size, and the ones the editor has seen

editorVars == <<editor, input, buffered, orphans, count, size>>

ViKeys == {"i", "x", ":", "w", "q", "!", "enter", "esc", "bs", "^S", "^C", "/"}
NanoKeys == {"x", "bs", "^X", "^O", "^W", "y", "n", "c", "enter", "^C"}
Keys(kind) == IF kind = "vi" THEN ViKeys ELSE NanoKeys
Printable == {"i", "x", ":", "w", "q", "!", "/", "y", "n", "c"}

Pending == <<>>
Ended == <<[n |-> 0, key |-> "end"]>>
Running == 1000     \* the exit code of an editor that has none yet

TypeOK ==
    /\ editor.mode \in {"normal", "insert", "command", "search", "confirm"}
    /\ editor.text \in 0..MaxEdit /\ editor.file \in 0..MaxEdit /\ editor.dirty \in BOOLEAN
    /\ editor.code \in {0, 1, 130, Running}
    /\ count.handled <= count.typed /\ size.seen <= size.now

Init ==
    /\ editor \in [kind: Kind, mode: {"normal"}, line: {<<>>}, text: {0}, dirty: {FALSE}, code: {Running}, file: {0}]
    /\ input = Pending /\ buffered = <<>> /\ orphans = 0
    /\ count = [typed |-> 0, handled |-> 0] /\ size = [now |-> 0, seen |-> 0]

-----------------------------------------------------------------------------
(* One key, as a function of the editor: `ok` says whether a save succeeds  *)
(* and `hit` whether a deletion finds something to delete.                  *)

Exit(e, code) == [e EXCEPT !.code = code]
Mode(e, mode) == [e EXCEPT !.mode = mode]

\* (mutant: a save that fails is reported and the editor goes on as if it had not)
SaveRegardless(e, ok, saved) == IF ok THEN [saved EXCEPT !.dirty = FALSE, !.file = e.text] ELSE [saved EXCEPT !.dirty = FALSE]
\* save, and what its caller makes of a failure: the editor is left with 1.
Save(e, ok, saved) == IF ok THEN [saved EXCEPT !.dirty = FALSE, !.file = e.text] ELSE Exit(e, 1)

Change(e) == [e EXCEPT !.text = @ + 1, !.dirty = TRUE]

\* editKey: other keys change nothing.
EditKey(e, key, hit) == IF key \in Printable \cup {"enter"} \/ (key = "bs" /\ hit) THEN Change(e) ELSE e

\* removeChar
RemoveChar(e, hit) == IF hit THEN Change(e) ELSE e

\* The command line of vi, at its end.
Execute(e, ok) ==
    LET rest == [e EXCEPT !.line = <<>>] IN
    CASE e.line = <<"q">> -> Exit(rest, IF e.dirty THEN 1 ELSE 0)
      [] e.line = <<"q", "!">> -> Exit(rest, 0)
      [] e.line = <<"w">> -> Save(rest, ok, Mode(rest, "normal"))
      [] e.line \in {<<"w", "q">>, <<"x">>} -> Save(rest, ok, Exit(rest, 0))
      [] OTHER -> Mode(rest, "normal")

ViKey(e, key, ok, hit) ==
    CASE key = "^C" -> Exit(e, 130)
      [] e.mode = "command" /\ key = "enter" -> Execute(e, ok)
      [] e.mode = "command" /\ key \in Printable -> [e EXCEPT !.line = Append(@, key)]
      [] e.mode = "command" /\ key = "bs" -> [e EXCEPT !.line = IF @ = <<>> THEN @ ELSE Front(@)]
      [] e.mode = "search" -> IF key \in {"enter", "esc"} THEN Mode(e, "normal") ELSE e
      [] e.mode \in {"insert", "normal"} /\ key = "^S" -> Save(e, ok, e)
      [] e.mode = "insert" -> IF key = "esc" THEN Mode(e, "normal") ELSE EditKey(e, key, hit)
      [] e.mode = "normal" /\ key = "i" -> Mode(e, "insert")
      [] e.mode = "normal" /\ key = ":" -> Mode(e, "command")
      [] e.mode = "normal" /\ key = "/" -> Mode(e, "search")
      [] e.mode = "normal" /\ key = "x" -> RemoveChar(e, hit)
      [] OTHER -> e

NanoKey(e, key, ok, hit) ==
    CASE key = "^C" -> Exit(e, 130)
      [] e.mode = "confirm" /\ key = "y" -> Save(e, ok, Exit(e, 0))
      [] e.mode = "confirm" /\ key = "n" -> Exit(e, 0)
      [] e.mode = "confirm" /\ key = "c" -> Mode(e, "normal")
      [] e.mode = "search" -> IF key = "enter" THEN Mode(e, "normal") ELSE e
      [] e.mode = "normal" /\ key = "^X" -> IF e.dirty THEN Mode(e, "confirm") ELSE Exit(e, 0)
      [] e.mode = "normal" /\ key = "^O" -> Save(e, ok, e)
      [] e.mode = "normal" /\ key = "^W" -> Mode(e, "search")
      [] e.mode = "normal" -> EditKey(e, key, hit)
      [] OTHER -> e

\* A key after the one that ends the editor is not looked at.
Press(e, key, ok, hit) ==
    CASE e.code # Running -> e
      [] e.code = Running /\ e.kind = "vi" -> ViKey(e, key, ok, hit)
      [] OTHER -> NanoKey(e, key, ok, hit)

-----------------------------------------------------------------------------

\* The terminal: a chunk goes to the oldest read under way, or waits for one. An editor that has ended leaves its last read
\* under way, which takes the first chunk meant for the shell.
Type(chunk) ==
    /\ count.typed + Len(chunk) <= MaxKey
    /\ LET keys == [i \in DOMAIN chunk |-> [n |-> count.typed + i, key |-> chunk[i]]] IN
        CASE orphans > 0 -> orphans' = orphans - 1 /\ UNCHANGED <<input, buffered>>
          [] orphans = 0 /\ input = Pending /\ editor.code = Running -> input' = keys /\ UNCHANGED <<orphans, buffered>>
          [] OTHER -> buffered' = Append(buffered, keys) /\ UNCHANGED <<input, orphans>>
    /\ count' = [count EXCEPT !.typed = @ + Len(chunk)]
    /\ UNCHANGED <<editor, size>>

\* The terminal goes away: the read is told the end of the input.
EndOfInput ==
    /\ input = Pending /\ orphans = 0 /\ editor.code = Running
    /\ input' = Ended
    /\ UNCHANGED <<editor, buffered, orphans, count, size>>

Resize ==
    /\ size.now < MaxResize /\ editor.code = Running
    /\ size' = [size EXCEPT !.now = @ + 1]
    /\ UNCHANGED <<editor, input, buffered, orphans, count>>

\* (mutant: the loop begins with a read of its own)
ReadAnew == input' = Pending /\ orphans' = orphans + (IF input = Pending THEN 1 ELSE 0)
\* After a resize the loop awaits the read it has.
KeepReading == UNCHANGED <<input, orphans>>

\* nextEditorEvent, won by the resize: the screen is drawn again.
Redraw ==
    /\ editor.code = Running /\ size.seen < size.now
    /\ size' = [size EXCEPT !.seen = size.now]
    /\ KeepReading
    /\ UNCHANGED <<editor, buffered, count>>

\* The next read: it takes what has waited, or is under way.
NextRead ==
    IF buffered = <<>> THEN input' = Pending /\ UNCHANGED buffered
    ELSE input' = Head(buffered) /\ buffered' = Tail(buffered)

\* nextEditorEvent, won by the input: the next read begins, then the keys are handled one by one.
Handle ==
    /\ editor.code = Running /\ input \notin {Pending, Ended}
    /\ NextRead
    /\ \E ok, hit \in [DOMAIN input -> BOOLEAN]:
        editor' = FoldLeftDomain(LAMBDA e, i: Press(e, input[i].key, ok[i], hit[i]), editor, input)
    /\ editor'.text <= MaxEdit
    /\ orphans' = IF editor'.code # Running /\ input' = Pending THEN 1 ELSE orphans
    /\ count' = [count EXCEPT !.handled = Last(input).n]
    /\ UNCHANGED size

\* The end of the input ends the editor, whatever is in its buffer.
Leave ==
    /\ editor.code = Running /\ input = Ended
    /\ editor' = Exit(editor, 0)
    /\ UNCHANGED <<input, buffered, orphans, count, size>>

Chunks == UNION {[1..n -> Keys(editor.kind)]: n \in 1..2}

Next == (\E chunk \in Chunks: Type(chunk)) \/ EndOfInput \/ Resize \/ Redraw \/ Handle \/ Leave

Spec == Init /\ [][Next]_editorVars

-----------------------------------------------------------------------------

Awaiting == (IF input \in {Pending, Ended} THEN <<>> ELSE input) \o FlattenSeq(buffered)

\* Every key reaches the editor, once and in the order of typing, however resizes and chunks meet: the keys that have not
\* been handled are the ones the editor will read (editors.ts:58, and the read that outlives a resize).
KeysInOrder ==
    editor.code = Running => [i \in DOMAIN Awaiting |-> Awaiting[i].n] = [i \in 1..(count.typed - count.handled) |-> count.handled + i]

\* A buffer that is shown as unmodified is what the file holds: neither a failed save nor keys that come in the same chunk
\* make an edit look saved, and nano leaves it without a question (editors.ts:142).
UnmodifiedIsSaved == ~editor.dirty => editor.file = editor.text
=============================================================================
