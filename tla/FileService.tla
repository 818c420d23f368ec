------------------------------- MODULE FileService -------------------------------
(***************************************************************************)
(* Guarded writes of the file service in the page (plugin/fs-service.ts,    *)
(* fs-mutations.ts) to one target: a queue per target, a look at the file,  *)
(* the guard, a temporary file and its rename.  Commands of the execution   *)
(* world write to the same file and know nothing of the queue.              *)
(*                                                                         *)
(* A text is a sequence of pieces; "crlf" is a line end the service writes  *)
(* as "lf".  A version is a hash of the bytes: here, the bytes.             *)
(***************************************************************************)
EXTENDS Naturals, Sequences, SequencesExt

CONSTANTS
    Edit,      \* the calls of writeText and editText
    MaxShell,  \* bound: writes by commands
    MaxBroken  \* bound: file operations that fail

VARIABLES
    file,      \* the bytes of the target, or Absent, Directory, Binary
    temp,      \* per call: its temporary file, or Absent
    tail,      \* the calls in the lock's chain, the first one inside
    edit,      \* per call: where it is and what it asks
    byShell, broken

filesVars == <<file, temp, tail, edit, byShell, broken>>

Absent == <<"absent">>
Directory == <<"directory">>
Binary == <<"binary">>

\* normalizeLf
NormalizeLf(text) == [i \in DOMAIN text |-> IF text[i] = "crlf" THEN "lf" ELSE text[i]]

Written == {<<"new">>, <<"crlf">>}
Foreign == {<<"old", "crlf">>, Absent, Directory, Binary}

Places(text) == {i \in DOMAIN text: text[i] = "old"}

\* What editText makes of the text: "old" becomes "new", once or everywhere.
Replaced(text, all) ==
    [i \in DOMAIN text |->
       IF i \in Places(text) /\ (all \/ \A j \in Places(text): i <= j) THEN "new" ELSE text[i]]

NoCall == [pc |-> "none", guard |-> "none", version |-> Absent, text |-> Absent,
           all |-> FALSE, disturbed |-> FALSE]

Init ==
    /\ file \in {Absent, <<"old">>} /\ temp = [e \in Edit |-> Absent]
    /\ tail = <<>> /\ edit = [e \in Edit |-> NoCall]
    /\ byShell = 0 /\ broken = 0

\* stat: the version of what is there now.
Stat == file

\* A caller has looked at the file, or not, and asks for a write (text) or an
\* edit (Absent).  What the sandbox policy or its content forbids, and what is
\* aborted before, ends here and is not modelled.
Call(e, guard, text, all) ==
    /\ edit[e].pc = "none"
    /\ guard = "version" => file # Absent
    /\ guard = "absent" => text # Absent
    /\ edit' = [edit EXCEPT ![e] = [NoCall EXCEPT
         !.pc = "wait", !.guard = guard, !.text = text, !.all = all,
         !.version = IF guard = "version" THEN Stat ELSE Absent]]
    /\ tail' = Append(tail, e)
    /\ UNCHANGED <<file, temp, byShell, broken>>

Leave(e) == tail' = Tail(tail)

Ends(e, pc) == Leave(e) /\ edit' = [edit EXCEPT ![e] = [NoCall EXCEPT !.pc = pc]]
Fails(e) == Ends(e, "failed")

Breaks == broken < MaxBroken /\ broken' = broken + 1

\* (mutant: a call does not wait for the one before)
EnterAtOnce(e) ==
    /\ edit[e].pc = "wait"
    /\ \/ edit' = [edit EXCEPT ![e].pc = "look"] /\ UNCHANGED tail
       \/ Fails(e)
    /\ UNCHANGED <<file, temp, byShell, broken>>

\* The call before has ended, well or not; a call that was aborted ends too.
Enter(e) ==
    /\ edit[e].pc = "wait" /\ Head(tail) = e
    /\ \/ edit' = [edit EXCEPT ![e].pc = "look"] /\ UNCHANGED tail
       \/ Fails(e)
    /\ UNCHANGED <<file, temp, byShell, broken>>

Writes(e) == edit[e].text # Absent

\* The guards of writeText and of editText, of the file as it is read.
Allowed(e) ==
    /\ file # Directory
    /\ edit[e].guard = "absent" => file = Absent
    /\ edit[e].guard = "version" => file = edit[e].version
    /\ ~Writes(e) => /\ file \notin {Absent, Binary} /\ Places(file) # {}
                     /\ edit[e].all \/ \A i, j \in Places(NormalizeLf(file)): i = j

\* (mutant: the lines of the file and of the request stay as they are)
AfterRaw(e) ==
    IF Writes(e) THEN edit[e].text ELSE Replaced(file, edit[e].all)

After(e) ==
    NormalizeLf(IF Writes(e) THEN edit[e].text ELSE Replaced(file, edit[e].all))

\* infoFor, and all that is decided with what it read.
Look(e) ==
    /\ edit[e].pc = "look"
    /\ \/ /\ Allowed(e)
          /\ edit' = [edit EXCEPT ![e].pc = "write", ![e].text = After(e), ![e].all = FALSE]
          /\ UNCHANGED <<tail, broken>>
       \/ ~Allowed(e) /\ Fails(e) /\ UNCHANGED broken
       \/ Breaks /\ Fails(e)
    /\ UNCHANGED <<file, temp, byShell>>

\* atomicWrite: a failed write of the temporary file leaves what is there of it.
WriteTemp(e) ==
    /\ edit[e].pc = "write"
    /\ \/ /\ temp' = [temp EXCEPT ![e] = edit[e].text]
          /\ edit' = [edit EXCEPT ![e].pc = "rename"] /\ UNCHANGED <<tail, broken>>
       \/ /\ Breaks /\ Fails(e)
          /\ \E part \in {Absent, <<>>}: temp' = [temp EXCEPT ![e] = part]
    /\ UNCHANGED <<file, byShell>>

Rename(e) ==
    /\ edit[e].pc = "rename" /\ file # Directory
    /\ file' = temp[e] /\ temp' = [temp EXCEPT ![e] = Absent]
    /\ Ends(e, "done")
    /\ UNCHANGED <<byShell, broken>>

\* (mutant: a rename that fails leaves the temporary file)
RenameJustFails(e) ==
    /\ edit[e].pc = "rename" /\ Fails(e)
    /\ \/ file = Directory /\ UNCHANGED broken
       \/ Breaks
    /\ UNCHANGED <<file, temp, byShell>>

RenameFails(e) ==
    /\ edit[e].pc = "rename"
    /\ \/ file = Directory /\ UNCHANGED broken
       \/ Breaks
    /\ edit' = [edit EXCEPT ![e].pc = "clean"]
    /\ UNCHANGED <<file, temp, tail, byShell>>

\* The temporary file is removed, if that can be done.
Clean(e) ==
    /\ edit[e].pc = "clean" /\ Fails(e)
    /\ \/ temp' = [temp EXCEPT ![e] = Absent] /\ UNCHANGED broken
       \/ Breaks /\ UNCHANGED temp
    /\ UNCHANGED <<file, byShell>>

\* A command of the execution world, at any time.
Shell(bytes) ==
    /\ byShell < MaxShell /\ bytes # file
    /\ byShell' = byShell + 1 /\ file' = bytes
    /\ edit' = [e \in Edit |->
         [edit[e] EXCEPT !.disturbed = @ \/ edit[e].pc \in {"write", "rename"}]]
    /\ UNCHANGED <<temp, tail, broken>>

Next ==
    \/ \E e \in Edit:
         \/ \E guard \in {"none", "absent", "version"}, text \in Written: Call(e, guard, text, FALSE)
         \/ \E guard \in {"none", "version"}, all \in BOOLEAN: Call(e, guard, Absent, all)
         \/ Enter(e) \/ Look(e) \/ WriteTemp(e)
         \/ Rename(e) \/ RenameFails(e) \/ Clean(e)
    \/ \E bytes \in Foreign: Shell(bytes)

Spec == Init /\ [][Next]_filesVars

-------------------------------------------------------------------------------
Succeeds(e) == edit[e].pc = "rename" /\ edit'[e].pc = "done"

\* A guarded call that succeeds has replaced the version it named (or no file),
\* whatever other calls ran meanwhile: only a command can come in between.
GuardedReplacesItsVersion ==
    [][\A e \in Edit: Succeeds(e) /\ ~edit[e].disturbed =>
          /\ edit[e].guard = "version" => file = edit[e].version
          /\ edit[e].guard = "absent" => file = Absent]_filesVars

\* The version a call returns is that of the file it has made, so that it can
\* guard the next call.
ReturnedVersionHolds ==
    [][\A e \in Edit: Succeeds(e) => file' = NormalizeLf(edit[e].text)]_filesVars

\* When all calls have ended and no file operation failed, no temporary file is left.
NothingLeftBehind ==
    tail = <<>> /\ broken = 0 => \A e \in Edit: temp[e] = Absent
=============================================================================
