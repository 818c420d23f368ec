------------------------------ MODULE RubyRuntime ------------------------------
(***************************************************************************)
(* The hand-over of the Ruby runtime.  The host's `ruby` command posts a   *)
(* request file and waits for a marker with its id; a bridge in the page   *)
(* fetches the files, writes the marker and removes the request.           *)
(*   host  engine/host/ruby.ts, engine/host/runtime-commands.ts            *)
(*   page  engine/runtime-asset-bridge.ts, engine/ruby-assets.ts           *)
(* There is one request file and one marker of a kind for all commands.    *)
(***************************************************************************)
EXTENDS Naturals, FiniteSets

CONSTANTS
    Command,        \* `ruby` commands, and what else asks the page for the runtime
    MaxFault        \* failed downloads

VARIABLES
    asset,          \* the files there are: the adapter, ruby.wasm and the version are written in this order
    request,        \* ruby.request.json: a command's id, or None
    marker,         \* ruby.ready.json and ruby.error.json
    cmd,            \* what each command is doing
    load,           \* the bridge's rubyLoading
    batch,          \* a command run through the page's executor waits for the same injection
    injecting,      \* ruby-assets' promise: the file it writes next, or 0
    fault

vars == <<asset, request, marker, cmd, load, batch, injecting, fault>>

None == "none"
Adapter == 1
Complete == 3
NoLoad == [pc |-> "idle", id |-> None]

TypeOK ==
    /\ asset \in 0..Complete /\ request \in Command \cup {None}
    /\ marker \in [{"ready", "error"} -> Command \cup {None}]
    /\ cmd \in [Command -> {"new", "asked", "waiting", "returned", "runs", "failed"}]
    /\ load.pc \in {"idle", "ready", "error", "ensure", "inject", "done", "threw", "marked"}
    /\ batch \in {"new", "waiting", "over"} /\ injecting \in 0..Complete /\ fault \in 0..MaxFault

Init ==
    /\ asset = 0 /\ request = None /\ marker = [k \in {"ready", "error"} |-> None]
    /\ cmd = [c \in Command |-> "new"] /\ load = NoLoad /\ batch = "new" /\ injecting = 0 /\ fault = 0

-----------------------------------------------------------------------------
(* The host.                                                               *)

\* The `ruby` command: the adapter's presence is taken for the runtime's.
Start(c) ==
    /\ cmd[c] = "new"
    /\ cmd' = [cmd EXCEPT ![c] = IF asset >= Adapter THEN "runs" ELSE "asked"]
    /\ UNCHANGED <<asset, request, marker, load, batch, injecting, fault>>

\* requestRubyRuntime up to its first pause: the markers go, whoever they are for, and the request is replaced.
Ask(c) ==
    /\ cmd[c] = "asked"
    /\ marker' = [k \in {"ready", "error"} |-> None]
    /\ request' = c
    /\ cmd' = [cmd EXCEPT ![c] = "waiting"]
    /\ UNCHANGED <<asset, load, batch, injecting, fault>>

\* removeIfRequestMatches, for the three files.
Cleaned(c) ==
    /\ request' = IF request = c THEN None ELSE request
    /\ marker' = [k \in {"ready", "error"} |-> IF marker[k] = c THEN None ELSE marker[k]]

\* A look at the markers; after it the command runs, if the adapter is there.
Look(c) ==
    /\ cmd[c] = "waiting" /\ c \in {marker["ready"], marker["error"]}
    /\ cmd' = [cmd EXCEPT ![c] = IF marker["ready"] = c THEN "returned" ELSE "failed"]
    /\ Cleaned(c)
    /\ UNCHANGED <<asset, load, batch, injecting, fault>>

GiveUp(c) ==
    /\ cmd[c] = "waiting"
    /\ cmd' = [cmd EXCEPT ![c] = "failed"]
    /\ Cleaned(c)
    /\ UNCHANGED <<asset, load, batch, injecting, fault>>

Run(c) ==
    /\ cmd[c] = "returned"
    /\ cmd' = [cmd EXCEPT ![c] = IF asset >= Adapter THEN "runs" ELSE "failed"]
    /\ UNCHANGED <<asset, request, marker, load, batch, injecting, fault>>

-----------------------------------------------------------------------------
(* The page.                                                               *)

\* A look at the request file, which starts a load unless one is on its way.
Poll ==
    /\ request # None /\ load.pc = "idle"
    /\ load' = [pc |-> "ready", id |-> request]
    /\ UNCHANGED <<asset, request, marker, cmd, batch, injecting, fault>>

\* completeRubyRequest removes the markers of earlier requests ...
Clear(k, next) ==
    /\ load.pc = k
    /\ marker' = [marker EXCEPT ![k] = None]
    /\ load' = [load EXCEPT !.pc = next]
    /\ UNCHANGED <<asset, request, cmd, batch, injecting, fault>>

\* (mutant: the adapter alone is looked for, as the host does)
AdapterInstalled == asset >= Adapter

\* ensureRubyRuntime: all three files are looked for, so that an interrupted injection is taken up.
Installed == asset = Complete

\* ... and joins or starts the injection.
Ensure ==
    /\ load.pc = "ensure"
    /\ load' = [load EXCEPT !.pc = IF Installed THEN "done" ELSE "inject"]
    /\ injecting' = IF injecting = 0 /\ ~Installed THEN 1 ELSE injecting
    /\ UNCHANGED <<asset, request, marker, cmd, batch, fault>>

\* The same for a batch command, before it is sent to the host.
EnsureBatch ==
    /\ batch = "new"
    /\ batch' = IF Installed THEN "over" ELSE "waiting"
    /\ injecting' = IF injecting = 0 /\ ~Installed THEN 1 ELSE injecting
    /\ UNCHANGED <<asset, request, marker, cmd, load, fault>>

\* The end of an injection, for whoever waits for it.
Ended(pc) ==
    /\ injecting' = 0
    /\ load' = IF load.pc = "inject" THEN [load EXCEPT !.pc = pc] ELSE load
    /\ batch' = IF batch = "waiting" THEN "over" ELSE batch

\* inject writes the files from the first one, over those that are there; a download may fail.
InjectFile ==
    /\ injecting # 0
    /\ asset' = IF injecting > asset THEN injecting ELSE asset
    /\ IF injecting = Complete THEN Ended("done") ELSE injecting' = injecting + 1 /\ UNCHANGED <<load, batch>>
    /\ UNCHANGED <<request, marker, cmd, fault>>

InjectFails ==
    /\ injecting # 0 /\ fault < MaxFault
    /\ fault' = fault + 1
    /\ Ended("threw")
    /\ UNCHANGED <<asset, request, marker, cmd>>

\* The marker of the request that was loaded for ...
Mark ==
    /\ load.pc \in {"done", "threw"}
    /\ marker' = [marker EXCEPT ![IF load.pc = "done" THEN "ready" ELSE "error"] = load.id]
    /\ load' = [load EXCEPT !.pc = "marked"]
    /\ UNCHANGED <<asset, request, cmd, batch, injecting, fault>>

\* ... and the removal of the request that is there, whichever it is.
Finish ==
    /\ load.pc = "marked"
    /\ request' = None
    /\ load' = NoLoad
    /\ UNCHANGED <<asset, marker, cmd, batch, injecting, fault>>

Next ==
    \/ \E c \in Command : Start(c) \/ Ask(c) \/ Look(c) \/ GiveUp(c) \/ Run(c)
    \/ Poll \/ Clear("ready", "error") \/ Clear("error", "ensure") \/ Ensure \/ EnsureBatch
    \/ InjectFile \/ InjectFails \/ Mark \/ Finish

-----------------------------------------------------------------------------
(* Properties.                                                             *)

\* When requestRubyRuntime returns, the whole runtime is installed: also after an injection that was interrupted, and
\* whoever asked last (ruby.ts:56, ruby-assets.ts:17).
ReturnedIsWhole == \A c \in Command : cmd[c] = "returned" => asset = Complete
=============================================================================
