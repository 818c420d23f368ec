------------------------------- MODULE HostRuntimes -------------------------------
(***************************************************************************)
(* The language runtimes and the processes of the host: four components    *)
(* that share no variable (the lane of the host runs one of their requests *)
(* at a time, rpc_epochs), so that a behaviour of the host is looked at    *)
(* one component at a time: the one in focus takes all the steps.          *)
(***************************************************************************)
EXTENDS Naturals, FiniteSets

CONSTANTS
    MaxCall, MaxDaemon, Packages, MaxFault,
    MaxChild, Pid, Instance, Default, MaxEntries,
    MaxInput, MaxOutput, MaxBatch, Room,
    Command

\* The bounds are numbers, pids are positive, and no command of Ruby is called as the request that is not there.
ASSUME RuntimesAssumption ==
    /\ MaxCall \in Nat /\ MaxDaemon \in Nat /\ MaxFault \in Nat
    /\ MaxChild \in Nat /\ MaxEntries \in Nat /\ Pid \subseteq Nat \ {0}
    /\ MaxInput \in Nat /\ MaxOutput \in Nat /\ MaxBatch \in Nat /\ Room \in Nat
    /\ "none" \notin Command

VARIABLES
    focus,
    assets, injectingPython, call, client, proc, site, manifest, faults,
    child, table, current,
    typed, out, device, shown, pendingOutput, pendingInput, pendingSubmitted, interactive, commands, flushQueued,
    tail, turn, over, got, disposed,
    asset, request, marker, cmd, load, batch, injectingRuby, fault

Python == INSTANCE PythonRuntime WITH injecting <- injectingPython
Processes == INSTANCE HostProcesses
Hub == INSTANCE TerminalHub
Ruby == INSTANCE RubyRuntime WITH injecting <- injectingRuby

pythonVars == <<assets, injectingPython, call, client, proc, site, manifest, faults>>
processVars == <<child, table, current>>
hubVars == <<typed, out, device, shown, pendingOutput, pendingInput, pendingSubmitted, interactive, commands, flushQueued,
             tail, turn, over, got, disposed>>
rubyVars == <<asset, request, marker, cmd, load, batch, injectingRuby, fault>>
vars == <<focus, pythonVars, processVars, hubVars, rubyVars>>

Init ==
    /\ focus \in {"python", "processes", "hub", "ruby"}
    /\ Python!Init /\ Processes!Init /\ Hub!Init /\ Ruby!Init
    /\ focus # "python" => manifest = {}

PythonNext == focus = "python" /\ Python!Next /\ UNCHANGED <<focus, processVars, hubVars, rubyVars>>
ProcessesNext == focus = "processes" /\ Processes!Next /\ UNCHANGED <<focus, pythonVars, hubVars, rubyVars>>
HubNext == focus = "hub" /\ Hub!Next /\ UNCHANGED <<focus, pythonVars, processVars, rubyVars>>
RubyNext == focus = "ruby" /\ Ruby!Next /\ UNCHANGED <<focus, pythonVars, processVars, hubVars>>

Next == PythonNext \/ ProcessesNext \/ HubNext \/ RubyNext

\* Each component has its own fairness; one that is not in focus has not begun, and nothing of it is due.
FairSpec == Init /\ [][Next]_vars /\ Python!Fairness /\ Processes!Fairness /\ Hub!Fairness

-----------------------------------------------------------------------------
(* Properties.                                                             *)

\* An answer of Python is given to the command it answers (python-daemon-client.ts:74).
AnswersAreOwn == Python!TypeOK /\ Python!AnswersAreOwn

\* A runtime that is reported as ready is whole: a daemon of Python that says READY imports every package it lists, and a
\* command of Ruby that returns from its request finds all files of the runtime (pip.ts:136, ruby-assets.ts:20).
ReadyIsWhole == Python!ReadyMeansWhole /\ [](Ruby!TypeOK /\ Ruby!ReturnedIsWhole)

\* A process that runs is in the table under its pid, whoever had the pid before it (host-procs.ts:147).
ProcessesKept == Processes!TypeOK /\ Processes!RunningIsListed

\* A terminal shows its output in the order of its writing, whatever devices come and go, and no input held back for a
\* batch is lost (terminal-hub.ts:57, terminal-hub.ts:105).
HubKept == [](Hub!TypeOK /\ Hub!OutputInOrder) /\ Hub!HeldInputStays

\* Nothing waits for ever: a command of Python is settled, unless its daemon ended without a word; a run or spawn is answered;
\* what a reset found running comes to its end; input held back for a batch leaves the hub, and every batch is over some time
\* (python-daemon-client.ts:108, spawn.ts:142, host-procs.ts:282, terminal-hub.ts:105).
HostGoesOn ==
    /\ Python!CommandSettles
    /\ Processes!RequestSettles /\ Processes!TerminatedEnds
    /\ Hub!HeldInputArrives /\ Hub!BatchIsOver
=============================================================================
