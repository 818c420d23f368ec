-------------------------------- MODULE Services --------------------------------
(***************************************************************************)
(* Services: the systemctl of the execution world (host/service-world.ts), *)
(* its bridge to the page, which owns the ports and the snapshot           *)
(* (host/service-command-bridge.ts), and the client in the page            *)
(* (services/world-client.ts).                                             *)
(*                                                                         *)
(* Every unit is the one of an instance of its own: commands of one        *)
(* instance are serial, those of different ones are not.  Lifo's           *)
(* ServiceManager is external: a start may be refused, and a process ends  *)
(* when it likes.                                                          *)
(***************************************************************************)
EXTENDS Naturals, FiniteSets

CONSTANTS
    Unit,
    MaxEvent,   \* bound: server-ready events
    MaxCommand, \* bound: commands to all units
    MaxLost     \* bound: control requests that are not answered in time

VARIABLES
    process,    \* per unit: "none", "active", or "listening" on the port of the unit
    heard,      \* per unit: the generation of the last server-ready event of its process
    generation, \* of the page: server-ready events so far
    open,       \* per unit: the generation its port is open with in the page, 0 if closed
    claim,      \* per unit: whether its instance claims the port
    owns,       \* per unit: servicePorts of the bridge
    gate,       \* per unit: expectedReadyGenerations of the bridge, or Free
    install,    \* the units that wait for npm
    marker,     \* per unit: the enablement marker
    saved,      \* per unit: the marker in the snapshot
    order,      \* per unit: the command that runs
    given,      \* commands so far
    lost        \* control requests that were lost so far

servicesVars == <<process, heard, generation, open, claim, owns, gate, install, marker,
                  saved, order, given, lost>>

Free == MaxEvent + 1   \* no gate: the bridge did not answer the claim

Rest == [pc |-> "idle", verb |-> "none", sdk |-> FALSE, tried |-> FALSE, acked |-> TRUE]

Init ==
    /\ process = [u \in Unit |-> "none"] /\ heard = [u \in Unit |-> 0]
    /\ generation = 0 /\ open = [u \in Unit |-> 0]
    /\ claim = [u \in Unit |-> FALSE] /\ owns = [u \in Unit |-> FALSE]
    /\ gate = [u \in Unit |-> Free] /\ install = {}
    /\ marker = [u \in Unit |-> FALSE] /\ saved = [u \in Unit |-> FALSE]
    /\ order = [u \in Unit |-> Rest] /\ given = 0 /\ lost = 0

At(u, pc)   == order[u].pc = pc
Goto(u, pc) == order' = [order EXCEPT ![u].pc = pc]

unitsVars == <<process, heard, generation, open>>
portVars  == <<claim, owns, gate>>
saveVars  == <<marker, saved>>

-------------------------------------------------------------------------------
(* The processes, as the ServiceManager and WebContainer run them.         *)

\* The process of the unit is gone, and its port with it.
Gone(u) ==
    /\ process' = [process EXCEPT ![u] = "none"] /\ open' = [open EXCEPT ![u] = 0]
    /\ UNCHANGED <<heard, generation>>

Listens(u) ==
    /\ process[u] = "active" /\ generation < MaxEvent
    /\ process' = [process EXCEPT ![u] = "listening"]
    /\ generation' = generation + 1
    /\ heard' = [heard EXCEPT ![u] = generation + 1]
    /\ open' = [open EXCEPT ![u] = generation + 1]
    /\ UNCHANGED <<portVars, install, saveVars, order, given, lost>>

Crashes(u) ==
    /\ process[u] # "none" /\ Gone(u)
    /\ UNCHANGED <<portVars, install, saveVars, order, given, lost>>

-------------------------------------------------------------------------------
(* start and restart.  A command comes from a terminal or from the client  *)
(* of the page, which claims the port before.                              *)

Begin(u, verb, sdk) ==
    /\ At(u, "idle") /\ given < MaxCommand
    /\ given' = given + 1
    /\ order' = [order EXCEPT ![u] = [Rest EXCEPT !.verb = verb, !.sdk = sdk, !.pc =
                   IF verb = "stop" THEN "stop"
                   ELSE IF verb \in {"enable", "disable"} THEN "mark" ELSE "package"]]
    /\ claim' = [claim EXCEPT ![u] = @ \/ (sdk /\ verb \in {"start", "restart"})]
    /\ UNCHANGED <<unitsVars, owns, gate, install, saveVars, lost>>

\* ensureServicePackage: there already, or one npm for all that need it.
Package(u) ==
    /\ At(u, "package") /\ u \notin install
    /\ \/ Goto(u, "claim") /\ UNCHANGED install
       \/ install' = install \union {u} /\ UNCHANGED order
    /\ UNCHANGED <<unitsVars, portVars, saveVars, given, lost>>

\* npm ends or times out, for everyone who waits.
InstallEnds(good) ==
    /\ install # {} /\ install' = {}
    /\ order' = [u \in Unit |-> IF u \notin install THEN order[u]
                                ELSE [order[u] EXCEPT !.pc = IF good THEN "claim" ELSE "release"]]
    /\ UNCHANGED <<unitsVars, portVars, saveVars, given, lost>>

\* expectServicePort: the page answers with its generation, or does not.
Claim(u) ==
    /\ At(u, "claim") /\ Goto(u, "manage")
    /\ owns' = [owns EXCEPT ![u] = TRUE]
    /\ claim' = [claim EXCEPT ![u] = TRUE] /\ gate' = [gate EXCEPT ![u] = generation]
    /\ UNCHANGED <<unitsVars, install, saveVars, given, lost>>

ClaimLost(u) ==
    /\ At(u, "claim") /\ lost < MaxLost /\ lost' = lost + 1 /\ Goto(u, "manage")
    /\ owns' = [owns EXCEPT ![u] = TRUE] /\ gate' = [gate EXCEPT ![u] = Free]
    /\ \E late \in BOOLEAN: claim' = [claim EXCEPT ![u] = @ \/ late]
    /\ UNCHANGED <<unitsVars, install, saveVars, given>>

Tried(u, pc) == order' = [order EXCEPT ![u].pc = pc, ![u].tried = TRUE]

\* start: a unit that runs is left as it is; restart: it is replaced.
Starts(u) ==
    /\ At(u, "manage") /\ Tried(u, "wait")
    /\ IF process[u] # "none" /\ order[u].verb = "start" THEN UNCHANGED unitsVars
       ELSE /\ process' = [process EXCEPT ![u] = "active"] /\ open' = [open EXCEPT ![u] = 0]
            /\ UNCHANGED <<heard, generation>>
    /\ UNCHANGED <<portVars, install, saveVars, given, lost>>

Refused(u) ==
    /\ At(u, "manage") /\ Tried(u, "settle")
    /\ IF order[u].verb = "restart" THEN Gone(u) ELSE UNCHANGED unitsVars
    /\ UNCHANGED <<portVars, install, saveVars, given, lost>>

\* (mutant: the address of the process before the restart will do)
IsReadyAtOnce(u) ==
    IF gate[u] = Free THEN process[u] # "none" ELSE claim[u] /\ open[u] # 0

\* waitForServiceReady: an event later than the claim, or with no gate an
\* active process; the ports the page tells of are the claimed ones.
IsReady(u) ==
    IF gate[u] = Free THEN process[u] # "none" ELSE claim[u] /\ open[u] > gate[u]

Ready(u) ==
    /\ At(u, "wait") /\ IsReady(u) /\ Goto(u, "done")
    /\ UNCHANGED <<unitsVars, portVars, install, saveVars, given, lost>>

\* (mutant: a start that is not ready in time is just reported)
NotReadyReported(u) ==
    /\ At(u, "wait") /\ Goto(u, "failed")
    /\ UNCHANGED <<unitsVars, portVars, install, saveVars, given, lost>>

NotReady(u) ==
    /\ At(u, "wait") /\ Goto(u, "settle")
    /\ UNCHANGED <<unitsVars, portVars, install, saveVars, given, lost>>

\* settleFailedStart: what was attempted is stopped, then the port is released.
SettleFailedStart(u) ==
    /\ At(u, "settle") /\ Gone(u) /\ Goto(u, "release")
    /\ UNCHANGED <<portVars, install, saveVars, given, lost>>

\* releaseServicePort, of a port the bridge has claimed.
Release(u) ==
    /\ At(u, "release")
    /\ Goto(u, IF order[u].verb = "stop" /\ order[u].tried THEN "done" ELSE "failed")
    /\ owns' = [owns EXCEPT ![u] = FALSE]
    /\ gate' = [gate EXCEPT ![u] = IF owns[u] THEN Free ELSE @]
    /\ \/ claim' = [claim EXCEPT ![u] = @ /\ ~owns[u]] /\ UNCHANGED lost
       \/ owns[u] /\ lost < MaxLost /\ lost' = lost + 1 /\ UNCHANGED claim
    /\ UNCHANGED <<unitsVars, install, saveVars, given>>

\* stop: whether or not the manager can, the port is released.
Stop(u) ==
    /\ At(u, "stop")
    /\ \/ Gone(u) /\ Tried(u, "release")
       \/ UNCHANGED unitsVars /\ Goto(u, "release")
    /\ UNCHANGED <<portVars, install, saveVars, given, lost>>

\* The client of the page gives back what it has claimed.
Finish(u) ==
    /\ order[u].pc \in {"done", "failed"}
    /\ claim' = [claim EXCEPT ![u] = @ /\
         ~(order[u].sdk /\ (\/ order[u].verb = "stop" /\ At(u, "done")
                            \/ order[u].verb = "start" /\ At(u, "failed")))]
    /\ order' = [order EXCEPT ![u] = Rest]
    /\ UNCHANGED <<unitsVars, owns, gate, install, saveVars, given, lost>>

-------------------------------------------------------------------------------
(* enable and disable: a marker, and the snapshot before the command ends. *)

\* (mutant: the marker is written behind the snapshot)
MarkLater(u) ==
    /\ At(u, "mark") /\ Goto(u, "save")
    /\ UNCHANGED <<unitsVars, portVars, install, saveVars, given, lost>>

Mark(u) ==
    /\ At(u, "mark") /\ Goto(u, "save")
    /\ marker' = [marker EXCEPT ![u] = order[u].verb = "enable"]
    /\ UNCHANGED <<unitsVars, portVars, install, saved, given, lost>>

\* The snapshot holds the markers of every unit; a failed one is not reported.
Save(u) ==
    /\ At(u, "save")
    /\ \/ saved' = marker /\ Goto(u, "done") /\ UNCHANGED lost
       \/ /\ lost < MaxLost /\ lost' = lost + 1 /\ UNCHANGED saved
          /\ order' = [order EXCEPT ![u].pc = "done", ![u].acked = FALSE]
    /\ UNCHANGED <<unitsVars, portVars, install, marker, given>>

\* The page is loaded again: the snapshot comes back, and with the markers the
\* enabled units, restoreServiceEnablement.
Reload ==
    /\ marker' = saved
    /\ process' = [u \in Unit |-> "none"] /\ open' = [u \in Unit |-> 0]
    /\ generation' = 0 /\ heard' = [u \in Unit |-> 0]
    /\ claim' = [u \in Unit |-> FALSE] /\ owns' = [u \in Unit |-> FALSE]
    /\ gate' = [u \in Unit |-> Free] /\ install' = {}
    /\ order' = [u \in Unit |-> Rest]
    /\ UNCHANGED <<saved, given, lost>>

Verb == {"start", "restart", "stop", "enable", "disable"}

Next ==
    \/ \E u \in Unit:
         \/ Listens(u) \/ Crashes(u)
         \/ \E verb \in Verb, sdk \in BOOLEAN: Begin(u, verb, sdk)
         \/ Package(u) \/ Claim(u) \/ ClaimLost(u) \/ Starts(u) \/ Refused(u)
         \/ Ready(u) \/ NotReady(u) \/ SettleFailedStart(u) \/ Release(u)
         \/ Stop(u) \/ Finish(u) \/ Mark(u) \/ Save(u)
    \/ \E good \in BOOLEAN: InstallEnds(good)
    \/ Reload

Spec == Init /\ [][Next]_servicesVars

-------------------------------------------------------------------------------

Ended(u, verbs, pc) == order[u].verb \in verbs /\ At(u, pc)

\* A start the page took part in reports success only after the unit itself has
\* listened since the claim, and not for an address that was there before.
StartedHasListened ==
    \A u \in Unit: Ended(u, {"start", "restart"}, "done") /\ gate[u] # Free => heard[u] > gate[u]

\* A start that was attempted and failed has left no claim of the bridge's, and
\* what it started is gone.
FailedLeavesNothing ==
    \A u \in Unit: Ended(u, {"start", "restart"}, "failed") /\ order[u].tried =>
        process[u] = "none" /\ ~owns[u] /\ gate[u] = Free

\* service-command-bridge.ts:155: enablement is durable when the command ends.
EnabledIsSaved ==
    \A u \in Unit: Ended(u, {"enable", "disable"}, "done") /\ order[u].acked =>
        saved[u] = (order[u].verb = "enable")
=============================================================================
