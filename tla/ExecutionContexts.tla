--------------------------- MODULE ExecutionContexts ---------------------------
(***************************************************************************)
(* The world of one instance in the host (engine/host/run.ts): a Lifo      *)
(* sandbox that is created by whoever needs it first, kept as a promise    *)
(* in sandboxContexts, and thrown away by a reset; and the public pids     *)
(* under which ps and kill name what runs in it (process-world.ts).        *)
(* The lane takes one command at a time; a device, the warm-up, Ctrl+C,    *)
(* exit and the processes of the world do not wait for it.                 *)
(***************************************************************************)
EXTENDS Naturals, FiniteSets

CONSTANTS
    MaxWorld,       \* sandboxes created
    MaxCommand,     \* commands the lane takes
    MaxProcess      \* processes started in one world; its local pids

VARIABLES
    phase,          \* of each sandbox
    current,        \* the one in sandboxContexts, 0 for none
    doomed,         \* a shutdown waits for these to be created and destroys them
    lane,           \* the command that is handled: what, how far, and in which world
    taken,          \* commands so far
    held,           \* sandboxRunLocks: the lock of a run that was not released
    controller,     \* lifoRunControllers: the run that can be interrupted, 0 for none
    device,         \* the terminal device: the world it waits for, and the world whose hub it is attached to
    proc,           \* the processes of each world, by local pid
    nextPid,        \* nextPublicPid
    pidOf,          \* byKey: the public pid of a local one, 0 for none
    listed,         \* (history) what ps has shown: public pid, world, local pid
    exiting         \* the exit command was taken

contextVars == <<phase, current, doomed, lane, taken, held, controller, device, proc, nextPid, pidOf, listed, exiting>>
pidVars == <<nextPid, pidOf, listed>>

World == 1..MaxWorld
Local == 1..MaxProcess
Free == [op |-> "none", at |-> "none", w |-> 0]

TypeOK ==
    /\ phase \in [World -> {"none", "creating", "ready", "destroyed"}]
    /\ current \in 0..MaxWorld /\ doomed \subseteq World /\ taken \in 0..MaxCommand
    /\ lane.op \in {"none", "run", "ps", "kill", "reset"} /\ lane.w \in 0..MaxWorld
    /\ device \in [waits : 0..MaxWorld, on : 0..MaxWorld]
    /\ pidOf \in [Local -> 0..nextPid] /\ held \in BOOLEAN /\ exiting \in BOOLEAN

Init ==
    /\ phase = [w \in World |-> "none"] /\ current = 0 /\ doomed = {}
    /\ lane = Free /\ taken = 0 /\ held = FALSE /\ controller = 0
    /\ device = [waits |-> 0, on |-> 0]
    /\ proc = [w \in World |-> [l \in Local |-> "none"]]
    /\ nextPid = 0 /\ pidOf = [l \in Local |-> 0] /\ listed = {} /\ exiting = FALSE

-----------------------------------------------------------------------------
(* The promise in sandboxContexts.                                         *)

\* (mutant: the promise is kept only when there is a sandbox)
EnsureUncached(w) ==
    /\ w \in World /\ phase[w] = "none" /\ (\A v \in World : v < w => phase[v] # "none")
    /\ phase' = [phase EXCEPT ![w] = "creating"]
    /\ UNCHANGED current

\* getSandboxContext: the one there is, or one that begins to be created.
Ensure(w) ==
    \/ current # 0 /\ w = current /\ UNCHANGED <<phase, current>>
    \/ /\ current = 0 /\ w \in World /\ phase[w] = "none" /\ (\A v \in World : v < w => phase[v] # "none")
       /\ phase' = [phase EXCEPT ![w] = "creating"]
       /\ current' = w

\* cleanupSandbox: its processes are killed.
Cleaned(w, ps) == [ps EXCEPT ![w] = [l \in Local |-> IF ps[w][l] = "running" THEN "exited" ELSE ps[w][l]]]

Created(w) ==
    /\ phase[w] = "creating"
    /\ IF w \in doomed
         THEN /\ phase' = [phase EXCEPT ![w] = "destroyed"]
              /\ proc' = Cleaned(w, proc)
         ELSE phase' = [phase EXCEPT ![w] = "ready"] /\ UNCHANGED proc
    /\ doomed' = doomed \ {w}
    /\ UNCHANGED <<current, lane, taken, held, controller, device, pidVars, exiting>>

\* A command that has no world: a run has failed, nothing is listed and nothing killed, a reset has only pids to forget.
NoWorld(op) == IF op = "reset" THEN pidOf' = [l \in Local |-> 0] ELSE UNCHANGED pidOf

\* The catch of the creation: whatever the map holds is forgotten, so that the next one who needs a world creates it.
CreationFails(w) ==
    /\ phase[w] = "creating"
    /\ phase' = [phase EXCEPT ![w] = "destroyed"]
    /\ current' = 0
    /\ doomed' = doomed \ {w}
    /\ IF lane.at = "context" /\ lane.w = w
         THEN NoWorld(lane.op) /\ lane' = Free
         ELSE UNCHANGED <<lane, pidOf>>
    /\ device' = IF device.waits = w THEN [device EXCEPT !.waits = 0] ELSE device
    /\ UNCHANGED <<taken, held, controller, proc, nextPid, listed, exiting>>

\* The warm-up, 150 ms after the start.
Prewarm ==
    /\ phase[1] = "none" /\ Ensure(1)
    /\ UNCHANGED <<doomed, lane, taken, held, controller, device, proc, pidVars, exiting>>

\* attachRpcTerminal, attachTerminalContext: the device waits for a world, and is attached to the one there is by then.
Attach(w) ==
    /\ device.waits = 0 /\ device.on = 0 /\ ~exiting /\ Ensure(w)
    /\ device' = [device EXCEPT !.waits = w]
    /\ UNCHANGED <<doomed, lane, taken, held, controller, proc, pidVars, exiting>>

Attached ==
    /\ device.waits # 0 /\ phase[device.waits] \in {"ready", "destroyed"}
    /\ \/ current \in {0, device.waits} /\ device' = [waits |-> 0, on |-> current]
       \/ current \notin {0, device.waits} /\ device' = [device EXCEPT !.waits = current]
    /\ UNCHANGED <<phase, current, doomed, lane, taken, held, controller, proc, pidVars, exiting>>

\* detachTerminalContext, when the session is closed.
Detach ==
    /\ device.on # 0
    /\ device' = [device EXCEPT !.on = 0]
    /\ UNCHANGED <<phase, current, doomed, lane, taken, held, controller, proc, pidVars, exiting>>

-----------------------------------------------------------------------------
(* What runs in a world.                                                   *)

ProcessStarts(w) ==
    \E l \in Local :
        /\ phase[w] = "ready" /\ proc[w][l] = "none" /\ \A k \in Local : k < l => proc[w][k] # "none"
        /\ proc' = [proc EXCEPT ![w][l] = "running"]
        /\ UNCHANGED <<phase, current, doomed, lane, taken, held, controller, device, pidVars, exiting>>

\* It ends and, some time, is no longer in Lifo's registry.
ProcessEnds(w, l) ==
    /\ proc[w][l] \in {"running", "exited"}
    /\ proc' = [proc EXCEPT ![w][l] = IF @ = "running" THEN "exited" ELSE "gone"]
    /\ UNCHANGED <<phase, current, doomed, lane, taken, held, controller, device, pidVars, exiting>>

\* project, projectServices and pruneKind: what is there keeps its public pid or gets the next one, what is not loses it.
Project(w) ==
    LET there == {l \in Local : proc[w][l] \in {"running", "exited"}}
        fresh == {l \in there : pidOf[l] = 0}
        pid == [l \in Local |-> IF l \notin there THEN 0 ELSE IF l \notin fresh THEN pidOf[l]
                                ELSE nextPid + Cardinality({k \in fresh : k <= l})] IN
    /\ pidOf' = pid
    /\ nextPid' = nextPid + Cardinality(fresh)
    /\ listed' = listed \cup {[pid |-> pid[l], w |-> w, l |-> l] : l \in there}

-----------------------------------------------------------------------------
(* The lane.                                                               *)

\* (mutant: the pids of the instance are not forgotten)
ForgetNothing(w) == UNCHANGED pidOf

\* forgetInstance.
Forget(w) == pidOf' = [l \in Local |-> 0]

\* The handler of run asks for the world; ps and reset take the one there is; kill resolves the pid first.
Take(op, w) ==
    /\ lane = Free /\ taken < MaxCommand
    /\ taken' = taken + 1
    /\ \/ op = "run" /\ Ensure(w) /\ lane' = [op |-> op, at |-> "context", w |-> w]
          /\ UNCHANGED pidOf
       \/ op # "run" /\ w = current /\ w # 0 /\ lane' = [op |-> op, at |-> "context", w |-> w]
          /\ UNCHANGED <<phase, current, pidOf>>
       \/ op # "run" /\ w = current /\ w = 0 /\ NoWorld(op)
          /\ UNCHANGED <<phase, current, lane>>
    /\ UNCHANGED <<doomed, held, controller, device, proc, nextPid, listed, exiting>>

HasContext == lane.at = "context" /\ phase[lane.w] \in {"ready", "destroyed"}

Answer == lane' = Free

\* ps: the view of the world.
Ps ==
    /\ HasContext /\ lane.op = "ps"
    /\ Project(lane.w)
    /\ Answer
    /\ UNCHANGED <<phase, current, doomed, taken, held, controller, device, proc, exiting>>

\* kill, with a public pid that ps has shown: the process that has it now, if there is one.
Kill(seen) ==
    /\ HasContext /\ lane.op = "kill" /\ seen \in listed
    /\ proc' = [proc EXCEPT ![lane.w] = [l \in Local |-> IF pidOf[l] = seen.pid /\ @[l] = "running" THEN "exited" ELSE @[l]]]
    /\ Answer
    /\ UNCHANGED <<phase, current, doomed, taken, held, controller, device, pidVars, exiting>>

\* run: the lock of the instance, the turn of the batch, the controller.
RunBegins ==
    /\ HasContext /\ lane.op = "run" /\ ~held
    /\ held' = TRUE
    /\ lane' = [lane EXCEPT !.at = "hub"]
    /\ UNCHANGED <<phase, current, doomed, taken, controller, device, proc, pidVars, exiting>>

RunRuns ==
    /\ lane.at = "hub"
    /\ lane' = [lane EXCEPT !.at = "running"]
    /\ controller' = taken
    /\ UNCHANGED <<phase, current, doomed, taken, held, device, proc, pidVars, exiting>>

\* The command ends, times out or is aborted; or the shell did not become idle in time.
RunEnds ==
    /\ lane.at \in {"hub", "running"}
    /\ held' = FALSE
    /\ controller' = IF controller = taken THEN 0 ELSE controller
    /\ Answer
    /\ UNCHANGED <<phase, current, doomed, taken, device, proc, pidVars, exiting>>

\* reset-instance: what is listed is killed, ...
ResetKills ==
    /\ HasContext /\ lane.op = "reset"
    /\ Project(lane.w)
    /\ proc' = Cleaned(lane.w, proc)
    /\ lane' = [lane EXCEPT !.at = "killed"]
    /\ UNCHANGED <<phase, current, doomed, taken, held, controller, device, exiting>>

\* (mutant: the world stays in the map until it has been cleaned up)
DropLate == UNCHANGED current

\* sandboxContexts.delete, before anything is awaited.
Drop == current' = 0

\* ... then the world and all that is kept for the instance is thrown away; one that is still created, when it is there.
ThrownAway ==
    /\ Drop
    /\ doomed' = IF current # 0 /\ phase[current] = "creating" THEN doomed \cup {current} ELSE doomed
    /\ IF current # 0 /\ phase[current] = "ready"
         THEN phase' = [phase EXCEPT ![current] = "destroyed"] /\ proc' = Cleaned(current, proc)
         ELSE UNCHANGED <<phase, proc>>
    /\ Forget(current)
    /\ held' = FALSE /\ controller' = 0
    /\ UNCHANGED <<nextPid, listed>>

Reset ==
    /\ lane.at = "killed"
    /\ ThrownAway
    /\ Answer
    /\ UNCHANGED <<taken, device, exiting>>

\* exit, in the priority lane: the same for all instances; the process ends soon after.
Exit ==
    /\ ~exiting /\ exiting' = TRUE
    /\ ThrownAway
    /\ UNCHANGED <<lane, taken, device>>

\* Ctrl+C, in the priority lane: the run whose controller is there ends.
Interrupt ==
    /\ controller = taken /\ lane.at = "running"
    /\ RunEnds

-----------------------------------------------------------------------------

Next ==
    \/ \E w \in World : Created(w) \/ CreationFails(w) \/ Attach(w) \/ ProcessStarts(w)
    \/ \E w \in World, l \in Local : ProcessEnds(w, l)
    \/ \E op \in {"run", "ps", "kill", "reset"}, w \in 0..MaxWorld : Take(op, w)
    \/ \E seen \in listed : Kill(seen)
    \/ Prewarm \/ Attached \/ Detach \/ Ps \/ RunBegins \/ RunRuns \/ RunEnds \/ ResetKills \/ Reset \/ Exit \/ Interrupt

-----------------------------------------------------------------------------
(* Properties.                                                             *)

\* As long as the host is not about to exit, the world in the map is the only one of the instance and is alive: two would
\* write the same mounts and sessions, and whoever found one that has failed or was cleaned up would have none.
OneWorld == ~exiting => {w \in World : phase[w] \in {"creating", "ready"}} = {current} \ {0}

\* A public pid that ps has shown never comes to mean another process, in this world or after a reset, so a late kill
\* cannot hit one nobody named (process-world.ts:76). Only the views taken while the host exits may mix worlds.
PidMeansOne == ~exiting => \A s, t \in listed : s.pid = t.pid => s = t
=============================================================================
