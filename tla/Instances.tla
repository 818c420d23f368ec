------------------------------- MODULE Instances -------------------------------
(***************************************************************************)
(* The instances of a service (plugin/host-instance-manager.ts), the       *)
(* engine behind each (instance/index.ts), which engine hears of the       *)
(* page's ports (engine/ports.ts, instance/ports.ts) and the end of them   *)
(* all (plugin/service-lifecycle.ts).                                      *)
(*                                                                         *)
(* The instances are the ones with an id of their own; the default one     *)
(* takes every port.  They share the host of the page, so that an engine   *)
(* is built by two awaits, and their snapshots are the ones getPersist     *)
(* keeps for the page: an id has one persistence context for good.         *)
(***************************************************************************)
EXTENDS Naturals, FiniteSets

CONSTANTS
    Id, Port,
    MaxEngine, \* bound: engines built in all
    Call,      \* the callers
    Overlap    \* TRUE: calls for one id may overlap, and with a shutdown;
               \* FALSE: a caller waits for the others

VARIABLES
    view,     \* per id: the engine the service knows it by, 0 for none
    rows,     \* per id: its rows in state.instances
    engine,   \* per engine: its id, the ports in its view, whether disposed
    hooks,    \* per id: the engine that hears of the page's ports
    expected, \* per id: the ports it claims
    ready,    \* the ports of the page that are open
    watching, \* per id: whether its persistence context watches the files
    bound,    \* per id: whether the context has a container
    up,       \* whether the page has a host
    op        \* per caller: what it is doing

instancesVars == <<view, rows, engine, hooks, expected, ready, watching, bound, up, op>>

None   == 0
Engine == 1..MaxEngine
Idle   == [pc |-> "idle", id |-> CHOOSE i \in Id: TRUE, engine |-> None]
Unused == [id |-> CHOOSE i \in Id: TRUE, ports |-> {}, used |-> FALSE, disposed |-> FALSE]

Init ==
    /\ view = [i \in Id |-> None] /\ rows = [i \in Id |-> 0]
    /\ engine = [e \in Engine |-> Unused]
    /\ hooks = [i \in Id |-> None] /\ expected = [i \in Id |-> {}]
    /\ ready = {} /\ up = TRUE
    /\ watching = [i \in Id |-> FALSE] /\ bound = [i \in Id |-> FALSE]
    /\ op = [c \in Call |-> Idle]

Busy(i) == \E c \in Call: op[c].pc # "idle" /\ (op[c].id = i \/ op[c].pc \in {"flush", "clear"})
May(i)  == Overlap \/ ~Busy(i)
Goto(c, i, pc, e) == op' = [op EXCEPT ![c] = [pc |-> pc, id |-> i, engine |-> e]]
Done(c) == op' = [op EXCEPT ![c] = Idle]

-------------------------------------------------------------------------------
(* ensureInstance: a known id answers at once; the context of an unknown   *)
(* one is bound, and its state root is made.                               *)

\* getPersist: the context of an id is made once.
Fresh(i) == ~bound[i]

\* bindContainer watches the files, unless it has this container already.
Bound(i) ==
    /\ bound' = [bound EXCEPT ![i] = TRUE]
    /\ watching' = [watching EXCEPT ![i] = @ \/ Fresh(i)]

Build(c, i) == Bound(i) /\ Goto(c, i, "mkdir", None)

Ensure(c, i) ==
    /\ op[c].pc = "idle" /\ up /\ May(i) /\ view[i] = None
    /\ Build(c, i)
    /\ UNCHANGED <<view, rows, engine, hooks, expected, ready, up>>

\* The engine takes over the hooks of its id and waits for the host.
Subscribe(c) ==
    /\ op[c].pc = "mkdir"
    /\ \E e \in Engine:
         /\ ~engine[e].used /\ \A f \in 1..(e - 1): engine[f].used
         /\ engine' = [engine EXCEPT ![e] = [id |-> op[c].id, ports |-> {}, used |-> TRUE,
                                              disposed |-> FALSE]]
         /\ hooks' = [hooks EXCEPT ![op[c].id] = e]
         /\ Goto(c, op[c].id, "probe", e)
    /\ UNCHANGED <<view, rows, expected, ready, watching, bound, up>>

\* The host does not answer: the call fails, and the hooks stay.
ProbeFails(c) ==
    /\ op[c].pc = "probe" /\ Done(c)
    /\ UNCHANGED <<view, rows, engine, hooks, expected, ready, watching, bound, up>>

Listed(i, e) ==
    /\ view' = [view EXCEPT ![i] = e] /\ rows' = [rows EXCEPT ![i] = @ + 1]

\* The host answers; the snapshot is restored or found damaged, either will do.
Register(c) ==
    /\ op[c].pc = "probe" /\ up
    /\ Listed(op[c].id, op[c].engine) /\ Done(c)
    /\ UNCHANGED <<engine, hooks, expected, ready, watching, bound, up>>

-------------------------------------------------------------------------------
(* dispose of an engine: once, and only its own hooks.                     *)

Disposed(E) ==
    LET new == {e \in E: ~engine[e].disposed}
    IN  /\ engine' = [e \in Engine |-> [engine[e] EXCEPT !.disposed = @ \/ e \in E]]
        /\ hooks' = [i \in Id |-> IF hooks[i] \in new THEN None ELSE hooks[i]]
        /\ watching' = [i \in Id |-> watching[i] /\ ~\E e \in new: engine[e].id = i]

\* releaseInstance: the host resets the instance, the engine is disposed of,
\* and then the id is forgotten, whatever it stands for by now.
Release(c, i) ==
    /\ op[c].pc = "idle" /\ May(i) /\ view[i] # None
    /\ Goto(c, i, "reset", view[i])
    /\ UNCHANGED <<view, rows, engine, hooks, expected, ready, watching, bound, up>>

Dispose(c) ==
    /\ op[c].pc = "reset" /\ Disposed({op[c].engine})
    /\ Goto(c, op[c].id, "drop", op[c].engine)
    /\ UNCHANGED <<view, rows, expected, ready, bound, up>>

\* (mutant: the id keeps its claims, and its next engine their ports)
DropKeepsPorts(c) ==
    /\ op[c].pc = "drop"
    /\ LET i == op[c].id
       IN  /\ view' = [view EXCEPT ![i] = None] /\ rows' = [rows EXCEPT ![i] = 0]
           /\ hooks' = [hooks EXCEPT ![i] = None]
    /\ Done(c)
    /\ UNCHANGED <<engine, expected, ready, watching, bound, up>>

Drop(c) ==
    /\ op[c].pc = "drop"
    /\ LET i == op[c].id
       IN  /\ view' = [view EXCEPT ![i] = None] /\ rows' = [rows EXCEPT ![i] = 0]
           /\ hooks' = [hooks EXCEPT ![i] = None]
           /\ expected' = [expected EXCEPT ![i] = {}]
    /\ Done(c)
    /\ UNCHANGED <<engine, ready, watching, bound, up>>

\* restart: the host resets the instance, and its ports are nobody's.
Restart(c, i) ==
    /\ op[c].pc = "idle" /\ up /\ May(i) /\ view[i] # None
    /\ Goto(c, i, "restart", view[i])
    /\ UNCHANGED <<view, rows, engine, hooks, expected, ready, watching, bound, up>>

Restarted(c) ==
    /\ op[c].pc = "restart"
    /\ expected' = [expected EXCEPT ![op[c].id] = {}]
    /\ engine' = [engine EXCEPT ![op[c].engine].ports = {}]
    /\ Done(c)
    /\ UNCHANGED <<view, rows, hooks, ready, watching, bound, up>>

-------------------------------------------------------------------------------
(* The end of the service: every instance is flushed, the ones known by    *)
(* then are disposed of one after the other, and the map is cleared.       *)

Views == {view[i] : i \in Id} \ {None}

Shutdown(c) ==
    /\ op[c].pc = "idle" /\ up /\ \A i \in Id: May(i)
    /\ \A d \in Call: op[d].pc \notin {"flush", "clear"}
    /\ Goto(c, op[c].id, "flush", None)
    /\ UNCHANGED <<view, rows, engine, hooks, expected, ready, watching, bound, up>>

ClearInstances(c) ==
    /\ op[c].pc = "flush" /\ Disposed(Views)
    /\ Goto(c, op[c].id, "clear", None)
    /\ UNCHANGED <<view, rows, expected, ready, bound, up>>

ResetPorts ==
    /\ hooks' = [i \in Id |-> None] /\ expected' = [i \in Id |-> {}] /\ ready' = {}

\* clearInstances ends, the registries of the ports are reset and the host goes.
Cleared(c) ==
    /\ op[c].pc = "clear"
    /\ view' = [i \in Id |-> None] /\ rows' = [i \in Id |-> 0]
    /\ ResetPorts /\ up' = FALSE /\ Done(c)
    /\ UNCHANGED <<engine, watching, bound>>

Boot ==
    /\ ~up /\ up' = TRUE
    /\ UNCHANGED <<view, rows, engine, hooks, expected, ready, watching, bound, op>>

-------------------------------------------------------------------------------
(* The ports.  A service or a database claims its port before it starts    *)
(* and gives it back when it is gone; close events of a database are taken *)
(* to come before it gives its port back.                                  *)

Hearing(p) == {hooks[i] : i \in {j \in Id: p \in expected[j]}} \ {None}

\* The hooks of an engine: a port nobody claims is in no view.
Seen(p, open) ==
    engine' = [e \in Engine |-> [engine[e] EXCEPT !.ports =
                 IF e \notin Hearing(p) THEN @ ELSE IF open THEN @ \union {p} ELSE @ \ {p}]]

Claims(i, P) ==
    /\ expected' = [expected EXCEPT ![i] = P]
    /\ engine' = [engine EXCEPT ![view[i]].ports = P \intersect ready]

\* The control bridge claims the port and reconciles the view with the page.
Expect(i, p) ==
    /\ view[i] # None /\ May(i) /\ p \notin expected[i]
    /\ Claims(i, expected[i] \union {p})
    /\ UNCHANGED <<view, rows, hooks, ready, watching, bound, up, op>>

Unexpect(i, p) ==
    /\ view[i] # None /\ May(i) /\ p \in expected[i]
    /\ Claims(i, expected[i] \ {p})
    /\ UNCHANGED <<view, rows, hooks, ready, watching, bound, up, op>>

PortReady(p) ==
    /\ up /\ p \notin ready /\ ready' = ready \union {p} /\ Seen(p, TRUE)
    /\ UNCHANGED <<view, rows, hooks, expected, watching, bound, up, op>>

PortClosed(p) ==
    /\ p \in ready /\ ready' = ready \ {p} /\ Seen(p, FALSE)
    /\ UNCHANGED <<view, rows, hooks, expected, watching, bound, up, op>>

Next ==
    \/ \E c \in Call:
         \/ \E i \in Id: Ensure(c, i) \/ Release(c, i) \/ Restart(c, i)
         \/ Subscribe(c) \/ ProbeFails(c) \/ Register(c) \/ Dispose(c) \/ Drop(c)
         \/ Restarted(c) \/ Shutdown(c) \/ ClearInstances(c) \/ Cleared(c)
    \/ Boot
    \/ \E p \in Port: PortReady(p) \/ PortClosed(p)
         \/ \E i \in Id: Expect(i, p) \/ Unexpect(i, p)

Spec == Init /\ [][Next]_instancesVars

-------------------------------------------------------------------------------

\* At rest, the engine an id is known by is a live one, listed once, and it is
\* the one that hears of the ports: it shows the open ones among those its id
\* claims and no others.  Every other engine was disposed of or never returned.
KnownIsLive ==
    \A i \in Id: view[i] # None /\ ~Busy(i) =>
        /\ ~engine[view[i]].disposed /\ rows[i] = 1 /\ hooks[i] = view[i]
        /\ engine[view[i]].ports = expected[i] \intersect ready

\* The context of a known instance watches the files: auto-snapshot.ts:1, "the
\* dirty signal drives the normal snapshot path".
KnownIsWatched == \A i \in Id: view[i] # None /\ ~Busy(i) => watching[i]
=============================================================================
