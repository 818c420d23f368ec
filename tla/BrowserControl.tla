----------------------------- MODULE BrowserControl -----------------------------
(***************************************************************************)
(* Commands of the container that only the page can carry out: snapshot,   *)
(* reboot, ports, environment.  The host writes a request file and polls   *)
(* for its response until the request expires; a bridge in the page reads  *)
(* the directory and carries out what it finds there.                      *)
(*   host  engine/host/control.ts                                          *)
(*   page  engine/browser-control-bridge.ts, engine/control-protocol.ts    *)
(* A page starts one bridge and may stop it (host/plugins/container.ts).   *)
(***************************************************************************)
EXTENDS Naturals, FiniteSets

CONSTANTS
    Request,        \* control requests
    Timeout,        \* how long a request is valid
    MaxTime         \* bound: ticks

VARIABLES
    now,
    host,           \* the requester of each request
    expires,        \* expiresAt
    requestFile,    \* requests whose file is there
    response,       \* responses that are there
    bridge,         \* the poll loop of the bridge
    runs            \* how often the handler of a request was called

vars == <<now, host, expires, requestFile, response, bridge, runs>>

None == "none"

TypeOK ==
    /\ now \in 0..MaxTime
    /\ host \in [Request -> {"new", "waiting", "answered", "timedOut", "dead"}]
    /\ expires \in [Request -> 0..(MaxTime + Timeout)]
    /\ requestFile \subseteq Request /\ response \subseteq Request
    /\ bridge \in [active : BOOLEAN, pc : {"idle", "list", "read", "run", "remove"},
                    names : SUBSET Request, req : Request \cup {None}]
    /\ runs \in [Request -> Nat]

Init ==
    /\ now = 0 /\ host = [r \in Request |-> "new"] /\ expires = [r \in Request |-> 0]
    /\ requestFile = {} /\ response = {}
    /\ bridge = [active |-> TRUE, pc |-> "idle", names |-> {}, req |-> None]
    /\ runs = [r \in Request |-> 0]

Tick == now < MaxTime /\ now' = now + 1 /\ UNCHANGED <<host, expires, requestFile, response, bridge, runs>>

-----------------------------------------------------------------------------
(* The host.                                                               *)

Post(r) ==
    /\ host[r] = "new"
    /\ host' = [host EXCEPT ![r] = "waiting"]
    /\ expires' = [expires EXCEPT ![r] = now + Timeout]
    /\ requestFile' = requestFile \cup {r}
    /\ UNCHANGED <<now, response, bridge, runs>>

\* The finally of requestBrowserControl.
Cleaned(r) == response' = response \ {r} /\ requestFile' = requestFile \ {r}

\* A look that finds the response, or the end of the loop once the request has expired. Both clean up at once.
Answered(r) ==
    /\ host[r] = "waiting" /\ r \in response
    /\ host' = [host EXCEPT ![r] = "answered"]
    /\ Cleaned(r)
    /\ UNCHANGED <<now, expires, bridge, runs>>

TimesOut(r) ==
    /\ host[r] = "waiting" /\ now > expires[r]
    /\ host' = [host EXCEPT ![r] = "timedOut"]
    /\ Cleaned(r)
    /\ UNCHANGED <<now, expires, bridge, runs>>

\* The host is killed while it waits: what it has written stays.
HostDies ==
    /\ \E r \in Request : host[r] = "waiting"
    /\ host' = [r \in Request |-> IF host[r] = "waiting" THEN "dead" ELSE host[r]]
    /\ UNCHANGED <<now, expires, requestFile, response, bridge, runs>>

-----------------------------------------------------------------------------
(* The page.                                                               *)

Goto(pc) == bridge' = [bridge EXCEPT !.pc = pc]

\* stop(): a request that has begun goes on to its end.
StopBridge ==
    /\ bridge.active
    /\ bridge' = [bridge EXCEPT !.active = FALSE]
    /\ UNCHANGED <<now, host, expires, requestFile, response, runs>>

Poll ==
    /\ bridge.active /\ bridge.pc = "idle" /\ requestFile # {}
    /\ bridge' = [bridge EXCEPT !.pc = "list", !.names = requestFile]
    /\ UNCHANGED <<now, host, expires, requestFile, response, runs>>

\* The loop over the names: each is read when its turn comes; one that is gone by then is skipped.
NextName ==
    /\ bridge.pc = "list"
    /\ IF bridge.names = {} \/ ~bridge.active
         THEN bridge' = [bridge EXCEPT !.pc = "idle", !.names = {}, !.req = None]
         ELSE \E r \in bridge.names :
               bridge' = [bridge EXCEPT !.pc = IF r \in requestFile THEN "read" ELSE "list", !.names = @ \ {r}, !.req = r]
    /\ UNCHANGED <<now, host, expires, requestFile, response, runs>>

Begin ==
    /\ runs' = [runs EXCEPT ![bridge.req] = @ + 1]
    /\ Goto("run")
    /\ UNCHANGED requestFile

\* (mutant: what has been read is carried out)
BeginsAlways == Begin

\* The second guard: a request that has expired is removed, any other is carried out.
BeginIfValid ==
    IF now > expires[bridge.req] THEN requestFile' = requestFile \ {bridge.req} /\ Goto("list") /\ UNCHANGED runs
    ELSE Begin

Execute ==
    /\ bridge.pc = "read"
    /\ BeginIfValid
    /\ UNCHANGED <<now, host, expires, response>>

\* The handler is over, well or not: the response is written, if that succeeds ...
Respond ==
    /\ bridge.pc = "run"
    /\ response' \in {response, response \cup {bridge.req}}
    /\ Goto("remove")
    /\ UNCHANGED <<now, host, expires, requestFile, runs>>

\* (mutant: only the host removes requests)
KeepsRequest == Goto("list") /\ UNCHANGED requestFile

\* ... and the request removed.
Removed == Goto("list") /\ requestFile' = requestFile \ {bridge.req}

Remove == bridge.pc = "remove" /\ Removed /\ UNCHANGED <<now, host, expires, response, runs>>

Next ==
    \/ Tick \/ HostDies
    \/ \E r \in Request : Post(r) \/ Answered(r) \/ TimesOut(r)
    \/ StopBridge \/ Poll \/ NextName \/ Execute \/ Respond \/ Remove

-----------------------------------------------------------------------------
(* Properties.                                                             *)

\* A handler is called for a request whose command still waits for it, or was cut off with its host: never for one that is
\* over (browser-control-bridge.ts:109).
NeverAfterTheCommand ==
    [][\A r \in Request : runs'[r] > runs[r] => host[r] \in {"waiting", "dead"}]_vars

\* A handler is called once for a request, also when its response cannot be written and the command has to time out
\* (browser-control-bridge.ts:141).
AtMostOnce == \A r \in Request : runs[r] <= 1
=============================================================================
