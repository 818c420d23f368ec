--------------------------- MODULE RequestLifecycle ---------------------------
(***************************************************************************)
(* What the file RPC promises the caller of one request: it is answered or *)
(* rejected once and for all, it is answered only after its command has    *)
(* been begun, the command is begun at most once, and a request whose      *)
(* rejection is void (it never left the page) is not begun afterwards.  A  *)
(* rejected request that did leave the page may still run: a timeout says  *)
(* nothing about the command.                                              *)
(***************************************************************************)
EXTENDS Naturals

CONSTANT Request

VARIABLES
    caller,  \* per request: "idle", "waiting", "answered" or "rejected"
    runs,    \* per request: how often its command was begun
    void     \* the requests rejected without ever having been sent

lifecycleVars == <<caller, runs, void>>

LifecycleInit ==
    /\ caller = [r \in Request |-> "idle"]
    /\ runs = [r \in Request |-> 0]
    /\ void = {}

Submit(r) ==
    /\ caller[r] = "idle"
    /\ caller' = [caller EXCEPT ![r] = "waiting"]
    /\ UNCHANGED <<runs, void>>

Run(r) ==
    /\ caller[r] # "idle" /\ runs[r] = 0 /\ r \notin void
    /\ runs' = [runs EXCEPT ![r] = 1]
    /\ UNCHANGED <<caller, void>>

\* Settling may answer one request and reject others in the same step: the
\* acknowledged shutdown rejects whatever is queued behind it.
Settle(answered, rejected) ==
    /\ answered \intersect rejected = {}
    /\ \A r \in answered \union rejected : caller[r] = "waiting"
    /\ \A r \in answered : runs[r] = 1
    /\ caller' = [r \in Request |-> IF r \in answered THEN "answered"
                                    ELSE IF r \in rejected THEN "rejected"
                                    ELSE caller[r]]
    /\ \E never \in SUBSET {r \in rejected : runs[r] = 0} : void' = void \union never
    /\ UNCHANGED runs

LifecycleNext ==
    \/ \E r \in Request : Submit(r) \/ Run(r)
    \/ \E answered, rejected \in SUBSET Request : Settle(answered, rejected)

LifecycleSpec == LifecycleInit /\ [][LifecycleNext]_lifecycleVars
===============================================================================
