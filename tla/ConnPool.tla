------------------------------ MODULE ConnPool ------------------------------
(***************************************************************************)
(* The two resources every request competes for: tokio's worker threads     *)
(* and the connections of the r2d2 pool.                                    *)
(*                                                                         *)
(* db_pool.get() blocks the worker thread it is called on. A login keeps    *)
(* its connection while it awaits the external site, but not its worker:    *)
(* when all connections are held by such logins, requests that wait for a   *)
(* connection may occupy all the workers, and the logins whose answers have *)
(* come find no worker to give their connection back. What ends the         *)
(* circle is the time limit of get() and nothing else.                      *)
(***************************************************************************)
EXTENDS Naturals, FiniteSets

CONSTANTS Login,      \* requests to the login endpoint
          Query,      \* requests that use the database and await nothing;
                      \* staff requests ask for a connection twice
          Workers,    \* number of worker threads
          PoolSize,   \* number of connections
          MaxCalls    \* calls a login makes to the external site

Request == Login \cup Query

ASSUME ResourceAssumption ==
    /\ Workers \in Nat \ {0} /\ PoolSize \in Nat \ {0} /\ MaxCalls \in Nat \ {0}
    /\ IsFiniteSet(Request)

VARIABLES stage,    \* of each request
          calls     \* external calls each login has still to make; for a
                    \* query, the connections it may still ask for again

vars == <<stage, calls>>

\* "away": no such request, or it has been answered; the client may send it
\* (again). "ready": the external answer is there, no worker has taken it up.
Stage == {"away", "arrived", "getting", "running", "awaiting", "ready"}

PTypeOK == /\ stage \in [Request -> Stage]
           /\ calls \in [Request -> 0 .. MaxCalls]

Init == /\ stage = [r \in Request |-> "away"]
        /\ calls = [r \in Request |-> 0]

-----------------------------------------------------------------------------
\* Not the code: the external calls made with a blocking client.
Bug_BlockingClient == {r \in Request : stage[r] \in {"getting", "running", "awaiting"}}

\* The requests that occupy a worker, and those that hold a connection.
OnWorker == {r \in Request : stage[r] \in {"getting", "running"}}
Holding == {r \in Request : stage[r] \in {"running", "awaiting", "ready"}}

FreeWorker == Cardinality(OnWorker) < Workers
FreeConnection == Cardinality(Holding) < PoolSize

Enter(r, to) == stage' = [stage EXCEPT ![r] = to]

-----------------------------------------------------------------------------
Arrive(r) ==
    /\ stage[r] = "away"
    /\ Enter(r, "arrived")
    /\ calls' = [calls EXCEPT ![r] = IF r \in Login THEN MaxCalls ELSE 1]

\* A worker takes up the request and runs its handler up to db_pool.get().
PickUp(r) ==
    /\ stage[r] = "arrived" /\ FreeWorker
    /\ Enter(r, "getting")
    /\ UNCHANGED calls

\* db_pool.get() returns a connection.
Get(r) ==
    /\ stage[r] = "getting" /\ FreeConnection
    /\ Enter(r, "running")
    /\ UNCHANGED calls

\* Not the code: a get() that waits for as long as it takes.
Bug_NoTimeLimit(r) == FALSE

\* The time limit of db_pool.get() ends a wait for a connection.
GivesUp(r) == stage[r] = "getting" /\ ~FreeConnection

\* The request is answered with an error.
Timeout(r) ==
    /\ GivesUp(r)
    /\ Enter(r, "away")
    /\ UNCHANGED calls

\* Not the code: the call repeated for as long as it fails.
Bug_Retry(r) ==
    /\ stage[r] = "running" /\ r \in Login
    /\ Enter(r, "awaiting")
    /\ calls' = [calls EXCEPT ![r] = @ - 1]

\* Not the code: a failed call repeated without counting.
Bug_Repeat(r) ==
    /\ stage[r] = "running" /\ r \in Login /\ calls[r] > 0
    /\ Enter(r, "awaiting")
    /\ UNCHANGED calls

\* An external call. The handler keeps its connection.
Await(r) ==
    /\ stage[r] = "running" /\ r \in Login /\ calls[r] > 0
    /\ Enter(r, "awaiting")
    /\ calls' = [calls EXCEPT ![r] = @ - 1]

\* require_tag_manager has given its connection back; the handler asks for
\* another without leaving its worker.
GetAgain(r) ==
    /\ stage[r] = "running" /\ r \in Query /\ calls[r] > 0
    /\ Enter(r, "getting")
    /\ calls' = [calls EXCEPT ![r] = @ - 1]

\* The site answers, or the call fails.
Answer(r) == stage[r] = "awaiting" /\ Enter(r, "ready") /\ UNCHANGED calls

Resume(r) ==
    /\ stage[r] = "ready" /\ FreeWorker
    /\ Enter(r, "running")
    /\ UNCHANGED calls

\* The client has gone: a worker drops the future and with it the connection.
Cancel(r) ==
    /\ stage[r] \in {"awaiting", "ready"} /\ FreeWorker
    /\ Enter(r, "away")
    /\ UNCHANGED calls

\* The handler returns: at its end or, an account that may not log in, earlier.
Return(r) == stage[r] = "running" /\ Enter(r, "away") /\ UNCHANGED calls

Next == \E r \in Request :
    \/ Arrive(r) \/ PickUp(r) \/ Get(r) \/ Timeout(r) \/ Await(r) \/ GetAgain(r)
    \/ Answer(r) \/ Resume(r) \/ Cancel(r) \/ Return(r)

Spec == Init /\ [][Next]_vars

-----------------------------------------------------------------------------
\* Tokio's queues are fair: a request for which a worker is free again and
\* again gets one. A request inside get() gets a connection or gives up, and a
\* handler that runs goes on. Clients need not send, stay or go.
Scheduling ==
    \A r \in Request : /\ SF_vars(PickUp(r)) /\ SF_vars(Resume(r))
                       /\ WF_vars(Get(r) \/ Timeout(r))
                       /\ WF_vars(Await(r) \/ GetAgain(r) \/ Return(r))

\* Nothing is assumed of the external site.
FairSpec == Spec /\ Scheduling

\* The circle is broken in every state: unless all requests under way wait for
\* the external site, one of them can go on without its help.
CanGoOn(r) ==
    \/ stage[r] \in {"arrived", "ready"} /\ FreeWorker
    \/ stage[r] = "getting" /\ FreeConnection
    \/ GivesUp(r)
    \/ stage[r] = "running"

SomeoneCanGoOn ==
    (\E r \in Request : stage[r] \notin {"away", "awaiting"})
        => \E r \in Request : CanGoOn(r)

\* A request under way has a bounded number of steps before it, whatever the
\* others do: it neither starts again nor waits twice for the same thing.
Ahead(r) ==
    IF stage[r] = "away" THEN 0
    ELSE 4 * calls[r] + CASE stage[r] = "running" -> 1
                          [] stage[r] \in {"getting", "ready"} -> 2
                          [] stage[r] \in {"arrived", "awaiting"} -> 3

StepsRunOut ==
    [][\A r \in Request : stage[r] # "away" =>
          \/ Ahead(r)' < Ahead(r)
          \/ stage'[r] = stage[r] /\ calls'[r] = calls[r]]_vars

\* If the external site answers every call, or the call fails, every request
\* ends, however many compete: the circle of workers waiting for connections
\* and connections waiting for workers is always broken.
RequestsEnd ==
    (\A r \in Login : WF_vars(Answer(r)))
        => \A r \in Request : stage[r] = "arrived" ~> stage[r] = "away"

\* If it never answers, its logins stay; every other request ends all the same.
OthersEnd == \A r \in Query :
    stage[r] = "arrived" ~> stage[r] = "away"
=============================================================================
