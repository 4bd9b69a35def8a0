------------------------------ MODULE Requests ------------------------------
(***************************************************************************)
(* The life of an HTTP request of the back office.  A route handler runs   *)
(* in a serverless function and awaits one database call after the other;  *)
(* each call is a transaction of its own, so a request is a record that    *)
(* walks through stages and may be killed at any of them.                  *)
(*                                                                         *)
(* The components of the back office extend this module and share req and  *)
(* trail; every other variable belongs to one component.                   *)
(***************************************************************************)
CONSTANTS
    Request,  \* HTTP requests
    None      \* no value

VARIABLES
    req,      \* the requests: stage, operation, row worked on, argument, value read
    trail,    \* audit_log: type of the entry and the request that wrote it
    crossed   \* history: requests that met another one at work on the same row

calls == <<req, trail, crossed>>

\* 2xx; any 4xx or 5xx answer; the function died.
Ended == {"done", "refused", "killed"}

Idle == [pc |-> "idle", op |-> None, on |-> None, arg |-> None, seen |-> None]

RequestsInit == req = [r \in Request |-> Idle] /\ trail = {} /\ crossed = {}

At(r, stage) == req[r].pc = stage

Underway(r) == req[r].pc \notin {"idle"} \cup Ended

Goto(r, stage) == req' = [req EXCEPT ![r].pc = stage] /\ UNCHANGED crossed

\* A call arrives; no action reads crossed.
Begin(r, op, on, arg, seen, stage) ==
    /\ At(r, "idle")
    /\ req' = [req EXCEPT ![r] = [pc |-> stage, op |-> op, on |-> on, arg |-> arg,
                                  seen |-> seen]]
    /\ LET rivals == {q \in Request : Underway(q) /\ req[q].on = on} IN
       crossed' = IF rivals = {} THEN crossed ELSE crossed \cup rivals \cup {r}

\* The handler keeps what it read and goes on.
Keep(r, seen, stage) ==
    req' = [req EXCEPT ![r].pc = stage, ![r].seen = seen] /\ UNCHANGED crossed

\* audit.service emit: one insert, in its own transaction.
Emit(r, stage, type, next) ==
    /\ At(r, stage)
    /\ trail' = trail \cup {<<type, r>>}
    /\ Goto(r, next)

\* A timeout, a deployment or an error of the database: the rest is not done.
Kill(r) == Underway(r) /\ Goto(r, "killed") /\ UNCHANGED trail
=============================================================================
