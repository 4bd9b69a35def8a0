----------------------------- MODULE AuditChain -----------------------------
(***************************************************************************)
(* The hash chain of one tenant's audit_log: the trigger                   *)
(* compute_audit_row_hash and the report of verify_audit_chain, both of    *)
(* migration 0037.                                                         *)
(*                                                                         *)
(* A transaction inserts one or several audit rows: audit.emit one, a      *)
(* statement on a table under log_audit_event one per row it changes.      *)
(* event_time defaults to now(), the start of the transaction; ids are     *)
(* random uuids.  The trigger's SELECT sees the rows that are committed,   *)
(* or the transaction's own, if row-level security shows audit_log to the  *)
(* inserter at all.                                                        *)
(*                                                                         *)
(* A digest is taken to be injective, so a hash is the sequence of rows it *)
(* commits to; <<>> stands for the NULL, coalesced to '', of a first row.  *)
(***************************************************************************)
EXTENDS Naturals, Sequences, FiniteSets

CONSTANTS
    Txn,       \* transactions
    Reader,    \* those that may SELECT from audit_log: mlro, tenant_admin, triggers
               \* that run as the owner, the service role
    Id,        \* row ids
    MaxTime,   \* bound on the clock
    None       \* no transaction

ASSUME AuditChainAssumption ==
    /\ Reader \subseteq Txn /\ None \notin Txn
    /\ Id \subseteq Nat /\ MaxTime \in Nat

VARIABLES
    clock,   \* the database's clock
    state,   \* the state of each transaction
    began,   \* its now()
    holder,  \* the holder of the tenant's advisory lock
    rows,    \* audit_log, the rows of running transactions included
    count    \* rows inserted so far, rolled back or not

vars == <<clock, state, began, holder, rows, count>>

TypeOK ==
    /\ clock \in 0..MaxTime /\ began \in [Txn -> 0..MaxTime]
    /\ state \in [Txn -> {"idle", "running", "committed", "aborted"}]
    /\ holder \in Txn \cup {None}
    /\ count \in Nat
    /\ \A r \in rows : /\ r.id \in Id /\ r.time \in Nat /\ r.txn \in Txn
                       /\ r.number \in 1..count

Init == /\ clock = 0 /\ began = [t \in Txn |-> 0]
        /\ state = [t \in Txn |-> "idle"]
        /\ holder = None /\ rows = {} /\ count = 0
-----------------------------------------------------------------------------
\* ORDER BY event_time, id
Before(r, s) == r.time < s.time \/ (r.time = s.time /\ r.id < s.id)

\* The row_hash of the last row of a set, NULL for the empty set.
LastHash(set) ==
    IF set = {} THEN <<>>
    ELSE (CHOOSE r \in set : \A s \in set : s = r \/ Before(s, r)).hash

Tick == /\ clock < MaxTime /\ clock' = clock + 1
        /\ UNCHANGED <<state, began, holder, rows, count>>

\* Mutant: now() is rounded up.
BeginRoundsUpBug(t) ==
    /\ state[t] = "idle"
    /\ state' = [state EXCEPT ![t] = "running"]
    /\ began' = [began EXCEPT ![t] = clock + 1]
    /\ UNCHANGED <<clock, holder, rows, count>>

Begin(t) ==
    /\ state[t] = "idle"
    /\ state' = [state EXCEPT ![t] = "running"]
    /\ began' = [began EXCEPT ![t] = clock]
    /\ UNCHANGED <<clock, holder, rows, count>>

Visible(t) == IF t \in Reader
              THEN {r \in rows : state[r.txn] = "committed" \/ r.txn = t} ELSE {}

\* Mutant: the hash of migration 0004, which leaves prev_hash out.
RowHashAloneBug(prev, id) == <<id>>

RowHash(prev, id) == Append(prev, id)

\* Mutant: the previous row is looked for without the advisory lock.
HoldsLockBug(t) == TRUE

\* pg_advisory_xact_lock: waits until no other transaction holds it.
HoldsLock(t) == holder \in {None, t}

\* Mutant: the lock is released when the trigger returns.
KeepLockBug(t) == holder' = None

\* It is held until the transaction ends.
KeepLock(t) == holder' = t

\* compute_audit_row_hash
Insert(t) ==
    /\ state[t] = "running" /\ HoldsLock(t)
    /\ \E id \in Id \ {r.id : r \in rows} :
         LET prev == LastHash(Visible(t)) IN
         rows' = rows \cup {[id |-> id, time |-> began[t], txn |-> t, number |-> count + 1,
                             prev |-> prev, hash |-> RowHash(prev, id)]}
    /\ count' = count + 1
    /\ KeepLock(t)
    /\ UNCHANGED <<clock, state, began>>

Release(t) == holder' = IF holder = t THEN None ELSE holder

Commit(t) ==
    /\ state[t] = "running"
    /\ state' = [state EXCEPT ![t] = "committed"]
    /\ Release(t)
    /\ UNCHANGED <<clock, began, rows, count>>

Abort(t) ==
    /\ state[t] = "running"
    /\ state' = [state EXCEPT ![t] = "aborted"]
    /\ rows' = {r \in rows : r.txn # t}
    /\ Release(t)
    /\ UNCHANGED <<clock, began, count>>

Next == Tick \/ \E t \in Txn : Begin(t) \/ Insert(t) \/ Commit(t) \/ Abort(t)

Spec == Init /\ [][Next]_vars
-----------------------------------------------------------------------------
(* verify_audit_chain                                                      *)

Log == {r \in rows : state[r.txn] = "committed"}

\* LAG(row_hash) OVER (ORDER BY event_time, id)
ExpectedPrev(r) == LastHash({s \in Log : Before(s, r)})

Status(r) == IF r.prev # ExpectedPrev(r) THEN "BROKEN_CHAIN"
             ELSE IF r.hash # RowHash(ExpectedPrev(r), r.id) THEN "TAMPERED_HASH"
             ELSE "OK"

\* The rows were inserted in the order of (event_time, id), by transactions that
\* could read the log.
Orderly == /\ \A r, s \in Log : r.number < s.number => Before(r, s)
           /\ \A r \in Log : r.txn \in Reader

\* Whatever the interleaving of transactions and rollbacks, a log whose rows
\* arrived in order and were written by readers verifies: no alarm is false.
OrderlyLogVerifies == Orderly => \A r \in Log : Status(r) = "OK"

\* A report without an alarm is complete: the hash of the last row commits to all
\* the rows of the log, so a row inserted aside cannot hide behind OKs.
CleanReportIsComplete ==
    (\A r \in Log : Status(r) = "OK") =>
      LET h == LastHash(Log) IN
      Len(h) = Cardinality(Log) /\ {h[i] : i \in DOMAIN h} = {r.id : r \in Log}

\* Migration 0037: "Per-tenant advisory lock makes the chain deterministic under
\* concurrent inserts"; docs/RUNBOOK.md: an alarm is "broken or tampered rows".
\* Stated for logs of readers without two rows of the same instant.
ConcurrentLogVerifies ==
    /\ \A r, s \in Log : r.time = s.time => r = s
    /\ \A r \in Log : r.txn \in Reader
    => \A r \in Log : Status(r) = "OK"
=============================================================================
