------------------------- MODULE AuditChain_proofs -------------------------
(***************************************************************************)
(* Theorems about AuditChain, for any transactions, readers, ids and       *)
(* clock: its type invariant, that an orderly log raises no alarm, and     *)
(* that a report without an alarm is complete.                             *)
(***************************************************************************)
EXTENDS AuditChain, FiniteSetTheorems, WellFoundedInduction, TLAPS

\* Rows of a running transaction are the lock holder's; rolled back rows are gone.
Locked ==
    /\ \A r \in rows : \/ state[r.txn] = "committed"
                       \/ state[r.txn] = "running" /\ holder = r.txn
    /\ holder # None => state[holder] = "running"

\* The rows of a running transaction come after all the others, since whoever inserted
\* later would have had to hold the lock.
Numbered ==
    /\ \A r, s \in rows : r.number = s.number => r = s
    /\ \A r, s \in rows : r.txn # s.txn /\ state[s.txn] = "running" => r.number < s.number

\* Each row commits to the last of the rows inserted before it.
Chained ==
    \A r \in rows :
      /\ r.hash = RowHash(r.prev, r.id)
      /\ r.txn \in Reader => r.prev = LastHash({s \in rows : s.number < r.number})

ChainInv == TypeOK /\ Locked /\ Numbered /\ Chained
-----------------------------------------------------------------------------
LEMMA InitChain == Init => ChainInv
  BY AuditChainAssumption DEF Init, ChainInv, TypeOK, Locked, Numbered, Chained

\* The clock and new transactions leave the rows alone.
LEMMA BeginKeeps ==
    ASSUME ChainInv, Tick \/ \E t \in Txn : Begin(t)
    PROVE  ChainInv'
<1>1. CASE Tick
  <2>1. TypeOK'
    BY <1>1, AuditChainAssumption DEF ChainInv, TypeOK, Tick
  <2>2. Locked' /\ Numbered' /\ Chained'
    BY <1>1 DEF ChainInv, Locked, Numbered, Chained, Tick, LastHash, RowHash
  <2>3. QED
    BY <2>1, <2>2 DEF ChainInv
<1>2. ASSUME NEW t \in Txn, Begin(t) PROVE ChainInv'
  <2>1. TypeOK'
    BY <1>2, AuditChainAssumption DEF ChainInv, TypeOK, Begin
  <2>2. \A r \in rows : r.txn # t
    BY <1>2 DEF ChainInv, Locked, Begin
  <2>3. \A r \in rows : r.txn \in Txn /\ state'[r.txn] = state[r.txn]
    BY <1>2, <2>2 DEF ChainInv, TypeOK, Begin
  <2>4. holder # None => state'[holder] = "running"
    BY <1>2 DEF ChainInv, TypeOK, Locked, Begin
  <2>5. rows' = rows /\ holder' = holder
    BY <1>2 DEF Begin
  <2>6. Locked' /\ Numbered'
    BY <2>3, <2>4, <2>5 DEF ChainInv, Locked, Numbered
  <2>7. Chained'
    BY <2>5 DEF ChainInv, Chained, LastHash, RowHash
  <2>8. QED
    BY <2>1, <2>6, <2>7 DEF ChainInv
<1>3. QED
  BY <1>1, <1>2

\* compute_audit_row_hash: under the lock, a reader sees every row there is.
LEMMA InsertKeeps ==
    ASSUME ChainInv, NEW t \in Txn, Insert(t)
    PROVE  ChainInv'
<1>0. PICK id \in Id :
        /\ state[t] = "running" /\ holder \in {None, t}
        /\ rows' = rows \cup
             {[id |-> id, time |-> began[t], txn |-> t, number |-> count + 1,
               prev |-> LastHash(Visible(t)), hash |-> RowHash(LastHash(Visible(t)), id)]}
        /\ count' = count + 1 /\ holder' = t
        /\ UNCHANGED <<clock, state, began>>
  BY DEF Insert, HoldsLock, KeepLock
<1>1. PICK new :
        /\ state[t] = "running" /\ holder \in {None, t}
        /\ new = [id |-> id, time |-> began[t], txn |-> t, number |-> count + 1,
                  prev |-> LastHash(Visible(t)), hash |-> RowHash(LastHash(Visible(t)), id)]
        /\ rows' = rows \cup {new} /\ count' = count + 1 /\ holder' = t
        /\ UNCHANGED <<clock, state, began>>
  BY <1>0
<1>2. /\ new.id = id /\ new.txn = t /\ new.number = count + 1 /\ new.time = began[t]
      /\ new.prev = LastHash(Visible(t)) /\ new.hash = RowHash(new.prev, new.id)
  BY <1>1
<1>3. count \in Nat /\ \A r \in rows : r.number \in 1..count /\ r.txn \in Txn
  BY DEF ChainInv, TypeOK
<1>4. TypeOK'
  <2>1. began[t] \in Nat
    BY AuditChainAssumption DEF ChainInv, TypeOK
  <2>2. \A r \in rows' : r.id \in Id /\ r.time \in Nat /\ r.txn \in Txn /\ r.number \in 1..count'
    BY <1>1, <1>2, <1>3, <2>1 DEF ChainInv, TypeOK
  <2>3. QED
    BY <1>1, <1>3, <2>2 DEF ChainInv, TypeOK
<1>5. \A r \in rows : state[r.txn] = "committed" \/ r.txn = t
  BY <1>1, <1>3, AuditChainAssumption DEF ChainInv, Locked
<1>6. Locked'
  BY <1>1, <1>2, <1>5, AuditChainAssumption DEF ChainInv, Locked
<1>7. Numbered'
  <2>1. \A r, s \in rows' : r.number = s.number => r = s
    BY <1>1, <1>2, <1>3 DEF ChainInv, Numbered
  <2>2. ASSUME NEW r \in rows', NEW s \in rows', r.txn # s.txn, state[s.txn] = "running"
        PROVE  r.number < s.number
    <3>1. s.txn = t /\ r \in rows
      BY <1>1, <1>2, <1>5, <2>2
    <3>2. CASE s = new
      BY <1>2, <1>3, <3>1, <3>2
    <3>3. CASE s \in rows
      BY <2>2, <3>1, <3>3 DEF ChainInv, Numbered
    <3>4. QED
      BY <1>1, <3>2, <3>3
  <2>3. QED
    BY <1>1, <2>1, <2>2 DEF Numbered
<1>8. Chained'
  <2>1. ASSUME NEW r \in rows
        PROVE  {s \in rows' : s.number < r.number} = {s \in rows : s.number < r.number}
    BY <1>1, <1>2, <1>3
  <2>2. t \in Reader => Visible(t) = rows
    BY <1>5 DEF Visible
  <2>3. {s \in rows' : s.number < new.number} = rows
    BY <1>1, <1>2, <1>3
  <2>4. ASSUME NEW r \in rows
        PROVE  /\ r.hash = RowHash(r.prev, r.id)
               /\ r.txn \in Reader => r.prev = LastHash({s \in rows' : s.number < r.number})
    BY <2>1 DEF ChainInv, Chained
  <2>5. /\ new.hash = RowHash(new.prev, new.id)
        /\ new.txn \in Reader => new.prev = LastHash({s \in rows' : s.number < new.number})
    BY <1>2, <2>2, <2>3
  <2>6. QED
    BY <1>1, <2>4, <2>5 DEF Chained
<1>9. QED
  BY <1>4, <1>6, <1>7, <1>8 DEF ChainInv

LEMMA CommitKeeps ==
    ASSUME ChainInv, NEW t \in Txn, Commit(t)
    PROVE  ChainInv'
<1>1. /\ state[t] = "running" /\ state' = [state EXCEPT ![t] = "committed"]
      /\ holder' = (IF holder = t THEN None ELSE holder) /\ UNCHANGED <<clock, began, rows, count>>
  BY DEF Commit, Release
<1>2. /\ state'[t] = "committed" /\ \A u \in Txn \ {t} : state'[u] = state[u]
      /\ \A r \in rows : r.txn \in Txn
  BY <1>1 DEF ChainInv, TypeOK
<1>3. TypeOK'
  BY <1>1 DEF ChainInv, TypeOK
<1>4. Locked' /\ Numbered'
  BY <1>1, <1>2, AuditChainAssumption DEF ChainInv, TypeOK, Locked, Numbered
<1>5. Chained'
  BY <1>1 DEF ChainInv, Chained, LastHash, RowHash
<1>6. QED
  BY <1>3, <1>4, <1>5 DEF ChainInv

\* A rollback takes away the last rows, to which no other row commits.
LEMMA AbortKeeps ==
    ASSUME ChainInv, NEW t \in Txn, Abort(t)
    PROVE  ChainInv'
<1>1. /\ state[t] = "running" /\ state' = [state EXCEPT ![t] = "aborted"]
      /\ holder' = (IF holder = t THEN None ELSE holder) /\ rows' = {r \in rows : r.txn # t}
      /\ UNCHANGED <<clock, began, count>>
  BY DEF Abort, Release
<1>2. /\ \A u \in Txn \ {t} : state'[u] = state[u]
      /\ \A r \in rows : r.txn \in Txn
  BY <1>1 DEF ChainInv, TypeOK
<1>3. TypeOK'
  BY <1>1 DEF ChainInv, TypeOK
<1>4. Locked' /\ Numbered'
  BY <1>1, <1>2, AuditChainAssumption DEF ChainInv, TypeOK, Locked, Numbered
<1>5. Chained'
  <2>1. ASSUME NEW r \in rows'
        PROVE  {s \in rows' : s.number < r.number} = {s \in rows : s.number < r.number}
    <3>1. r \in rows /\ r.txn # t
      BY <1>1
    <3>2. \A s \in rows : s.txn = t => r.number < s.number /\ r.number \in Nat /\ s.number \in Nat
      BY <1>1, <3>1 DEF ChainInv, Numbered, TypeOK
    <3>3. QED
      BY <1>1, <3>2
  <2>2. QED
    BY <1>1, <2>1 DEF ChainInv, Chained, LastHash, RowHash
<1>6. QED
  BY <1>3, <1>4, <1>5 DEF ChainInv

\* The columns the verifier sorts by, and the insertion numbers, can be compared.
LEMMA RowsAreNumbers ==
    ASSUME TypeOK
    PROVE  \A s \in rows : s.number \in Nat /\ s.time \in Nat /\ s.id \in Nat
<1>1. ASSUME NEW s \in rows
      PROVE  s.number \in Nat /\ s.time \in Nat /\ s.id \in Nat
  <2>1. count \in Nat /\ s.id \in Id /\ s.time \in Nat /\ s.number \in 1..count
    BY DEF TypeOK
  <2>2. s.number \in Nat
    BY <2>1
  <2>3. s.id \in Nat
    BY <2>1, AuditChainAssumption
  <2>4. QED
    BY <2>1, <2>2, <2>3
<1>2. QED
  BY <1>1

LEMMA ChainInvariant == Spec => []ChainInv
<1>1. ChainInv /\ [Next]_vars => ChainInv'
  <2>1. SUFFICES ASSUME ChainInv, [Next]_vars PROVE ChainInv'
    OBVIOUS
  <2>2. CASE UNCHANGED vars
    BY <2>1, <2>2 DEF vars, ChainInv, TypeOK, Locked, Numbered, Chained, LastHash, RowHash
  <2>3. CASE Next
    BY <2>1, <2>3, BeginKeeps, InsertKeeps, CommitKeeps, AbortKeeps DEF Next
  <2>4. QED
    BY <2>1, <2>2, <2>3
<1>2. QED
  BY <1>1, InitChain, PTL DEF Spec
-----------------------------------------------------------------------------
\* Rows of audit_log, transactions and the lock keep their types.
THEOREM ChainTypeCorrect == Spec => []TypeOK
<1>1. ChainInv => TypeOK
  BY DEF ChainInv
<1>2. QED
  BY <1>1, ChainInvariant, PTL

\* compute_audit_row_hash and verify_audit_chain: for any number of concurrent
\* transactions, each with any number of rows, a log whose rows were inserted in the order
\* the verifier reads them, by transactions that may read the log, gives no false alarm.
THEOREM NoFalseAlarm == Spec => []OrderlyLogVerifies
<1>1. ChainInv => OrderlyLogVerifies
  <2>1. SUFFICES ASSUME ChainInv, Orderly, NEW r \in Log PROVE Status(r) = "OK"
    BY DEF OrderlyLogVerifies
  <2>2. /\ r \in rows /\ state[r.txn] = "committed" /\ r.txn \in Reader
        /\ \A s \in rows : s.number \in Nat /\ s.time \in Nat /\ s.id \in Nat
    <3>1. r \in rows /\ state[r.txn] = "committed" /\ r.txn \in Reader
      BY <2>1 DEF Log, Orderly
    <3>2. \A s \in rows : s.number \in Nat /\ s.time \in Nat /\ s.id \in Nat
      BY <2>1, RowsAreNumbers DEF ChainInv
    <3>3. QED
      BY <3>1, <3>2
  \* The verifier's order is the order of insertion.
  <2>3. {s \in Log : Before(s, r)} = {s \in rows : s.number < r.number}
    <3>1. ASSUME NEW s \in Log, Before(s, r) PROVE s \in rows /\ s.number < r.number
      <4>1. s \in rows /\ s # r
        BY <2>2, <3>1 DEF Before, Log
      <4>2. s.number # r.number
        BY <2>1, <2>2, <4>1 DEF ChainInv, Numbered
      <4>3. ~Before(r, s)
        BY <2>2, <3>1, <4>1 DEF Before
      <4>4. QED
        BY <2>1, <2>2, <4>1, <4>2, <4>3 DEF Orderly
    <3>2. ASSUME NEW s \in rows, s.number < r.number PROVE s \in Log /\ Before(s, r)
      <4>1. s \in Log
        <5>1. CASE s.txn = r.txn
          BY <2>2, <5>1 DEF Log
        <5>2. CASE s.txn # r.txn
          BY <2>1, <2>2, <3>2, <5>2 DEF Log, ChainInv, Locked, Numbered
        <5>3. QED
          BY <5>1, <5>2
      <4>2. QED
        BY <2>1, <3>2, <4>1 DEF Orderly
    <3>3. QED
      BY <3>1, <3>2
  <2>4. r.prev = ExpectedPrev(r) /\ r.hash = RowHash(ExpectedPrev(r), r.id)
    BY <2>1, <2>2, <2>3 DEF ChainInv, Chained, ExpectedPrev
  <2>5. QED
    BY <2>4 DEF Status
<1>2. QED
  BY <1>1, ChainInvariant, PTL
-----------------------------------------------------------------------------
(* A report without an alarm.  Along the verifier's order each hash commits *)
(* to the rows up to its own; the first row for which that failed would     *)
(* follow one for which it holds.                                           *)

\* No two rows have one id, so the verifier's order is total.
RowsApart == IsFiniteSet(rows) /\ \A r, s \in rows : r.id = s.id => r = s

LEMMA RowsStayApart == Spec => []RowsApart
<1>1. Init => RowsApart
  BY FS_EmptySet DEF Init, RowsApart
<1>2. RowsApart /\ [Next]_vars => RowsApart'
  <2>1. SUFFICES ASSUME RowsApart, [Next]_vars PROVE RowsApart'
    OBVIOUS
  <2>2. CASE rows' = rows
    BY <2>1, <2>2 DEF RowsApart
  <2>3. ASSUME NEW t \in Txn, Insert(t) PROVE RowsApart'
    <3>1. PICK id \in Id \ {r.id : r \in rows} : \E new : new.id = id /\ rows' = rows \cup {new}
      BY <2>3 DEF Insert
    <3>2. PICK new : new.id = id /\ rows' = rows \cup {new}
      BY <3>1
    <3>3. IsFiniteSet(rows')
      BY <2>1, <3>2, FS_AddElement DEF RowsApart
    <3>4. \A r \in rows : r.id # id
      BY <3>1
    <3>5. QED
      BY <2>1, <3>2, <3>3, <3>4 DEF RowsApart
  <2>4. ASSUME NEW t \in Txn, Abort(t) PROVE RowsApart'
    <3>1. rows' \in SUBSET rows
      BY <2>4 DEF Abort
    <3>2. IsFiniteSet(rows')
      BY <2>1, <3>1, FS_Subset DEF RowsApart
    <3>3. QED
      BY <2>1, <3>1, <3>2 DEF RowsApart
  <2>5. QED
    BY <2>1, <2>2, <2>3, <2>4 DEF Next, vars, Tick, Begin, Commit
<1>3. QED
  BY <1>1, <1>2, PTL DEF Spec

\* Among sets of rows one has no other within it.
LEMMA SmallestSet ==
    ASSUME NEW S, IsFiniteSet(S), NEW F, F \subseteq SUBSET S, F # {}
    PROVE  \E A \in F : \A B \in F : B \subseteq A => B = A
<1>1. IsWellFoundedOn(StrictSubsetOrdering(S), SUBSET S)
  BY FS_StrictSubsetOrderingWellFounded, FS_FiniteSubsetsOfFinite
<1>2. PICK A \in F : \A B \in F : ~(<<B, A>> \in StrictSubsetOrdering(S))
  BY <1>1, WFMin
<1>3. ASSUME NEW B \in F, B \subseteq A PROVE B = A
  <2>1. A \in SUBSET S /\ B \in SUBSET S
    OBVIOUS
  <2>2. QED
    BY <1>2, <1>3, <2>1 DEF StrictSubsetOrdering
<1>4. QED
  BY <1>3

\* Before is a total order of the rows.
LEMMA BeforeOrders ==
    ASSUME TypeOK, RowsApart
    PROVE  /\ \A r, s \in rows : r = s \/ Before(r, s) \/ Before(s, r)
           /\ \A r, s \in rows : Before(r, s) => ~Before(s, r) /\ r # s
           /\ \A r, s, u \in rows : Before(r, s) /\ Before(s, u) => Before(r, u)
<1>1. \A s \in rows : s.time \in Nat /\ s.id \in Nat
  BY RowsAreNumbers
<1>2. \A r, s \in rows : r = s \/ Before(r, s) \/ Before(s, r)
  BY <1>1 DEF Before, RowsApart
<1>3. \A r, s \in rows : Before(r, s) => ~Before(s, r) /\ r # s
  BY <1>1 DEF Before
<1>4. \A r, s, u \in rows : Before(r, s) /\ Before(s, u) => Before(r, u)
  BY <1>1 DEF Before
<1>5. QED
  BY <1>2, <1>3, <1>4

\* LastHash is the hash of the row that comes after all the others.
LEMMA LastRow ==
    ASSUME TypeOK, RowsApart, NEW A \in SUBSET rows, A # {}
    PROVE  \E m \in A : /\ \A s \in A : s = m \/ Before(s, m)
                        /\ LastHash(A) = m.hash
<1> DEFINE After(r) == {s \in A : Before(r, s)}
           F == {After(r) : r \in A}
<1>1. IsFiniteSet(A)
  BY FS_Subset DEF RowsApart
<1>2. F \subseteq SUBSET A /\ F # {}
  OBVIOUS
<1>3. PICK least \in F : \A B \in F : B \subseteq least => B = least
  <2> HIDE DEF F
  <2>1. QED
    BY <1>1, <1>2, SmallestSet
<1>4. PICK m \in A : least = After(m)
  BY <1>3
<1>5. ASSUME NEW s \in A, Before(m, s) PROVE FALSE
  <2>1. After(s) \subseteq After(m)
    BY <1>5, BeforeOrders
  <2>2. s \in After(m) /\ s \notin After(s)
    BY <1>5, BeforeOrders
  <2>3. QED
    BY <1>3, <1>4, <2>1, <2>2
<1>6. \A s \in A : s = m \/ Before(s, m)
  BY <1>5, BeforeOrders
<1>7. ASSUME NEW r \in A, \A s \in A : s = r \/ Before(s, r) PROVE r = m
  BY <1>5, <1>7
<1>8. m = CHOOSE r \in A : \A s \in A : s = r \/ Before(s, r)
  BY <1>6, <1>7
<1>9. LastHash(A) = m.hash
  BY <1>8 DEF LastHash
<1>10. QED
  BY <1>6, <1>9

UpTo(r) == {s \in Log : s = r \/ Before(s, r)}

\* The hash h commits to the rows of A and to nothing else.
CommitsTo(h, A) ==
    /\ h \in Seq(Id) /\ Len(h) = Cardinality(A)
    /\ {h[i] : i \in DOMAIN h} = {r.id : r \in A}

LEMMA OneMoreRow ==
    ASSUME NEW A, IsFiniteSet(A), NEW h, CommitsTo(h, A), NEW r, r \notin A, r.id \in Id
    PROVE  CommitsTo(Append(h, r.id), A \cup {r})
<1> DEFINE g == Append(h, r.id)
<1>1. h \in Seq(Id) /\ Len(h) = Cardinality(A) /\ Len(h) \in Nat
  BY DEF CommitsTo
<1>2. /\ g \in Seq(Id) /\ Len(g) = Len(h) + 1 /\ DOMAIN g = 1..(Len(h) + 1)
      /\ \A i \in 1..Len(h) : g[i] = h[i]
      /\ g[Len(h) + 1] = r.id /\ DOMAIN h = 1..Len(h)
  BY <1>1
<1>3. Cardinality(A \cup {r}) = Cardinality(A) + 1
  BY FS_AddElement
<1>4. {g[i] : i \in DOMAIN g} = {h[i] : i \in DOMAIN h} \cup {r.id}
  <2>1. ASSUME NEW i \in DOMAIN g PROVE g[i] \in {h[j] : j \in DOMAIN h} \cup {r.id}
    <3>1. i \in 1..Len(h) \/ i = Len(h) + 1
      BY <1>1, <1>2
    <3>2. QED
      BY <1>2, <3>1
  <2>2. ASSUME NEW i \in DOMAIN h PROVE h[i] \in {g[j] : j \in DOMAIN g}
    <3>1. i \in DOMAIN g
      BY <1>1, <1>2
    <3>2. QED
      BY <1>2, <2>2, <3>1
  <2>3. r.id \in {g[j] : j \in DOMAIN g}
    <3>1. Len(h) + 1 \in DOMAIN g
      BY <1>1, <1>2
    <3>2. QED
      BY <1>2, <3>1
  <2> HIDE DEF g
  <2>4. QED
    BY <2>1, <2>2, <2>3
<1>5. {s.id : s \in A \cup {r}} = {s.id : s \in A} \cup {r.id}
  OBVIOUS
<1>6. {h[i] : i \in DOMAIN h} = {s.id : s \in A}
  BY DEF CommitsTo
<1> HIDE DEF g
<1>7. CommitsTo(g, A \cup {r})
  BY <1>1, <1>2, <1>3, <1>4, <1>5, <1>6 DEF CommitsTo
<1>8. QED
  BY <1>7 DEF g

LEMMA NothingCommitted == CommitsTo(<<>>, {})
<1>1. <<>> \in Seq(Id) /\ Len(<<>>) = 0 /\ DOMAIN <<>> = {}
  OBVIOUS
<1>2. {<<>>[i] : i \in DOMAIN <<>>} = {}
  BY <1>1
<1>3. {r.id : r \in {}} = {}
  OBVIOUS
<1>4. QED
  BY <1>1, <1>2, <1>3, FS_EmptySet DEF CommitsTo

LEMMA CleanHashCommits ==
    ASSUME TypeOK, RowsApart, \A r \in Log : Status(r) = "OK"
    PROVE  \A r \in Log : CommitsTo(r.hash, UpTo(r))
<1> DEFINE Wrong == {r \in Log : ~CommitsTo(r.hash, UpTo(r))}
           F == {UpTo(r) : r \in Wrong}
<1>1. Log \in SUBSET rows /\ IsFiniteSet(Log)
  BY FS_Subset DEF Log, RowsApart
<1>2. SUFFICES ASSUME Wrong # {} PROVE FALSE
  OBVIOUS
<1>3. F \subseteq SUBSET Log /\ F # {}
  BY <1>2 DEF UpTo
<1>4. PICK least \in F : \A B \in F : B \subseteq least => B = least
  <2> HIDE DEF F
  <2>1. QED
    BY <1>1, <1>3, SmallestSet
<1>5. PICK r \in Wrong : least = UpTo(r)
  BY <1>4
<1> DEFINE earlier == {s \in Log : Before(s, r)}
<1>6. /\ r \in rows /\ r.id \in Id /\ earlier \in SUBSET rows /\ IsFiniteSet(earlier)
      /\ r \notin earlier /\ UpTo(r) = earlier \cup {r}
  <2>1. r \in rows /\ r.id \in Id
    BY <1>1 DEF TypeOK
  <2>2. earlier \in SUBSET Log
    OBVIOUS
  <2>3. IsFiniteSet(earlier)
    BY ONLY <1>1, <2>2, FS_Subset
  <2>4. r \notin earlier
    BY <2>1, BeforeOrders
  <2>5. UpTo(r) = earlier \cup {r}
    BY DEF UpTo
  <2>6. QED
    BY <1>1, <2>1, <2>2, <2>3, <2>4, <2>5
<1>7. r.hash = Append(LastHash(earlier), r.id)
  BY DEF Status, ExpectedPrev, RowHash
<1>8. CommitsTo(LastHash(earlier), earlier)
  <2>1. CASE earlier = {}
    BY <2>1, NothingCommitted DEF LastHash
  <2>2. CASE earlier # {}
    <3>1. PICK m \in earlier : /\ \A s \in earlier : s = m \/ Before(s, m)
                               /\ LastHash(earlier) = m.hash
      BY <1>6, <2>2, LastRow
    <3>2. UpTo(m) = earlier
      BY <1>1, <1>6, <3>1, BeforeOrders DEF UpTo
    <3>3. CASE m \in Wrong
      <4>1. UpTo(m) \in F
        BY <3>3
      <4>2. QED
        BY <1>4, <1>5, <1>6, <3>2, <4>1
    <3>4. CASE m \notin Wrong
      BY <3>1, <3>2, <3>4
    <3>5. QED
      BY <3>3, <3>4
  <2>3. QED
    BY <2>1, <2>2
<1> HIDE DEF earlier
<1>9. CommitsTo(Append(LastHash(earlier), r.id), earlier \cup {r})
  BY <1>6, <1>8, OneMoreRow
<1>10. QED
  BY <1>6, <1>7, <1>9

\* verify_audit_chain, for any number of rows and whatever order they arrived in: if it
\* raises no alarm, the last hash commits to every committed row once and to no other.
THEOREM NothingHides == Spec => []CleanReportIsComplete
<1>1. TypeOK /\ RowsApart => CleanReportIsComplete
  <2>1. SUFFICES ASSUME TypeOK, RowsApart, \A r \in Log : Status(r) = "OK"
                 PROVE  CommitsTo(LastHash(Log), Log)
    BY DEF CleanReportIsComplete, CommitsTo
  <2>2. CASE Log = {}
    BY <2>2, NothingCommitted DEF LastHash
  <2>3. CASE Log # {}
    <3>1. PICK m \in Log : /\ \A s \in Log : s = m \/ Before(s, m)
                           /\ LastHash(Log) = m.hash
      BY <2>1, <2>3, LastRow DEF Log
    <3>2. UpTo(m) = Log
      BY <3>1 DEF UpTo
    <3>3. QED
      BY <2>1, <3>1, <3>2, CleanHashCommits
  <2>4. QED
    BY <2>2, <2>3
<1>2. QED
  BY <1>1, ChainTypeCorrect, RowsStayApart, PTL
=============================================================================
