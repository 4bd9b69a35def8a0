------------------------ MODULE WebhookQueue_proofs ------------------------
(***************************************************************************)
(* Theorems about WebhookQueue, for any events, workers, jobs, budgets and *)
(* failures: its types, one holder per event, the retry budget, results    *)
(* before processed, and that a settled event is final.                    *)
(***************************************************************************)
EXTENDS WebhookQueue, FiniteSetTheorems, TLAPS

WorkerState == [pc : {"idle", "claim", "lookup", "insert", "finish", "mark", "catch"},
                event : Event \cup {None}, left : 0..MaxIterations]

\* What the stage of a worker tells of the event in its hand.
Carry(w) ==
    LET e == worker[w].event IN
    /\ worker[w].pc \in {"idle", "claim"} <=> e = None
    /\ worker[w].pc = "claim" => worker[w].left > 0
    /\ e # None => /\ status[e] \in {"processing", "processed"}
                   /\ worker[w].pc # "catch" => status[e] = "processing"
    /\ worker[w].pc \in {"insert", "finish", "mark"}
         => linked[JobOf[e]] /\ kind[e] # "malformed"
    /\ worker[w].pc = "insert" => kind[e] = "hits"
    /\ worker[w].pc \in {"finish", "mark"}
         => (kind[e] = "hits" => \E h \in hits : h[1] = e)
    /\ worker[w].pc = "mark" => job[JobOf[e]] # "running"

\* No two workers hold one event.
Alone == \A v, w \in Worker : worker[v].event = worker[w].event /\ worker[v].event # None => v = w

\* What the status of an event tells of its attempts and results.
Row(e) ==
    /\ status[e] \in {"none", "pending"} => attempts[e] = 0
    /\ status[e] = "failed" => attempts[e] \in 1..(MaxAttempts - 1)
    /\ status[e] = "dead_letter" => attempts[e] = MaxAttempts
    /\ status[e] \in {"processing", "processed"} => attempts[e] \in 1..MaxAttempts
    /\ status[e] = "processed" => /\ kind[e] = "hits" => \E h \in hits : h[1] = e
                                  /\ kind[e] # "malformed" /\ linked[JobOf[e]]
                                  /\ job[JobOf[e]] # "running"

\* The promise sets 'running' only together with the provider's id.
Links == \A j \in Job : poll[j] = "link" => ~linked[j]

\* Hits are inserted by attempts that were counted.
Counted == \A h \in hits : h[2] <= attempts[h[1]]

\* The inductive invariant.
QueueInv ==
    TypeOK /\ (\A w \in Worker : Carry(w)) /\ Alone /\ (\A e \in Event : Row(e)) /\ Links /\ Counted

\* Results are never taken back: what holds of a finished job goes on holding.
Keeps ==
    /\ kind' = kind /\ hits \subseteq hits'
    /\ \A j \in Job : linked[j] => linked'[j] /\ (job[j] # "running" => job'[j] # "running")
-----------------------------------------------------------------------------
LEMMA Types ==
    ASSUME TypeOK
    PROVE  /\ worker \in [Worker -> WorkerState]
           /\ JobOf \in [Event -> Job] /\ None \notin Event
           /\ MaxAttempts \in Nat /\ MaxAttempts > 0 /\ MaxIterations \in Nat /\ MaxIterations > 0
  BY WebhookQueueAssumption DEF TypeOK, WorkerState

\* A worker that does not move, and whose event does not, carries what it carried.
LEMMA CarryKept ==
    ASSUME QueueInv, Keeps, NEW w \in Worker, worker'[w] = worker[w],
           worker[w].event # None => status'[worker[w].event] = status[worker[w].event]
    PROVE  Carry(w)'
<1>1. Carry(w) /\ worker[w] \in WorkerState
  BY Types DEF QueueInv
<1>2. worker[w].event # None => worker[w].event \in Event /\ JobOf[worker[w].event] \in Job
  BY <1>1, Types DEF QueueInv, WorkerState
<1>3. QED
  BY <1>1, <1>2 DEF Carry, Keeps

LEMMA RowKept ==
    ASSUME QueueInv, Keeps, NEW e \in Event, status'[e] = status[e], attempts'[e] = attempts[e]
    PROVE  Row(e)'
<1>1. Row(e) /\ JobOf[e] \in Job
  BY Types DEF QueueInv
<1>2. QED
  BY <1>1 DEF Row, Keeps

\* The move of one worker.
LEMMA WorkerMoves ==
    ASSUME QueueInv, NEW w \in Worker, NEW x \in WorkerState, worker' = [worker EXCEPT ![w] = x],
           x.event = None \/ x.event = worker[w].event \/ \A v \in Worker : worker[v].event # x.event
    PROVE  /\ worker' \in [Worker -> WorkerState] /\ worker'[w] = x
           /\ \A v \in Worker \ {w} : worker'[v] = worker[v]
           /\ Alone'
<1>1. worker \in [Worker -> WorkerState]
  BY Types DEF QueueInv
<1>2. /\ worker' \in [Worker -> WorkerState] /\ worker'[w] = x
      /\ \A v \in Worker \ {w} : worker'[v] = worker[v]
  BY <1>1
<1>3. Alone'
  BY <1>2 DEF QueueInv, Alone
<1>4. QED
  BY <1>2, <1>3

\* A step of one worker that leaves the rows alone.
LEMMA MoveKeeps ==
    ASSUME QueueInv, NEW w \in Worker, NEW x \in WorkerState, worker' = [worker EXCEPT ![w] = x],
           x.event \in {None, worker[w].event}, Carry(w)',
           UNCHANGED <<queue, screening>>, crashes' \in 0..MaxCrashes
    PROVE  QueueInv'
<1>1. /\ worker' \in [Worker -> WorkerState] /\ Alone'
      /\ \A v \in Worker \ {w} : worker'[v] = worker[v]
  BY WorkerMoves
<1>2. Keeps
  BY DEF Keeps, queue, screening
<1>3. \A v \in Worker : Carry(v)'
  BY <1>1, <1>2, CarryKept DEF queue
<1>4. \A e \in Event : Row(e)'
  BY <1>2, RowKept DEF queue
<1>5. TypeOK'
  BY <1>1 DEF QueueInv, TypeOK, queue, screening, WorkerState
<1>6. Links' /\ Counted'
  BY DEF QueueInv, Links, Counted, queue, screening
<1>7. QED
  BY <1>1, <1>3, <1>4, <1>5, <1>6 DEF QueueInv

\* A step of the promise of initiateScreening, which touches no event.
LEMMA PollKeeps ==
    ASSUME QueueInv, Keeps, UNCHANGED <<queue, worker, hits>>, TypeOK', Links'
    PROVE  QueueInv'
<1>1. \A v \in Worker : Carry(v)'
  BY CarryKept DEF queue
<1>2. \A e \in Event : Row(e)'
  BY RowKept DEF queue
<1>3. Alone' /\ Counted'
  BY DEF QueueInv, Alone, Counted, queue
<1>4. QED
  BY <1>1, <1>2, <1>3 DEF QueueInv
-----------------------------------------------------------------------------
(* The rows of the queue                                                   *)

LEMMA ReceiveKeeps ==
    ASSUME QueueInv, NEW e \in Event, Receive(e) \/ RetryDue(e)
    PROVE  QueueInv'
<1>1. UNCHANGED <<kind, attempts, worker, screening, crashes>>
  BY DEF Receive, RetryDue
<1>2. Keeps
  BY <1>1 DEF Keeps, screening
<1>3. /\ \A f \in Event \ {e} : status'[f] = status[f]
      /\ status'[e] = status[e] \/ (status[e] = "none" /\ status'[e] = "pending")
      /\ status' \in [Event -> {"none", "pending", "processing", "processed", "failed",
                             "dead_letter"}]
      /\ due' \in [Event -> BOOLEAN]
  BY DEF Receive, RetryDue, QueueInv, TypeOK
<1>4. \A w \in Worker : Carry(w)'
  <2>1. SUFFICES ASSUME NEW w \in Worker PROVE Carry(w)'
    OBVIOUS
  <2>2. worker[w].event # None =>
           worker[w].event \in Event /\ status[worker[w].event] \in {"processing", "processed"}
    BY Types DEF QueueInv, Carry, WorkerState
  <2>3. QED
    BY <1>1, <1>2, <1>3, <2>2, CarryKept
<1>5. \A f \in Event : Row(f)'
  <2>1. SUFFICES ASSUME NEW f \in Event PROVE Row(f)'
    OBVIOUS
  <2>2. CASE status'[f] = status[f]
    BY <1>1, <1>2, <2>2, RowKept
  <2>3. CASE status[f] = "none" /\ status'[f] = "pending"
    BY <1>1, <2>3 DEF QueueInv, Row
  <2>4. QED
    BY <1>3, <2>2, <2>3
<1>6. TypeOK' /\ Alone' /\ Links' /\ Counted'
  BY <1>1, <1>3 DEF QueueInv, TypeOK, Alone, Links, Counted, screening
<1>7. QED
  BY <1>4, <1>5, <1>6 DEF QueueInv

LEMMA InvokeKeeps ==
    ASSUME QueueInv, NEW w \in Worker, Invoke(w) \/ ClaimNothing(w)
    PROVE  QueueInv'
<1>1. PICK x \in {[pc |-> "idle", event |-> None, left |-> 0],
                  [pc |-> "claim", event |-> None, left |-> MaxIterations]} :
        worker' = [worker EXCEPT ![w] = x] /\ UNCHANGED <<queue, screening, crashes>>
  BY DEF Invoke, ClaimNothing, Stop
<1>2. x \in WorkerState
  BY <1>1, Types DEF QueueInv, WorkerState
<1>3. worker'[w] = x
  BY <1>1, <1>2, WorkerMoves
<1>4. Carry(w)'
  BY <1>1, <1>3, Types DEF QueueInv, Carry
<1>5. QED
  BY <1>1, <1>2, <1>4, MoveKeeps DEF QueueInv, TypeOK

\* claim_pending_webhook_event: nobody holds a claimable row.
LEMMA ClaimKeeps ==
    ASSUME QueueInv, NEW w \in Worker, Claim(w)
    PROVE  QueueInv'
<1>1. PICK e \in Event :
        /\ worker[w].pc = "claim" /\ Claimable(e)
        /\ status' = [status EXCEPT ![e] = "processing"]
        /\ attempts' = [attempts EXCEPT ![e] = attempts[e] + 1]
        /\ worker' = [worker EXCEPT ![w] = [pc |-> "lookup", event |-> e,
                                           left |-> worker[w].left - 1]]
        /\ UNCHANGED <<kind, due, screening, crashes>>
  BY DEF Claim, At, CountAttempt
<1>2. status[e] \in {"pending", "failed"} /\ attempts[e] \in 0..(MaxAttempts - 1)
  BY <1>1, Types DEF Claimable, QueueInv, Row
<1>3. worker[w] \in WorkerState /\ worker[w].left > 0
  BY <1>1, Types DEF QueueInv, Carry
<1>4. [pc |-> "lookup", event |-> e, left |-> worker[w].left - 1] \in WorkerState
  BY <1>3, Types DEF QueueInv, WorkerState
<1>5. \A v \in Worker : worker[v].event # e
  BY <1>2, Types DEF QueueInv, Carry
<1>6. /\ worker' \in [Worker -> WorkerState] /\ Alone'
      /\ worker'[w] = [pc |-> "lookup", event |-> e, left |-> worker[w].left - 1]
      /\ \A v \in Worker \ {w} : worker'[v] = worker[v]
  BY <1>1, <1>4, <1>5, WorkerMoves
<1>7. /\ status'[e] = "processing" /\ attempts'[e] = attempts[e] + 1
      /\ \A f \in Event \ {e} : status'[f] = status[f] /\ attempts'[f] = attempts[f]
      /\ status' \in [Event -> {"none", "pending", "processing", "processed", "failed",
                             "dead_letter"}]
  BY <1>1 DEF QueueInv, TypeOK
<1>8. Keeps
  BY <1>1 DEF Keeps, screening
<1>9. \A v \in Worker : Carry(v)'
  <2>1. Carry(w)'
    BY <1>6, <1>7, Types DEF QueueInv, Carry
  <2>2. ASSUME NEW v \in Worker \ {w} PROVE Carry(v)'
    <3>1. worker[v].event # None => status'[worker[v].event] = status[worker[v].event]
      BY <1>5, <1>7, Types DEF QueueInv, WorkerState
    <3>2. QED
      BY <1>6, <1>8, <3>1, CarryKept
  <2>3. QED
    BY <2>1, <2>2
<1>10. \A f \in Event : Row(f)'
  <2>1. Row(e)'
    BY <1>2, <1>7, Types DEF QueueInv, Row
  <2>2. ASSUME NEW f \in Event \ {e} PROVE Row(f)'
    BY <1>7, <1>8, RowKept
  <2>3. QED
    BY <2>1, <2>2
<1>11. attempts' \in [Event -> 0..MaxAttempts]
  BY <1>1, <1>2, Types DEF QueueInv, TypeOK
<1>12. Counted'
  <2>1. \A h \in hits : h[1] \in Event /\ h[2] \in Nat
    BY Types DEF QueueInv, TypeOK
  <2>2. \A f \in Event : attempts[f] \in Nat /\ attempts'[f] >= attempts[f]
    BY <1>7, Types DEF QueueInv, TypeOK
  <2>3. \A f \in Event : attempts'[f] \in Nat
    BY <1>11, Types DEF QueueInv
  <2>4. QED
    BY <1>1, <2>1, <2>2, <2>3 DEF QueueInv, Counted, screening
<1>13. TypeOK'
  BY <1>1, <1>6, <1>7, <1>11 DEF QueueInv, TypeOK, screening, WorkerState
<1>14. Links'
  BY <1>1 DEF QueueInv, Links, screening
<1>15. QED
  BY <1>6, <1>9, <1>10, <1>12, <1>13, <1>14 DEF QueueInv
-----------------------------------------------------------------------------
(* processScreeningEvent                                                   *)

\* What a worker at work holds.
LEMMA InWork ==
    ASSUME QueueInv, NEW w \in Worker, worker[w].pc \notin {"idle", "claim"}
    PROVE  /\ worker[w] \in WorkerState /\ Carry(w)
           /\ InHand(w) = worker[w].event /\ InHand(w) \in Event /\ InHand(w) # None
           /\ JobOf[InHand(w)] \in Job
  BY Types DEF QueueInv, WorkerState, Carry, InHand

LEMMA LookupKeeps ==
    ASSUME QueueInv, NEW w \in Worker, Lookup(w)
    PROVE  QueueInv'
<1>1. PICK e : e = InHand(w)
  OBVIOUS
<1>2. PICK stage \in {"catch", "insert", "finish"} :
        /\ worker' = [worker EXCEPT ![w] = [worker[w] EXCEPT !.pc = stage]]
        /\ worker[w].pc = "lookup" /\ UNCHANGED <<queue, screening, crashes>>
        /\ stage # "catch" => linked[JobOf[e]] /\ kind[e] # "malformed"
        /\ stage = "insert" <=> stage # "catch" /\ kind[e] = "hits"
  BY <1>1 DEF Lookup, Move, At
<1>3. worker[w] \in WorkerState /\ Carry(w) /\ worker[w].event = e /\ e \in Event /\ e # None
  BY <1>1, <1>2, InWork
<1>4. [worker[w] EXCEPT !.pc = stage] \in WorkerState
  BY <1>3 DEF WorkerState
<1>5. [worker[w] EXCEPT !.pc = stage].event = worker[w].event
  BY <1>3 DEF WorkerState
<1>6. worker'[w] = [worker[w] EXCEPT !.pc = stage]
  BY <1>2, <1>4, <1>5, WorkerMoves
<1>7. worker'[w].pc = stage /\ worker'[w].event = e
  BY <1>3, <1>6 DEF WorkerState
<1>8. Carry(w)'
  BY <1>2, <1>3, <1>7 DEF Carry, queue, screening
<1>9. QED
  BY <1>2, <1>4, <1>5, <1>8, MoveKeeps DEF QueueInv, TypeOK

\* A call that is refused, and an invocation that ends or is killed.
LEMMA FailKeeps ==
    ASSUME QueueInv, NEW w \in Worker, CallFails(w) \/ Crash(w)
    PROVE  QueueInv'
<1>1. UNCHANGED <<queue, screening>> /\ crashes' \in 0..MaxCrashes
  BY WebhookQueueAssumption DEF CallFails, Crash, QueueInv, TypeOK
<1>2. CASE Stop(w)
  <2>1. [pc |-> "idle", event |-> None, left |-> 0] \in WorkerState
    BY Types DEF QueueInv, WorkerState
  <2>2. worker'[w] = [pc |-> "idle", event |-> None, left |-> 0]
    BY <1>2, <2>1, WorkerMoves DEF Stop
  <2>3. Carry(w)'
    BY <2>2 DEF Carry
  <2>4. QED
    BY <1>1, <1>2, <2>1, <2>3, MoveKeeps DEF Stop
<1>3. CASE worker[w].pc \in {"lookup", "insert", "finish", "mark"} /\ Move(w, "catch")
  <2>1. worker[w] \in WorkerState /\ Carry(w)
    BY <1>3, InWork
  <2>2. [worker[w] EXCEPT !.pc = "catch"] \in WorkerState
    BY <2>1 DEF WorkerState
  <2>3. worker' = [worker EXCEPT ![w] = [worker[w] EXCEPT !.pc = "catch"]]
    BY <1>3 DEF Move
  <2>4. [worker[w] EXCEPT !.pc = "catch"].event = worker[w].event
    BY <2>1 DEF WorkerState
  <2>5. worker'[w] = [worker[w] EXCEPT !.pc = "catch"]
    BY <2>2, <2>3, <2>4, WorkerMoves
  <2>6. worker'[w].pc = "catch" /\ worker'[w].event = worker[w].event
    BY <2>1, <2>5 DEF WorkerState
  <2>7. Carry(w)'
    BY <1>1, <1>3, <2>1, <2>6 DEF Carry, queue, screening
  <2>8. QED
    BY <1>1, <2>2, <2>3, <2>4, <2>7, MoveKeeps
<1>4. QED
  BY <1>2, <1>3 DEF CallFails, Crash

\* What a worker that succeeds, or sees an exception, moves to.
LEMMA Succeeded ==
    ASSUME QueueInv, NEW w \in Worker, worker[w].pc \notin {"idle", "claim"},
           NEW next \in {"finish", "mark"}, Succeed(w, next)
    PROVE  /\ worker' \in [Worker -> WorkerState] /\ Alone'
           /\ worker'[w].event = InHand(w) /\ worker'[w].pc \in {next, "catch"}
           /\ \A v \in Worker \ {w} : worker'[v] = worker[v]
<1>1. worker[w] \in WorkerState /\ InHand(w) = worker[w].event
  BY InWork
<1>2. PICK stage \in {next, "catch"} : worker' = [worker EXCEPT ![w] = [worker[w] EXCEPT !.pc = stage]]
  BY DEF Succeed, Move
<1>3. [worker[w] EXCEPT !.pc = stage] \in WorkerState
  BY <1>1 DEF WorkerState
<1>4. [worker[w] EXCEPT !.pc = stage].event = worker[w].event /\ [worker[w] EXCEPT !.pc = stage].pc = stage
  BY <1>1 DEF WorkerState
<1>5. QED
  BY <1>1, <1>2, <1>3, <1>4, WorkerMoves

LEMMA InsertHitsKeeps ==
    ASSUME QueueInv, NEW w \in Worker, InsertHits(w)
    PROVE  QueueInv'
<1>1. PICK e : e = InHand(w)
  OBVIOUS
<1>2. /\ worker[w].pc = "insert" /\ hits' = hits \cup {<<e, attempts[e]>>} /\ Succeed(w, "finish")
      /\ UNCHANGED <<queue, job, linked, polled, poll, crashes>>
  BY <1>1 DEF InsertHits, At
<1>3. Carry(w) /\ worker[w].event = e /\ e \in Event /\ e # None
  BY <1>1, <1>2, InWork
<1>4. status[e] = "processing" /\ attempts[e] \in 1..MaxAttempts
  BY <1>2, <1>3 DEF Carry, QueueInv, Row
<1>5. /\ worker' \in [Worker -> WorkerState] /\ Alone'
      /\ worker'[w].event = e /\ worker'[w].pc \in {"finish", "catch"}
      /\ \A v \in Worker \ {w} : worker'[v] = worker[v]
  BY <1>1, <1>2, Succeeded
<1>6. Keeps
  BY <1>2 DEF Keeps, queue
<1>7. Carry(w)'
  <2>1. <<e, attempts[e]>> \in hits' /\ <<e, attempts[e]>>[1] = e
    BY <1>2
  <2>2. QED
    BY <1>2, <1>3, <1>5, <2>1 DEF Carry, queue
<1>8. \A v \in Worker : Carry(v)'
  BY <1>2, <1>5, <1>6, <1>7, CarryKept DEF queue
<1>9. \A f \in Event : Row(f)'
  BY <1>2, <1>6, RowKept DEF queue
<1>10. Counted'
  BY <1>2, <1>4, Types DEF QueueInv, Counted, queue
<1>11. TypeOK' /\ Links'
  BY <1>2, <1>3, <1>4, <1>5 DEF QueueInv, TypeOK, Links, queue, WorkerState
<1>12. QED
  BY <1>5, <1>8, <1>9, <1>10, <1>11 DEF QueueInv

LEMMA FinishJobKeeps ==
    ASSUME QueueInv, NEW w \in Worker, FinishJob(w)
    PROVE  QueueInv'
<1>1. PICK e : e = InHand(w)
  OBVIOUS
<1>2. PICK s \in {"failed", "completed"} :
        /\ worker[w].pc = "finish" /\ job' = [job EXCEPT ![JobOf[e]] = s] /\ Succeed(w, "mark")
        /\ UNCHANGED <<queue, linked, hits, polled, poll, crashes>>
  BY <1>1 DEF FinishJob, At
<1>3. Carry(w) /\ worker[w].event = e /\ e \in Event /\ e # None /\ JobOf[e] \in Job
  BY <1>1, <1>2, InWork
<1>4. /\ worker' \in [Worker -> WorkerState] /\ Alone'
      /\ worker'[w].event = e /\ worker'[w].pc \in {"mark", "catch"}
      /\ \A v \in Worker \ {w} : worker'[v] = worker[v]
  BY <1>1, <1>2, Succeeded
<1>5. /\ job' \in [Job -> {"running", "completed", "failed"}] /\ job'[JobOf[e]] = s
      /\ \A j \in Job : job[j] # "running" => job'[j] # "running"
  BY <1>2, <1>3 DEF QueueInv, TypeOK
<1>6. Keeps
  BY <1>2, <1>5 DEF Keeps, queue
<1>7. Carry(w)'
  BY <1>2, <1>3, <1>4, <1>5 DEF Carry, queue
<1>8. \A v \in Worker : Carry(v)'
  BY <1>2, <1>4, <1>6, <1>7, CarryKept DEF queue
<1>9. \A f \in Event : Row(f)'
  BY <1>2, <1>6, RowKept DEF queue
<1>10. TypeOK' /\ Links' /\ Counted'
  BY <1>2, <1>4, <1>5 DEF QueueInv, TypeOK, Links, Counted, queue, WorkerState
<1>11. QED
  BY <1>4, <1>8, <1>9, <1>10 DEF QueueInv
-----------------------------------------------------------------------------
(* mark_webhook_event_processed and mark_webhook_event_failed              *)

\* A worker that marks its event lets go of it, or goes on holding it.
LEMMA MarkKeeps ==
    ASSUME QueueInv, NEW w \in Worker, NEW e \in Event, worker[w].event = e,
           NEW s \in {"processed", "dead_letter", "failed"},
           NEW x \in WorkerState, worker' = [worker EXCEPT ![w] = x],
           status' = [status EXCEPT ![e] = s], due' = [due EXCEPT ![e] = FALSE],
           UNCHANGED <<kind, attempts, screening, crashes>>,
           x.event \in {None, e}, Carry(w)', Row(e)'
    PROVE  QueueInv'
<1>1. /\ worker' \in [Worker -> WorkerState] /\ Alone'
      /\ \A v \in Worker \ {w} : worker'[v] = worker[v]
  BY WorkerMoves
<1>2. /\ \A f \in Event \ {e} : status'[f] = status[f]
      /\ status' \in [Event -> {"none", "pending", "processing", "processed", "failed",
                             "dead_letter"}]
      /\ due' \in [Event -> BOOLEAN]
  BY DEF QueueInv, TypeOK
<1>3. Keeps
  BY DEF Keeps, screening
<1>4. ASSUME NEW v \in Worker \ {w} PROVE Carry(v)'
  <2>1. worker[v].event # e
    BY Types DEF QueueInv, Alone
  <2>2. worker[v].event # None => status'[worker[v].event] = status[worker[v].event]
    BY <1>2, <2>1, Types DEF QueueInv, WorkerState
  <2>3. QED
    BY <1>1, <1>3, <2>2, CarryKept
<1>5. \A f \in Event \ {e} : Row(f)'
  BY <1>2, <1>3, RowKept
<1>6. TypeOK'
  BY <1>1, <1>2 DEF QueueInv, TypeOK, screening, WorkerState
<1>7. Links' /\ Counted'
  BY DEF QueueInv, Links, Counted, screening
<1>8. QED
  BY <1>1, <1>4, <1>5, <1>6, <1>7 DEF QueueInv

\* Where a worker stands that has let go of its event.
LEMMA LetGo ==
    ASSUME QueueInv, NEW w \in Worker, NextIteration(w) \/ Stop(w)
    PROVE  \E x \in WorkerState : worker' = [worker EXCEPT ![w] = x] /\ x.event = None /\ Carry(w)'
<1>1. worker[w] \in WorkerState
  BY Types DEF QueueInv
<1>2. DEFINE x == IF Stop(w) THEN [pc |-> "idle", event |-> None, left |-> 0]
                 ELSE [pc |-> IF worker[w].left = 0 THEN "idle" ELSE "claim",
                       event |-> None, left |-> worker[w].left]
<1>3. x \in WorkerState /\ x.event = None /\ x.pc \in {"idle", "claim"}
      /\ (x.pc = "claim" => x.left > 0)
  BY <1>1, Types DEF QueueInv, WorkerState
<1>4. worker' = [worker EXCEPT ![w] = x]
  BY DEF NextIteration, Stop
<1>5. HIDE DEF x
<1>6. worker'[w] = x
  BY <1>3, <1>4, WorkerMoves
<1>7. Carry(w)'
  BY <1>3, <1>6 DEF Carry
<1>8. QED
  BY <1>3, <1>4, <1>7

LEMMA MarkProcessedKeeps ==
    ASSUME QueueInv, NEW w \in Worker, MarkProcessed(w)
    PROVE  QueueInv'
<1>1. PICK e : e = InHand(w)
  OBVIOUS
<1>2. /\ worker[w].pc = "mark" /\ status' = [status EXCEPT ![e] = "processed"]
      /\ due' = [due EXCEPT ![e] = FALSE] /\ UNCHANGED <<kind, attempts, screening, crashes>>
  BY <1>1 DEF MarkProcessed, At
<1>3. /\ worker[w] \in WorkerState /\ Carry(w) /\ worker[w].event = e /\ e \in Event /\ e # None
      /\ status[e] = "processing"
  BY <1>1, <1>2, InWork DEF Carry
<1>4. status'[e] = "processed"
  BY <1>2, <1>3 DEF QueueInv, TypeOK
<1>5. Row(e)'
  BY <1>2, <1>3, <1>4 DEF QueueInv, Row, Carry, screening
<1>6. CASE NextIteration(w)
  BY <1>2, <1>3, <1>5, <1>6, LetGo, MarkKeeps
<1>7. CASE Move(w, "catch")
  <2>1. PICK x : x = [worker[w] EXCEPT !.pc = "catch"]
    OBVIOUS
  <2>2. x \in WorkerState /\ x.event = e /\ x.pc = "catch" /\ worker' = [worker EXCEPT ![w] = x]
    BY <1>3, <1>7, <2>1 DEF WorkerState, Move
  <2>3. worker'[w] = x
    BY <1>3, <2>2, WorkerMoves
  <2>4. Carry(w)'
    BY <1>3, <1>4, <2>2, <2>3 DEF Carry
  <2>5. QED
    BY <1>2, <1>3, <1>5, <2>2, <2>4, MarkKeeps
<1>8. QED
  BY <1>6, <1>7 DEF MarkProcessed

LEMMA MarkFailedKeeps ==
    ASSUME QueueInv, NEW w \in Worker, MarkFailed(w)
    PROVE  QueueInv'
<1>1. PICK e : e = InHand(w)
  OBVIOUS
<1>2. PICK s \in {"dead_letter", "failed"} :
        /\ worker[w].pc = "catch" /\ status' = [status EXCEPT ![e] = s]
        /\ (s = "dead_letter" <=> attempts[e] >= MaxAttempts)
        /\ due' = [due EXCEPT ![e] = FALSE] /\ UNCHANGED <<kind, attempts, screening, crashes>>
  BY <1>1 DEF MarkFailed, At, Exhausted
<1>3. /\ Carry(w) /\ worker[w].event = e /\ e \in Event /\ e # None
      /\ attempts[e] \in 1..MaxAttempts
  BY <1>1, <1>2, InWork DEF Carry, QueueInv, Row
<1>4. status'[e] = s
  BY <1>2, <1>3 DEF QueueInv, TypeOK
<1>5. Row(e)'
  BY <1>2, <1>3, <1>4, Types DEF QueueInv, Row
<1>6. NextIteration(w) \/ Stop(w)
  BY DEF MarkFailed
<1>7. QED
  BY <1>2, <1>3, <1>5, <1>6, LetGo, MarkKeeps
-----------------------------------------------------------------------------
(* The promise of initiateScreening                                        *)

LEMMA PollStepKeeps ==
    ASSUME QueueInv, NEW j \in Job, PollStep(j) \/ PollKilled(j)
    PROVE  QueueInv'
<1>1. UNCHANGED <<queue, worker, hits>>
  BY DEF PollStep, PollLink, PollComplete, PollHits, PollCatch, PollError, PollKilled
<1>2. /\ poll' \in [Job -> {"link", "complete", "hits", "catch", "end"}]
      /\ poll'[j] # "link" /\ \A k \in Job \ {j} : poll'[k] = poll[k]
  BY DEF QueueInv, TypeOK, PollStep, PollLink, PollComplete, PollHits, PollCatch, PollError, PollKilled,
         Resolve
<1>3. /\ job' \in [Job -> {"running", "completed", "failed"}]
      /\ linked' \in [Job -> BOOLEAN]
      /\ \A k \in Job \ {j} : linked'[k] = linked[k]
      /\ \A k \in Job : linked[k] => linked'[k] /\ (job[k] # "running" => job'[k] # "running")
  <2>1. CASE PollLink(j)
    <3>1. ~linked[j]
      BY <2>1 DEF QueueInv, Links, PollLink
    <3>2. QED
      BY <2>1, <3>1 DEF PollLink, SetJob, QueueInv, TypeOK
  <2>2. CASE PollComplete(j) \/ PollCatch(j)
    BY <2>2 DEF PollComplete, PollCatch, SetJob, QueueInv, TypeOK
  <2>3. CASE PollHits(j) \/ PollError(j) \/ PollKilled(j)
    BY <2>3 DEF PollHits, PollError, PollKilled, QueueInv, TypeOK
  <2>4. QED
    BY <2>1, <2>2, <2>3 DEF PollStep
<1>4. Keeps
  BY <1>1, <1>3 DEF Keeps, queue
<1>5. polled' \subseteq Job /\ crashes' \in 0..MaxCrashes
  BY WebhookQueueAssumption DEF QueueInv, TypeOK, PollStep, PollLink, PollComplete, PollHits, PollCatch,
     PollError, PollKilled
<1>6. TypeOK'
  BY <1>1, <1>2, <1>3, <1>5 DEF QueueInv, TypeOK, queue
<1>7. Links'
  BY <1>2, <1>3 DEF QueueInv, Links
<1>8. QED
  BY <1>1, <1>4, <1>6, <1>7, PollKeeps
-----------------------------------------------------------------------------
LEMMA InitHolds == Init => QueueInv
<1>1. SUFFICES ASSUME Init PROVE QueueInv
  OBVIOUS
<1>2. TypeOK
  BY <1>1, WebhookQueueAssumption DEF Init, TypeOK
<1>3. (\A w \in Worker : Carry(w)) /\ Alone
  BY <1>1 DEF Init, Carry, Alone
<1>4. (\A e \in Event : Row(e)) /\ Links /\ Counted
  BY <1>1 DEF Init, Row, Links, Counted
<1>5. QED
  BY <1>2, <1>3, <1>4 DEF QueueInv

LEMMA StepHolds == QueueInv /\ [Next]_vars => QueueInv'
<1>1. SUFFICES ASSUME QueueInv, [Next]_vars PROVE QueueInv'
  OBVIOUS
<1>2. CASE UNCHANGED vars
  BY <1>1, <1>2 DEF vars, queue, screening, QueueInv, TypeOK, Carry, Alone, Row, Links, Counted
<1>3. ASSUME NEW w \in Worker, WorkerStep(w) \/ Crash(w) PROVE QueueInv'
  BY <1>1, <1>3, InvokeKeeps, ClaimKeeps, LookupKeeps, InsertHitsKeeps, FinishJobKeeps,
     MarkProcessedKeeps, MarkFailedKeeps, FailKeeps DEF WorkerStep
<1>4. ASSUME NEW e \in Event, Receive(e) \/ RetryDue(e) PROVE QueueInv'
  BY <1>1, <1>4, ReceiveKeeps
<1>5. ASSUME NEW j \in Job, PollStep(j) \/ PollKilled(j) PROVE QueueInv'
  BY <1>1, <1>5, PollStepKeeps
<1>6. QED
  BY <1>1, <1>2, <1>3, <1>4, <1>5 DEF Next

LEMMA QueueInvariant == Spec => []QueueInv
  BY InitHolds, StepHolds, PTL DEF Spec
-----------------------------------------------------------------------------
\* webhook_events, the invocations and the screening rows keep their types; in
\* particular no attempt is counted beyond p_max_attempts.
THEOREM QueueTypeCorrect == Spec => []TypeOK
<1>1. QueueInv => TypeOK
  BY DEF QueueInv
<1>2. QED
  BY <1>1, QueueInvariant, PTL

\* claim_pending_webhook_event and the marks that follow: for any number of overlapping
\* invocations, lost replies and kills, an event is in one worker's hands at a time.
THEOREM ExclusiveHolder == Spec => []OneWorkerPerEvent
<1>1. QueueInv => OneWorkerPerEvent
  <2>1. SUFFICES ASSUME QueueInv, NEW e \in Event
                 PROVE  /\ Cardinality(Holders(e)) <= 1
                        /\ Holders(e) # {} => status[e] \in {"processing", "processed"}
    BY DEF OneWorkerPerEvent
  <2>2. CASE Holders(e) = {}
    BY <2>2, FS_EmptySet
  <2>3. CASE Holders(e) # {}
    <3>1. PICK w \in Worker : worker[w].event = e
      BY <2>3 DEF Holders, InHand
    <3>2. Holders(e) = {w}
      BY <2>1, <3>1, WebhookQueueAssumption DEF Holders, InHand, QueueInv, Alone
    <3>3. Cardinality(Holders(e)) = 1
      BY <3>2, FS_Singleton
    <3>4. status[e] \in {"processing", "processed"}
      BY <2>1, <3>1, WebhookQueueAssumption DEF QueueInv, Carry
    <3>5. QED
      BY <3>3, <3>4
  <2>4. QED
    BY <2>2, <2>3
<1>2. QED
  BY <1>1, QueueInvariant, PTL

\* mark_webhook_event_failed: an event is given up after exactly p_max_attempts, and no
\* attempt inserts its hits more than once, for every budget and number of workers.
THEOREM BudgetKept == Spec => []RetryBudget
<1>1. QueueInv => RetryBudget
  <2>1. SUFFICES ASSUME QueueInv, NEW e \in Event
                 PROVE  Cardinality({h \in hits : h[1] = e}) <= attempts[e]
    BY DEF RetryBudget, QueueInv, Row
  <2>2. PICK n, S : n = attempts[e] /\ S = {h \in hits : h[1] = e}
    OBVIOUS
  <2>3. n \in Nat
    BY <2>1, <2>2, Types DEF QueueInv, TypeOK
  <2>4. \A h \in S : h = <<e, h[2]>> /\ h[2] \in 1..n
    BY <2>1, <2>2, <2>3, Types DEF QueueInv, TypeOK, Counted
  <2>5. PICK f : f = [h \in S |-> h[2]]
    OBVIOUS
  <2>6. f \in Injection(S, 1..n)
    BY <2>4, <2>5 DEF Injection, IsInjective
  <2>7. IsFiniteSet(1..n) /\ Cardinality(1..n) = n
    BY <2>3, FS_Interval
  <2>8. IsFiniteSet(S) /\ Cardinality(S) <= Cardinality(1..n)
    BY <2>6, <2>7, FS_Injection
  <2>9. QED
    BY <2>2, <2>7, <2>8
<1>2. QED
  BY <1>1, QueueInvariant, PTL

\* processScreeningEvent and initiateScreening: whatever both write to a job, an event
\* reads processed only with its hits stored and its job finished.
THEOREM ResultsBeforeProcessed == Spec => []ProcessedMeansApplied
<1>1. QueueInv => ProcessedMeansApplied
  BY DEF QueueInv, Row, ProcessedMeansApplied
<1>2. QED
  BY <1>1, QueueInvariant, PTL

\* The claim and the marks: an event that is settled and in nobody's hands is never
\* touched again.
THEOREM SettledStays == Spec => SettledIsFinal
<1>1. QueueInv /\ [Next]_vars =>
        [\A e \in Event : Settled(e) => Settled(e)' /\ status'[e] = status[e]]_vars
  <2>1. SUFFICES ASSUME QueueInv, Next, NEW e \in Event, Settled(e)
                 PROVE  Settled(e)' /\ status'[e] = status[e]
    OBVIOUS
  <2>2. SUFFICES status'[e] = status[e] /\ \A w \in Worker : worker'[w].event # e
    BY <2>1 DEF Settled, Holders, InHand
  <2>3. \A w \in Worker : worker[w].event # e /\ worker[w] \in WorkerState
    BY <2>1, Types DEF Settled, Holders, InHand, QueueInv
  <2>4. status[e] \in {"processed", "dead_letter"} /\ e # None
    BY <2>1, Types DEF Settled, QueueInv
  <2>5. CASE UNCHANGED <<status, worker>>
    BY <2>3, <2>5
  <2>6. ASSUME NEW w \in Worker, WorkerStep(w) \/ Crash(w)
        PROVE  status'[e] = status[e] /\ \A v \in Worker : worker'[v].event # e
    <3>1. worker \in [Worker -> WorkerState]
      BY <2>1, Types DEF QueueInv
    \* A worker that moves keeps its event, and one that stops drops it.
    <3>2. ASSUME NEW stage, Move(w, stage)
          PROVE  \A v \in Worker : worker'[v].event # e
      BY <2>3, <3>1, <3>2 DEF Move, WorkerState
    <3>3. ASSUME NEW pc, NEW left, worker' = [worker EXCEPT ![w] = [pc |-> pc, event |-> None, left |-> left]]
          PROVE  \A v \in Worker : worker'[v].event # e
      BY <2>3, <2>4, <3>1, <3>3
    <3>4. CASE Invoke(w) \/ ClaimNothing(w) \/ CallFails(w) \/ Crash(w) \/ Lookup(w) \/ InsertHits(w)
               \/ FinishJob(w)
      <4>1. UNCHANGED status
        BY <3>4 DEF Invoke, ClaimNothing, CallFails, Crash, Lookup, InsertHits, FinishJob, queue
      <4>2. \A v \in Worker : worker'[v].event # e
        BY <3>4, <3>2, <3>3 DEF Invoke, ClaimNothing, CallFails, Crash, Lookup, InsertHits, FinishJob,
           Stop, Succeed
      <4>3. QED
        BY <4>1, <4>2
    <3>5. CASE Claim(w)
      BY <2>1, <2>3, <2>4, <3>5, Types DEF Claim, Claimable, WorkerState, QueueInv, TypeOK
    <3>6. CASE MarkProcessed(w) \/ MarkFailed(w)
      <4>1. InHand(w) # e
        BY <2>3 DEF InHand
      <4>2. status'[e] = status[e]
        BY <2>1, <3>6, <4>1 DEF MarkProcessed, MarkFailed, QueueInv, TypeOK
      <4>3. \A v \in Worker : worker'[v].event # e
        BY <3>6, <3>2, <3>3 DEF MarkProcessed, MarkFailed, NextIteration, Stop
      <4>4. QED
        BY <4>2, <4>3
    <3>7. QED
      BY <2>6, <3>4, <3>5, <3>6 DEF WorkerStep
  <2>7. ASSUME NEW f \in Event, Receive(f) \/ RetryDue(f)
        PROVE  status'[e] = status[e] /\ \A v \in Worker : worker'[v].event # e
    BY <2>1, <2>3, <2>4, <2>7 DEF Receive, RetryDue, QueueInv, TypeOK
  <2>8. ASSUME NEW j \in Job, PollStep(j) \/ PollKilled(j)
        PROVE  UNCHANGED <<status, worker>>
    BY <2>8 DEF PollStep, PollLink, PollComplete, PollHits, PollCatch, PollError, PollKilled, queue
  <2>9. QED
    BY <2>1, <2>5, <2>6, <2>7, <2>8 DEF Next
<1>2. QED
  BY <1>1, QueueInvariant, PTL DEF Spec, SettledIsFinal
=============================================================================
