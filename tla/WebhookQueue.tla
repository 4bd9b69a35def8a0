---------------------------- MODULE WebhookQueue ----------------------------
(***************************************************************************)
(* The webhook_events queue: ingest (app/api/webhooks/screening), the SQL  *)
(* functions of migration 0028, drainQueue of supabase/functions/_shared   *)
(* and processScreeningEvent, with the requests of initiateScreening that  *)
(* write the same screening_jobs rows after the HTTP response.             *)
(*                                                                         *)
(* A worker is one invocation of process-screening-webhook; invocations    *)
(* started by pg_cron and by hand overlap.  Each rpc or supabase call is   *)
(* one transaction.  It may be refused, or succeed and lose its reply; the *)
(* function may be killed before or after any call.                        *)
(***************************************************************************)
EXTENDS Naturals, FiniteSets

CONSTANTS
    Event,          \* webhook notifications, numbered by received_at
    Worker,         \* concurrent invocations
    Job,            \* screening_jobs rows, status 'running' at the start
    JobOf,          \* the job each event is about
    Kinds,          \* what each event may say
    MaxAttempts,    \* p_max_attempts
    MaxIterations,  \* MAX_ITERATIONS
    MayUpdateJobs,  \* an RLS policy lets requesters UPDATE screening_jobs
    Failures,       \* the transient failures that may happen
    MaxCrashes,     \* bound on the invocations and requests that are killed
    None            \* no event

ASSUME WebhookQueueAssumption ==
    /\ Event \subseteq Nat /\ None \notin Event
    /\ JobOf \in [Event -> Job]
    /\ Kinds \in [Event -> SUBSET {"hits", "clear", "failed", "malformed"}]
    /\ MaxAttempts \in Nat \ {0} /\ MaxIterations \in Nat \ {0}
    /\ MayUpdateJobs \in BOOLEAN
    /\ Failures \subseteq {"error", "lost_reply"}
    /\ MaxCrashes \in Nat

VARIABLES
    kind,      \* webhook_events.payload: hits, none, a failed search, or no job id
    status,    \* webhook_events.status; "none" before the insert
    attempts,  \* webhook_events.attempts
    due,       \* next_retry_at has passed
    worker,    \* the invocations: stage, event in hand, iterations left
    job,       \* screening_jobs.status
    linked,    \* screening_jobs.external_job_id is set
    hits,      \* screening_hits by the event and attempt that inserted them
    polled,    \* jobs whose hits initiateScreening inserted
    poll,      \* how far the promise of initiateScreening has come
    crashes

queue == <<kind, status, attempts, due>>
screening == <<job, linked, hits, polled, poll>>
vars == <<queue, worker, screening, crashes>>
-----------------------------------------------------------------------------
TypeOK ==
    /\ kind \in [Event -> {"hits", "clear", "failed", "malformed"}]
    /\ status \in [Event -> {"none", "pending", "processing", "processed", "failed",
                             "dead_letter"}]
    /\ attempts \in [Event -> 0..MaxAttempts]
    /\ due \in [Event -> BOOLEAN]
    /\ worker \in [Worker -> [pc : {"idle", "claim", "lookup", "insert", "finish",
                                    "mark", "catch"},
                              event : Event \cup {None}, left : 0..MaxIterations]]
    /\ job \in [Job -> {"running", "completed", "failed"}]
    /\ linked \in [Job -> BOOLEAN]
    /\ hits \subseteq Event \X (1..MaxAttempts)
    /\ polled \subseteq Job
    /\ poll \in [Job -> {"link", "complete", "hits", "catch", "end"}]
    /\ crashes \in 0..MaxCrashes

Init ==
    /\ kind \in [Event -> {"hits", "clear", "failed", "malformed"}]
    /\ \A e \in Event : kind[e] \in Kinds[e]
    /\ status = [e \in Event |-> "none"] /\ attempts = [e \in Event |-> 0]
    /\ due = [e \in Event |-> FALSE]
    /\ worker = [w \in Worker |-> [pc |-> "idle", event |-> None, left |-> 0]]
    /\ job = [j \in Job |-> "running"] /\ linked = [j \in Job |-> FALSE]
    /\ hits = {} /\ polled = {} /\ poll = [j \in Job |-> "link"] /\ crashes = 0

At(w, stage) == worker[w].pc = stage
Move(w, stage) == worker' = [worker EXCEPT ![w].pc = stage]
InHand(w) == worker[w].event
Holders(e) == {w \in Worker : InHand(w) = e}

\* The call succeeded; its reply arrives, or the worker sees an exception.
Succeed(w, next) == Move(w, next) \/ ("lost_reply" \in Failures /\ Move(w, "catch"))

\* The end of an iteration of drainQueue, and of the invocation.
NextIteration(w) ==
    worker' = [worker EXCEPT ![w] = [pc |-> IF worker[w].left = 0 THEN "idle" ELSE "claim",
                                     event |-> None, left |-> worker[w].left]]

Stop(w) == worker' = [worker EXCEPT ![w] = [pc |-> "idle", event |-> None, left |-> 0]]
-----------------------------------------------------------------------------
\* POST /api/webhooks/screening; a redelivery of the provider is another event.
Receive(e) ==
    /\ status[e] = "none"
    /\ status' = [status EXCEPT ![e] = "pending"]
    /\ UNCHANGED <<kind, attempts, due, worker, screening, crashes>>

\* next_retry_at passes.
RetryDue(e) ==
    /\ status[e] = "failed" /\ ~due[e]
    /\ due' = [due EXCEPT ![e] = TRUE]
    /\ UNCHANGED <<kind, status, attempts, worker, screening, crashes>>

\* The hourly cron tick, or a direct call.
Invoke(w) ==
    /\ At(w, "idle")
    /\ worker' = [worker EXCEPT ![w] = [pc |-> "claim", event |-> None,
                                        left |-> MaxIterations]]
    /\ UNCHANGED <<queue, screening, crashes>>

\* Mutants: abandoned rows are claimed again; so are those that were given up.
ClaimableStaleBug(e) == status[e] \in {"pending", "processing"} \/ (status[e] = "failed" /\ due[e])

ClaimableGivenUpBug(e) == status[e] \in {"pending", "failed", "dead_letter"}

Claimable(e) == status[e] = "pending" \/ (status[e] = "failed" /\ due[e])

\* Mutant: the attempt is not counted when a retry is claimed.
CountAttemptBug(e) == IF status[e] = "failed" THEN attempts[e] ELSE attempts[e] + 1

CountAttempt(e) == attempts[e] + 1

\* claim_pending_webhook_event: the oldest claimable row, in one transaction.
Claim(w) ==
    /\ At(w, "claim")
    /\ \E e \in Event :
         /\ Claimable(e) /\ \A f \in Event : Claimable(f) => e <= f
         /\ status' = [status EXCEPT ![e] = "processing"]
         /\ attempts' = [attempts EXCEPT ![e] = CountAttempt(e)]
         /\ worker' = [worker EXCEPT ![w] = [pc |-> "lookup", event |-> e,
                                             left |-> worker[w].left - 1]]
    /\ UNCHANGED <<kind, due, screening, crashes>>

ClaimNothing(w) ==
    /\ At(w, "claim") /\ \A e \in Event : ~Claimable(e)
    /\ Stop(w)
    /\ UNCHANGED <<queue, screening, crashes>>
-----------------------------------------------------------------------------
(* processScreeningEvent                                                   *)

Lookup(w) ==
    /\ At(w, "lookup")
    /\ LET e == InHand(w) IN
         Move(w, IF kind[e] = "malformed" \/ ~linked[JobOf[e]] THEN "catch"
                 ELSE IF kind[e] = "hits" THEN "insert" ELSE "finish")
    /\ UNCHANGED <<queue, screening, crashes>>

InsertHits(w) ==
    /\ At(w, "insert")
    /\ hits' = hits \cup {<<InHand(w), attempts[InHand(w)]>>}
    /\ Succeed(w, "finish")
    /\ UNCHANGED <<queue, job, linked, polled, poll, crashes>>

\* The job becomes completed, or failed.
FinishJob(w) ==
    /\ At(w, "finish")
    /\ job' = [job EXCEPT ![JobOf[InHand(w)]] =
                 IF kind[InHand(w)] = "failed" THEN "failed" ELSE "completed"]
    /\ Succeed(w, "mark")
    /\ UNCHANGED <<queue, linked, hits, polled, poll, crashes>>

\* mark_webhook_event_processed
MarkProcessed(w) ==
    /\ At(w, "mark")
    /\ status' = [status EXCEPT ![InHand(w)] = "processed"]
    /\ due' = [due EXCEPT ![InHand(w)] = FALSE]
    /\ \/ NextIteration(w)
       \/ "lost_reply" \in Failures /\ Move(w, "catch")
    /\ UNCHANGED <<kind, attempts, screening, crashes>>

\* Mutants: one attempt too few, one too many.
ExhaustedEarlyBug(e) == attempts[e] >= MaxAttempts - 1

ExhaustedLateBug(e) == attempts[e] > MaxAttempts

Exhausted(e) == attempts[e] >= MaxAttempts

\* mark_webhook_event_failed, whatever the status of the row has become.  When
\* its reply is lost the exception leaves drainQueue.
MarkFailed(w) ==
    /\ At(w, "catch")
    /\ LET e == InHand(w) IN
         /\ status' = [status EXCEPT ![e] = IF Exhausted(e) THEN "dead_letter" ELSE "failed"]
         /\ due' = [due EXCEPT ![e] = FALSE]
    /\ NextIteration(w) \/ ("lost_reply" \in Failures /\ Stop(w))
    /\ UNCHANGED <<kind, attempts, screening, crashes>>

\* A call is refused: process(event) throws, or claimNextEvent or markFailed
\* throws and ends the invocation.
CallFails(w) ==
    /\ "error" \in Failures
    /\ \/ worker[w].pc \in {"lookup", "insert", "finish", "mark"} /\ Move(w, "catch")
       \/ worker[w].pc \in {"claim", "catch"} /\ Stop(w)
    /\ UNCHANGED <<queue, screening, crashes>>

\* The invocation is killed; the event it holds stays in 'processing'.
Crash(w) ==
    /\ ~At(w, "idle") /\ crashes < MaxCrashes
    /\ crashes' = crashes + 1
    /\ Stop(w)
    /\ UNCHANGED <<queue, screening>>
-----------------------------------------------------------------------------
(* The promise of initiateScreening, as the user who asked for it.  An     *)
(* UPDATE that no policy allows changes no row and reports no error.       *)

SetJob(j, s) == job' = IF MayUpdateJobs THEN [job EXCEPT ![j] = s] ELSE job

\* The call succeeded, or its reply was lost and the promise is rejected.
Resolve(j, next) ==
    \/ poll' = [poll EXCEPT ![j] = next]
    \/ "lost_reply" \in Failures /\ poll' = [poll EXCEPT ![j] = "catch"]

\* submitScreening returned: status running, with external_job_id.
PollLink(j) ==
    /\ poll[j] = "link"
    /\ SetJob(j, "running")
    /\ linked' = IF MayUpdateJobs THEN [linked EXCEPT ![j] = TRUE] ELSE linked
    /\ Resolve(j, "complete")
    /\ UNCHANGED <<queue, worker, hits, polled, crashes>>

\* Mutant: the job is put back to running once its results are being fetched.
PollCompleteLateBug(j) ==
    /\ poll[j] = "complete"
    /\ SetJob(j, "running")
    /\ Resolve(j, "hits")
    /\ UNCHANGED <<queue, worker, linked, hits, polled, crashes>>

\* getResults returned, complete or not.
PollComplete(j) ==
    /\ poll[j] = "complete"
    /\ SetJob(j, "completed")
    /\ Resolve(j, "hits")
    /\ UNCHANGED <<queue, worker, linked, hits, polled, crashes>>

PollHits(j) ==
    /\ poll[j] = "hits"
    /\ polled' \in {polled, polled \cup {j}}
    /\ Resolve(j, "end")
    /\ UNCHANGED <<queue, worker, job, linked, hits, crashes>>

PollCatch(j) ==
    /\ poll[j] = "catch"
    /\ SetJob(j, "failed")
    /\ poll' = [poll EXCEPT ![j] = "end"]
    /\ UNCHANGED <<queue, worker, linked, hits, polled, crashes>>

\* A call of the promise, or the provider's answer to it, fails.
PollError(j) ==
    /\ "error" \in Failures /\ poll[j] # "end"
    /\ poll' = [poll EXCEPT ![j] = IF poll[j] = "catch" THEN "end" ELSE "catch"]
    /\ UNCHANGED <<queue, worker, job, linked, hits, polled, crashes>>

\* The response was sent long ago: the function may be frozen at any await.
PollKilled(j) ==
    /\ poll[j] # "end" /\ crashes < MaxCrashes
    /\ crashes' = crashes + 1
    /\ poll' = [poll EXCEPT ![j] = "end"]
    /\ UNCHANGED <<queue, worker, job, linked, hits, polled>>
-----------------------------------------------------------------------------
WorkerStep(w) ==
    \/ Invoke(w) \/ Claim(w) \/ ClaimNothing(w) \/ Lookup(w) \/ InsertHits(w)
    \/ FinishJob(w) \/ MarkProcessed(w) \/ MarkFailed(w) \/ CallFails(w)

PollStep(j) ==
    PollLink(j) \/ PollComplete(j) \/ PollHits(j) \/ PollCatch(j) \/ PollError(j)

Next == \/ \E w \in Worker : WorkerStep(w) \/ Crash(w)
        \/ \E e \in Event : Receive(e) \/ RetryDue(e)
        \/ \E j \in Job : PollStep(j) \/ PollKilled(j)

\* pg_cron keeps invoking and invocations keep running, the claim rpc is not
\* refused for ever, backoffs elapse, and a promise that is not killed goes on;
\* nothing makes the provider send events.
Fairness == /\ \A w \in Worker : WF_vars(WorkerStep(w)) /\ SF_vars(Claim(w))
            /\ \A e \in Event : WF_vars(RetryDue(e))
            /\ \A j \in Job : WF_vars(PollStep(j))

Spec == Init /\ [][Next]_vars /\ Fairness
-----------------------------------------------------------------------------
\* "SKIP LOCKED guarantees concurrent invocations don't fight over the same row":
\* no two workers hold one event, for the whole of its processing and not only
\* while the claim transaction runs, and the event they hold is still theirs to
\* mark (processing, or processed by a call whose reply was lost).
OneWorkerPerEvent ==
    \A e \in Event :
      /\ Cardinality(Holders(e)) <= 1
      /\ Holders(e) # {} => status[e] \in {"processing", "processed"}

\* "promotes to dead_letter after 5 attempts": no event is given up early or
\* retried beyond the budget, though crashes and lost replies consume attempts.
RetryBudget ==
    \A e \in Event :
      /\ status[e] = "dead_letter" => attempts[e] = MaxAttempts
      /\ status[e] = "failed" => attempts[e] \in 1..(MaxAttempts - 1)
      /\ Cardinality({h \in hits : h[1] = e}) <= attempts[e]

\* An event reads processed only when its results are in the database: the hits
\* it carried are stored, and its job has left 'running' for good, whatever the
\* promise of initiateScreening writes to the same row meanwhile.
ProcessedMeansApplied ==
    \A e \in Event :
      status[e] = "processed" => /\ kind[e] = "hits" => \E h \in hits : h[1] = e
                                 /\ kind[e] # "malformed" /\ job[JobOf[e]] # "running"

\* An event that is settled and in nobody's hands is never taken up again.
Settled(e) == status[e] \in {"processed", "dead_letter"} /\ Holders(e) = {}

SettledIsFinal == [][\A e \in Event : Settled(e) => Settled(e)' /\ status'[e] = status[e]]_vars

\* The holder of the event was killed, or could not mark it.
Abandoned(e) == status[e] = "processing" /\ Holders(e) = {}

\* Every event received is settled in the end, or was abandoned by a worker: an
\* event is not starved by older ones that keep failing, nor by other workers.
EventuallySettled ==
    \A e \in Event : status[e] = "pending" ~> [](Settled(e) \/ Abandoned(e))

\* Migration 0028: "events that arrive at /api/webhooks/idv and
\* /api/webhooks/screening are reliably drained".
ReliablyDrained == \A e \in Event : status[e] = "pending" ~> Settled(e)

\* process-screening-webhook: "For each event we resolve the matching
\* screening_jobs row by external_job_id, insert any new screening_hits, and mark
\* the job completed", here only for events that arrive once the job's provider
\* id is known to initiateScreening.
ResultsReachJobs ==
    \A e \in Event :
      status[e] = "pending" /\ poll[JobOf[e]] = "end" /\ kind[e] # "malformed"
        ~> status[e] = "processed"
=============================================================================
