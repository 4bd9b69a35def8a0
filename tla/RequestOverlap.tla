--------------------------- MODULE RequestOverlap ---------------------------
(***************************************************************************)
(* Onboarding with a history variable: the requests that had ended when    *)
(* each request began.  Two requests of which neither had ended when the   *)
(* other began overlap; every anomaly of the read-then-write code should   *)
(* need such an overlap.                                                   *)
(***************************************************************************)
EXTENDS Onboarding

VARIABLE after  \* history: per request, those that had ended when it began

OverlapInit == Init /\ after = [r \in Request |-> {}]

OverlapNext ==
    /\ Next
    /\ after' = [r \in Request |-> IF At(r, "idle") /\ req'[r].pc # "idle"
                                   THEN {q \in Request : req[q].pc \in Ended} ELSE after[r]]

OverlapSpec == OverlapInit /\ [][OverlapNext]_<<vars, after>>

Overlap(q, r) == /\ q # r /\ req[q].session = req[r].session
                 /\ ~At(q, "idle") /\ ~At(r, "idle")
                 /\ q \notin after[r] /\ r \notin after[q]

Saved(r) == At(r, "done") /\ <<"SESSION_STEP_SUBMITTED", r>> \in trail
-----------------------------------------------------------------------------
\* Two cases for one session only if the two finalisations overlapped: there is
\* no UNIQUE (session_id), and openCase acts on a check made in an earlier
\* transaction.
OneCaseUnlessOverlap ==
    \A q, r \in Request :
      /\ q # r /\ req[q].session = req[r].session
      /\ opened[q] # "none" /\ opened[r] # "none"
      => Overlap(q, r)

\* A step answered 200 stays in completed_steps, unless another request for the
\* session overlapped it: advanceSession writes back a list it read earlier.
StepKeptUnlessOverlap ==
    \A r \in Request :
      Saved(r) => \/ req[r].step \in session[req[r].session].done
                  \/ \E q \in Request : Overlap(q, r)

\* A session whose last step was answered 200 stays submitted, unless another
\* request overlapped it: a request that passed the "already complete" check
\* before the submission puts the session back to in_progress after it.
SubmissionKeptUnlessOverlap ==
    \A r \in Request :
      Saved(r) /\ IsFinal(req[r].session, req[r].step)
        => \/ session[req[r].session].status = "submitted"
           \/ \E q \in Request : Overlap(q, r)

\* What finalisation and the steps promise can only break between requests for one
\* session that overlapped: one case per session, steps and a submission that stay.
AnomaliesNeedOverlap ==
    OneCaseUnlessOverlap /\ StepKeptUnlessOverlap /\ SubmissionKeptUnlessOverlap
=============================================================================
