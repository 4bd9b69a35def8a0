------------------------ MODULE IdentityVerification ------------------------
(***************************************************************************)
(* Identity verification by Sumsub: POST /api/onboarding/idv/start, the    *)
(* webhook applicantReviewed, GET /api/onboarding/idv/status and idv-form, *)
(* for one onboarding session.                                             *)
(*                                                                         *)
(* Sumsub reviews an applicant when it likes, may change its mind, and     *)
(* delivers each verdict until it is answered 200: late, twice, or in any  *)
(* order.                                                                  *)
(***************************************************************************)
EXTENDS Naturals, FiniteSets, Sequences, Functions

CONSTANTS
    Applicant,  \* identities of applicants at Sumsub
    MaxReviews  \* bound: verdicts of Sumsub

ASSUME IdvBound == MaxReviews \in Nat

VARIABLES
    grant,      \* what the database of this deployment lets the handlers do
    applicant,  \* each call of the start route, with the applicant that it creates
    review,     \* Sumsub: its verdicts of each applicant, oldest first
    delivery,   \* deliveries of the webhook underway, each at a stage
    idvDone,    \* onboarding_sessions.idv_completed_at is set
    told,       \* what the status route answered last
    unread      \* history: applicants with a verdict that met no row, or came out of order

idvRows == <<grant, applicant, review, delivery, idvDone, told, unread>>

Verdict == {"approved", "review", "rejected"}  \* GREEN, YELLOW, RED
StoredStatus == {"pending"} \cup Verdict

\* kyc: customers has the column individual_kyc, which the start route selects and no
\* migration creates.  update: the webhook, which has no user, may update the rows:
\* sumsub_applicants has no policy for UPDATE.
Grants == [kyc : BOOLEAN, update : BOOLEAN]

IdvTypeOK ==
    /\ grant \in Grants
    /\ applicant \in [Applicant -> [stage : {"none", "create", "token", "insert", "audit",
                                             "started", "refused", "failed"},
                                    stored : StoredStatus \cup {"absent"}]]
    /\ \A a \in Applicant : Len(review[a]) <= MaxReviews /\ Range(review[a]) \subseteq Verdict
    /\ delivery \subseteq [to : Applicant, n : 1..MaxReviews,
                           stage : {"sent", "session", "audit"}]
    /\ idvDone \in BOOLEAN
    /\ told \in StoredStatus \cup {"nothing", "not_found"}
    /\ unread \subseteq Applicant

IdvInit ==
    /\ grant \in Grants
    /\ applicant = [a \in Applicant |-> [stage |-> "none", stored |-> "absent"]]
    /\ review = [a \in Applicant |-> <<>>]
    /\ delivery = {} /\ idvDone = FALSE /\ told = "nothing" /\ unread = {}
-----------------------------------------------------------------------------
(* POST /api/onboarding/idv/start, called whenever the page is opened      *)

StartStep(a, from, to) ==
    /\ applicant[a].stage = from
    /\ applicant' = [applicant EXCEPT ![a].stage = to]
    /\ UNCHANGED <<grant, review, delivery, idvDone, told, unread>>

\* Without the column the customer is "not found".
StartIDV(a) == StartStep(a, "none", IF grant.kyc THEN "create" ELSE "refused")

\* createApplicant: the applicant exists at Sumsub from here on.
CreateApplicant(a) == StartStep(a, "create", "token")

CreateAccessToken(a) == StartStep(a, "token", "insert")

InsertApplicant(a) ==
    /\ applicant[a].stage = "insert"
    /\ applicant' = [applicant EXCEPT ![a] = [stage |-> "audit", stored |-> "pending"]]
    /\ UNCHANGED <<grant, review, delivery, idvDone, told, unread>>

AuditApplicant(a) == StartStep(a, "audit", "started")

\* Answered 500: the applicant and the row, if made, stay, and a retry makes others.
StartFails(a) == \E stage \in {"create", "token", "insert", "audit"} :
                     StartStep(a, stage, "failed")
-----------------------------------------------------------------------------
(* Sumsub                                                                  *)

Reviews == {r \in Applicant \X (1..MaxReviews) : r[2] <= Len(review[r[1]])}

Review(a) ==
    /\ applicant[a].stage \notin {"none", "create", "refused"}
    /\ Cardinality(Reviews) < MaxReviews
    /\ \E v \in Verdict : review' = [review EXCEPT ![a] = Append(@, v)]
    /\ delivery' = delivery \cup {[to |-> a, n |-> Len(review[a]) + 1, stage |-> "sent"]}
    /\ UNCHANGED <<grant, applicant, idvDone, told, unread>>

\* The answer 200 got lost: it is sent again.
Redeliver(a) ==
    /\ \E n \in DOMAIN review[a] :
         delivery' = delivery \cup {[to |-> a, n |-> n, stage |-> "sent"]}
    /\ UNCHANGED <<grant, applicant, review, idvDone, told, unread>>
-----------------------------------------------------------------------------
(* handleApplicantReviewedWebhook                                          *)

Moved(d, stage) == (delivery \ {d}) \cup {[d EXCEPT !.stage = stage]}

\* Bug: an answer that is not GREEN counts as approved.
StatusMapBug(verdict) == IF verdict = "rejected" THEN "rejected" ELSE "approved"

StatusMap(verdict) == verdict

\* An update of no row is no error.
UpdateApplicant(d) ==
    LET verdict == review[d.to][d.n]
        row == applicant[d.to].stored # "absent" /\ grant.update IN
    /\ d.stage = "sent"
    /\ applicant' = IF row THEN [applicant EXCEPT ![d.to].stored = StatusMap(verdict)]
                    ELSE applicant
    /\ unread' = IF ~row \/ d.n # Len(review[d.to]) THEN unread \cup {d.to} ELSE unread
    /\ delivery' = Moved(d, IF StatusMap(verdict) = "approved" THEN "session" ELSE "audit")
    /\ UNCHANGED <<grant, review, idvDone, told>>

\* The error of this update is not looked at either.
UpdateSession(d) ==
    /\ d.stage = "session"
    /\ idvDone' = (idvDone \/ grant.update)
    /\ delivery' = Moved(d, "audit")
    /\ UNCHANGED <<grant, applicant, review, told, unread>>

\* The audit row, if the session can be read, and the answer 200.
AuditResult(d) ==
    /\ d.stage = "audit"
    /\ delivery' = delivery \ {d}
    /\ UNCHANGED <<grant, applicant, review, idvDone, told, unread>>

\* The handler throws or dies: 500, or no answer, and Sumsub sends the verdict again.
DeliveryFails(d) ==
    /\ delivery' = Moved(d, "sent")
    /\ UNCHANGED <<grant, applicant, review, idvDone, told, unread>>
-----------------------------------------------------------------------------
(* GET /api/onboarding/idv/status                                          *)

Rows == {a \in Applicant : applicant[a].stored # "absent"}

LastVerdict(a) == IF review[a] = <<>> THEN "pending" ELSE review[a][Len(review[a])]

\* While the row says pending Sumsub is asked, and a rejection is answered as pending.
PendingStatus(a) == IF LastVerdict(a) = "approved" THEN "approved" ELSE "pending"

\* single() fails when the session has no row, or more than one.
GetStatus ==
    /\ IF Cardinality(Rows) # 1 THEN told' = "not_found"
       ELSE \E a \in Rows : told' = IF applicant[a].stored = "pending"
                                    THEN PendingStatus(a) ELSE applicant[a].stored
    /\ UNCHANGED <<grant, applicant, review, delivery, idvDone, unread>>

IdvNext ==
    \/ \E a \in Applicant :
         \/ StartIDV(a) \/ CreateApplicant(a) \/ CreateAccessToken(a) \/ InsertApplicant(a)
         \/ AuditApplicant(a) \/ StartFails(a) \/ Review(a) \/ Redeliver(a)
    \/ \E d \in delivery : \/ UpdateApplicant(d) \/ UpdateSession(d) \/ AuditResult(d)
                           \/ DeliveryFails(d)
    \/ GetStatus

IdvSpec == IdvInit /\ [][IdvNext]_idvRows
-----------------------------------------------------------------------------
Ever(verdict) == \E a \in Applicant : verdict \in Range(review[a])

\* Whatever was delivered when: a session counts as verified, in the table or in an
\* answer, only after Sumsub approved one of its applicants, and an answer of rejected
\* or review has such a verdict behind it.
AnswersExplained ==
    /\ idvDone => Ever("approved")
    /\ told \in Verdict => Ever(told)

\* Once every delivery is answered, the row of an applicant shows Sumsub's last verdict,
\* unless a verdict came before the row was written (it is answered 200 and never sent
\* again), verdicts overtook each other, or the webhook may not update the row at all.
VerdictKept ==
    \A a \in Rows : delivery = {} /\ a \notin unread => applicant[a].stored = LastVerdict(a)

VerdictsReachTheSession == AnswersExplained /\ VerdictKept
=============================================================================
