------------------------------- MODULE Billing -------------------------------
(***************************************************************************)
(* Trial sign-up and payment by Nomod: POST /api/signup/create-tenant,     *)
(* createTrialPaymentLink, and the webhook of modules/nomod, for companies *)
(* of one name.                                                            *)
(*                                                                         *)
(* The webhook takes what it is sent: an event without a signature is      *)
(* handled, one with a signature is too (verifyWebhookSignature returns    *)
(* true), and the link and the tenant that it names are not compared with  *)
(* each other, nor its amount with that of the link.  So an event may come *)
(* from Nomod, which reports what happened to a link and delivers it until *)
(* it is answered 200, in any order, or from anywhere else, and then says  *)
(* anything.  Whether Nomod returns the tenant is not known to the code.   *)
(***************************************************************************)
EXTENDS Naturals, FiniteSets

CONSTANTS
    SignUp,    \* calls of the sign-up route, all for one company name
    Foreign,   \* a link, or a tenant, of another company
    Missing,   \* no metadata.tenant_id
    MaxEvents  \* bound: events

ASSUME BillingAssumption ==
    Foreign \notin SignUp /\ Missing \notin SignUp /\ Foreign # Missing

VARIABLES
    writable,  \* tables that these handlers, which have no user, may write
    signUp,    \* the calls
    tenant,    \* tenants.slug: the call that inserted it
    billing,   \* tenant_billing.status of that tenant
    link,      \* tenant_billing_links.status, by the call that made the link
    event,     \* deliveries underway
    happened,  \* history: the events
    answered,  \* history: the events answered 200
    dropped,   \* history: events answered 200 though a write failed, or none was tried
    early      \* history: events that came before their link was stored

billingRows == <<writable, signUp, tenant, billing, link, event, happened, answered, dropped,
                 early>>

\* genuine: Nomod sent it.  link, tenant: as it says.
EventType == {"payment.completed", "payment.failed", "link.expired"}
Event == [type : EventType, link : SignUp \cup {Foreign},
          tenant : SignUp \cup {Foreign, Missing}, genuine : BOOLEAN]
SignUpStage == {"none", "tenant", "billing", "create_link", "store_link", "audit",
                "offered", "conflict", "failed"}

\* No policy lets a request without a user write: the tables are writable only where
\* the deployment grants it.
Grant == SUBSET {"tenants", "tenant_billing", "tenant_billing_links"}

BillingTypeOK ==
    /\ writable \in Grant
    /\ signUp \in [SignUp -> SignUpStage]
    /\ tenant \subseteq SignUp /\ Cardinality(tenant) <= 1
    /\ billing \in {"none", "trialing", "active"}
    /\ link \in [SignUp -> {"none", "made", "created", "paid", "failed"}]
    /\ event \subseteq [e : Event, stage : {"sent", "activate", "audit"}]
    /\ happened \subseteq Event /\ answered \subseteq Event /\ dropped \subseteq Event
    /\ early \subseteq Event

BillingInit ==
    /\ writable \in {{}, {"tenants", "tenant_billing", "tenant_billing_links"}}
    /\ signUp = [c \in SignUp |-> "none"]
    /\ tenant = {} /\ billing = "none"
    /\ link = [c \in SignUp |-> "none"]
    /\ event = {} /\ happened = {} /\ answered = {} /\ dropped = {} /\ early = {}
-----------------------------------------------------------------------------
(* POST /api/signup/create-tenant                                          *)

SignUpTo(c, from, to) == signUp[c] = from /\ signUp' = [signUp EXCEPT ![c] = to]

nomodRows == <<event, happened, answered, dropped, early>>

StartSignUp(c) ==
    /\ SignUpTo(c, "none", "tenant")
    /\ UNCHANGED <<writable, tenant, billing, link, nomodRows>>

\* slug is unique: a second company of that name, or a second try, is a conflict.
InsertTenant(c) ==
    /\ IF "tenants" \notin writable
       THEN SignUpTo(c, "tenant", "failed") /\ UNCHANGED tenant
       ELSE IF tenant # {}
       THEN SignUpTo(c, "tenant", "conflict") /\ UNCHANGED tenant
       ELSE SignUpTo(c, "tenant", "billing") /\ tenant' = {c}
    /\ UNCHANGED <<writable, billing, link, nomodRows>>

InsertBilling(c) ==
    /\ SignUpTo(c, "billing", "create_link")
    /\ billing' = "trialing"
    /\ UNCHANGED <<writable, tenant, link, nomodRows>>

\* createPaymentLink: the link exists at Nomod from here on.
CreatePaymentLink(c) ==
    /\ SignUpTo(c, "create_link", "store_link")
    /\ link' = [link EXCEPT ![c] = "made"]
    /\ UNCHANGED <<writable, tenant, billing, nomodRows>>

StoreLink(c) ==
    /\ SignUpTo(c, "store_link", "audit")
    /\ link' = [link EXCEPT ![c] = "created"]
    /\ UNCHANGED <<writable, tenant, billing, nomodRows>>

\* The two audit rows, and the answer with the URL of the link.
OfferLink(c) ==
    /\ SignUpTo(c, "audit", "offered")
    /\ UNCHANGED <<writable, tenant, billing, link, nomodRows>>

SignUpFails(c) ==
    /\ \E stage \in SignUpStage \ {"none", "offered", "conflict", "failed"} :
         SignUpTo(c, stage, "failed")
    /\ UNCHANGED <<writable, tenant, billing, link, nomodRows>>
-----------------------------------------------------------------------------
(* Events                                                                  *)

Arrives(e) ==
    /\ Cardinality(happened) < MaxEvents /\ e \notin happened
    /\ happened' = happened \cup {e}
    /\ event' = event \cup {[e |-> e, stage |-> "sent"]}
    /\ UNCHANGED <<writable, signUp, tenant, billing, link, answered, dropped, early>>

\* Nomod: a link that it made is paid, or not; the event may lack the metadata of the link.
Pay(c) ==
    /\ link[c] # "none"
    /\ \E type \in EventType, of \in {c, Missing} :
         Arrives([type |-> type, link |-> c, tenant |-> of, genuine |-> TRUE])

\* Any other request to the webhook, signed or not, about a link or a tenant there is.
PostUnsigned ==
    \E type \in EventType, l \in {Foreign} \cup {c \in SignUp : link[c] # "none"},
       t \in {Foreign, Missing} \cup tenant :
         Arrives([type |-> type, link |-> l, tenant |-> t, genuine |-> FALSE])

\* The answer got lost.
SendAgain ==
    /\ \E e \in happened : event' = event \cup {[e |-> e, stage |-> "sent"]}
    /\ UNCHANGED <<writable, signUp, tenant, billing, link, happened, answered, dropped, early>>
-----------------------------------------------------------------------------
(* The route, and handlePaymentWebhook                                     *)

Reached(d, stage) == (event \ {d}) \cup {[d EXCEPT !.stage = stage]}

\* Bug: the event types are swapped.
PaymentStatusBug(type) == IF type = "payment.completed" THEN "failed" ELSE "paid"

PaymentStatus(type) == IF type = "payment.completed" THEN "paid" ELSE "failed"

Pays(d) == d.e.type = "payment.completed"

\* An update of no row is no error: the link may not be stored, or not be writable, or be
\* that of another company.  The status it had is not looked at.
UpdateLink(d) ==
    /\ d.stage = "sent" /\ d.e.type # "link.expired" /\ d.e.tenant # Missing
    /\ link' = IF \/ d.e.link = Foreign \/ "tenant_billing_links" \notin writable
                  \/ link[d.e.link] = "made"
               THEN link
               ELSE [link EXCEPT ![d.e.link] = PaymentStatus(d.e.type)]
    /\ early' = IF d.e.link # Foreign /\ link[d.e.link] = "made" THEN early \cup {d.e}
                ELSE early
    /\ event' = Reached(d, IF Pays(d) THEN "activate" ELSE "audit")
    /\ UNCHANGED <<writable, signUp, tenant, billing, happened, answered, dropped>>

\* Bug: the trial is kept until the audit row is written.
ActivateLostBug(d) ==
    /\ d.stage = "activate"
    /\ event' = Reached(d, "audit")
    /\ UNCHANGED <<writable, signUp, tenant, billing, link, happened, answered, dropped, early>>

\* The row of the tenant that the event names, whoever the link belongs to.
Activate(d) ==
    /\ d.stage = "activate"
    /\ billing' = IF billing # "none" /\ d.e.tenant \in tenant /\ "tenant_billing" \in writable
                  THEN "active" ELSE billing
    /\ event' = Reached(d, "audit")
    /\ UNCHANGED <<writable, signUp, tenant, link, happened, answered, dropped, early>>

Settled(d) == event' = event \ {d} /\ answered' = answered \cup {d.e}

Acknowledge(d) ==
    /\ d.stage = "audit"
    /\ Settled(d)
    /\ UNCHANGED <<writable, signUp, tenant, billing, link, happened, dropped, early>>

\* 200 with nothing done, for an event without a tenant or of another type, and after
\* every error: the body is not what the schema asks for, a call fails.
AcknowledgeFailure(d) ==
    /\ Settled(d)
    /\ dropped' = dropped \cup {d.e}
    /\ UNCHANGED <<writable, signUp, tenant, billing, link, happened, early>>

\* The function is killed before it answers.
WebhookDies(d) ==
    /\ event' = Reached(d, "sent")
    /\ UNCHANGED <<writable, signUp, tenant, billing, link, happened, answered, dropped, early>>

BillingNext ==
    \/ \E c \in SignUp : \/ StartSignUp(c) \/ InsertTenant(c) \/ InsertBilling(c)
                         \/ CreatePaymentLink(c) \/ StoreLink(c) \/ OfferLink(c)
                         \/ SignUpFails(c) \/ Pay(c)
    \/ PostUnsigned \/ SendAgain
    \/ \E d \in event : \/ UpdateLink(d) \/ Activate(d) \/ Acknowledge(d)
                        \/ AcknowledgeFailure(d) \/ WebhookDies(d)

BillingSpec == BillingInit /\ [][BillingNext]_billingRows
-----------------------------------------------------------------------------
\* Nomod reported that the link of c was paid, whatever the amount.
Completed(c) ==
    [type |-> "payment.completed", link |-> c, tenant |-> c, genuine |-> TRUE] \in happened

\* Somebody else said so of the link, or of the tenant.
Claimed(c) == \E e \in happened :
    e.type = "payment.completed" /\ ~e.genuine /\ c \in {e.link, e.tenant}

\* Some event said that a payment on the link failed.
Failed(c) == \E e \in happened : e.type = "payment.failed" /\ e.link = c

\* Nobody is charged for nothing: once a completed payment was answered 200 the tenant is
\* active, unless the event was dropped (it named no tenant, or a call failed; it is never
\* sent again) or the table is not writable.  Its link is paid, unless the event came before
\* the link was stored, or another event said that a payment failed: the later one wins.
PaymentActivates ==
    \A e \in answered \ dropped :
      e.type = "payment.completed" /\ e.genuine /\ writable # {} =>
        /\ billing = "active"
        /\ link[e.link] = "paid" \/ e \in early \/ Failed(e.link)

\* Who is active, or has a link that is paid, paid, or was the subject of an event that
\* Nomod did not send: the route asks for no signature.
NoFreeSubscription ==
    /\ billing = "active" => \E c \in tenant : Completed(c) \/ Claimed(c)
    /\ \A c \in SignUp : link[c] = "paid" => Completed(c) \/ Claimed(c)

\* A company is told that it exists already only if it does: but also when the sign-up
\* that made it failed half way, and left it without a link to pay with.
ConflictExplained ==
    \A c \in SignUp : signUp[c] = "conflict" => \E t \in tenant : t # c

PaymentsCount == PaymentActivates /\ NoFreeSubscription /\ ConflictExplained
=============================================================================
