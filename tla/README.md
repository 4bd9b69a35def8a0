# TLA+ model of the AML / KYC / CDD onboarding portal

The portal takes a customer through an onboarding session, scores and screens
them, opens a review case, and lets compliance staff decide it, with an
append-only audit log underneath. It is a Next.js application over Supabase
(PostgreSQL behind PostgREST): **every `await supabase…` is a transaction of its
own**, several users and background workers act at the same time, no handler
spans its calls with a transaction, and row-level security (RLS) judges every
call separately. The models are about what these facts do to the records that a
regulator will read, about what the providers' callbacks do to them, and about what
the people in front of the browsers are shown. Paths below are relative to the
repository.

## 1. Inventory

| Component (where) | State it keeps | Operations | What is hard | What makes it correct |
|---|---|---|---|---|
| Sessions and workflow engine (`modules/onboarding`) | `onboarding_sessions`: status, current step, completed steps | initiate, submit a step, finalise | the status is checked on one read and the steps are extended on another; finalisation is about ten calls without a transaction | a step answered 200 stays recorded, a submission stays submitted, a finalised session is assessed, screened and has its case |
| Customer and business data (`modules/kyc-individual`, `modules/kyb`) | numbered data versions, `latest_version`, status | append a version, change status | number read, used and pointed to in three calls; the last one's error is ignored | versions without gaps or repetitions, the pointer on the last one or the one before |
| Risk engine (`modules/risk`) | `risk_assessments` | score, band, queue | floating point at thresholds, two copies of the thresholds, inputs callers leave out | the band is well defined and monotone |
| Screening (`modules/screening`) | `screening_jobs`, `screening_hits`, resolutions | create a job, poll the provider in a detached promise, resolve a hit | a promise that outlives its request, racing the webhook worker | an event reads processed only when its results are stored |
| Webhook queue (`supabase/functions`, migrations 0013, 0028) | `webhook_events`: status, attempts, `next_retry_at` | receive, claim, process, mark, retry, dead-letter | concurrent invocations, lost replies, killed workers | one holder per event, bounded attempts, every event settled |
| Cases (`modules/cases`, `app/api/cases`) | `cases`, `case_events` | open, assign, flag, note, escalate, request information | last writer wins; an UPDATE of a row RLS hides succeeds with no effect | the status never runs ahead of the record |
| Approvals (`modules/approvals`) | `approvals`, unique per case | decide | two reviewers at once, a decision in five calls | one immutable decision, a timeline that tells the same story |
| Notifications (`modules/notifications`) | `notification_events` and the provider | send the three customer emails | the request may die before or after any of its five calls, errors swallowed, provider-side deduplication | no email before, or other than, the record |
| Audit log (`modules/audit`, migrations 0003, 0037) | `audit_log` with `prev_hash`, `row_hash` | emit, chain, verify | order of the lock against order of `event_time`; what the inserter may read | an orderly log verifies; a clean report is complete |
| Roles and RLS (`modules/auth/rbac.ts`, migrations 0012–0027) | JWT claims | `assertPermission`, policies | two layers that must agree | they are the guards of the actions above |
| SAR reports (`modules/sar`, migration 0036) | reports, a reference counter, the hash of the last export | draft, update, export, submit | stale export, a counter nobody may write, references of four digits, free status changes | nothing is filed that was never validated, but for a PATCH of the status; numbers and versions count |
| goAML (`goaml-validator.ts`, `goaml-builder.ts`) | none | validate a report, build XML, validate the XML | three descriptions of one schema | what the first accepts the last accepts |
| EDD records, tenant configuration, rule packs | numbered versions | append, clone, rename | read-then-insert numbering, forms that are stale when saved | an append-only register; no setting reverts by itself |
| Workflow activation (migration 0031) | acknowledgements, `is_active` | acknowledge, revoke, activate | the gate is in a trigger, the preflight in the route | nothing is switched on without an acknowledgement |
| Documents | document status, `file_hash`, events | upload, confirm, verify, hash | detached hash job, crash between two writes | status and hash have a history that explains them |
| User administration | `auth.users`, `users`, `user_roles` | invite, assign, change, revoke, repair | two tenants' administrators, calls cut off in between | no account in a state nobody's action explains |
| Sumsub identity verification | applicants, `idv_completed_at` | start, webhook, poll | verdicts repeated, late, out of order, before the row | the answers are Sumsub's |
| Nomod billing and sign-up | tenant, billing row, links | sign up, payment webhook | the same, errors answered 200, and events that nobody signed | who paid is active; who is active paid, or was the subject of an event that Nomod did not send |
| UAE Pass sign-in | attempts with state, nonce and level | authorise, callback | overlapping callbacks, key rotation, keys that cannot be fetched, policy changes | the identity was vouched for at the level asked |
| Onboarding wizard (`app/(onboarding)`) | the browser's tabs | pages, forms | the server checks no order of steps; the pages do | no submission without its records |
| Case page, sign-in, navigation (`app/(platform)`, `proxy.ts`) | what is shown; three copies of the role | clicks, subscriptions, refresh | what is shown is old; a channel is joined after the render, drops and comes back, and tells nothing of the time before | status shown is current unless a change was missed; buttons and links work; no page before the second factor |
| SAR register and editor (`app/(platform)/sar`, `components/sar`) | what is shown, the text being edited | list, draft for a flagged case, edit, save, download, file | a form that no refresh resets, beside a lock that one does; posts that land after their editor was left | no save takes back another's unless two editors met; a filed report is locked |
| Dashboards and reporting | none | count | different queries for one notion | the differences are exactly those explained |
| Emirates ID parser | none | normalise, check digit | separators, transpositions | a typo is not another number |
| Marketing leads, legacy `backend/` and `frontend/`, `lib/notifications/idempotency.ts` | — | — | single inserts; code nobody calls | not modelled |

Interactions: a step submission calls, in order, the engine, the KYC or KYB
service, the risk engine, screening and the cases service; screening leaves a
promise behind that races the webhook worker for the same job row; approvals
update cases, append their events and send the notification at the end of the request;
every service emits audit rows, whose trigger links them into one chain per tenant.

`PROJECT.json` lists the hazards at their lines, with the property that covers each
or the reason why none does.

## 2. Modules

| Module | Models | Correspondence |
|---|---|---|
| `RiskScoring` | the risk engine | pure operators, one per dimension; `CompositeScore`, `DetermineBand`, `RiskBandToQueue` keep the source's names. Weights are scaled by 100 so that the sum is exact; `RawComposite` is what `Round` sees before `Math.round` |
| `Onboarding` | sessions, KYC and KYB data, assessments, screening jobs, opening of cases | `req[r].pc` is the place in the handler; one action per awaited call, `Deny` when a policy refuses it, `Abort` when the function dies or any call fails |
| `RequestOverlap` | `Onboarding` with the history of which requests had ended when another began | `after`; what overlapping requests can do wrong is stated here |
| `CaseReview` | decide, escalate, request information, note, assign, flag, and the emails | the same shape; `UpdateStatus` changes nothing when `Sees` is false, as an UPDATE under RLS does |
| `DecisionRegister` | the abstract promise of the review: a case is decided at most once and announced at most once, as decided | `CaseReview` implements it with `decision` read from `approvals` and `announced` from the emails the provider accepted |
| `WebhookQueue` | `webhook_events`, the SQL functions of 0028, `drainQueue`, `processScreeningEvent`, and the promise of `initiateScreening` | one action per rpc; `CallFails` is a refused call or a lost reply, `Crash` a killed invocation, `PollKilled` a frozen promise |
| `AuditChain` | the trigger and the verifier of 0037 under concurrent transactions | `Insert` is the trigger, `Status` one row of `verify_audit_chain`; a hash is the sequence of ids it commits to |
| `Requests` | the life of a back-office request | `Begin`, `Keep`, `Emit`, `Kill`: one record per request, one stage per awaited call; `crossed` remembers who met whom on one row |
| `UserAdmin`, `ScreeningHits`, `SarReports`, `VersionedRecords`, `WorkflowActivation`, `Documents` | the back office | each EXTENDS `Requests` and adds the rows of its component; one action per database call |
| `AppendOnlyRegister` | the abstract promise of the versioned tables: entries 1, 2, 3, … that never change | `VersionedRecords` implements it for each of its three series |
| `BackOffice` | the six together | `area` says where the requests of a behaviour arrive |
| `Wizard` | the pages and forms of `app/(onboarding)` in several tabs | the guards of the pages are `ConsentPage` … `CompletePage`; a step is `Check`, `Reread`, `Write` as in `advanceSession` |
| `IdentityVerification`, `Billing`, `UaePass` | the three providers and the handlers of their callbacks | one action per call; the provider's own actions (`Review`, `Pay`, `SignInAtIdp`, `RotateKey`) are external; `PostUnsigned` is any other request to Nomod's webhook, `FetchKeysFails` an answer of UAE Pass without keys |
| `CasePage` | the page of a case in several browsers | `page[o]` is what officer `o` is shown; `OpenPage` and `Refresh` are reads on the server, `ShowRefreshed` the new props in the browser, `Subscribe` and `Disconnect` the channels; `NudgedByCase`, `NudgedByEvent` are the two Realtime subscriptions |
| `Access` | sign-in, MFA, the proxy, the guards of the pages, links and buttons | `assigned`, `token` and `screen` are the three copies of the role |
| `SarPages` | the register of reports and the editor of one, in several browsers | `desk[o]` is what reporter `o` is shown; `posts` are the saves and submissions underway: started (`StartPost`), carried out (`SaveText`, `FileReport`), answered (`ReceiveAnswer`); the handlers, which `SarReports` follows call by call, are one step |
| `Dashboards` | the queries of the dashboards and of reporting, over rows the handlers change | operators with the names of the queries |
| `Portal` | the eight together | as `BackOffice` |
| `GoamlReport`, `EmiratesId` | pure functions | operators with the names of the functions |
| `MC…` | the instances TLC runs; `MCCalculations` edits the inputs of the pure functions one field at a time | |
| `Onboarding_proofs`, `Finalization_proofs`, `CaseReview_proofs`, `WebhookQueue_proofs`, `AuditChain_proofs`, `BackOffice_proofs`, `Portal_proofs`, `Calculations_proofs` | theorems and their lemmas | section 5 |

`Onboarding` EXTENDS `RiskScoring`: the band that routes a case is computed by the
modelled engine from the version that was read. `CaseReview` INSTANCEs
`DecisionRegister`. `Onboarding` and `CaseReview` share no variable: a case leaves
the former when it is open, where the latter starts. The components of `BackOffice`, and
those of `Portal`, share no row (or, for the pairs that do, nothing a handler of the
other reads before it writes): their steps commute, and a behaviour takes place in one of
them. `CasePage`, `SarPages`, `Wizard` and `Dashboards` take the handlers that `CaseReview`,
`SarReports` and `Onboarding` follow call by call as one step, except where their own properties depend on the calls in
between.

### What is abstracted

- A data version is a profile: the risk attributes and whether the trimmed name is
  non-empty. Other personal data decides nothing in the modelled code.
- A session stands for the customer and business made with it.
- Audit and case events are kept as (type, request) pairs: which were written, and
  by whom, but not their payloads.
- Times are kept where the code compares them: `next_retry_at` as "has passed",
  `event_time` as a small clock.
- SHA-256 is taken to be injective.
- Personal data, texts and XML are what the checks tell apart: absent, blank, malformed,
  set; which characters are escaped; how many digits an amount has.
- Providers do what their documentation and the code leave open: deliver late, twice or in any
  order, until they are answered 200. The keys of UAE Pass and its tokens are well formed when it
  sends them.
- An event of Nomod says a type, a link and a tenant, each of this company, of another one
  (`Foreign`) or, for the tenant, none (`Missing`); the amount is left out because no handler reads it
  except to log it. `genuine` marks what Nomod sent, which the handlers do not look at.
- A SAR reference has room for the numbers below `Limit`, and a longer number loses digits in base
  `Base` until it fits, as `LPAD` has it: 10000 and 10 in the code. A reference is its number.
- A query that fetches rows to count them gets all of them. The API returns 1000 at most
  (`max_rows` in `supabase/config.toml`) and the code does not notice, so what `Dashboards` says of bars,
  months and times is about a tenant with no more rows than that in the period; the counts the
  database makes itself are not concerned.
- Time in `Dashboards` passes in half days, so that a day of the calendar and a period of 24
  hours differ.
- The two RLS claims that decide an outcome in these flows are constants:
  `AssessmentWriters` and `MayUpdateJobs`. No migration has an INSERT policy on
  `risk_assessments` or an UPDATE policy on `screening_jobs`, so in the repository
  as it stands they are `{}` and `FALSE`, the values in the `violation` runs. The
  passing runs give them the values the code around them expects, for otherwise
  everything behind the refused call would go unexamined; so what `onboarding` and
  `webhook` show is about the program with those two policies added.
- `markSubmitted` and its like return early only on errors; every error ends the
  request, which is `Abort`.

## 3. Runs

`tlc -config X.cfg M` for each row. Deadlock is checked in the webhook runs, whose
workers never stop; in the others the requests are finite and the system may stop.

| Run | Bounds | States | What it shows |
|---|---|---|---|
| `calculations` | every combination of the attributes the engine distinguishes (864); a report that differs from a complete one in at most 2 fields; 2 Emirates IDs, any last character, at most 3 separators | 17 952 | the published table and `determineBand` agree and onboarding never leaves the standard queue (`BandsSound`); no riskier answer lowers the score; a report accepted for export passes the second check; a typo is never another valid number |
| `onboarding` | 3 requests (two by a tenant admin, one by an onboarding agent), 1 individual session that exists and 1 corporate session to be initiated, 3 profiles | 355 951 | types, version chain, completeness of a finalisation answered 200, justified cases, what the audit log tells and leaves out, and three anomalies that occur only between overlapping requests (`AnomaliesNeedOverlap`) |
| `onboarding_denied` | the same with the policies as they are | violation | a staff member with `onboarding:write` cannot finalise |
| `casereview` | 1 case, 3 requests by a senior reviewer and the MLRO, 9 operation choices | 382 443 | status, timeline and emails agree with the approvals table; refinement of `DecisionRegister` |
| `casereview_senior` | the same | violation | a senior reviewer's decision on a case not assigned to them leaves it open |
| `webhook` | 2 events about 1 job (hits, failed search), 2 workers, 2 attempts, 2 iterations, 1 crash | 173 510 | one holder per event, retry budget, results before `processed`, settled is final, every event settles or was abandoned |
| `webhook_stuck` | the same without call failures | violation | the event of a killed worker stays in `processing` |
| `webhook_unmatched` | two events with hits, no failure, no crash, policies as they are | violation | no webhook ever finds its job |
| `auditchain` | 3 transactions (one cannot read the log), 3 ids, 3 clock values | 96 435 | orderly logs verify; a clean report is complete |
| `auditchain_concurrent` | the same | violation | a concurrent log can fail verification untouched |
| `backoffice` | per area: 2 requests for users (1 person, 2 tenants, 2 roles) and for versioned records (at most 4 versions), 3 for hits, reports (2, references of one digit in base 3), workflows (2, at most 2 acknowledgements) and documents (1) | 550 684 | see below |
| `portal` | per area: 2 tabs; 2 applicants with 2 verdicts and 2 deliveries underway; 2 sign-ups, or 1 with 2 events, at most 1 of them not Nomod's; 1 attempt with 2 callbacks and 1 key rotation; 2 officers on 1 case (1 where there are no channels or the case is flagged); 2 reporters with up to 3 reports on 2 cases and pages of 1 report; 1 user with 2 changes of role; 2 cases or 2 sessions over 3 half days | 349 706 | see below |

`backoffice` shows that: every user without a role lost it to a revocation or to a change that was
cut off, and a user complete in a tenant's list signs in as that tenant, unless requests
crossed (`ProvisioningExplained`); the status of a hit is one of its recorded
resolutions; one draft a year at most is refused for its number while the numbers fit, there is
no report where the counter may not be written, and export versions count (`SarNumbersCount`);
nothing is filed without a validated text, and nothing else reads submitted unless a PATCH set the
status (`FiledWasValidated`); a setting
reverts only when forms crossed (`SettingsKeptUnlessCrossed`); the versioned tables implement
`AppendOnlyRegister` (`AppendOnly`); no definition is switched on without an
acknowledgement (`SwitchedOnWithAck`); and status and hash of a document have their history
(`DocumentHistory`).

`portal` shows that: whatever two tabs do, a session the wizard submitted has its consent, its
data and its documents, redirects end, and a refused save says why (`WizardSound`); what Sumsub
and Nomod reported reaches the tables, and who is active paid or was the subject of an event that Nomod
did not send, with the exceptions named (`ProvidersHeard`); an
identity from UAE Pass was vouched for at the level the tenant asked for when the attempt
began, one callback of an attempt succeeds, and a signature is refused only around a
rotation or when the keys could not be had (`IdentityAssured`); the status a case page shows is current
unless a refresh is due or the case changed while it had no channels, and its buttons
work, a report keeps what was saved in it, is locked once it is filed and is drafted once for a
case, except for the editors and lists that the properties name, nobody sees a page of a role with
MFA before the second factor, and links and buttons lead where they say while the role is current
(`ScreensSound`); and tiles, bars and reports differ by exactly the cases that explain it
(`NumbersExplained`).

One constant of the back office plays the part of `AssessmentWriters` above: `ConfigWritable`. That
no policy lets a user write `sar_reference_counters`, or lets a request without a user write the
tables of billing, is not assumed away: `counterWritable` and `writable` are chosen at the start of a
behaviour, so the runs and the theorems cover the policies as they are and with what the code
expects.

Why the bounds are enough to be interesting:

- *onboarding*: every race in the code is between a reader and a writer of one row;
  three requests give a pair that races and a third that comes after both, so that
  an anomaly can be seen to last. The third caller differs in role, so refusals
  happen in the middle of other requests' work.
- *casereview*: races are between two writers of one case; cases share nothing.
- *webhook*: two events are needed for the order of claims and for duplicate outcomes
  of one job, two workers for overlap, two attempts for the boundary between
  `failed` and `dead_letter`. One crash suffices for an abandoned event. The
  malformed and the empty payload are in the model but not in this run: they differ
  from the failed search only in which call ends the processing.
- *auditchain*: a false alarm needs two transactions; the third adds a rolled back
  predecessor or a reader that sees less. Transactions insert several rows.

- *backoffice*: races are between two requests on one row, and the third request, where there is one,
  comes after. Users and versioned records have two because their arguments multiply; every
  known anomaly of either needs two. Four versions leave room for a
  stale form to write back an older value. A digit in base 3 is outgrown by the third draft.
- *portal*: two of whatever can overlap (tabs, deliveries, callbacks, officers, editors). Three
  reports and pages of one leave a report that the register has not fetched. Two verdicts allow
  a change of mind and its delivery in the wrong order. Two changes of role allow a promotion
  and its withdrawal. Two events are a payment and what contradicts it: a failure, or a claim of
  somebody else. Three half days with months of two cover a month boundary and an afternoon before
  it. `Bounded` in `MCPortal` leaves out products of cases that no property reads together (its
  comment lists them, and the few interleavings that are left out with them); the theorems have no
  such bound.
- *calculations*: two spoiled fields are needed for one error to hide, or to cause, another.

### Fairness

Only `WebhookQueue` claims liveness. `WF(WorkerStep)`: pg_cron invokes the function
every minute and an invocation that is not killed keeps running. `SF(Claim)`: a
refused claim is tried again by the next invocation, and the database is not
refusing for ever. `WF(RetryDue)`: a backoff interval elapses. `WF(PollStep)`: a
promise that is not killed goes on. The provider's notifications (`Receive`), failures
and crashes have no fairness; the number of killed invocations is bounded by
`MaxCrashes`.

## 4. Findings

1. `StaffMayFinalize` — 0024 says every role that can finalise may open the case; an
   `onboarding_agent` is refused three tables earlier, and nobody may insert an
   assessment.
2. `SeniorDecisionCloses` — test scenario R-11 expects the case closed; the UPDATE
   matches no visible row and the handler answers 201.
3. `ReliablyDrained` — 0028 promises reliable draining; nothing takes up an event left in
   `processing`.
4. `ResultsReachJobs` — the worker resolves jobs by an id that cannot have been stored.
5. `ConcurrentLogVerifies` — 0037 promises a deterministic chain under concurrent
   inserts; the lock and the sort key order rows differently.
6. `OnboardingNeverAboveMedium`, a part of `BandsSound` (a property that holds) — scenario C-13 expects a PEP to
   reach EDD and the MLRO; the inputs onboarding passes cannot.

7. `SarNumbersCount` (holds, with the exceptions named) — migration 0036 promises monotonic
   references; the counter hands out 1 twice, and one draft of each year is refused; `LPAD` cuts the
   tenthousandth number to that of the thousandth; and the function that two comments call SECURITY
   DEFINER is not, so that with the policies as they are no report is drafted at all.
8. `SwitchedOnWithAck` (holds) — the workflows page says the MLRO can acknowledge; the route
   answers every MLRO 403.
9. `ProvidersHeard` (holds, with the exception named) — the Nomod route's comments promise 400
   and 500; it answers 200 to both, and a payment that failed to activate is not sent again. A comment
   promises 401 without a signature "in production"; events are handled without one, and with any,
   and neither link, tenant nor amount is compared with anything.
10. `NumbersExplained` (holds, with the exceptions named) — "Open SAR cases" counts decided ones;
    the bars of "each UTC day" are periods of 24 hours.
11. `ScreensSound` (holds, with the exceptions named) — the sidebar and a page offer the MLRO
    two pages the proxy refuses; the panel of screening hits does not re-render when a peer
    resolves one; the list of cases that "don't yet have a draft report" looks at the reports of one
    page only; a report that "you will not be able to edit" once it is filed is written by every
    editor that was not refreshed since; and the subscriptions that "re-render" the case page tell
    nothing of what happened before they were joined, or joined again.
12. `IdentityAssured` (holds, with the exceptions named) — `verifyIdToken` promises "a precise code on
    any failure"; a failed fetch of the keys has the code of a bad signature.
13. `FiledWasValidated` (holds, with the exception named) — a comment says a submission needs a
    validated export; a PATCH sets the status without one.
14. `AuditTrailSound` (holds of less than is promised) — `audit.service.ts` asks for an audit event for
    every mutation, and that a transaction without its event rolls back. The marks of a corporate
    customer and its business have no event, and no request rolls anything back.

Three more races are known and stated as what they are rather than as violations:
`AnomaliesNeedOverlap` says that a second case, a lost step and a reopened session need two
overlapping requests. No document of the repository promises more.

## 5. Proofs

Checked by TLAPS for all values of the constants, under the assumptions the modules name:
`OnboardingAssumption`, `CaseReviewAssumption`, `WebhookQueueAssumption`, `AuditChainAssumption`,
`AdminAssumption`, `SarAssumption`, `SarNoneAssumption`, `WorkflowAssumption`,
`VersionedAssumption`, `VersionedNoneAssumption`, `DocumentNoneAssumption`, `UaePassAssumption`,
`BillingAssumption`, `IdvBound`, `SarPagesAssumption`, `AccessBound` and `DashboardsAssumption`. They say what kind of value
each constant is and that `None` (for keys, `NoKey`; for cases, `Nothing`) is none of the values it
stands beside; TLC evaluates all of them. Which rows a policy hides and which writes it refuses is
open in every theorem: the constants for it have no assumption but their type.

### Onboarding

**`TypeCorrect`** — `Spec => []TypeOK`, one lemma per kind of step.

**`VersionChainHolds`** — `Spec => []VersionChain`: for any number of requests, profiles and
sessions, the versions of a record are `1..n` without repetition and `latest_version`
is `n` or `n - 1`. `VersionChain` is not inductive: it does not say which number a
request that has read the pointer, or has inserted but not yet moved the pointer, is
holding. The invariant is

    VersionInv == TypeOK /\ VersionChain /\ \A r : Reading(r) /\ Pointing(r)

`Reading(r)`: a request about to insert holds a number of at most `pointer + 1` (others may
have moved the pointer since it read). `Pointing(r)`: a request about to move the pointer
holds exactly `pointer + 1` and is the author of that row. The heart of the argument
is `PointChain`: two requests cannot both be about to move one pointer, since
both would be authors of the same row, which the unique constraint excludes. All
other actions leave versions and pointers alone and put no request into these two
places (`Elsewhere`, `Untouched`, `InitiateOutside`, `SubmitOutside`); initiating a
session is safe because it never touches the rows of another.

### Finalisation

**`AnsweredMeansFinalized`**, **`CasesAreJustified`**, **`AuditLogTellsTheTruth`**
(`Finalization_proofs`) — what `submitStep` leaves behind, from one invariant:

    FinalInv == TypeOK /\ Computed
                /\ \A r : Path(r) /\ Submitted(r) /\ Fresh(r) /\ Audited(r) /\ Justified(r)

`Computed`: every assessment was computed from a recorded version. `Path(r)` says what a request
has behind it at each stage (a band that some assessment has once it is past the assessment, its job
once it is past screening), `Fresh(r)` that a request that has not begun has written nothing,
`Audited(r)` where a request stands between a write and its audit row (one write at a time, which is
why a request that is cut off lacks at most one). Nothing in the
code takes rows back, and that is the argument: a step of `r` only adds rows, and adds them in
`r`'s name (`Adds`), so it disturbs no other request (`StepKeeps`). What remains is `r` itself:
quiet steps, the four that write a business row (`WriterStep`), and those that follow
them (`TailStep`). The marks and the closing of a session have no audit row of their own, so
`AuditLogTellsTheTruth` needs to know whose row tells of them: `AccountInv` adds to `FinalInv` that the
request which marked an individual has said so or is about to, and that the one which closed a session
has, or is at a stage that follows the closing (`ClosingTold`).

**`AnomaliesAreRaces`** — two cases for a session, a lost step and a reopened session need two requests
that overlapped. `OverlapInv` adds to `FinalInv`:

    Effective(r): what an advanced request wrote is still there, or it has met somebody
    Sole(r):      who opened a case after r looked for one overlaps r
    Informed(r):  r knows what those wrote that had ended when r began, none of them the last step
    Initiated:    a session is absent until the one request that initiates it creates it

Two requests that run at once overlap, and overlapping lasts; so a writer can only destroy the work of
one that had ended before it began, and there `Informed` speaks: the list of steps it writes back was
read after the other had ended, and a session that had been submitted was refused. `KindOfStep` sorts
the thirty-odd actions into eight kinds, which is all these arguments need.

### Case review

`ReviewInv` is `TypeOK`, `StatusNeedsApproval`, `MailAfterRecord` and, per request, `Shape` (which
operation a stage belongs to), `OnRecord` (past the insert, the approval is this
request's), `Written` (what it has told by that stage) and `Told` (who told of a decision is its
author). The unique constraint on `approvals` makes a decision immutable (`Frozen`), so what
a request knows of the approval survives the steps of all others. **`StatusIsOnRecord`**,
**`TimelineIsOnRecord`** and **`MailIsOnRecord`** follow at once.

**`ReviewImplementsRegister`** — `Spec => RegisterSpec`. A step maps to `Decide` when it inserts the
approval, to `Announce` when the provider accepts the email, and otherwise to a stutter; the second is
a step of the register only because `MailAfterRecord` ties the email to the stored decision.

**`ComplianceDecides`** — needs more than `ReviewInv`: `ClosingInv` names the author of the decision
while it is applied. Of the steps that write the status, only a decision, an
escalation and a request for information do; the last two are excluded by the hypothesis of the
property, and another decision by `OnRecord`, since the case has one author.

### Webhook queue

`QueueInv`: what the stage of a worker tells of the event in its hand (`Carry`), that no two hold one
event (`Alone`), what a status tells of attempts and results (`Row`), that the promise sets `running`
only together with the provider's id (`Links`, which is why a finished job is never set back), and
that hits carry the number of a counted attempt (`Counted`). A claim takes only events that are
pending or due, and an event in somebody's hand is `processing` or `processed`: hence `Alone`. **`BudgetKept`**
bounds the number of insertions by the attempts with an injection into `1..attempts[e]`
(`FiniteSetTheorems`).

### Audit chain

**`NoFalseAlarm`**. The difficulty is that the trigger chains a row to the last one *inserted*, the
verifier to the last one in the order of the log, and neither sees the rows of other
transactions that are still running. `Numbered` says that the rows of a running transaction come after all
others (whoever inserted later would have had to hold the lock), so a rollback removes a suffix and
every remaining row still commits to the last of the rows inserted before it (`Chained`).
In an orderly log the two prefixes are the same set.

**`NothingHides`** — if the verifier raises no alarm, the last hash commits to every committed row,
once. Rows may have arrived in any order, so the argument goes along the log and not along the
insertions: take the first row, in the order of the verifier, whose hash leaves out a row
before it. It was not marked `broken`, so it commits to what its predecessor commits to and to
itself; and the predecessor leaves nothing out, since it comes first. The first such row exists
because the sets of rows before a row are well ordered by inclusion (`FS_StrictSubsetOrderingWellFounded`
and `WFMin`), which is how an induction can be put to these provers. `RowsApart` (a row stands in
the log once) is the invariant underneath.

### Back office

**`NothingFiledUnvalidated`** — `SarInv`: a stored hash belongs to a valid text and is replaced but never
cleared, so what a request about to file has read (some export was validated) still holds when
it writes. `MarkedInv`: a status that says submitted was filed, or some request asked for it by a PATCH.
**`NoSwitchWithoutAck`** — the trigger asks at the moment of the write, so whatever was
revoked since the preflight does not matter. **`StatusWasResolved`** — the row of the resolution is
written before the status shows it, and such rows are only added.

**`TablesAreRegisters`** — every series is an `AppendOnlyRegister`. `VersionedInv` says that the
versions of a series are `1..k`, and that a request about to insert holds a number below which all
are taken. Others may have inserted since it read, but nobody takes rows away; so the
unique constraint turns away every number except `k + 1`, which is the entry of the register.

**`DocumentsAccountedFor`** — `DocumentsInv`: what a request has behind it at each stage, and that a
hash, an upload or a verdict on a row has the request that wrote it. A later write replaces a
status but takes no request's account back.

**`NumbersCountReports`** — `NumbersInv`: the counter, the numbers taken and the numbers in hand. The
counter hands out 1 twice and every other number once, so what tells two requests apart is whether
they were given the first number of the year (`BeganEmpty`); the unique constraint refuses the
second of these two, and nobody else. All of this holds while the counter is at most `Limit`
(`CountsInv`): beyond it two numbers share a reference, and the theorem promises nothing. Without a
counter that may be written, no request gets past `Reserve`. `VersionsInv`, for the exports: a request whose row nobody
else met holds the version that is stored.

**`SettingsAreKept`** — `SettingsInv`: a form that no other request met is up to date (`UpToDate`), and
what it writes contains the version before it. The property excuses a version whose writer met
another; the invariant therefore has to say of two requests that were in hand at once that both
are in the history variable `crossed`, from the moment the second one begins.

**`AccountsExplained`** — `AdminInv`: what a request knows of the user's tables at each stage
(`AdminKnows`), valid for as long as it met nobody (`Quiet`), and who is to blame for a user without
a role (`Blames`). The three tables are written one call at a time, so between two calls they
disagree; the stage of the request says how.

**`BackOfficeTypes`** — `BackOfficeTypeOK`, component by component.

All of these are theorems of the composition: `BackOfficeInv` adds that the areas at rest stay as they
were.

### Portal

**`WizardIsSound`** — the server asks for no order of the steps and an overlapping step may drop a name
from `completed_steps`, so that list cannot carry the argument; the records can. `WizardInv`: every
name in the list, or in a copy of the list that some request has read, has its record and the consent
(`Marked`); a page is shown only after the records of the steps before it, and a step is sent
only after its own (`Backed`). Records are never taken back, so all of this survives what other tabs
do, an old copy of the list included. `RedirectsSettle` goes through the guards of the pages.

**`IdentityIsAssured`** — `PassInv`. A code is exchanged once, so at most one callback of an
attempt bears a token, and the level it is judged by is the one the attempt was made with, whatever
the policy is by then. As long as no two callbacks of an attempt met, the stage of the callback tells
the status of the row. As long as no key was rotated, the cached key is the one that signs, and a
signature was refused only to a callback that got no keys (`OneKey`).

**`ProvidersAreHeard`** — `BillingInv` and `IdvInv`. A slug is unique, so one sign-up has the tenant, and
a link exists only after the billing row: a payment that Nomod reports finds a row to activate, if
nothing refuses the write. `OnItsWay`: a delivery that is past a call has left that call's mark;
`Followed`: so has one that was answered, unless it was dropped. A row is activated, and a link paid, by
some event only, which is a payment or a claim of somebody else (`RealEvent` says what either can name,
and no theorem says that an active tenant paid). Sumsub takes no verdict back, and a row that was not left behind by a failed
call shows the last verdict, unless its delivery is still underway.

**`ScreensAreSound`** — three invariants. `CaseInv`: a page at rest (no refresh due, no change missed)
whose officer may see the case shows its status, or was sent it and is about to (`Shows`): every
change either leaves a refresh due where the channels are joined, or is missed. `SarPagesInv` is about the form of an editor, which no
refresh resets: as long as no two editors had a report open at once, an editor holds what is
stored and its reporter's own changes (`Holds`), it is locked, about to be or waiting for an
answer (`Locks`), a post underway carries what its editor had (`InFlight`, one of a kind), and the
register knew of every report that was fetched (`Offers`). `AccessInv`: a token has the second
assurance level exactly if the factor was proved, and what is on the screen was rendered for a role
that may open it; the rest are tables of roles, pages and permissions, gone through by cases.

**`NumbersAreExplained`** — `DashboardsInv`: the types, finitely many rows, and a history per case: a
decided case has been closed, and a closed one has an approval and was not closed before it was
opened. The rest is counting. Every figure is a number of rows or a sum over them, and a sum is
a fold that takes the rows in an order nobody chose: `TotalIsUnique` shows that any function of the
sets of rows that grows by one row at a time is the sum, by the smallest set on which the two would
differ. Hence sums of parts (`ClassesAdd`), and hence bars, tiles and badges that count the
same rows in other ways agree.

**`PortalTypes`** — `PortalTypeOK`, component by component. The counter of deliveries in
`IdentityVerification` is bounded only if the verdicts of an applicant are: `IdvLimits`.

### Pure functions

**`OnboardingScoreRange`** — an assessment by onboarding scores between 8 and 47, for every
input it can pass, hence the finding above. **`BandIsMonotone`** — a higher score never has
a lower band, for all pairs of integers. **`BandsAreSound`** — in every state of the form, the band
is the one of the published table whichever way the floating-point sum rounds a tie
(none lies within a ten-thousandth of one that decides a band: `NoTieDecides`), and no assessment of onboarding leads above the standard
queue. **`WorseScoresMore`** — declaring something riskier never lowers the score: a dimension
is a maximum or a table, the weights are positive, and rounding is monotone.

**`ExportRechecked`** — for every report, with any number of transactions, what
`validateForGoaml` accepts for export `buildSarXml` turns into a document that
`validateGoamlXml` accepts. **`FilingsPassRecheck`** states it of the form in which the fields are
edited.

**`TyposAreCaught`** — for a text of any length, with separators anywhere. What is left of the text without
its separators is followed character by character up to the first place where it would not be as said
(`KeptMistyped`, `KeptSwapped`): a wrong character leaves a text that is one longer, which is no number, or
that differs at one position; two neighbours leave the same text or an exchange. Both
change the sum of `luhnCheck` by less than ten, hence not at all (`PassBoth`), and no two
digits weigh the same. The sum is a fold, and unique as in `NumbersAreExplained`.

Every invariant and every action property of a passing run is stated by a theorem. Only model-checked:
the liveness of `WebhookQueue`, which TLAPS does not reach (fairness needs ENABLED), and
the violations of section 4, which are counterexamples. The recursive functions of the project are reasoned
about through the smallest index or set at which a claim would fail, because the library's
theorems on induction take an operator as a parameter.

## 6. Not modelled

- Marketing leads: a duplicate check and an insert, outside the compliance flow.
- `backend/` and `frontend/`: the code of an earlier architecture, which nothing in the
  application calls; `lib/notifications/idempotency.ts` has no caller either.
- Dashboards: the counts of documents, hits and webhooks, set-up completeness, the list across
  tenants and the CSV export. Each is one count over rows that no other query counts.
- Corporate customers: beneficial owners are inserted one at a time and decide nothing.
- The adverse-media filter of the screening client, the texts of the email templates, and the key of a
  request for information, which is the same for two requests of one actor on one day.
- The audit log's back-fill of rows older than the chain and its CSV export.
- The window between the trigger of 0031 and the commit of its transaction, in which an
  acknowledgement may be revoked: the trigger and the write are one action.
- goAML amounts of 10^16 and more, which JavaScript writes with other digits, and two
  transactions with the same number, which neither validator looks for.
- Reading a birth date out of an Emirates ID.

- The limits of the SAR register's queries: 50 flagged cases, of which 8 are listed.

What would come next: in `Onboarding`, what a lost update of
`latest_version` does to later edits: they compute a number that is taken, although the comment at
`modules/kyc-individual/kyc.repository.ts:43` calls the read atomic.
