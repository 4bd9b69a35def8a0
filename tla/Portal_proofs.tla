--------------------------- MODULE Portal_proofs ---------------------------
(***************************************************************************)
(* Theorems about the portal, its three providers and its wizard.          *)
(* Whatever the handlers read and write one call at a time, what UAE Pass  *)
(* vouched for is what the tenant asked for, the verdicts of Sumsub and    *)
(* the payments at Nomod are what the tables tell, a session that was      *)
(* submitted has its records, and the pages of the staff show and offer    *)
(* what the rows and the routes allow, for any number of attempts,         *)
(* callbacks, verdicts, events, tabs, officers, reports and users.         *)
(***************************************************************************)
EXTENDS Portal, FiniteSetTheorems, TLAPS

-----------------------------------------------------------------------------
(* UAE Pass                                                                *)

\* Nobody comes back before the URL was offered, and nothing is told before.
Begun(a) ==
    /\ attempt[a].stage # "offered" => attempt[a].code = "none"
    /\ attempt[a].code = "none" => /\ attempt[a].status # "succeeded"
                                   /\ <<"succeeded", a>> \notin passTrail

Bearing == {"verify", "userinfo", "succeed", "audit", "success"}

\* A callback with an id_token has spent the code; one that has passed the check of the
\* level, or failed it, did so with the level of the attempt.
Course(c) ==
    LET a == callback[c].of IN
    /\ attempt[a].code = "none" => callback[c].stage = "none" /\ callback[c].error = "none"
    /\ callback[c].stage \in Bearing => callback[c].signed # NoKey
    /\ callback[c].signed # NoKey => attempt[a].code = "used"
    /\ callback[c].stage \in {"succeed", "audit"} => Acceptable(attempt[a].user, attempt[a].level)
    /\ callback[c].error = "assurance_level_too_low" =>
         ~Acceptable(attempt[a].user, attempt[a].level)
    /\ callback[c].stage = "success" => <<"succeeded", a>> \in passTrail

\* As long as no callback of the attempt has met another, its stage says how the row reads.
Told(c) ==
    LET a == callback[c].of IN
    a \notin crossed =>
      /\ callback[c].stage \in {"exchange", "verify", "userinfo", "succeed"} =>
           attempt[a].status = "initiated"
      /\ callback[c].stage = "audit" => attempt[a].status = "succeeded"
      /\ callback[c].stage \in {"audit", "fail"} => <<"succeeded", a>> \notin passTrail
      /\ callback[c].stage \in {"audit_failure"} \cup Rejection => attempt[a].status = "failed"

\* The row and the log of an attempt.
Recorded(a) ==
    /\ attempt[a].status = "succeeded" => Acceptable(attempt[a].type, attempt[a].level)
    /\ a \notin crossed /\ <<"succeeded", a>> \in passTrail => attempt[a].status = "succeeded"

Alone == \A c, o \in Callback :
    AtWork(c) /\ AtWork(o) /\ callback[c].of = callback[o].of /\ callback[c].of \notin crossed
      => c = o

OneToken == \A c, o \in Callback :
    callback[c].signed # NoKey /\ callback[o].signed # NoKey /\ callback[c].of = callback[o].of
      => c = o

OneKey == key = 0 =>
    /\ jwks \in {0, NoKey}
    /\ \A c \in Callback : /\ callback[c].signed \in {0, NoKey}
                           /\ callback[c].error = "id_token_signature_invalid" => c \in keyless

PassInv ==
    /\ PassTypeOK
    /\ \A a \in Attempt : Begun(a) /\ Recorded(a)
    /\ \A c \in Callback : Course(c) /\ Told(c)
    /\ Alone /\ OneToken /\ OneKey

LEMMA PassInvAssures == PassInv => IdentityAssured
<1>1. SUFFICES ASSUME PassInv PROVE IdentityAssured
  OBVIOUS
<1>2. LevelAsAsked
  BY <1>1 DEF PassInv, LevelAsAsked, Recorded, Course, PassTypeOK
<1>3. SignatureRefusalExplained
  BY <1>1 DEF PassInv, PassTypeOK, SignatureRefusalExplained, OneKey
<1>4. ASSUME NEW c \in Callback, callback[c].stage = "success"
      PROVE  /\ \A o \in Callback \ {c} : callback[o].of = callback[c].of =>
                                            callback[o].stage # "success"
             /\ callback[c].of \notin crossed =>
                  /\ attempt[callback[c].of].status = "succeeded"
                  /\ <<"succeeded", callback[c].of>> \in passTrail
  <2>1. \A o \in Callback : callback[o].stage = "success" => callback[o].signed # NoKey
    BY <1>1 DEF PassInv, Course, Bearing
  <2>2. \A o \in Callback \ {c} : callback[o].of = callback[c].of => callback[o].stage # "success"
    BY <1>1, <1>4, <2>1 DEF PassInv, OneToken
  <2>3. callback[c].of \in Attempt /\ <<"succeeded", callback[c].of>> \in passTrail
    BY <1>1, <1>4 DEF PassInv, PassTypeOK, Course
  <2>4. QED
    BY <1>1, <2>2, <2>3 DEF PassInv, Recorded
<1>5. ASSUME NEW c \in Callback, callback[c].stage \in Rejection, callback[c].of \notin crossed
      PROVE  /\ attempt[callback[c].of].status = "failed"
             /\ <<"succeeded", callback[c].of>> \notin passTrail
  BY <1>1, <1>5 DEF PassInv, Told, Recorded, PassTypeOK
<1>6. OutcomeKept
  BY <1>4, <1>5 DEF OutcomeKept
<1>7. QED
  BY <1>2, <1>3, <1>6 DEF IdentityAssured

LEMMA InitPass == PassInit => PassInv
<1>1. SUFFICES ASSUME PassInit PROVE PassInv
  OBVIOUS
<1>2. /\ \A a \in Attempt : attempt[a] = [stage |-> "none", status |-> "absent", level |-> "SOP3",
                                         code |-> "none", user |-> "SOP1", type |-> "none"]
      /\ \A c \in Callback : /\ callback[c].of \in Attempt /\ callback[c].error = "none"
                             /\ callback[c].signed = NoKey /\ callback[c].stage = "none"
  BY <1>1 DEF PassInit
<1>3. PassTypeOK
  <2>1. attempt \in [Attempt -> AttemptRow]
    BY <1>1 DEF PassInit, AttemptRow, UserType, Level, PassStatus
  <2>2. callback \in [Callback -> CallbackRow]
    BY <1>1 DEF PassInit, CallbackRow
  <2>3. policy \in [enabled : BOOLEAN, level : Level] /\ complete \in BOOLEAN
    BY <1>1 DEF PassInit
  <2>4. /\ key \in 0..MaxKeys /\ jwks \in (0..MaxKeys) \cup {NoKey}
        /\ passTrail \subseteq {"initiated", "succeeded", "failed"} \X Attempt
        /\ crossed \subseteq Attempt /\ keyless \subseteq Callback
    BY <1>1, UaePassAssumption DEF PassInit
  <2>5. QED
    BY <2>1, <2>2, <2>3, <2>4 DEF PassTypeOK
<1>4. \A a \in Attempt : Begun(a) /\ Recorded(a)
  BY <1>1, <1>2 DEF PassInit, Begun, Recorded
<1>5. \A c \in Callback : Course(c) /\ Told(c)
  BY <1>2 DEF Course, Told, Bearing, Rejection
<1>6. Alone /\ OneToken /\ OneKey
  BY <1>1, <1>2 DEF PassInit, Alone, OneToken, OneKey, AtWork
<1>7. QED
  BY <1>3, <1>4, <1>5, <1>6 DEF PassInv

\* The key, its cache, the policy and the session do not touch an attempt.
LEMMA AroundKeeps ==
    ASSUME PassInv, RotateKey \/ CacheExpires \/ ChangePolicy \/ SubmitSession
    PROVE  PassInv'
<1>1. UNCHANGED <<attempt, callback, passTrail, crossed, keyless>>
  BY DEF RotateKey, CacheExpires, ChangePolicy, SubmitSession
<1>2. /\ policy' \in [enabled : BOOLEAN, level : Level] /\ complete' \in BOOLEAN
      /\ key' \in 0..MaxKeys /\ jwks' \in (0..MaxKeys) \cup {NoKey}
  <2>1. CASE RotateKey
    BY <2>1, UaePassAssumption DEF PassInv, PassTypeOK, RotateKey
  <2>2. CASE CacheExpires \/ ChangePolicy \/ SubmitSession
    BY <2>2 DEF PassInv, PassTypeOK, CacheExpires, ChangePolicy, SubmitSession
  <2>3. QED
    BY <2>1, <2>2
<1>3. OneKey'
  BY UaePassAssumption DEF PassInv, PassTypeOK, OneKey, RotateKey, CacheExpires, ChangePolicy,
     SubmitSession
<1>4. QED
  BY <1>1, <1>2, <1>3 DEF PassInv, PassTypeOK, Begun, Recorded, Course, Told, Alone, AtWork,
     OneToken

\* What the steps of an authorize request and the sign-in do to the attempt.
LEMMA AuthorizeStep ==
    ASSUME PassInv, NEW a \in Attempt,
           \/ StartAuthorize(a) \/ InsertInitiated(a) \/ Discover(a) \/ OfferUrl(a)
           \/ AuthorizeFails(a) \/ SignInAtIdp(a)
    PROVE  /\ UNCHANGED <<policy, complete, key, jwks, callback, crossed, keyless>>
           /\ attempt[a].code = "none"
           /\ \E row \in AttemptRow : /\ attempt' = [attempt EXCEPT ![a] = row]
                                      /\ row.status # "succeeded"
                                      /\ row.stage # "offered" => row.code = "none"
           /\ passTrail' \in {passTrail, passTrail \cup {<<"initiated", a>>}}
<1>1. /\ UNCHANGED <<policy, complete, key, jwks, callback, crossed, keyless>>
      /\ passTrail' \in {passTrail, passTrail \cup {<<"initiated", a>>}}
  BY DEF StartAuthorize, InsertInitiated, Discover, OfferUrl, AuthorizeFails, SignInAtIdp,
     AuthorizeTo
<1>2. attempt[a] \in AttemptRow /\ policy.level \in Level
  BY DEF PassInv, PassTypeOK
<1>3. attempt[a].code = "none" /\ attempt[a].status # "succeeded"
  BY DEF PassInv, Begun, StartAuthorize, InsertInitiated, Discover, OfferUrl, AuthorizeFails,
     SignInAtIdp, AuthorizeTo
<1>4. CASE StartAuthorize(a)
  <2>1. PICK s \in {"insert", "refused"} :
          attempt' = [attempt EXCEPT ![a].stage = s, ![a].level = policy.level]
    BY <1>4 DEF StartAuthorize
  <2> DEFINE row == [attempt[a] EXCEPT !.stage = s, !.level = policy.level]
  <2>2. row \in AttemptRow /\ row.status # "succeeded" /\ row.code = "none"
    BY <1>2, <1>3 DEF AttemptRow
  <2>3. attempt' = [attempt EXCEPT ![a] = row]
    BY <2>1 DEF PassInv, PassTypeOK
  <2>4. QED
    BY <1>1, <1>3, <2>2, <2>3
<1>5. CASE InsertInitiated(a)
  <2> DEFINE row == [attempt[a] EXCEPT !.stage = "discover", !.status = "initiated"]
  <2>1. row \in AttemptRow /\ row.status # "succeeded" /\ row.code = "none"
    BY <1>2, <1>3 DEF AttemptRow, PassStatus
  <2>2. attempt' = [attempt EXCEPT ![a] = row]
    BY <1>5 DEF InsertInitiated, PassInv, PassTypeOK
  <2>3. QED
    BY <1>1, <1>3, <2>1, <2>2
<1>6. CASE Discover(a) \/ OfferUrl(a) \/ AuthorizeFails(a)
  <2>1. PICK s \in {"audit", "offered", "failed"} : attempt' = [attempt EXCEPT ![a].stage = s]
    BY <1>6 DEF Discover, OfferUrl, AuthorizeFails, AuthorizeTo
  <2> DEFINE row == [attempt[a] EXCEPT !.stage = s]
  <2>2. row \in AttemptRow /\ row.status # "succeeded" /\ row.code = "none"
    BY <1>2, <1>3 DEF AttemptRow
  <2>3. attempt' = [attempt EXCEPT ![a] = row]
    BY <2>1 DEF PassInv, PassTypeOK
  <2>4. QED
    BY <1>1, <1>3, <2>2, <2>3
<1>7. CASE SignInAtIdp(a)
  <2>1. PICK type \in UserType, code \in {"issued", "denied"} :
          attempt' = [attempt EXCEPT ![a].user = type, ![a].code = code]
    BY <1>7 DEF SignInAtIdp
  <2> DEFINE row == [attempt[a] EXCEPT !.user = type, !.code = code]
  <2>2. row \in AttemptRow /\ row.status # "succeeded" /\ row.stage = "offered"
    BY <1>2, <1>3, <1>7 DEF AttemptRow, SignInAtIdp
  <2>3. attempt' = [attempt EXCEPT ![a] = row]
    BY <2>1 DEF PassInv, PassTypeOK
  <2>4. QED
    BY <1>1, <1>3, <2>2, <2>3
<1>8. QED
  BY <1>4, <1>5, <1>6, <1>7

\* Until somebody has signed in no callback of the attempt has come, and nothing of it is
\* told.
LEMMA AuthorizeKeeps ==
    ASSUME PassInv, NEW a \in Attempt,
           \/ StartAuthorize(a) \/ InsertInitiated(a) \/ Discover(a) \/ OfferUrl(a)
           \/ AuthorizeFails(a) \/ SignInAtIdp(a)
    PROVE  PassInv'
<1>1. /\ UNCHANGED <<policy, complete, key, jwks, callback, crossed, keyless>>
      /\ attempt[a].code = "none"
      /\ passTrail' \in {passTrail, passTrail \cup {<<"initiated", a>>}}
  BY AuthorizeStep
<1>2. PICK row \in AttemptRow : /\ attempt' = [attempt EXCEPT ![a] = row]
                                /\ row.status # "succeeded"
                                /\ row.stage # "offered" => row.code = "none"
  BY AuthorizeStep
<1>3. PassTypeOK'
  BY <1>1, <1>2 DEF PassInv, PassTypeOK
<1>4. \A b \in Attempt : <<"succeeded", b>> \in passTrail' <=> <<"succeeded", b>> \in passTrail
  BY <1>1
<1>5. attempt'[a] = row /\ \A b \in Attempt \ {a} : attempt'[b] = attempt[b]
  BY <1>2 DEF PassInv, PassTypeOK
<1>6. \A b \in Attempt : Begun(b)' /\ Recorded(b)'
  BY <1>1, <1>2, <1>4, <1>5 DEF PassInv, Begun, Recorded
<1>7. \A c \in Callback : Course(c)' /\ Told(c)'
  <2>1. SUFFICES ASSUME NEW c \in Callback PROVE Course(c)' /\ Told(c)'
    OBVIOUS
  <2>2. callback[c].of \in Attempt /\ Course(c) /\ Told(c)
    BY DEF PassInv, PassTypeOK, CallbackRow
  <2>3. CASE callback[c].of = a
    <3>1. /\ callback[c].stage = "none" /\ callback[c].error = "none"
          /\ callback[c].signed = NoKey
      BY <1>1, <2>2, <2>3 DEF Course
    <3>2. QED
      BY <1>1, <3>1 DEF Course, Told, Bearing, Rejection
  <2>4. CASE callback[c].of # a
    BY <1>1, <1>4, <1>5, <2>2, <2>4 DEF Course, Told
  <2>5. QED
    BY <2>3, <2>4
<1>8. (Alone /\ OneToken /\ OneKey)'
  BY <1>1 DEF PassInv, Alone, AtWork, OneToken, OneKey
<1>9. QED
  BY <1>3, <1>6, <1>7, <1>8 DEF PassInv

\* A step of the callback c: it becomes n, and the row of its attempt becomes row.
Advance(c, n, row) ==
    LET a == callback[c].of IN
    /\ AtWork(c)
    /\ callback' = [callback EXCEPT ![c] = n] /\ n.of = a
    /\ attempt' = [attempt EXCEPT ![a] = row]
    /\ row.stage = attempt[a].stage /\ row.level = attempt[a].level /\ row.user = attempt[a].user
    /\ row.code = attempt[a].code \/ (attempt[a].code = "issued" /\ row.code = "used")
    /\ n.signed = callback[c].signed \/ attempt[a].code = "issued"
    /\ a \notin crossed => row.status = "failed" \/ row.status = attempt[a].status
                             \/ attempt[a].status = "initiated"
    /\ UNCHANGED <<policy, complete, key, crossed>>
    /\ passTrail' \in {passTrail, passTrail \cup {<<"succeeded", a>>},
                       passTrail \cup {<<"failed", a>>}}
    /\ jwks' \in (0..MaxKeys) \cup {NoKey} /\ keyless' \in {keyless, keyless \cup {c}}
    /\ key = 0 => /\ jwks' \in {0, NoKey} /\ n.signed \in {0, NoKey}
                  /\ n.error = "id_token_signature_invalid" => c \in keyless'

\* Such a step keeps what the others know: nobody else is at work for the attempt, unless it
\* is crossed, and the token of a code is one callback's.
LEMMA AdvanceKeeps ==
    ASSUME PassInv, NEW c \in Callback, NEW n \in CallbackRow, NEW row \in AttemptRow,
           Advance(c, n, row), Course(c)', Told(c)', Recorded(callback[c].of)'
    PROVE  PassInv'
<1> DEFINE a == callback[c].of
<1>1. a \in Attempt /\ callback[c] \in CallbackRow /\ attempt[a].code # "none"
  BY DEF PassInv, PassTypeOK, CallbackRow, Course, Advance, AtWork
<1>2. /\ attempt'[a] = row /\ \A b \in Attempt \ {a} : attempt'[b] = attempt[b]
      /\ callback'[c] = n /\ \A o \in Callback \ {c} : callback'[o] = callback[o]
      /\ n.of = a /\ crossed' = crossed /\ key' = key
  BY <1>1 DEF PassInv, PassTypeOK, Advance
<1>3. PassTypeOK'
  BY <1>1 DEF PassInv, PassTypeOK, Advance
<1>4. \A b \in Attempt : <<"succeeded", b>> \in passTrail => <<"succeeded", b>> \in passTrail'
  BY DEF Advance
<1>5. \A b \in Attempt \ {a} : <<"succeeded", b>> \in passTrail' => <<"succeeded", b>> \in passTrail
  BY DEF Advance
<1>6. \A b \in Attempt : Begun(b)' /\ Recorded(b)'
  <2>1. SUFFICES ASSUME NEW b \in Attempt PROVE Begun(b)' /\ Recorded(b)'
    OBVIOUS
  <2>2. CASE b = a
    BY <1>1, <1>2, <2>2 DEF PassInv, Begun, Advance
  <2>3. CASE b # a
    BY <1>2, <1>5, <2>3 DEF PassInv, Begun, Recorded
  <2>4. QED
    BY <2>2, <2>3
<1>7. ASSUME NEW o \in Callback, o # c PROVE Course(o)' /\ Told(o)'
  <2>1. callback'[o] = callback[o] /\ callback[o].of \in Attempt /\ Course(o) /\ Told(o)
    BY <1>2, <1>7 DEF PassInv, PassTypeOK, CallbackRow
  <2>2. CASE callback[o].of # a
    BY <1>2, <1>4, <1>5, <2>1, <2>2 DEF Course, Told
  <2>3. CASE callback[o].of = a
    <3>1. Course(o)'
      BY <1>1, <1>2, <1>4, <2>1, <2>3 DEF Course, Advance
    <3>2. a \notin crossed => callback[o].stage = "none" \/ callback[o].stage \in Answers
      BY <1>7, <2>3 DEF PassInv, Alone, Advance, AtWork
    <3>3. a \notin crossed /\ callback[o].stage \in Rejection => row.status = "failed"
      BY <2>1, <2>3 DEF Told, Advance
    <3>4. Told(o)'
      BY <1>2, <2>1, <2>3, <3>2, <3>3 DEF Told, Answers, Rejection
    <3>5. QED
      BY <3>1, <3>4
  <2>4. QED
    BY <2>2, <2>3
<1>8. Alone'
  BY <1>2 DEF PassInv, Alone, AtWork, Advance
<1>9. OneToken'
  <2>1. n.signed # callback[c].signed =>
          \A o \in Callback : callback[o].of = a => callback[o].signed = NoKey
    BY DEF PassInv, Course, Advance
  <2>2. QED
    BY <1>2, <2>1 DEF PassInv, OneToken
<1>10. OneKey'
  BY <1>2 DEF PassInv, OneKey, Advance
<1>11. QED
  BY <1>3, <1>6, <1>7, <1>8, <1>9, <1>10 DEF PassInv

Stages == {"none", "load", "exchange", "verify", "userinfo", "succeed", "audit", "fail",
           "audit_failure"} \cup Answers

\* A step that only moves the callback on: where it may lead, and with what error.
Turn(c, stage, error) ==
    LET a == callback[c].of IN
    /\ AtWork(c)
    /\ callback' = [callback EXCEPT ![c].stage = stage, ![c].error = error]
    /\ UNCHANGED <<policy, complete, attempt, key, passTrail, crossed>>
    /\ jwks' \in (0..MaxKeys) \cup {NoKey} /\ keyless' \in {keyless, keyless \cup {c}}
    /\ key = 0 => /\ jwks' \in {0, NoKey}
                  /\ error = "id_token_signature_invalid" => c \in keyless'
    /\ stage \in Bearing => callback[c].signed # NoKey
    /\ stage = "succeed" => Acceptable(attempt[a].user, attempt[a].level)
    /\ error = "assurance_level_too_low" => ~Acceptable(attempt[a].user, attempt[a].level)
    /\ stage \notin {"audit", "success", "audit_failure"} \cup Rejection
    /\ a \notin crossed =>
         /\ stage \in {"exchange", "verify", "userinfo", "succeed"} =>
              attempt[a].status = "initiated"
         /\ stage = "fail" => <<"succeeded", a>> \notin passTrail

LEMMA TurnKeeps ==
    ASSUME PassInv, NEW c \in Callback, NEW stage \in Stages, NEW error \in Rejection \cup {"none"},
           Turn(c, stage, error)
    PROVE  PassInv'
<1> DEFINE n == [callback[c] EXCEPT !.stage = stage, !.error = error]
<1>1. PICK a \in Attempt : a = callback[c].of
  BY DEF PassInv, PassTypeOK, CallbackRow
<1>2. /\ callback[c] \in CallbackRow /\ attempt[a] \in AttemptRow
      /\ Course(c) /\ Recorded(a)
  BY DEF PassInv, PassTypeOK
<1>3. n \in CallbackRow /\ n.of = a
  BY <1>1, <1>2 DEF CallbackRow, Stages
<1>4. callback' = [callback EXCEPT ![c] = n] /\ attempt' = [attempt EXCEPT ![a] = attempt[a]]
  BY DEF PassInv, PassTypeOK, Turn
<1>5. n.signed = callback[c].signed /\ n.error = error /\ n.stage = stage
  BY <1>2 DEF CallbackRow
<1>6. callback'[c].of = a /\ callback'[c].stage = stage /\ callback'[c].error = error
      /\ callback'[c].signed = callback[c].signed
  BY <1>3, <1>4, <1>5 DEF PassInv, PassTypeOK
<1>7. attempt' = attempt /\ passTrail' = passTrail /\ crossed' = crossed
  BY DEF Turn
<1>8. Advance(c, n, attempt[a])
  <2>1. key = 0 => n.signed \in {0, NoKey}
    BY <1>5 DEF PassInv, OneKey
  <2>2. QED
    BY <1>1, <1>3, <1>4, <1>5, <2>1 DEF Advance, Turn
<1>9. Course(c)'
  BY <1>1, <1>2, <1>6, <1>7 DEF Course, Turn, AtWork
<1>10. Told(c)'
  BY <1>1, <1>6, <1>7 DEF Told, Turn
<1>11. Recorded(callback[c].of)'
  BY <1>2, <1>6, <1>7 DEF Recorded
<1>12. QED
  BY <1>1, <1>2, <1>3, <1>8, <1>9, <1>10, <1>11, AdvanceKeeps

\* What a callback at work may rely on.
LEMMA Underway ==
    ASSUME PassInv, NEW c \in Callback
    PROVE  /\ callback[c].of \in Attempt /\ attempt[callback[c].of] \in AttemptRow
           /\ callback[c] \in CallbackRow /\ callback[c].error \in Rejection \cup {"none"}
           /\ Course(c) /\ Told(c) /\ Recorded(callback[c].of)
           /\ jwks \in (0..MaxKeys) \cup {NoKey} /\ key \in 0..MaxKeys
           /\ key = 0 => /\ jwks \in {0, NoKey} /\ callback[c].signed \in {0, NoKey}
                         /\ callback[c].error = "id_token_signature_invalid" =>
                              c \in keyless
  BY DEF PassInv, PassTypeOK, CallbackRow, OneKey

\* A move without an error keeps the one there is.
LEMMA MoveTurns ==
    ASSUME PassInv, NEW c \in Callback, NEW from, AtWork(c),
           NEW to \in {"exchange", "userinfo", "succeed", "state_already_completed"},
           CallbackTo(c, from, to),
           UNCHANGED <<policy, complete, attempt, key, passTrail, crossed, keyless>>,
           jwks' \in (0..MaxKeys) \cup {NoKey}, key = 0 => jwks' \in {0, NoKey},
           to \in Bearing => callback[c].signed # NoKey,
           to = "succeed" =>
             Acceptable(attempt[callback[c].of].user, attempt[callback[c].of].level),
           callback[c].of \notin crossed /\ to # "state_already_completed" =>
             attempt[callback[c].of].status = "initiated"
    PROVE  PassInv'
<1>1. callback' = [callback EXCEPT ![c].stage = to, ![c].error = callback[c].error]
  BY DEF PassInv, PassTypeOK, CallbackRow, CallbackTo
<1>2. callback[c].error = "assurance_level_too_low" =>
        ~Acceptable(attempt[callback[c].of].user, attempt[callback[c].of].level)
  BY Underway DEF Course
<1>3. key = 0 /\ callback[c].error = "id_token_signature_invalid" => c \in keyless
  BY Underway
<1>4. to \notin {"audit", "success", "audit_failure", "fail"} \cup Rejection
  BY DEF Rejection
<1>5. Turn(c, to, callback[c].error)
  BY <1>1, <1>2, <1>3, <1>4 DEF Turn
<1>6. QED
  BY <1>5, Underway, TurnKeeps DEF Stages, Answers

LEMMA LoadKeeps ==
    ASSUME PassInv, NEW c \in Callback, Load(c)
    PROVE  PassInv'
<1>1. PICK stage \in {"exchange", "state_already_completed"} :
        /\ CallbackTo(c, "load", stage)
        /\ stage = "exchange" => attempt[callback[c].of].status = "initiated"
  BY DEF Load
<1>2. AtWork(c) /\ stage \notin Bearing
  BY <1>1 DEF CallbackTo, AtWork, Answers, Rejection, Bearing
<1>3. QED
  BY <1>1, <1>2, Underway, MoveTurns DEF Load

LEMMA VerifyIdTokenKeeps ==
    ASSUME PassInv, NEW c \in Callback, VerifyIdToken(c)
    PROVE  PassInv'
<1>1. callback[c].stage = "verify" /\ AtWork(c) /\ callback[c].signed # NoKey
  BY Underway DEF VerifyIdToken, CallbackTo, Reject, AtWork, Answers, Rejection, Course, Bearing
<1>2. /\ UNCHANGED <<policy, complete, attempt, key, passTrail, crossed, keyless>>
      /\ jwks' = Jwks /\ Jwks \in 0..MaxKeys /\ (key = 0 => Jwks = 0)
  BY Underway DEF VerifyIdToken, Jwks
<1>3. CASE CallbackTo(c, "verify", "userinfo")
  <2>1. callback[c].of \notin crossed => attempt[callback[c].of].status = "initiated"
    BY <1>1, Underway DEF Told
  <2>2. QED
    BY <1>1, <1>2, <1>3, <2>1, MoveTurns
<1>4. CASE callback[c].signed # Jwks /\ Reject(c, "verify", "id_token_signature_invalid")
  <2>1. callback[c].of \notin crossed => <<"succeeded", callback[c].of>> \notin passTrail
    BY <1>1, Underway DEF Told, Recorded
  <2>2. key # 0
    BY <1>1, <1>2, <1>4, Underway
  <2>3. Turn(c, "fail", "id_token_signature_invalid")
    BY <1>1, <1>2, <1>4, <2>1, <2>2 DEF Turn, Bearing, Rejection, Reject
  <2>4. QED
    BY <2>3, TurnKeeps DEF Stages, Rejection
<1>5. QED
  BY <1>3, <1>4 DEF VerifyIdToken

LEMMA FetchUserInfoKeeps ==
    ASSUME PassInv, NEW c \in Callback, FetchUserInfo(c)
    PROVE  PassInv'
<1>1. callback[c].stage = "userinfo" /\ AtWork(c)
  BY DEF FetchUserInfo, CallbackTo, Reject, AtWork, Answers, Rejection
<1>2. UNCHANGED <<policy, complete, attempt, key, jwks, passTrail, crossed, keyless>>
  BY DEF FetchUserInfo
<1>3. CASE /\ CallbackTo(c, "userinfo", "succeed")
           /\ Acceptable(attempt[callback[c].of].user, attempt[callback[c].of].level)
  <2>1. callback[c].of \notin crossed => attempt[callback[c].of].status = "initiated"
    BY <1>1, Underway DEF Told
  <2>2. callback[c].signed # NoKey
    BY <1>1, Underway DEF Course, Bearing
  <2>3. QED
    BY <1>1, <1>2, <1>3, <2>1, <2>2, Underway, MoveTurns
<1>4. ASSUME NEW error \in {"userinfo_failed", "assurance_level_too_low"},
             Reject(c, "userinfo", error),
             error = "assurance_level_too_low" =>
               ~Acceptable(attempt[callback[c].of].user, attempt[callback[c].of].level)
      PROVE  PassInv'
  <2>1. callback[c].of \notin crossed => <<"succeeded", callback[c].of>> \notin passTrail
    BY <1>1, Underway DEF Told, Recorded
  <2>2. Turn(c, "fail", error)
    BY <1>1, <1>2, <1>4, <2>1, Underway DEF Turn, Bearing, Rejection, Reject
  <2>3. QED
    BY <2>2, TurnKeeps DEF Stages, Rejection
<1>5. QED
  BY <1>3, <1>4 DEF FetchUserInfo, Required

\* The keys could not be had.
LEMMA FetchKeysFailsKeeps ==
    ASSUME PassInv, NEW c \in Callback, FetchKeysFails(c)
    PROVE  PassInv'
<1>1. /\ callback[c].stage = "verify" /\ AtWork(c)
      /\ UNCHANGED <<policy, complete, attempt, key, jwks, passTrail, crossed>>
      /\ keyless' = keyless \cup {c}
  BY DEF FetchKeysFails, Reject, AtWork, Answers, Rejection
<1>2. callback[c].of \notin crossed => <<"succeeded", callback[c].of>> \notin passTrail
  BY <1>1, Underway DEF Told, Recorded
<1>3. Turn(c, "fail", "id_token_signature_invalid")
  BY <1>1, <1>2, Underway DEF Turn, Bearing, Rejection, FetchKeysFails, Reject
<1>4. QED
  BY <1>3, TurnKeeps DEF Stages, Rejection

LEMMA ThrowsKeeps ==
    ASSUME PassInv, NEW c \in Callback, Throws(c)
    PROVE  PassInv'
<1>1. PICK stage \in {"exchange", "verify", "userinfo", "succeed", "audit"} :
        Reject(c, stage, "unexpected_error")
  BY DEF Throws
<1>2. AtWork(c) /\ UNCHANGED <<policy, complete, attempt, key, jwks, passTrail, crossed, keyless>>
  BY <1>1 DEF Throws, Reject, AtWork, Answers, Rejection
<1>3. callback[c].of \notin crossed => <<"succeeded", callback[c].of>> \notin passTrail
  BY <1>1, Underway DEF Told, Recorded, Reject
<1>4. Turn(c, "fail", "unexpected_error")
  BY <1>1, <1>2, <1>3, Underway DEF Turn, Bearing, Rejection, Reject
<1>5. QED
  BY <1>4, TurnKeeps DEF Stages, Rejection

LEMMA CallbackDiesKeeps ==
    ASSUME PassInv, NEW c \in Callback, CallbackDies(c)
    PROVE  PassInv'
<1>1. callback' = [callback EXCEPT ![c].stage = "killed", ![c].error = callback[c].error]
  BY DEF PassInv, PassTypeOK, CallbackRow, CallbackDies
<1>2. Turn(c, "killed", callback[c].error)
  BY <1>1, Underway DEF Turn, Bearing, Rejection, Course, CallbackDies
<1>3. QED
  BY <1>2, Underway, TurnKeeps DEF Stages, Answers

\* The code is spent, whether or not the reply arrives.
LEMMA ExchangeKeeps ==
    ASSUME PassInv, NEW c \in Callback, Exchange(c)
    PROVE  PassInv'
<1>1. PICK a \in Attempt : a = callback[c].of
  BY Underway
<1>2. callback[c].stage = "exchange" /\ AtWork(c)
  BY DEF Exchange, AtWork, Answers, Rejection
<1>3. UNCHANGED <<policy, complete, key, jwks, passTrail, crossed, keyless>>
  BY DEF Exchange
<1>4. a \notin crossed => attempt[a].status = "initiated" /\ <<"succeeded", a>> \notin passTrail
  BY <1>1, <1>2, Underway DEF Told, Recorded
<1>5. ASSUME NEW error \in {"idp_returned_error", "token_exchange_failed"},
             Reject(c, "exchange", error), UNCHANGED attempt
      PROVE  PassInv'
  <2>1. Turn(c, "fail", error)
    BY <1>1, <1>2, <1>3, <1>4, <1>5, Underway DEF Turn, Bearing, Rejection, Reject
  <2>2. QED
    BY <2>1, TurnKeeps DEF Stages, Rejection
<1>6. ASSUME attempt[a].code = "issued", attempt' = [attempt EXCEPT ![a].code = "used"],
             \/ \E error \in {"token_exchange_failed", "unexpected_error"} : Reject(c, "exchange", error)
             \/ callback' = [callback EXCEPT ![c].stage = "verify", ![c].signed = key]
      PROVE  PassInv'
  <2> DEFINE row == [attempt[a] EXCEPT !.code = "used"]
  <2>1. /\ row \in AttemptRow /\ row.code = "used" /\ row.status = attempt[a].status
        /\ row.stage = attempt[a].stage /\ row.level = attempt[a].level
        /\ row.user = attempt[a].user /\ row.type = attempt[a].type
    BY <1>1, Underway DEF AttemptRow
  <2>2. attempt' = [attempt EXCEPT ![a] = row] /\ attempt'[a] = row
    BY <1>6 DEF PassInv, PassTypeOK
  <2>3. PICK n \in CallbackRow :
          /\ callback' = [callback EXCEPT ![c] = n] /\ n.of = a
          /\ \/ /\ n.stage = "fail" /\ n.error \in {"token_exchange_failed", "unexpected_error"}
                /\ n.signed = callback[c].signed
             \/ n.stage = "verify" /\ n.error = callback[c].error /\ n.signed = key
    <3>1. ASSUME NEW error \in {"token_exchange_failed", "unexpected_error"},
                 Reject(c, "exchange", error)
          PROVE  \E n \in CallbackRow :
                   /\ callback' = [callback EXCEPT ![c] = n] /\ n.of = a
                   /\ n.stage = "fail" /\ n.error = error /\ n.signed = callback[c].signed
      <4> DEFINE n == [callback[c] EXCEPT !.stage = "fail", !.error = error]
      <4>1. /\ n \in CallbackRow /\ n.of = a /\ n.stage = "fail"
            /\ n.error = error /\ n.signed = callback[c].signed
        BY <1>1, Underway DEF CallbackRow, Rejection
      <4>2. callback' = [callback EXCEPT ![c] = n]
        BY <3>1 DEF PassInv, PassTypeOK, Reject
      <4>3. QED
        BY <4>1, <4>2
    <3>2. CASE callback' = [callback EXCEPT ![c].stage = "verify", ![c].signed = key]
      <4> DEFINE n == [callback[c] EXCEPT !.stage = "verify", !.signed = key]
      <4>1. /\ n \in CallbackRow /\ n.of = a /\ n.stage = "verify"
            /\ n.error = callback[c].error /\ n.signed = key
        BY <1>1, Underway DEF CallbackRow
      <4>2. callback' = [callback EXCEPT ![c] = n]
        BY <3>2 DEF PassInv, PassTypeOK
      <4>3. QED
        BY <4>1, <4>2
    <3>3. QED
      BY <1>6, <3>1, <3>2
  <2>4. callback'[c] = n
    BY <2>3 DEF PassInv, PassTypeOK
  <2>5. key # NoKey
    BY Underway, UaePassAssumption
  <2>6. Advance(c, n, row)
    BY <1>1, <1>2, <1>3, <1>6, <2>1, <2>2, <2>3, Underway DEF Advance
  <2>7. Course(c)'
    <3>1. n.error = "assurance_level_too_low" => ~Acceptable(row.user, row.level)
      BY <1>1, <2>1, <2>3, Underway DEF Course
    <3>2. n.stage = "verify" => n.signed # NoKey
      BY <2>3, <2>5
    <3>3. callback'[c] = n /\ n.of = a /\ attempt'[a] = row /\ row.code = "used"
      BY <2>1, <2>2, <2>3, <2>4
    <3>4. n.stage \in {"verify", "fail"}
      BY <2>3
    <3>5. QED
      BY <3>1, <3>2, <3>3, <3>4 DEF Course, Bearing
  <2>8. Told(c)'
    BY <1>3, <1>4, <2>1, <2>2, <2>3, <2>4 DEF Told, Rejection
  <2>9. Recorded(callback[c].of)'
    BY <1>1, <1>3, <2>1, <2>2, <2>3, <2>4, Underway DEF Recorded
  <2>10. QED
    BY <2>1, <2>6, <2>7, <2>8, <2>9, AdvanceKeeps
<1>7. attempt[a].code \in {"issued", "used", "denied"}
  BY <1>1, <1>2, Underway DEF AttemptRow, Course
<1>8. CASE attempt[a].code = "denied"
  <2>1. Reject(c, "exchange", "idp_returned_error") /\ UNCHANGED attempt
    BY <1>1, <1>8 DEF Exchange
  <2>2. QED
    BY <1>5, <2>1
<1>9. CASE attempt[a].code = "used"
  <2>1. Reject(c, "exchange", "token_exchange_failed") /\ UNCHANGED attempt
    BY <1>1, <1>9 DEF Exchange
  <2>2. QED
    BY <1>5, <2>1
<1>10. CASE attempt[a].code = "issued"
  <2>1. /\ attempt' = [attempt EXCEPT ![a].code = "used"]
        /\ \/ \E error \in {"token_exchange_failed", "unexpected_error"} : Reject(c, "exchange", error)
           \/ callback' = [callback EXCEPT ![c].stage = "verify", ![c].signed = key]
    BY <1>1, <1>10 DEF Exchange
  <2>2. QED
    BY <1>6, <1>10, <2>1
<1>11. QED
  BY <1>7, <1>8, <1>9, <1>10

\* A step to the next stage with the same error, after which the row is row.
Written(c, to, row) ==
    LET a == callback[c].of IN
    /\ AtWork(c) /\ CallbackTo(c, callback[c].stage, to)
    /\ attempt' = [attempt EXCEPT ![a] = row]
    /\ row.stage = attempt[a].stage /\ row.level = attempt[a].level /\ row.user = attempt[a].user
    /\ row.code = attempt[a].code
    /\ a \notin crossed => row.status = "failed" \/ row.status = attempt[a].status
                             \/ attempt[a].status = "initiated"
    /\ UNCHANGED <<policy, complete, key, jwks, crossed, keyless>>
    /\ passTrail' \in {passTrail, passTrail \cup {<<"succeeded", a>>},
                       passTrail \cup {<<"failed", a>>}}

LEMMA WrittenAdvances ==
    ASSUME PassInv, NEW c \in Callback, NEW to \in Stages, NEW row \in AttemptRow,
           Written(c, to, row)
    PROVE  /\ callback'[c].of = callback[c].of /\ callback'[c].stage = to
           /\ callback'[c].signed = callback[c].signed /\ callback'[c].error = callback[c].error
           /\ attempt'[callback[c].of] = row /\ crossed' = crossed
           /\ Course(c)' /\ Told(c)' /\ Recorded(callback[c].of)' => PassInv'
<1> DEFINE n == [callback[c] EXCEPT !.stage = to]
<1>1. /\ n \in CallbackRow /\ n.of = callback[c].of /\ n.stage = to
      /\ n.signed = callback[c].signed /\ n.error = callback[c].error
  BY Underway DEF CallbackRow, Stages
<1>2. callback' = [callback EXCEPT ![c] = n]
  BY DEF PassInv, PassTypeOK, Written, CallbackTo
<1>3. callback'[c] = n /\ attempt'[callback[c].of] = row /\ crossed' = crossed
  BY <1>2, Underway DEF PassInv, PassTypeOK, Written
<1>4. Advance(c, n, row)
  BY <1>1, <1>2, Underway DEF Advance, Written
<1>5. QED
  BY <1>1, <1>3, <1>4, AdvanceKeeps

\* The identity is stored as the one that was checked.
LEMMA MarkSucceededKeeps ==
    ASSUME PassInv, NEW c \in Callback, MarkSucceeded(c)
    PROVE  PassInv'
<1>1. PICK a \in Attempt : a = callback[c].of
  BY Underway
<1> DEFINE row == [attempt[a] EXCEPT !.status = "succeeded", !.type = attempt[a].user]
<1>2. callback[c].stage = "succeed" /\ AtWork(c) /\ passTrail' = passTrail
  BY DEF MarkSucceeded, CallbackTo, AtWork, Answers, Rejection
<1>3. /\ row \in AttemptRow /\ row.status = "succeeded" /\ row.type = attempt[a].user
      /\ row.stage = attempt[a].stage /\ row.level = attempt[a].level
      /\ row.user = attempt[a].user /\ row.code = attempt[a].code
  BY <1>1, Underway DEF AttemptRow, PassStatus
<1>4. attempt' = [attempt EXCEPT ![a] = row]
  BY <1>1 DEF MarkSucceeded, PassInv, PassTypeOK
<1>5. a \notin crossed => attempt[a].status = "initiated" /\ <<"succeeded", a>> \notin passTrail
  BY <1>1, <1>2, Underway DEF Told, Recorded
<1>6. Written(c, "audit", row)
  BY <1>1, <1>2, <1>3, <1>4, <1>5 DEF Written, MarkSucceeded
<1>7. /\ callback'[c].of = a /\ callback'[c].stage = "audit"
      /\ callback'[c].signed = callback[c].signed /\ callback'[c].error = callback[c].error
      /\ attempt'[a] = row /\ crossed' = crossed
  BY <1>1, <1>3, <1>6, WrittenAdvances DEF Stages
<1>8. /\ Acceptable(attempt[a].user, attempt[a].level) /\ callback[c].signed # NoKey
      /\ attempt[a].code = "used"
      /\ callback[c].error # "assurance_level_too_low"
  BY <1>1, <1>2, Underway DEF Course, Bearing
<1>9. Course(c)'
  BY <1>3, <1>7, <1>8 DEF Course
<1>10. Told(c)'
  BY <1>2, <1>3, <1>5, <1>7 DEF Told, Rejection
<1>11. Recorded(callback[c].of)'
  BY <1>3, <1>7, <1>8 DEF Recorded
<1>12. QED
  BY <1>3, <1>6, <1>9, <1>10, <1>11, WrittenAdvances DEF Stages

\* The row was stored before the log tells of it.
LEMMA AuditSuccessKeeps ==
    ASSUME PassInv, NEW c \in Callback, AuditSuccess(c)
    PROVE  PassInv'
<1>1. PICK a \in Attempt : a = callback[c].of
  BY Underway
<1>2. callback[c].stage = "audit" /\ AtWork(c)
  BY DEF AuditSuccess, CallbackTo, AtWork, Answers, Rejection
<1>3. attempt[a] \in AttemptRow /\ attempt' = [attempt EXCEPT ![a] = attempt[a]]
  BY <1>1, Underway DEF AuditSuccess, PassInv, PassTypeOK
<1>4. /\ a \notin crossed => attempt[a].status = "succeeded"
      /\ passTrail' = passTrail \cup {<<"succeeded", a>>}
  BY <1>1, <1>2, Underway DEF Told, AuditSuccess
<1>5. Written(c, "success", attempt[a])
  BY <1>1, <1>2, <1>3, <1>4 DEF Written, AuditSuccess
<1>6. /\ callback'[c].of = a /\ callback'[c].stage = "success"
      /\ callback'[c].signed = callback[c].signed /\ callback'[c].error = callback[c].error
      /\ attempt'[a] = attempt[a] /\ crossed' = crossed
  BY <1>1, <1>3, <1>5, WrittenAdvances, ZenonT(60) DEF Stages, Answers
<1>7. /\ callback[c].signed # NoKey /\ attempt[a].code = "used"
      /\ callback[c].error # "assurance_level_too_low"
  BY <1>1, <1>2, Underway DEF Course, Bearing
<1>8. Course(c)'
  BY <1>4, <1>6, <1>7 DEF Course
<1>9. Told(c)'
  BY <1>6 DEF Told, Rejection
<1>10. Recorded(callback[c].of)'
  BY <1>1, <1>4, <1>6, Underway DEF Recorded
<1>11. QED
  BY <1>3, <1>5, <1>8, <1>9, <1>10, WrittenAdvances DEF Stages, Answers

LEMMA MarkFailedKeeps ==
    ASSUME PassInv, NEW c \in Callback, MarkFailed(c)
    PROVE  PassInv'
<1>1. PICK a \in Attempt : a = callback[c].of
  BY Underway
<1> DEFINE row == [attempt[a] EXCEPT !.status = "failed"]
<1>2. callback[c].stage = "fail" /\ AtWork(c) /\ passTrail' = passTrail
  BY DEF MarkFailed, CallbackTo, AtWork, Answers, Rejection
<1>3. /\ row \in AttemptRow /\ row.status = "failed" /\ row.type = attempt[a].type
      /\ row.stage = attempt[a].stage /\ row.level = attempt[a].level
      /\ row.user = attempt[a].user /\ row.code = attempt[a].code
  BY <1>1, Underway DEF AttemptRow, PassStatus
<1>4. attempt' = [attempt EXCEPT ![a] = row]
  BY <1>1 DEF MarkFailed, PassInv, PassTypeOK
<1>5. a \notin crossed => <<"succeeded", a>> \notin passTrail
  BY <1>1, <1>2, Underway DEF Told
<1>6. Written(c, "audit_failure", row)
  BY <1>1, <1>2, <1>3, <1>4 DEF Written, MarkFailed
<1>7. /\ callback'[c].of = a /\ callback'[c].stage = "audit_failure"
      /\ callback'[c].signed = callback[c].signed /\ callback'[c].error = callback[c].error
      /\ attempt'[a] = row /\ crossed' = crossed
  BY <1>1, <1>3, <1>6, WrittenAdvances DEF Stages
<1>8. /\ attempt[a].code # "none"
      /\ callback[c].signed # NoKey => attempt[a].code = "used"
      /\ callback[c].error = "assurance_level_too_low" =>
           ~Acceptable(attempt[a].user, attempt[a].level)
  BY <1>1, <1>2, Underway DEF Course
<1>9. Course(c)'
  BY <1>3, <1>7, <1>8 DEF Course, Bearing
<1>10. Told(c)'
  BY <1>3, <1>7 DEF Told, Rejection
<1>11. Recorded(callback[c].of)'
  BY <1>2, <1>3, <1>5, <1>7 DEF Recorded
<1>12. QED
  BY <1>3, <1>6, <1>9, <1>10, <1>11, WrittenAdvances DEF Stages

\* The answer carries the error that the row was marked failed with.
LEMMA AuditFailureKeeps ==
    ASSUME PassInv, NEW c \in Callback, AuditFailure(c)
    PROVE  PassInv'
<1>1. PICK a \in Attempt : a = callback[c].of
  BY Underway
<1>2. callback[c].stage = "audit_failure" /\ AtWork(c)
  BY DEF AuditFailure, CallbackTo, AtWork, Answers, Rejection
<1>3. PICK answer \in Rejection \cup {"none"} : answer = callback[c].error
  BY Underway
<1>4. answer \in Stages /\ answer \notin Bearing /\ answer \notin {"exchange", "fail"}
  BY <1>3 DEF Stages, Answers, Rejection, Bearing
<1>5. attempt[a] \in AttemptRow /\ attempt' = [attempt EXCEPT ![a] = attempt[a]]
  BY <1>1, Underway DEF AuditFailure, PassInv, PassTypeOK
<1>6. /\ a \notin crossed => attempt[a].status = "failed"
      /\ passTrail' = passTrail \cup {<<"failed", a>>}
  BY <1>1, <1>2, Underway DEF Told, AuditFailure
<1>7. Written(c, answer, attempt[a])
  BY <1>1, <1>2, <1>3, <1>5, <1>6 DEF Written, AuditFailure
<1>8. /\ callback'[c].of = a /\ callback'[c].stage = answer
      /\ callback'[c].signed = callback[c].signed /\ callback'[c].error = callback[c].error
      /\ attempt'[a] = attempt[a] /\ crossed' = crossed
  BY <1>1, <1>4, <1>5, <1>7, WrittenAdvances
<1>9. /\ attempt[a].code # "none"
      /\ callback[c].signed # NoKey => attempt[a].code = "used"
      /\ callback[c].error = "assurance_level_too_low" =>
           ~Acceptable(attempt[a].user, attempt[a].level)
  BY <1>1, <1>2, Underway DEF Course
<1>10. Course(c)'
  BY <1>4, <1>8, <1>9 DEF Course, Bearing
<1>11. Told(c)'
  BY <1>4, <1>6, <1>8 DEF Told, Bearing
<1>12. Recorded(callback[c].of)'
  BY <1>1, <1>6, <1>8, Underway DEF Recorded
<1>13. QED
  BY <1>4, <1>5, <1>7, <1>10, <1>11, <1>12, WrittenAdvances

\* A second callback while one is at work marks the attempt as crossed.
LEMMA ReturnFromIdpKeeps ==
    ASSUME PassInv, NEW c \in Callback, ReturnFromIdp(c)
    PROVE  PassInv'
<1>1. PICK a \in Attempt : a = callback[c].of
  BY Underway
<1> DEFINE n == [callback[c] EXCEPT !.stage = "load"]
<1>2. /\ callback[c].stage = "none" /\ attempt[a].code # "none"
      /\ callback' = [callback EXCEPT ![c].stage = "load"]
      /\ UNCHANGED <<policy, complete, attempt, key, jwks, passTrail, keyless>>
      /\ crossed' = IF \E o \in Callback : AtWork(o) /\ callback[o].of = a
                    THEN crossed \cup {a} ELSE crossed
  BY <1>1 DEF ReturnFromIdp
<1>3. /\ n \in CallbackRow /\ n.of = a /\ n.stage = "load" /\ n.error = callback[c].error
      /\ n.signed = callback[c].signed
  BY <1>1, Underway DEF CallbackRow
<1>4. /\ callback' = [callback EXCEPT ![c] = n] /\ callback'[c] = n
      /\ \A o \in Callback \ {c} : callback'[o] = callback[o]
  BY <1>2 DEF PassInv, PassTypeOK
<1>5. crossed \subseteq crossed' /\ crossed' \subseteq Attempt
  BY <1>1, <1>2 DEF PassInv, PassTypeOK
<1>6. /\ attempt' = attempt /\ passTrail' = passTrail /\ key' = key /\ jwks' = jwks
      /\ policy' = policy /\ complete' = complete /\ keyless' = keyless
  BY <1>2
<1>7. PassTypeOK'
  BY <1>3, <1>4, <1>5, <1>6 DEF PassInv, PassTypeOK
<1>8. \A b \in Attempt : Begun(b)' /\ Recorded(b)'
  BY <1>5, <1>6 DEF PassInv, Begun, Recorded
<1>9. Course(c)' /\ Told(c)'
  <2>1. callback'[c] = n /\ n.stage \notin Bearing
    BY <1>3, <1>4 DEF Bearing
  <2>2. Course(c)'
    <3>1. /\ callback[c].signed # NoKey => attempt[a].code = "used"
          /\ callback[c].error = "assurance_level_too_low" =>
               ~Acceptable(attempt[a].user, attempt[a].level)
      BY <1>1, Underway DEF Course
    <3>2. attempt[a].code # "none"
      BY <1>2
    <3>3. QED
      BY <1>3, <1>6, <2>1, <3>1, <3>2 DEF Course
  <2>3. Told(c)'
    BY <1>3, <2>1 DEF Told, Rejection
  <2>4. QED
    BY <2>2, <2>3
<1>10. ASSUME NEW o \in Callback, o # c PROVE Course(o)' /\ Told(o)'
  <2>1. callback'[o] = callback[o] /\ Course(o) /\ Told(o)
    BY <1>4, <1>10, Underway
  <2>2. Course(o)'
    BY <1>6, <2>1 DEF Course
  <2>3. Told(o)'
    BY <1>5, <1>6, <2>1 DEF Told
  <2>4. QED
    BY <2>2, <2>3
<1>11. Alone'
  <2>1. SUFFICES ASSUME NEW d \in Callback, NEW o \in Callback, AtWork(d)', AtWork(o)',
                        callback'[d].of = callback'[o].of, callback'[d].of \notin crossed', d # o
                 PROVE  FALSE
    BY DEF Alone
  <2>2. CASE d # c /\ o # c
    BY <1>4, <1>5, <2>1, <2>2 DEF PassInv, Alone, AtWork
  <2>3. ASSUME NEW e \in Callback, e # c, AtWork(e)', callback'[e].of = a
        PROVE  a \in crossed'
    <3>1. AtWork(e) /\ callback[e].of = a
      BY <1>4, <2>3 DEF AtWork
    <3>2. QED
      BY <1>2, <3>1
  <2>4. QED
    BY <1>3, <1>4, <2>1, <2>2, <2>3
<1>12. OneToken' /\ OneKey'
  BY <1>3, <1>4, <1>6 DEF PassInv, OneToken, OneKey
<1>13. QED
  BY <1>7, <1>8, <1>9, <1>10, <1>11, <1>12 DEF PassInv

LEMMA PassStepKeeps == PassInv /\ [PassNext]_passRows => PassInv'
<1>1. SUFFICES ASSUME PassInv, [PassNext]_passRows PROVE PassInv'
  OBVIOUS
<1>2. CASE \E a \in Attempt : \/ StartAuthorize(a) \/ InsertInitiated(a) \/ Discover(a)
                              \/ OfferUrl(a) \/ AuthorizeFails(a) \/ SignInAtIdp(a)
  BY <1>1, <1>2, AuthorizeKeeps
<1>3. CASE RotateKey \/ CacheExpires \/ ChangePolicy \/ SubmitSession
  BY <1>1, <1>3, AroundKeeps
<1>4. ASSUME NEW c \in Callback,
             \/ ReturnFromIdp(c) \/ Load(c) \/ Exchange(c) \/ VerifyIdToken(c)
             \/ FetchKeysFails(c) \/ FetchUserInfo(c) \/ MarkSucceeded(c) \/ AuditSuccess(c)
             \/ Throws(c) \/ MarkFailed(c) \/ AuditFailure(c) \/ CallbackDies(c)
      PROVE  PassInv'
  BY <1>1, <1>4, ReturnFromIdpKeeps, LoadKeeps, ExchangeKeeps, VerifyIdTokenKeeps,
     FetchKeysFailsKeeps, FetchUserInfoKeeps, MarkSucceededKeeps, AuditSuccessKeeps, ThrowsKeeps,
     MarkFailedKeeps, AuditFailureKeeps, CallbackDiesKeeps
<1>5. CASE UNCHANGED passRows
  BY <1>1, <1>5 DEF passRows, PassInv, PassTypeOK, Begun, Recorded, Course, Told, Alone, AtWork,
     OneToken, OneKey
<1>6. QED
  BY <1>1, <1>2, <1>3, <1>4, <1>5 DEF PassNext

-----------------------------------------------------------------------------
(* Nomod                                                                   *)

LinkStatus == {"none", "made", "created", "paid", "failed"}
Delivered == [e : Event, stage : {"sent", "activate", "audit"}]

BillingShape ==
    /\ signUp \in [SignUp -> SignUpStage] /\ link \in [SignUp -> LinkStatus]
    /\ billing \in {"none", "trialing", "active"}
    /\ writable \in {{}, {"tenants", "tenant_billing", "tenant_billing_links"}}
    /\ tenant \in SUBSET SignUp /\ happened \in SUBSET Event /\ early \in SUBSET Event
    /\ event \in SUBSET Delivered

\* slug is unique: one sign-up at most goes past the insert of the tenant.
OneTenant ==
    /\ \A c, o \in tenant : c = o
    /\ billing # "none" => tenant # {}

\* How far the sign-up came: no link before the billing row, no row before the tenant.
SignedUp(c) ==
    /\ signUp[c] \in {"billing", "create_link", "store_link", "audit", "offered"} => c \in tenant
    /\ signUp[c] \in {"none", "tenant", "conflict"} => c \notin tenant
    /\ signUp[c] = "conflict" => tenant # {}
    /\ signUp[c] = "billing" => billing = "none"
    /\ signUp[c] \in {"create_link", "store_link"} => billing # "none"
    /\ link[c] # "none" => c \in tenant /\ billing # "none"
    /\ signUp[c] \in {"none", "tenant", "conflict", "billing", "create_link"} => link[c] = "none"
    /\ signUp[c] = "store_link" => link[c] = "made"

\* A link or a tenant of this company in an event is one there is, and Nomod reports on its
\* own links and returns their tenant or none.
RealEvent(e) ==
    /\ e.link \in SignUp => link[e.link] # "none"
    /\ e.tenant \in SignUp => e.tenant \in tenant
    /\ e.genuine => e.link \in SignUp /\ e.tenant \in {e.link, Missing}

\* A payment that must count, and the link of one that says so, or why it does not.
Paying(e) == e.type = "payment.completed" /\ e.genuine /\ writable # {}

Noted(e) == link[e.link] = "paid" \/ e \in early \/ Failed(e.link)

\* How far the webhook came with an event.
OnItsWay(d) ==
    /\ d.e \in happened
    /\ d.stage = "activate" => Pays(d)
    /\ d.stage # "sent" => d.e.tenant # Missing
    /\ d.stage # "sent" /\ Paying(d.e) => Noted(d.e)
    /\ d.stage = "audit" /\ Paying(d.e) => billing = "active"

\* The rows follow what the events said.
Followed ==
    /\ \A e \in happened : RealEvent(e)
    /\ \A d \in event : OnItsWay(d)
    /\ \A e \in answered \ dropped :
         e \in happened /\ (Paying(e) => billing = "active" /\ Noted(e))
    /\ \A c \in SignUp : link[c] = "paid" => Completed(c) \/ Claimed(c)

BillingInv ==
    /\ BillingShape /\ OneTenant
    /\ \A c \in SignUp : SignedUp(c)
    /\ Followed
    /\ billing = "active" => \E c \in tenant : Completed(c) \/ Claimed(c)

LEMMA BillingInvCounts == BillingInv => PaymentsCount
<1>1. SUFFICES ASSUME BillingInv PROVE PaymentsCount
  OBVIOUS
<1>2. PaymentActivates
  BY <1>1 DEF BillingInv, Followed, Paying, Noted, PaymentActivates
<1>3. NoFreeSubscription
  BY <1>1 DEF BillingInv, Followed, NoFreeSubscription
<1>4. ConflictExplained
  BY <1>1 DEF BillingInv, BillingShape, SignedUp, ConflictExplained
<1>5. QED
  BY <1>2, <1>3, <1>4 DEF PaymentsCount

LEMMA InitBilling == BillingInit => BillingInv
<1>1. SUFFICES ASSUME BillingInit PROVE BillingInv
  OBVIOUS
<1>2. BillingShape
  BY <1>1 DEF BillingInit, BillingShape, SignUpStage, LinkStatus
<1>3. QED
  BY <1>1, <1>2 DEF BillingInit, BillingInv, OneTenant, SignedUp, Followed

\* A step of the sign-up tells Nomod's side nothing but that a link was made.
LEMMA SignUpKeeps ==
    ASSUME BillingInv, NEW c \in SignUp,
           \/ StartSignUp(c) \/ InsertTenant(c) \/ InsertBilling(c) \/ CreatePaymentLink(c)
           \/ StoreLink(c) \/ OfferLink(c) \/ SignUpFails(c)
    PROVE  BillingInv'
<1>1. UNCHANGED <<writable, event, happened, answered, dropped, early>>
  BY DEF StartSignUp, InsertTenant, InsertBilling, CreatePaymentLink, StoreLink, OfferLink,
     SignUpFails, nomodRows
<1>2. PICK to \in SignUpStage : signUp' = [signUp EXCEPT ![c] = to]
  BY DEF StartSignUp, InsertTenant, InsertBilling, CreatePaymentLink, StoreLink, OfferLink,
     SignUpFails, SignUpTo, SignUpStage
<1>3. SignedUp(c) /\ BillingShape /\ OneTenant
  BY DEF BillingInv
<1>4. BillingShape'
  BY <1>1, <1>2, <1>3 DEF BillingShape, StartSignUp, InsertTenant, InsertBilling,
     CreatePaymentLink, StoreLink, OfferLink, SignUpFails, LinkStatus
<1>5. OneTenant'
  <2>1. CASE InsertTenant(c)
    BY <1>3, <2>1 DEF OneTenant, InsertTenant
  <2>2. CASE InsertBilling(c)
    BY <1>3, <2>2 DEF OneTenant, InsertBilling, SignUpTo, SignedUp
  <2>3. CASE \/ StartSignUp(c) \/ CreatePaymentLink(c) \/ StoreLink(c) \/ OfferLink(c)
             \/ SignUpFails(c)
    BY <1>3, <2>3 DEF OneTenant, StartSignUp, CreatePaymentLink, StoreLink, OfferLink, SignUpFails
  <2>4. QED
    BY <2>1, <2>2, <2>3
<1>6. signUp'[c] = to /\ \A o \in SignUp \ {c} : signUp'[o] = signUp[o]
  BY <1>2, <1>3 DEF BillingShape
<1>7. \A o \in SignUp : SignedUp(o)'
  <2>1. CASE StartSignUp(c) \/ OfferLink(c) \/ SignUpFails(c)
    <3>1. UNCHANGED <<tenant, billing, link>>
      BY <2>1 DEF StartSignUp, OfferLink, SignUpFails
    <3>2. to \notin {"billing", "create_link", "conflict", "none"}
          /\ (to = "tenant" => signUp[c] = "none") /\ (to = "offered" => signUp[c] = "audit")
          /\ to \notin {"store_link", "audit"}
      BY <1>6, <2>1, <1>3 DEF StartSignUp, OfferLink, SignUpFails, SignUpTo, BillingShape
    <3>3. QED
      BY <1>3, <1>6, <3>1, <3>2 DEF BillingInv, SignedUp
  <2>2. CASE InsertTenant(c)
    <3>1. UNCHANGED <<billing, link>> /\ signUp[c] = "tenant"
      BY <2>2 DEF InsertTenant, SignUpTo
    <3>2. \/ to = "failed" /\ tenant' = tenant
          \/ to = "conflict" /\ tenant' = tenant /\ tenant # {}
          \/ to = "billing" /\ tenant' = {c} /\ tenant = {}
      BY <1>3, <1>6, <2>2 DEF InsertTenant, SignUpTo, BillingShape
    <3>3. tenant = {} => \A o \in SignUp : link[o] = "none"
      BY DEF BillingInv, SignedUp
    <3>4. tenant = {} => billing = "none"
      BY DEF BillingInv, OneTenant
    <3>5. QED
      BY <1>3, <1>6, <3>1, <3>2, <3>3, <3>4 DEF BillingInv, SignedUp
  <2>3. CASE InsertBilling(c)
    <3>1. /\ UNCHANGED <<tenant, link>> /\ billing' = "trialing" /\ signUp[c] = "billing"
          /\ to = "create_link"
      BY <1>3, <1>6, <2>3 DEF InsertBilling, SignUpTo, BillingShape
    <3>2. \A o \in SignUp : signUp[o] = "billing" => o = c
      BY <1>3, <3>1 DEF BillingInv, SignedUp, OneTenant
    <3>3. QED
      BY <1>3, <1>6, <3>1, <3>2 DEF BillingInv, SignedUp
  <2>4. CASE CreatePaymentLink(c) \/ StoreLink(c)
    <3>1. /\ UNCHANGED <<tenant, billing>> /\ \A o \in SignUp \ {c} : link'[o] = link[o]
          /\ \/ signUp[c] = "create_link" /\ to = "store_link" /\ link'[c] = "made"
             \/ signUp[c] = "store_link" /\ to = "audit"
      BY <1>3, <1>6, <2>4 DEF CreatePaymentLink, StoreLink, SignUpTo, BillingShape
    <3>2. QED
      BY <1>3, <1>6, <3>1 DEF BillingInv, SignedUp
  <2>5. QED
    BY <2>1, <2>2, <2>3, <2>4
<1>8. billing' = "active" => \E o \in tenant' : (Completed(o) \/ Claimed(o))'
  BY <1>1, <1>3 DEF BillingInv, StartSignUp, InsertTenant, Completed, Claimed,
     InsertBilling, CreatePaymentLink, StoreLink, OfferLink, SignUpFails
<1>9. Followed'
  <2>1. CASE CreatePaymentLink(c) \/ StoreLink(c)
    <3>1. /\ UNCHANGED <<billing, tenant>>
          /\ \/ link[c] = "none" /\ link' = [link EXCEPT ![c] = "made"]
             \/ link[c] = "made" /\ link' = [link EXCEPT ![c] = "created"]
      BY <1>3, <2>1 DEF CreatePaymentLink, StoreLink, SignUpTo, SignedUp
    <3>2. /\ link[c] \in {"none", "made"} /\ link'[c] \in {"made", "created"}
          /\ \A o \in SignUp \ {c} : link'[o] = link[o]
          /\ link[c] = "none" => \A e \in happened : e.genuine => e.link # c
      BY <1>3, <3>1 DEF BillingInv, BillingShape, Followed, RealEvent
    <3>3. \A e \in happened : RealEvent(e)'
      BY <1>1, <3>1, <3>2 DEF BillingInv, Followed, RealEvent
    <3>4. ASSUME NEW e \in happened, Paying(e), Noted(e)
          PROVE  Noted(e)'
      <4>1. e.link \in SignUp /\ link[e.link] # "none"
        BY <3>4 DEF BillingInv, Followed, RealEvent, Paying
      <4>2. QED
        BY <1>1, <3>2, <3>4, <4>1 DEF Noted, Failed
    <3>5. \A e \in Event : Paying(e)' = Paying(e)
      BY <1>1 DEF Paying
    <3>6. \A d \in event : OnItsWay(d)'
      BY <1>1, <1>3, <3>1, <3>4, <3>5 DEF BillingInv, BillingShape, Followed, OnItsWay, Pays
    <3>7. \A e \in answered \ dropped :
            e \in happened /\ (Paying(e)' => billing' = "active" /\ Noted(e)')
      BY <1>1, <1>3, <3>1, <3>4, <3>5 DEF BillingInv, BillingShape, Followed
    <3>8. \A o \in SignUp : link'[o] = "paid" => (Completed(o) \/ Claimed(o))'
      BY <1>1, <3>2 DEF BillingInv, Followed, Completed, Claimed
    <3>9. QED
      BY <1>1, <3>3, <3>6, <3>7, <3>8 DEF Followed
  <2>2. CASE InsertBilling(c)
    <3>1. signUp[c] = "billing" /\ link' = link /\ tenant' = tenant
      BY <2>2 DEF InsertBilling, SignUpTo
    <3>2. \A o \in SignUp : link[o] = "none"
      BY <1>3, <3>1 DEF BillingInv, SignedUp
    <3>3. \A e \in happened : ~Paying(e)
      BY <3>2 DEF BillingInv, Followed, RealEvent, Paying
    <3>4. \A e \in Event : Paying(e)' = Paying(e) /\ (RealEvent(e)' <=> RealEvent(e))
      BY <1>1, <3>1 DEF Paying, RealEvent
    <3>5. \A d \in event : OnItsWay(d)'
      BY <1>1, <1>3, <3>3, <3>4 DEF BillingInv, BillingShape, Followed, OnItsWay, Pays
    <3>6. QED
      BY <1>1, <1>3, <3>1, <3>3, <3>4, <3>5 DEF BillingInv, BillingShape, Followed,
         Completed, Claimed
  <2>3. CASE StartSignUp(c) \/ InsertTenant(c) \/ OfferLink(c) \/ SignUpFails(c)
    <3>1. UNCHANGED <<billing, link>> /\ (tenant' = tenant \/ tenant = {})
      BY <2>3 DEF StartSignUp, InsertTenant, OfferLink, SignUpFails
    <3>2. \A e \in happened : RealEvent(e)'
      BY <1>1, <3>1 DEF BillingInv, Followed, RealEvent
    <3>3. QED
      BY <1>1, <3>1, <3>2 DEF BillingInv, Followed, OnItsWay, Pays, Paying, Noted, Failed,
         Completed, Claimed
  <2>4. QED
    BY <2>1, <2>2, <2>3
<1>10. QED
  BY <1>4, <1>5, <1>7, <1>8, <1>9 DEF BillingInv

\* An event is about what there is; the answer to it may get lost.
LEMMA NomodKeeps ==
    ASSUME BillingInv, (\E c \in SignUp : Pay(c)) \/ PostUnsigned \/ SendAgain
    PROVE  BillingInv'
<1>1. UNCHANGED <<writable, signUp, tenant, billing, link, answered, dropped, early>>
  BY DEF Pay, PostUnsigned, Arrives, SendAgain
<1>2. PICK e \in Event : /\ happened' = happened \cup {e} /\ RealEvent(e)
                        /\ event' = event \cup {[e |-> e, stage |-> "sent"]}
  <2>1. CASE SendAgain
    <3>1. PICK e \in happened : event' = event \cup {[e |-> e, stage |-> "sent"]}
      BY <2>1 DEF SendAgain
    <3>2. e \in Event /\ RealEvent(e) /\ happened' = happened /\ happened \cup {e} = happened
      BY <2>1, <3>1 DEF SendAgain, BillingInv, BillingShape, Followed
    <3>3. QED
      BY <3>1, <3>2
  <2>2. ASSUME NEW c \in SignUp, Pay(c)
        PROVE  \E e \in Event : /\ happened' = happened \cup {e} /\ RealEvent(e)
                                /\ event' = event \cup {[e |-> e, stage |-> "sent"]}
    <3>1. PICK type \in EventType, of \in {c, Missing} :
            Arrives([type |-> type, link |-> c, tenant |-> of, genuine |-> TRUE])
      BY <2>2 DEF Pay
    <3>2. PICK e : e = [type |-> type, link |-> c, tenant |-> of, genuine |-> TRUE]
      OBVIOUS
    <3>3. e \in Event /\ e.link = c /\ e.tenant = of /\ e.genuine
      BY <3>1, <3>2 DEF Event
    <3>4. link[c] # "none" /\ c \in tenant
      BY <2>2 DEF Pay, BillingInv, SignedUp
    <3>5. RealEvent(e)
      BY <3>1, <3>3, <3>4, BillingAssumption DEF RealEvent
    <3>6. QED
      BY <3>1, <3>2, <3>3, <3>5 DEF Arrives
  <2>3. CASE PostUnsigned
    <3>1. PICK type \in EventType, l \in {Foreign} \cup {c \in SignUp : link[c] # "none"},
               t \in {Foreign, Missing} \cup tenant :
            Arrives([type |-> type, link |-> l, tenant |-> t, genuine |-> FALSE])
      BY <2>3 DEF PostUnsigned
    <3>2. PICK e : e = [type |-> type, link |-> l, tenant |-> t, genuine |-> FALSE]
      OBVIOUS
    <3>3. e \in Event /\ e.link = l /\ e.tenant = t /\ ~e.genuine
      BY <3>1, <3>2 DEF Event, BillingInv, BillingShape
    <3>4. RealEvent(e)
      BY <3>1, <3>3, BillingAssumption DEF RealEvent
    <3>5. QED
      BY <3>1, <3>2, <3>3, <3>4 DEF Arrives
  <2>4. QED
    BY <2>1, <2>2, <2>3
<1>3. PICK n \in Delivered : n = [e |-> e, stage |-> "sent"]
  BY <1>2 DEF Delivered
<1>4. n.e = e /\ n.stage = "sent" /\ event' = event \cup {n}
  BY <1>2, <1>3
<1>5. BillingShape'
  BY <1>1, <1>2, <1>4 DEF BillingInv, BillingShape
<1>6. \A c \in SignUp \cup {Foreign} :
        /\ Completed(c) => Completed(c)'
        /\ Claimed(c) => Claimed(c)'
        /\ Failed(c) => Failed(c)'
  BY <1>2 DEF Completed, Claimed, Failed
<1>7. \A o \in Event : /\ Paying(o)' = Paying(o) /\ (RealEvent(o) => RealEvent(o)')
                       /\ (Noted(o) => Noted(o)')
  BY <1>1, <1>6 DEF Paying, RealEvent, Noted, Event
<1>8. OnItsWay(n)'
  BY <1>2, <1>4 DEF OnItsWay
<1>9. ASSUME NEW d \in event PROVE OnItsWay(d)'
  BY <1>1, <1>2, <1>7 DEF BillingInv, BillingShape, Delivered, Followed, OnItsWay, Pays
<1>10. Followed'
  <2>1. \A o \in happened' : RealEvent(o)'
    BY <1>2, <1>7 DEF BillingInv, BillingShape, Followed
  <2>2. \A d \in event' : OnItsWay(d)'
    BY <1>4, <1>8, <1>9
  <2>3. \A o \in answered' \ dropped' :
          o \in happened' /\ (Paying(o)' => billing' = "active" /\ Noted(o)')
    BY <1>1, <1>2, <1>7 DEF BillingInv, BillingShape, Followed
  <2>4. \A c \in SignUp : link'[c] = "paid" => (Completed(c) \/ Claimed(c))'
    BY <1>1, <1>6 DEF BillingInv, Followed
  <2>5. QED
    BY <2>1, <2>2, <2>3, <2>4 DEF Followed
<1>11. billing' = "active" => \E c \in tenant' : (Completed(c) \/ Claimed(c))'
  BY <1>1, <1>6 DEF BillingInv, BillingShape
<1>12. QED
  BY <1>1, <1>5, <1>10, <1>11 DEF BillingInv, OneTenant, SignedUp

\* What a delivery may rely on: what it says happened, and a payment that it may count is
\* one of this company.
LEMMA EventIsReal ==
    ASSUME BillingInv, NEW d \in event
    PROVE  /\ d \in Delivered /\ d.e \in Event /\ d.e.link \in SignUp \cup {Foreign}
           /\ d.e.type \in EventType /\ d.e.tenant \in SignUp \cup {Foreign, Missing}
           /\ d.e \in happened /\ RealEvent(d.e) /\ OnItsWay(d)
           /\ Paying(d.e) => d.e.link \in tenant /\ billing # "none"
           /\ Pays(d) /\ d.e.tenant # Missing /\ d.e.link \in SignUp =>
                Completed(d.e.link) \/ Claimed(d.e.link)
           /\ Pays(d) /\ d.e.tenant \in SignUp => Completed(d.e.tenant) \/ Claimed(d.e.tenant)
           /\ d.e.type = "payment.failed" => Failed(d.e.link)
<1>1. d \in Delivered /\ d.e \in Event /\ d.e.link \in SignUp \cup {Foreign}
      /\ d.e.type \in EventType /\ d.e.tenant \in SignUp \cup {Foreign, Missing}
      /\ d.e.genuine \in BOOLEAN
  BY DEF BillingInv, BillingShape, Delivered, Event
<1>2. d.e \in happened /\ RealEvent(d.e) /\ OnItsWay(d)
  BY DEF BillingInv, Followed, OnItsWay
<1>3. Paying(d.e) => d.e.link \in tenant /\ billing # "none"
  BY <1>2 DEF RealEvent, Paying, BillingInv, SignedUp
<1>4. d.e = [type |-> d.e.type, link |-> d.e.link, tenant |-> d.e.tenant,
             genuine |-> d.e.genuine]
  BY <1>1 DEF Event
<1>5. CASE d.e.genuine
  <2>1. d.e.link \in SignUp /\ d.e.tenant \in {d.e.link, Missing}
    BY <1>2, <1>5 DEF RealEvent
  <2>2. Pays(d) /\ d.e.tenant # Missing => Completed(d.e.link)
    <3>1. SUFFICES ASSUME Pays(d), d.e.tenant # Missing PROVE Completed(d.e.link)
      OBVIOUS
    <3>2. d.e.type = "payment.completed" /\ d.e.tenant = d.e.link /\ d.e.genuine = TRUE
      BY <1>1, <1>5, <2>1, <3>1 DEF Pays
    <3>3. d.e = [type |-> "payment.completed", link |-> d.e.link, tenant |-> d.e.link,
                 genuine |-> TRUE]
      BY <1>4, <3>2
    <3>4. QED
      BY <1>2, <3>3 DEF Completed
  <2>3. QED
    BY <1>1, <1>2, <1>3, <2>1, <2>2, BillingAssumption DEF Failed
<1>6. CASE ~d.e.genuine
  BY <1>1, <1>2, <1>3, <1>6 DEF Claimed, Failed, Pays
<1>7. QED
  BY <1>5, <1>6

\* The update of the link: the status of a link that was stored follows the event.
LEMMA UpdateLinkKeeps ==
    ASSUME BillingInv, NEW d \in event, UpdateLink(d)
    PROVE  BillingInv'
<1>1. /\ UNCHANGED <<writable, signUp, tenant, billing, happened, answered, dropped>>
      /\ d.stage = "sent" /\ d.e.type # "link.expired" /\ d.e.tenant # Missing
      /\ early' \in {early, early \cup {d.e}}
  BY DEF UpdateLink
<1>2. link' = link \/ (d.e.link \in SignUp /\ link[d.e.link] # "made"
                        /\ link' = [link EXCEPT ![d.e.link] = PaymentStatus(d.e.type)])
  BY EventIsReal DEF UpdateLink
<1>3. /\ PaymentStatus(d.e.type) \in {"paid", "failed"}
      /\ PaymentStatus(d.e.type) = "paid" => Pays(d)
      /\ Pays(d) => PaymentStatus(d.e.type) = "paid"
      /\ PaymentStatus(d.e.type) = "failed" => Failed(d.e.link)
  BY <1>1, EventIsReal DEF PaymentStatus, Pays, EventType
<1>4. PICK n \in Delivered :
        /\ event' = (event \ {d}) \cup {n} /\ n.e = d.e
        /\ n.stage = IF Pays(d) THEN "activate" ELSE "audit"
  <2> DEFINE n == [d EXCEPT !.stage = IF Pays(d) THEN "activate" ELSE "audit"]
  <2>1. n \in Delivered /\ n.e = d.e /\ n.stage = IF Pays(d) THEN "activate" ELSE "audit"
    BY EventIsReal DEF Delivered
  <2>2. event' = (event \ {d}) \cup {n}
    BY DEF UpdateLink, Reached
  <2> HIDE DEF n
  <2>3. QED
    BY <2>1, <2>2
<1>5. link' \in [SignUp -> LinkStatus]
  BY <1>2, <1>3 DEF BillingInv, BillingShape, LinkStatus
<1>6. BillingShape'
  BY <1>1, <1>4, <1>5, EventIsReal DEF BillingInv, BillingShape
<1>7. \A c \in SignUp : \/ link'[c] = link[c]
                        \/ /\ c = d.e.link /\ link[c] # "made"
                           /\ link'[c] = PaymentStatus(d.e.type)
  BY <1>2 DEF BillingInv, BillingShape
<1>8. \A c \in SignUp : link[c] # "none" <=> link'[c] # "none"
  BY <1>3, <1>7, EventIsReal DEF RealEvent
<1>9. \A c \in SignUp : SignedUp(c)'
  <2>1. SUFFICES ASSUME NEW c \in SignUp PROVE SignedUp(c)'
    OBVIOUS
  <2>2. SignedUp(c) /\ (link[c] = "made" => link'[c] = "made")
    BY <1>7 DEF BillingInv
  <2>3. QED
    BY <1>1, <1>8, <2>2 DEF SignedUp
<1>10. \A o \in Event : Paying(o)' = Paying(o)
  BY <1>1 DEF Paying
<1>11. ASSUME NEW o \in happened, Paying(o), Noted(o)
       PROVE  Noted(o)'
  <2>1. o.link \in SignUp
    BY <1>11 DEF BillingInv, Followed, RealEvent, Paying
  <2>2. Failed(o.link) => Failed(o.link)'
    BY <1>1 DEF Failed
  <2>3. QED
    BY <1>1, <1>3, <1>7, <1>11, <2>1, <2>2 DEF Noted
<1>12. Paying(d.e) => Noted(d.e)'
  <2>1. SUFFICES ASSUME Paying(d.e) PROVE Noted(d.e)'
    OBVIOUS
  <2>2. d.e.link \in SignUp /\ Pays(d) /\ writable # {}
    BY <2>1, EventIsReal DEF RealEvent, Paying, Pays
  <2>3. "tenant_billing_links" \in writable /\ d.e.link # Foreign
    BY <2>2, BillingAssumption DEF BillingInv, BillingShape
  <2>4. CASE link[d.e.link] = "made"
    BY <2>3, <2>4 DEF UpdateLink, Noted
  <2>5. CASE link[d.e.link] # "made"
    <3>1. link' = [link EXCEPT ![d.e.link] = PaymentStatus(d.e.type)]
      BY <2>3, <2>5 DEF UpdateLink
    <3>2. link'[d.e.link] = "paid"
      BY <1>3, <2>2, <3>1 DEF BillingInv, BillingShape
    <3>3. QED
      BY <3>2 DEF Noted
  <2>6. QED
    BY <2>4, <2>5
<1>13. Followed'
  <2>1. \A o \in happened' : RealEvent(o)'
    BY <1>1, <1>8 DEF BillingInv, Followed, RealEvent
  <2>2. OnItsWay(n)'
    <3>1. /\ d.e \in happened' /\ d.e.tenant # Missing
          /\ Paying(d.e)' => Paying(d.e) /\ Noted(d.e)' /\ Pays(d)
      BY <1>1, <1>10, <1>12, EventIsReal DEF Paying, Pays
    <3>2. n.e = d.e /\ (Pays(n) <=> Pays(d)) /\ (n.stage = "activate" => Pays(d))
          /\ (n.stage = "audit" => ~Pays(d))
      BY <1>4 DEF Pays
    <3>3. QED
      BY <3>1, <3>2 DEF OnItsWay, Pays
  <2>3. \A o \in event : OnItsWay(o)'
    BY <1>1, <1>10, <1>11 DEF BillingInv, BillingShape, Delivered, Followed, OnItsWay, Pays
  <2>4. \A o \in event' : OnItsWay(o)'
    BY <1>4, <2>2, <2>3
  <2>5. \A o \in answered' \ dropped' :
          o \in happened' /\ (Paying(o)' => billing' = "active" /\ Noted(o)')
    BY <1>1, <1>10, <1>11 DEF BillingInv, BillingShape, Followed
  <2>6. \A c \in SignUp : link'[c] = "paid" => (Completed(c) \/ Claimed(c))'
    <3>1. SUFFICES ASSUME NEW c \in SignUp, link'[c] = "paid" PROVE Completed(c) \/ Claimed(c)
      BY <1>1 DEF Completed, Claimed
    <3>2. CASE link'[c] = link[c]
      BY <3>1, <3>2 DEF BillingInv, Followed
    <3>3. CASE c = d.e.link /\ link'[c] = PaymentStatus(d.e.type)
      BY <1>1, <1>3, <3>1, <3>3, EventIsReal
    <3>4. QED
      BY <1>7, <3>2, <3>3
  <2>7. QED
    BY <2>1, <2>4, <2>5, <2>6 DEF Followed
<1>14. billing' = "active" => \E c \in tenant' : (Completed(c) \/ Claimed(c))'
  BY <1>1 DEF BillingInv, Completed, Claimed
<1>15. QED
  BY <1>1, <1>6, <1>9, <1>13, <1>14 DEF BillingInv, OneTenant

\* The other steps of the webhook leave the links alone.
LEMMA WebhookKeeps ==
    ASSUME BillingInv, NEW d \in event,
           Activate(d) \/ Acknowledge(d) \/ AcknowledgeFailure(d) \/ WebhookDies(d)
    PROVE  BillingInv'
<1>1. UNCHANGED <<writable, signUp, tenant, link, happened, early>>
  BY DEF Activate, Acknowledge, AcknowledgeFailure, WebhookDies
<1>2. /\ billing' \in {billing, "active"} /\ (billing' = "none" <=> billing = "none")
      /\ billing' # billing => Activate(d) /\ billing # "none" /\ d.e.tenant \in tenant
      /\ billing = "active" => billing' = "active"
  BY DEF Activate, Acknowledge, AcknowledgeFailure, WebhookDies
<1>3. Activate(d) /\ Paying(d.e) => billing' = "active"
  <2>1. SUFFICES ASSUME Activate(d), Paying(d.e) PROVE billing' = "active"
    OBVIOUS
  <2>2. d.e.link \in tenant /\ billing # "none" /\ d.e.tenant = d.e.link
    BY <2>1, EventIsReal DEF OnItsWay, Activate, RealEvent, Paying
  <2>3. "tenant_billing" \in writable
    BY <2>1 DEF BillingInv, BillingShape, Paying
  <2>4. QED
    BY <2>1, <2>2, <2>3 DEF Activate
<1>4. PICK n \in Delivered :
        /\ event' \in {event \ {d}, (event \ {d}) \cup {n}} /\ n.e = d.e
        /\ \/ n.stage = "sent"
           \/ n.stage = "audit" /\ d.stage = "activate" /\ Activate(d)
  <2>1. CASE Activate(d)
    <3> DEFINE n == [d EXCEPT !.stage = "audit"]
    <3>1. n \in Delivered /\ n.e = d.e /\ n.stage = "audit"
      BY EventIsReal DEF Delivered
    <3>2. event' = (event \ {d}) \cup {n} /\ d.stage = "activate"
      BY <2>1 DEF Activate, Reached
    <3>3. QED
      BY <2>1, <3>1, <3>2
  <2>2. CASE Acknowledge(d) \/ AcknowledgeFailure(d) \/ WebhookDies(d)
    <3> DEFINE n == [d EXCEPT !.stage = "sent"]
    <3>1. n \in Delivered /\ n.e = d.e /\ n.stage = "sent"
      BY EventIsReal DEF Delivered
    <3>2. event' \in {event \ {d}, (event \ {d}) \cup {n}}
      BY <2>2 DEF Acknowledge, AcknowledgeFailure, WebhookDies, Reached, Settled
    <3>3. QED
      BY <3>1, <3>2
  <2>3. QED
    BY <2>1, <2>2
<1>5. \A e \in answered' \ dropped' :
        e \in answered \ dropped \/ (e = d.e /\ d.stage = "audit")
  BY DEF Activate, Acknowledge, AcknowledgeFailure, WebhookDies, Settled
<1>6. BillingShape'
  BY <1>1, <1>2, <1>4 DEF BillingInv, BillingShape
<1>7. \A e \in Event : (Paying(e)' <=> Paying(e)) /\ (Noted(e)' <=> Noted(e))
                       /\ (RealEvent(e)' <=> RealEvent(e))
  BY <1>1 DEF Paying, Noted, RealEvent, Failed
<1>8. Followed'
  <2>1. \A o \in happened' : RealEvent(o)'
    BY <1>1, <1>7 DEF BillingInv, BillingShape, Followed
  <2>2. OnItsWay(n)'
    BY <1>1, <1>3, <1>4, <1>7, EventIsReal DEF OnItsWay, Pays
  <2>3. \A o \in event : OnItsWay(o)'
    BY <1>1, <1>2, <1>7, EventIsReal DEF OnItsWay, Pays
  <2>4. \A o \in event' : OnItsWay(o)'
    BY <1>4, <2>2, <2>3
  <2>5. \A e \in answered' \ dropped' :
          e \in happened' /\ (Paying(e)' => billing' = "active" /\ Noted(e)')
    <3>1. SUFFICES ASSUME NEW e \in answered' \ dropped'
                   PROVE  e \in happened' /\ (Paying(e)' => billing' = "active" /\ Noted(e)')
      OBVIOUS
    <3>2. CASE e \in answered \ dropped
      BY <1>1, <1>2, <1>7, <3>2 DEF BillingInv, BillingShape, Followed
    <3>3. CASE e = d.e /\ d.stage = "audit"
      BY <1>1, <1>2, <1>7, <3>3, EventIsReal DEF OnItsWay
    <3>4. QED
      BY <1>5, <3>1, <3>2, <3>3
  <2>6. \A c \in SignUp : link'[c] = "paid" => (Completed(c) \/ Claimed(c))'
    BY <1>1 DEF BillingInv, Followed, Completed, Claimed
  <2>7. QED
    BY <2>1, <2>4, <2>5, <2>6 DEF Followed
<1>9. billing' = "active" => \E c \in tenant' : (Completed(c) \/ Claimed(c))'
  <2>1. SUFFICES ASSUME billing' = "active" PROVE \E c \in tenant : Completed(c) \/ Claimed(c)
    BY <1>1 DEF Completed, Claimed
  <2>2. CASE billing' = billing
    BY <2>1, <2>2 DEF BillingInv
  <2>3. CASE billing' # billing
    <3>1. d.e.tenant \in tenant /\ d.e.tenant \in SignUp /\ Pays(d)
      BY <1>2, <2>3, EventIsReal DEF OnItsWay, Activate, BillingInv, BillingShape
    <3>2. QED
      BY <3>1, EventIsReal
  <2>4. QED
    BY <2>2, <2>3
<1>10. \A c \in SignUp : SignedUp(c)'
  <2>1. billing = "none" <=> billing' = "none"
    BY <1>2
  <2>2. \A c \in SignUp : signUp[c] = "billing" => billing' = "none"
    BY <2>1 DEF BillingInv, SignedUp
  <2>3. QED
    BY <1>1, <2>1, <2>2 DEF BillingInv, SignedUp
<1>11. QED
  BY <1>1, <1>2, <1>6, <1>8, <1>9, <1>10 DEF BillingInv, OneTenant

LEMMA BillingStepKeeps == BillingInv /\ [BillingNext]_billingRows => BillingInv'
<1>1. BillingInv /\ BillingNext => BillingInv'
  BY SignUpKeeps, NomodKeeps, UpdateLinkKeeps, WebhookKeeps DEF BillingNext
<1>2. BillingInv /\ UNCHANGED billingRows => BillingInv'
  BY DEF billingRows, BillingInv, BillingShape, OneTenant, SignedUp, Followed, RealEvent,
     OnItsWay, Pays, Paying, Noted, Failed, Completed, Claimed
<1>3. QED
  BY <1>1, <1>2

-----------------------------------------------------------------------------
(* Sumsub                                                                  *)

ApplicantRow == [stage : {"none", "create", "token", "insert", "audit", "started", "refused",
                          "failed"},
                 stored : StoredStatus \cup {"absent"}]
Dispatch == [to : Applicant, n : Nat, stage : {"sent", "session", "audit"}]

IdvShape ==
    /\ applicant \in [Applicant -> ApplicantRow]
    /\ review \in [Applicant -> Seq(Verdict)]
    /\ delivery \in SUBSET Dispatch

\* Sumsub gave this verdict of the applicant at some time.
Given(a, verdict) == \E i \in 1..Len(review[a]) : review[a][i] = verdict

\* A delivery carries a verdict that was given, and goes on to the session if it is GREEN.
Genuine(d) ==
    /\ d.n \in 1..Len(review[d.to])
    /\ d.stage = "session" => review[d.to][d.n] = "approved"

\* The row is empty until it is inserted, and shows a verdict that was given: the last,
\* unless that is still to be delivered.
Mirrored(a) ==
    /\ applicant[a].stage = "insert" => applicant[a].stored = "absent"
    /\ applicant[a].stage \in {"none", "create", "token"} => applicant[a].stored = "absent"
    /\ applicant[a].stored \in Verdict => Given(a, applicant[a].stored)
    /\ a \notin unread /\ review[a] # <<>> =>
         \/ applicant[a].stored = review[a][Len(review[a])]
         \/ \E d \in delivery : d.to = a /\ d.n = Len(review[a]) /\ d.stage = "sent"

IdvInv ==
    /\ IdvShape
    /\ \A d \in delivery : Genuine(d)
    /\ \A a \in Applicant : Mirrored(a)
    /\ idvDone => \E a \in Applicant : Given(a, "approved")
    /\ told \in Verdict => \E a \in Applicant : Given(a, told)

LEMMA IdvInvReaches == IdvInv => VerdictsReachTheSession
<1>1. SUFFICES ASSUME IdvInv PROVE VerdictsReachTheSession
  OBVIOUS
<1>2. \A a \in Applicant : review[a] \in Seq(Verdict)
  BY <1>1 DEF IdvInv, IdvShape
<1>3. ASSUME NEW verdict, \E a \in Applicant : Given(a, verdict)
      PROVE  Ever(verdict)
  BY <1>2, <1>3 DEF Given, Ever, Range
<1>4. AnswersExplained
  BY <1>1, <1>3 DEF IdvInv, AnswersExplained
<1>5. VerdictKept
  <2>1. SUFFICES ASSUME NEW a \in Applicant, applicant[a].stored # "absent", delivery = {},
                        a \notin unread
                 PROVE  applicant[a].stored = LastVerdict(a)
    BY DEF VerdictKept, Rows
  <2>2. applicant[a].stored \in StoredStatus /\ Mirrored(a)
    BY <1>1, <2>1 DEF IdvInv, IdvShape, ApplicantRow
  <2>3. CASE review[a] = <<>>
    <3>1. applicant[a].stored \notin Verdict
      BY <2>2, <2>3 DEF Mirrored, Given
    <3>2. QED
      BY <2>2, <2>3, <3>1 DEF LastVerdict, StoredStatus
  <2>4. CASE review[a] # <<>>
    BY <2>1, <2>2, <2>4 DEF Mirrored, LastVerdict
  <2>5. QED
    BY <2>3, <2>4
<1>6. QED
  BY <1>4, <1>5 DEF VerdictsReachTheSession

LEMMA InitIdv == IdvInit => IdvInv
<1>1. SUFFICES ASSUME IdvInit PROVE IdvInv
  OBVIOUS
<1>2. IdvShape
  BY <1>1 DEF IdvInit, IdvShape, ApplicantRow
<1>3. QED
  BY <1>1, <1>2 DEF IdvInit, IdvInv, Mirrored, Verdict

\* The calls of the start route: the row appears while every verdict of the applicant is
\* still underway, or was lost.
LEMMA StartKeeps ==
    ASSUME IdvInv, NEW a \in Applicant,
           \/ StartIDV(a) \/ CreateApplicant(a) \/ CreateAccessToken(a) \/ InsertApplicant(a)
           \/ AuditApplicant(a) \/ StartFails(a)
    PROVE  IdvInv'
<1>1. UNCHANGED <<review, delivery, idvDone, told, unread>>
  BY DEF StartIDV, CreateApplicant, CreateAccessToken, InsertApplicant, AuditApplicant,
     StartFails, StartStep
<1>2. applicant[a] \in ApplicantRow /\ Mirrored(a)
  BY DEF IdvInv, IdvShape
<1>3. PICK row \in ApplicantRow :
        /\ applicant' = [applicant EXCEPT ![a] = row]
        /\ \/ row.stored = applicant[a].stored
              /\ (row.stage \in {"create", "token", "insert"} => applicant[a].stored = "absent")
           \/ applicant[a].stored = "absent" /\ row.stored = "pending" /\ row.stage = "audit"
        /\ row.stage # "none"
  <2>1. CASE InsertApplicant(a)
    <3> DEFINE row == [stage |-> "audit", stored |-> "pending"]
    <3>1. row \in ApplicantRow /\ applicant' = [applicant EXCEPT ![a] = row]
          /\ applicant[a].stored = "absent"
      BY <1>2, <2>1 DEF InsertApplicant, ApplicantRow, StoredStatus, Mirrored
    <3>2. QED
      BY <3>1
  <2>2. ASSUME NEW from, NEW to, StartStep(a, from, to),
               to \in {"create", "refused", "token", "insert", "started", "failed"},
               to \in {"create", "token", "insert"} => applicant[a].stored = "absent"
        PROVE  \E row \in ApplicantRow :
                 /\ applicant' = [applicant EXCEPT ![a] = row]
                 /\ row.stored = applicant[a].stored
                 /\ row.stage \in {"create", "token", "insert"} => applicant[a].stored = "absent"
                 /\ row.stage # "none"
    <3> DEFINE row == [applicant[a] EXCEPT !.stage = to]
    <3>1. row \in ApplicantRow /\ row.stored = applicant[a].stored /\ row.stage = to
      BY <1>2, <2>2 DEF ApplicantRow
    <3>2. applicant' = [applicant EXCEPT ![a] = row]
      BY <2>2 DEF StartStep, IdvInv, IdvShape
    <3>3. QED
      BY <2>2, <3>1, <3>2
  <2>3. CASE StartIDV(a) \/ CreateApplicant(a) \/ CreateAccessToken(a)
    BY <1>2, <2>2, <2>3, ZenonT(60) DEF StartIDV, CreateApplicant, CreateAccessToken, StartStep, Mirrored
  <2>4. CASE AuditApplicant(a) \/ StartFails(a)
    BY <2>2, <2>4 DEF AuditApplicant, StartFails
  <2>5. QED
    BY <2>1, <2>3, <2>4
<1>4. IdvShape'
  BY <1>1, <1>3 DEF IdvInv, IdvShape
<1>5. applicant'[a] = row /\ \A b \in Applicant \ {a} : applicant'[b] = applicant[b]
  BY <1>3 DEF IdvInv, IdvShape
<1>6. \A b \in Applicant : Mirrored(b)'
  <2>1. ASSUME NEW b \in Applicant, b # a PROVE Mirrored(b)'
    BY <1>1, <1>5, <2>1 DEF IdvInv, Mirrored, Given
  <2>2. Mirrored(a)'
    <3>1. review[a] # <<>> => review[a][Len(review[a])] # "absent"
      BY DEF IdvInv, IdvShape, Verdict
    <3>2. QED
      BY <1>1, <1>2, <1>3, <1>5, <3>1 DEF Mirrored, Given, Verdict
  <2>3. QED
    BY <2>1, <2>2
<1>7. QED
  BY <1>1, <1>4, <1>6 DEF IdvInv, Genuine, Given

\* A new verdict is underway, and no verdict is taken back.
LEMMA ReviewKeeps ==
    ASSUME IdvInv, NEW a \in Applicant, Review(a)
    PROVE  IdvInv'
<1>1. UNCHANGED <<applicant, idvDone, told, unread>>
  BY DEF Review
<1>2. PICK v \in Verdict : review' = [review EXCEPT ![a] = Append(@, v)]
  BY DEF Review
<1>3. /\ review[a] \in Seq(Verdict) /\ Len(review[a]) \in Nat
      /\ Len(Append(review[a], v)) = Len(review[a]) + 1
      /\ \A i \in 1..Len(review[a]) : Append(review[a], v)[i] = review[a][i]
  BY DEF IdvInv, IdvShape
<1>4. /\ review'[a] = Append(review[a], v) /\ \A b \in Applicant \ {a} : review'[b] = review[b]
  BY <1>2 DEF IdvInv, IdvShape
<1>5. \A b \in Applicant : Len(review[b]) \in Nat
  BY DEF IdvInv, IdvShape
<1>6. \A b \in Applicant, i \in Nat :
        i \in 1..Len(review[b]) => i \in 1..Len(review'[b]) /\ review'[b][i] = review[b][i]
  BY <1>3, <1>4
<1>7. ASSUME NEW b \in Applicant, NEW w, Given(b, w) PROVE Given(b, w)'
  BY <1>6, <1>7 DEF Given
<1>8. PICK n \in Dispatch : /\ n = [to |-> a, n |-> Len(review[a]) + 1, stage |-> "sent"]
                            /\ delivery' = delivery \cup {n}
  <2>1. [to |-> a, n |-> Len(review[a]) + 1, stage |-> "sent"] \in Dispatch
    BY <1>3 DEF Dispatch
  <2>2. QED
    BY <2>1 DEF Review
<1>9. IdvShape'
  <2>1. Append(review[a], v) \in Seq(Verdict)
    BY <1>3
  <2>2. QED
    BY <1>1, <1>2, <1>8, <2>1 DEF IdvInv, IdvShape
<1>10. \A d \in delivery' : Genuine(d)'
  <2>1. Genuine(n)'
    BY <1>3, <1>4, <1>8 DEF Genuine
  <2>2. \A d \in delivery : d.to \in Applicant /\ d.n \in Nat
    BY DEF IdvInv, IdvShape, Dispatch
  <2>3. \A d \in delivery : Genuine(d)'
    BY <1>6, <2>2 DEF IdvInv, Genuine
  <2>4. QED
    BY <1>8, <2>1, <2>3
<1>11. \A b \in Applicant : Mirrored(b)'
  <2>1. ASSUME NEW b \in Applicant
        PROVE  applicant'[b].stored \in Verdict => Given(b, applicant[b].stored)'
    <3>1. PICK w : w = applicant[b].stored
      OBVIOUS
    <3>2. w \in Verdict => Given(b, w)'
      BY <1>7, <3>1 DEF IdvInv, Mirrored
    <3>3. QED
      BY <1>1, <3>1, <3>2
  <2>2. ASSUME NEW b \in Applicant, b # a PROVE Mirrored(b)'
    BY <1>1, <1>4, <1>8, <2>1, <2>2 DEF IdvInv, Mirrored
  <2>3. \E d \in delivery' : d.to = a /\ d.n = Len(review'[a]) /\ d.stage = "sent"
    BY <1>3, <1>4, <1>8
  <2>4. Mirrored(a)'
    BY <1>1, <2>1, <2>3 DEF IdvInv, Mirrored
  <2>5. QED
    BY <2>2, <2>4
<1>12. /\ idvDone' => \E b \in Applicant : Given(b, "approved")'
       /\ told' \in Verdict => \E b \in Applicant : Given(b, told)'
  BY <1>1, <1>7 DEF IdvInv
<1>13. QED
  BY <1>1, <1>9, <1>10, <1>11, <1>12 DEF IdvInv, Given

\* What a delivery of the webhook may rely on.
LEMMA DeliveryIsReal ==
    ASSUME IdvInv, NEW d \in delivery
    PROVE  /\ d \in Dispatch /\ d.to \in Applicant /\ d.n \in 1..Len(review[d.to])
           /\ review[d.to] \in Seq(Verdict) /\ review[d.to][d.n] \in Verdict
           /\ review[d.to] # <<>> /\ applicant[d.to] \in ApplicantRow
           /\ d.stage = "session" => Given(d.to, "approved")
<1>1. d \in Dispatch /\ d.to \in Applicant /\ d.n \in 1..Len(review[d.to])
  BY DEF IdvInv, IdvShape, Dispatch, Genuine
<1>2. review[d.to] \in Seq(Verdict) /\ applicant[d.to] \in ApplicantRow
  BY <1>1 DEF IdvInv, IdvShape
<1>3. review[d.to][d.n] \in Verdict /\ review[d.to] # <<>>
  BY <1>1, <1>2
<1>4. d.stage = "session" => Given(d.to, "approved")
  BY <1>1 DEF IdvInv, Genuine, Given
<1>5. QED
  BY <1>1, <1>2, <1>3, <1>4

\* A delivery that goes on, or comes again, is of the same verdict.
LEMMA MovedGenuine ==
    ASSUME IdvInv, NEW d \in delivery, NEW stage \in {"sent", "session", "audit"},
           stage = "session" => review[d.to][d.n] = "approved",
           UNCHANGED review, delivery' = Moved(d, stage)
    PROVE  /\ delivery' \in SUBSET Dispatch
           /\ \A o \in delivery' : Genuine(o)'
           /\ \A o \in delivery : o.stage = "sent" /\ o # d => o \in delivery'
           /\ stage = "sent" => [d EXCEPT !.stage = "sent"] \in delivery'
<1>1. PICK n \in Dispatch : /\ n = [d EXCEPT !.stage = stage] /\ n.to = d.to /\ n.n = d.n
                            /\ n.stage = stage
  <2> DEFINE n == [d EXCEPT !.stage = stage]
  <2>1. n \in Dispatch /\ n.to = d.to /\ n.n = d.n /\ n.stage = stage
    BY DeliveryIsReal DEF Dispatch
  <2>2. QED
    BY <2>1
<1>2. delivery' = (delivery \ {d}) \cup {n}
  BY <1>1 DEF Moved
<1>3. Genuine(n)'
  BY <1>1, DeliveryIsReal DEF Genuine
<1>4. \A o \in delivery' : Genuine(o)'
  BY <1>2, <1>3 DEF IdvInv, Genuine
<1>5. QED
  BY <1>1, <1>2, <1>4 DEF IdvInv, IdvShape

\* The verdict reaches the row, if there is one: the last one settles it, any other is noted.
LEMMA UpdateApplicantKeeps ==
    ASSUME IdvInv, NEW d \in delivery, UpdateApplicant(d)
    PROVE  IdvInv'
<1>1. PICK a \in Applicant : a = d.to
  BY DeliveryIsReal
<1>2. PICK v \in Verdict : v = review[a][d.n]
  BY <1>1, DeliveryIsReal
<1>3. UNCHANGED <<grant, review, idvDone, told>> /\ d.stage = "sent"
  BY DEF UpdateApplicant
<1>4. PICK stage \in {"session", "audit"} :
        delivery' = Moved(d, stage) /\ (stage = "session" => review[d.to][d.n] = "approved")
  BY <1>1, <1>2 DEF UpdateApplicant, StatusMap
<1>5. PICK row \in ApplicantRow :
        /\ applicant' = [applicant EXCEPT ![a] = row]
        /\ row.stage = applicant[a].stage
        /\ \/ row.stored = applicant[a].stored /\ a \in unread'
           \/ row.stored = v /\ applicant[a].stored # "absent"
              /\ (d.n # Len(review[a]) => a \in unread')
  <2>1. CASE applicant[a].stored # "absent" /\ grant.update
    <3> DEFINE row == [applicant[a] EXCEPT !.stored = v]
    <3>1. row \in ApplicantRow /\ row.stored = v /\ row.stage = applicant[a].stage
      BY <1>1, DeliveryIsReal DEF ApplicantRow, StoredStatus
    <3>2. applicant' = [applicant EXCEPT ![a] = row]
      BY <1>1, <1>2, <2>1 DEF UpdateApplicant, StatusMap, IdvInv, IdvShape
    <3>3. d.n # Len(review[a]) => a \in unread'
      BY <1>1, <2>1 DEF UpdateApplicant
    <3>4. QED
      BY <2>1, <3>1, <3>2, <3>3
  <2>2. CASE ~(applicant[a].stored # "absent" /\ grant.update)
    <3>1. applicant' = [applicant EXCEPT ![a] = applicant[a]] /\ a \in unread'
      BY <1>1, <2>2 DEF UpdateApplicant, IdvInv, IdvShape
    <3>2. QED
      BY <1>1, <3>1, DeliveryIsReal
  <2>3. QED
    BY <2>1, <2>2
<1>6. applicant'[a] = row /\ \A b \in Applicant \ {a} : applicant'[b] = applicant[b]
  BY <1>5 DEF IdvInv, IdvShape
<1>7. unread \subseteq unread' /\ unread' \subseteq unread \cup {a}
  BY <1>1 DEF UpdateApplicant
<1>8. \A b \in Applicant : Mirrored(b)'
  <2>1. ASSUME NEW b \in Applicant, b # a PROVE Mirrored(b)'
    <3>1. \A o \in delivery : o.to = b /\ o.stage = "sent" => o \in delivery'
      BY <1>1, <1>3, <1>4, <2>1, MovedGenuine
    <3>2. QED
      BY <1>3, <1>6, <1>7, <2>1, <3>1 DEF IdvInv, Mirrored, Given
  <2>2. Mirrored(a)'
    <3>1. Given(a, v)
      BY <1>1, <1>2, DeliveryIsReal DEF Given
    <3>2. a \in unread' \/ row.stored = review[a][Len(review[a])]
      BY <1>1, <1>2, <1>5
    <3>3. Mirrored(a)
      BY DEF IdvInv
    <3>4. QED
      BY <1>3, <1>5, <1>6, <3>1, <3>2, <3>3 DEF Mirrored, Given
  <2>3. QED
    BY <2>1, <2>2
<1>9. IdvShape' /\ \A o \in delivery' : Genuine(o)'
  BY <1>3, <1>4, <1>5, MovedGenuine DEF IdvInv, IdvShape
<1>10. QED
  BY <1>3, <1>8, <1>9 DEF IdvInv, Given

\* The other steps of the webhook: the session counts as verified only behind an approval.
LEMMA DeliveryKeeps ==
    ASSUME IdvInv, NEW d \in delivery,
           UpdateSession(d) \/ AuditResult(d) \/ DeliveryFails(d)
    PROVE  IdvInv'
<1>1. UNCHANGED <<applicant, review, told, unread>>
  BY DEF UpdateSession, AuditResult, DeliveryFails
<1>2. idvDone' => idvDone \/ Given(d.to, "approved")
  BY DeliveryIsReal DEF UpdateSession, AuditResult, DeliveryFails
<1>3. /\ delivery' \in SUBSET Dispatch /\ \A o \in delivery' : Genuine(o)'
      /\ \A o \in delivery : o.stage = "sent" => o \in delivery'
  <2>1. CASE UpdateSession(d)
    <3>1. d.stage = "session" /\ delivery' = Moved(d, "audit")
      BY <2>1 DEF UpdateSession
    <3>2. QED
      BY <1>1, <3>1, MovedGenuine
  <2>2. CASE AuditResult(d)
    <3>1. d.stage = "audit" /\ delivery' = delivery \ {d}
      BY <2>2 DEF AuditResult
    <3>2. QED
      BY <1>1, <3>1 DEF IdvInv, IdvShape, Genuine
  <2>3. CASE DeliveryFails(d)
    <3>1. delivery' = Moved(d, "sent")
      BY <2>3 DEF DeliveryFails
    <3>2. d.stage = "sent" => [d EXCEPT !.stage = "sent"] = d
      BY DeliveryIsReal DEF Dispatch
    <3>3. QED
      BY <1>1, <3>1, <3>2, MovedGenuine
  <2>4. QED
    BY <2>1, <2>2, <2>3
<1>4. \A a \in Applicant : Mirrored(a)'
  BY <1>1, <1>3 DEF IdvInv, Mirrored, Given
<1>5. idvDone' => \E a \in Applicant : Given(a, "approved")'
  BY <1>1, <1>2, DeliveryIsReal DEF IdvInv, Given
<1>6. QED
  BY <1>1, <1>3, <1>4, <1>5 DEF IdvInv, IdvShape, Given

LEMMA RedeliverKeeps ==
    ASSUME IdvInv, NEW a \in Applicant, Redeliver(a)
    PROVE  IdvInv'
<1>1. UNCHANGED <<applicant, review, idvDone, told, unread>>
  BY DEF Redeliver
<1>2. PICK n \in Dispatch : /\ n.to = a /\ n.n \in 1..Len(review[a]) /\ n.stage = "sent"
                            /\ delivery' = delivery \cup {n}
  <2>1. DOMAIN review[a] = 1..Len(review[a]) /\ Len(review[a]) \in Nat
    BY DEF IdvInv, IdvShape
  <2>2. PICK k \in 1..Len(review[a]) :
          delivery' = delivery \cup {[to |-> a, n |-> k, stage |-> "sent"]}
    BY <2>1 DEF Redeliver
  <2>3. [to |-> a, n |-> k, stage |-> "sent"] \in Dispatch
    BY <2>1 DEF Dispatch
  <2>4. QED
    BY <2>2, <2>3
<1>3. IdvShape' /\ \A o \in delivery' : Genuine(o)'
  BY <1>1, <1>2 DEF IdvInv, IdvShape, Genuine
<1>4. \A b \in Applicant : Mirrored(b)'
  BY <1>1, <1>2 DEF IdvInv, Mirrored, Given
<1>5. QED
  BY <1>1, <1>3, <1>4 DEF IdvInv, Given

\* An answer of the status route repeats a row, or Sumsub's last verdict.
LEMMA GetStatusKeeps ==
    ASSUME IdvInv, GetStatus
    PROVE  IdvInv'
<1>1. UNCHANGED <<applicant, review, delivery, idvDone, unread>>
  BY DEF GetStatus
<1>2. told' \in Verdict => \E a \in Applicant : Given(a, told')
  <2>1. SUFFICES ASSUME told' \in Verdict PROVE \E a \in Applicant : Given(a, told')
    OBVIOUS
  <2>2. PICK a \in Rows : told' = IF applicant[a].stored = "pending" THEN PendingStatus(a)
                                  ELSE applicant[a].stored
    BY <2>1 DEF GetStatus, Verdict
  <2>3. a \in Applicant /\ Mirrored(a) /\ review[a] \in Seq(Verdict)
    BY DEF Rows, IdvInv, IdvShape
  <2>4. CASE applicant[a].stored = "pending"
    <3>1. told' = "approved" /\ LastVerdict(a) = "approved"
      BY <2>1, <2>2, <2>4 DEF PendingStatus, Verdict
    <3>2. review[a] # <<>> /\ review[a][Len(review[a])] = "approved"
      BY <3>1 DEF LastVerdict
    <3>3. Len(review[a]) \in 1..Len(review[a])
      BY <2>3, <3>2
    <3>4. QED
      BY <2>3, <3>1, <3>2, <3>3 DEF Given
  <2>5. CASE applicant[a].stored # "pending"
    BY <2>1, <2>2, <2>3, <2>5 DEF Mirrored
  <2>6. QED
    BY <2>4, <2>5
<1>3. told' \in Verdict => \E a \in Applicant : Given(a, told)'
  BY <1>1, <1>2 DEF Given
<1>4. QED
  BY <1>1, <1>3 DEF IdvInv, IdvShape, Genuine, Mirrored, Given

LEMMA IdvStepKeeps == IdvInv /\ [IdvNext]_idvRows => IdvInv'
<1>1. IdvInv /\ IdvNext => IdvInv'
  BY StartKeeps, ReviewKeeps, RedeliverKeeps, UpdateApplicantKeeps, DeliveryKeeps,
     GetStatusKeeps DEF IdvNext
<1>2. IdvInv /\ UNCHANGED idvRows => IdvInv'
  BY DEF idvRows, IdvInv, IdvShape, Genuine, Mirrored, Given
<1>3. QED
  BY <1>1, <1>2

-----------------------------------------------------------------------------
(* The wizard: records are never taken back, a page is shown only after    *)
(* the records of the steps before it, a step is sent only after its own.  *)

\* Where each page leads.
LEMMA RedirectTable ==
    /\ Redirect("start") = "start" /\ Redirect("complete") = "complete"
    /\ Redirect("consent") = ConsentPage /\ Redirect("identity") = IdentityPage
    /\ Redirect("business") = BusinessPage /\ Redirect("idv") = IDVPage
    /\ Redirect("documents") = DocumentsPage
  BY DEF Redirect

\* Three redirects reach a page that is shown, and one that asks for the steps before it.
LEMMA RedirectsSettle ==
    ASSUME NEW dest \in Page
    PROVE  /\ Rendered(dest) \in Page /\ Redirect(Rendered(dest)) = Rendered(dest)
           /\ Rendered(dest) \in {"identity", "business", "idv"} => Has("consent")
           /\ Rendered(dest) = "documents" => Has(DataStep)
<1>1. ConsentPage \in {"consent", "complete"} /\ IdentityPage \in {"consent", "complete", "identity"}
  BY DEF ConsentPage, IdentityPage
<1>2. /\ BusinessPage \in {"consent", "identity", "complete", "business"}
      /\ IDVPage \in {"consent", "identity", "complete", "idv"}
      /\ DocumentsPage \in {"business", "identity", "complete", "documents"}
  BY DEF BusinessPage, IDVPage, DocumentsPage
<1>3. /\ BusinessPage = "identity" => Has("consent") /\ ~IsCorporate
      /\ IDVPage = "identity" => Has("consent")
      /\ DocumentsPage = "business" => IsCorporate
      /\ IdentityPage = "identity" => Has("consent")
      /\ BusinessPage = "business" => Has("consent")
      /\ IDVPage = "idv" => Has("consent")
      /\ DocumentsPage = "documents" => Has(DataStep)
      /\ IdentityPage = "consent" => ~Has("consent")
  BY DEF BusinessPage, IDVPage, DocumentsPage, IdentityPage
<1> DEFINE shown == {p \in Page : Redirect(p) = p}
<1>4. \A p \in shown : /\ p \in {"identity", "business", "idv"} => Has("consent")
                       /\ p = "documents" => Has(DataStep)
  BY <1>3, RedirectTable
<1>5. /\ "start" \in shown /\ "complete" \in shown /\ Redirect("consent") \in shown
  BY <1>1, RedirectTable DEF Page
<1>6. Redirect(Redirect("identity")) \in shown
  BY <1>1, <1>5, RedirectTable DEF Page
<1>7. Redirect(Redirect("business")) \in shown
  BY <1>1, <1>2, <1>3, <1>5, RedirectTable DEF Page
<1>8. Redirect(Redirect("idv")) \in shown
  BY <1>1, <1>2, <1>3, <1>5, RedirectTable DEF Page
<1>9. Rendered("documents") \in shown
  BY <1>2, <1>5, <1>6, <1>7, RedirectTable DEF Page, Rendered
<1>10. Rendered(dest) \in shown
  BY <1>5, <1>6, <1>7, <1>8, <1>9 DEF Page, Rendered
<1>11. QED
  BY <1>4, <1>10

\* Every step but the last that is marked as done has its record, and consent.
Marked(done) == \A step \in done \ {"documents"} : {step, "consent"} \subseteq records

\* What a submitted session must have.
Enough == {"consent", DataStep} \cup RequiredDocuments \subseteq records

WizardShape ==
    /\ tab \in [Tab -> TabState]
    /\ session \in [type : {"none", "individual", "corporate"},
                    status : {"absent", "in_progress", "submitted"},
                    done : SUBSET {"consent", "identity", "business-info", "documents"}]

\* Before the session there is the first page only.
Blank == session.status = "absent" =>
    /\ session.done = {}
    /\ \A t \in Tab : /\ tab[t].page = "start" /\ tab[t].stage \in {"none", "create"}
                      /\ tab[t].filled = {} /\ tab[t].seen = {}

\* A page is shown after the records of the steps before it; a step is sent after its own.
Backed(t) ==
    /\ tab[t].filled \subseteq records
    /\ tab[t].page \in {"identity", "business", "idv"} => "consent" \in records
    /\ tab[t].page = "documents" => {"consent", DataStep} \subseteq records
    /\ tab[t].stage = "record" =>
         /\ tab[t].step \in {"consent", "identity", "business-info"}
         /\ tab[t].step # "consent" => "consent" \in records
    /\ tab[t].stage \in {"check", "reread", "write"} =>
         /\ tab[t].step # "none"
         /\ tab[t].step # "documents" => {tab[t].step, "consent"} \subseteq records
         /\ tab[t].step = "documents" => Enough
    /\ Marked(tab[t].seen)
    /\ tab[t].error # "unseen"

WizardInv ==
    /\ WizardShape /\ Blank /\ Marked(session.done)
    /\ session.status = "submitted" => Enough
    /\ \A t \in Tab : Backed(t)

LEMMA WizardInvSound == WizardInv => WizardSound
  BY RedirectsSettle DEF WizardInv, WizardSound, SubmittedWithRecords, Submitted, Enough,
     RedirectsEnd, RefusalsShown, Backed

LEMMA InitWizard == WizardInit => WizardInv
<1>1. SUFFICES ASSUME WizardInit PROVE WizardInv
  OBVIOUS
<1>2. WizardShape
  BY <1>1 DEF WizardInit, WizardShape, TabState, Page, Stage
<1>3. QED
  BY <1>1, <1>2 DEF WizardInit, WizardInv, Blank, Marked, Backed

\* Steps of one tab that add records and leave the session alone.
LEMMA TabKeeps ==
    ASSUME WizardInv, NEW t \in Tab, NEW row \in TabState,
           tab' = [tab EXCEPT ![t] = row], UNCHANGED session, records \subseteq records',
           session.status = "absent" =>
             /\ row.page = "start" /\ row.stage \in {"none", "create"}
             /\ row.filled = {} /\ row.seen = {},
           Backed(t)'
    PROVE  WizardInv'
<1>1. tab'[t] = row /\ \A o \in Tab \ {t} : tab'[o] = tab[o]
  BY DEF WizardInv, WizardShape
<1>2. WizardShape'
  BY DEF WizardInv, WizardShape
<1>3. Blank'
  BY <1>1 DEF WizardInv, Blank
<1>4. /\ DataStep' = DataStep /\ RequiredDocuments' = RequiredDocuments
      /\ Enough => Enough'
  BY DEF DataStep, RequiredDocuments, IsCorporate, Enough
<1>5. Marked(session.done)'
  BY DEF WizardInv, Marked
<1>6. ASSUME NEW o \in Tab, o # t PROVE Backed(o)'
  BY <1>1, <1>4, <1>6 DEF WizardInv, Backed, Marked
<1>7. QED
  BY <1>2, <1>3, <1>4, <1>5, <1>6 DEF WizardInv

\* What a tab may rely on.
LEMMA TabIsReal ==
    ASSUME WizardInv, NEW t \in Tab
    PROVE  /\ tab[t] \in TabState /\ Backed(t)
           /\ session.status = "absent" => /\ tab[t].page = "start"
                                           /\ tab[t].stage \in {"none", "create"}
                                           /\ tab[t].filled = {} /\ tab[t].seen = {}
           /\ \A row : tab' = [tab EXCEPT ![t] = row] => tab'[t] = row
           /\ session' = session => DataStep' = DataStep /\ RequiredDocuments' = RequiredDocuments
  BY DEF WizardInv, WizardShape, Blank, DataStep, RequiredDocuments, IsCorporate

\* A page that is opened is one that the session has come to.
LEMMA OpenKeeps ==
    ASSUME WizardInv, NEW t \in Tab, NEW dest \in Page, Open(t, dest)
    PROVE  WizardInv'
<1> DEFINE row == Show(t, dest)
<1>1. /\ row \in TabState /\ row.page = Rendered(dest) /\ row.filled = {} /\ row.error = "none"
      /\ row.stage = tab[t].stage /\ row.step = tab[t].step /\ row.seen = tab[t].seen
  BY TabIsReal, RedirectsSettle DEF Show, TabState
<1>2. /\ Rendered(dest) \in {"identity", "business", "idv"} => "consent" \in records
      /\ Rendered(dest) = "documents" => {"consent", DataStep} \subseteq records
  BY RedirectsSettle DEF WizardInv, Marked, Has, DataStep
<1>3. tab' = [tab EXCEPT ![t] = row] /\ UNCHANGED <<session, records>> /\ session.status # "absent"
  BY DEF Open
<1>4. tab'[t] = row /\ DataStep' = DataStep /\ RequiredDocuments' = RequiredDocuments
  BY <1>3, TabIsReal
<1>5. Backed(t)'
  BY <1>1, <1>2, <1>3, <1>4, TabIsReal DEF Backed, Marked, Enough
<1>6. QED
  BY <1>1, <1>3, <1>5, TabKeeps

\* A request leaves with what the page holds.
LEMMA SendsKeeps ==
    ASSUME WizardInv, NEW t \in Tab, NEW dest, NEW step, NEW stage, Sends(t, dest, step, stage),
           \/ dest = "start" /\ step = "none" /\ stage = "create"
           \/ dest = "consent" /\ step = "consent" /\ stage = "record"
           \/ dest = "identity" /\ step = "identity" /\ stage = "record"
           \/ dest = "business" /\ step = "business-info" /\ stage = "record"
           \/ /\ dest = "documents" /\ step = "documents" /\ stage = "check"
              /\ RequiredDocuments \subseteq tab[t].filled
    PROVE  WizardInv'
<1> DEFINE row == [tab[t] EXCEPT !.step = step, !.stage = stage, !.error = "none", !.waiting = TRUE]
<1>1. /\ row \in TabState /\ row.page = dest /\ row.filled = tab[t].filled /\ row.error = "none"
      /\ row.stage = stage /\ row.step = step /\ row.seen = tab[t].seen
  BY TabIsReal DEF TabState, Stage, Sends
<1>2. tab' = [tab EXCEPT ![t] = row] /\ UNCHANGED <<session, records>>
  BY DEF Sends, WizardInv, WizardShape
<1>3. tab'[t] = row /\ DataStep' = DataStep /\ RequiredDocuments' = RequiredDocuments
  BY <1>2, TabIsReal
<1>4. tab[t].page = dest
  BY DEF Sends
<1>5. session.status = "absent" => /\ row.page = "start" /\ row.stage \in {"none", "create"}
                                   /\ row.filled = {} /\ row.seen = {}
  BY <1>1, <1>4, TabIsReal
<1>6. Backed(t)'
  BY <1>1, <1>2, <1>3, <1>4, TabIsReal DEF Backed, Marked, Enough
<1>7. QED
  BY <1>1, <1>2, <1>5, <1>6, TabKeeps

\* The steps of a request that leave the page, its form and the kind of step alone.
Onward(t, row) ==
    /\ tab' = [tab EXCEPT ![t] = row] /\ UNCHANGED session
    /\ records \subseteq records'
    /\ row.page = tab[t].page /\ row.filled = tab[t].filled /\ row.step = tab[t].step
    /\ row.error # "unseen" /\ row.seen \in {{}, tab[t].seen, session.done}
    /\ session.status = "absent" => row.stage = "none"
    /\ \/ row.stage = "none"
       \/ row.stage = "check" /\ tab[t].stage = "record" /\ tab[t].step \in records'
       \/ row.stage \in {"reread", "write"} /\ tab[t].stage \in {"check", "reread"}

LEMMA OnwardKeeps ==
    ASSUME WizardInv, NEW t \in Tab, NEW row \in TabState, Onward(t, row)
    PROVE  WizardInv'
<1>1. tab'[t] = row /\ DataStep' = DataStep /\ RequiredDocuments' = RequiredDocuments
  BY TabIsReal DEF Onward
<1>2. Marked(row.seen)
  BY TabIsReal DEF WizardInv, Marked, Backed, Onward
<1>3. \A seen : Marked(seen) => Marked(seen)'
  BY DEF Marked, Onward
<1>4. session.status = "absent" => /\ row.page = "start" /\ row.stage \in {"none", "create"}
                                   /\ row.filled = {} /\ row.seen = {}
  BY TabIsReal DEF WizardInv, Blank, Onward
<1>5. Enough => Enough'
  BY <1>1 DEF Enough, Onward
<1>6. Backed(t)'
  <2>1. /\ row.filled \subseteq records' /\ row.error # "unseen" /\ Marked(row.seen)'
        /\ row.page \in {"identity", "business", "idv"} => "consent" \in records'
        /\ row.page = "documents" => {"consent", DataStep} \subseteq records'
        /\ row.stage # "record"
    BY <1>2, <1>3, TabIsReal DEF Backed, Onward
  <2>2. row.stage \in {"check", "reread", "write"} =>
          /\ row.step # "none"
          /\ row.step # "documents" => {row.step, "consent"} \subseteq records'
          /\ row.step = "documents" => Enough'
    <3>1. CASE row.stage = "check"
      BY <3>1, TabIsReal DEF Backed, Onward
    <3>2. CASE row.stage \in {"reread", "write"}
      BY <1>5, <3>2, TabIsReal DEF Backed, Onward
    <3>3. QED
      BY <3>1, <3>2
  <2>3. QED
    BY <1>1, <2>1, <2>2 DEF Backed, Marked
<1>7. QED
  BY <1>4, <1>6, TabKeeps DEF Onward

LEMMA RefuseDataKeeps ==
    ASSUME WizardInv, NEW t \in Tab, RefuseData(t)
    PROVE  WizardInv'
<1>1. PICK error \in {"field", "optional"} :
        tab' = [tab EXCEPT ![t].stage = "none", ![t].waiting = FALSE, ![t].error = error]
  BY DEF RefuseData, Refusable, ShownErrors, IdentityForm
<1> DEFINE row == [tab[t] EXCEPT !.stage = "none", !.waiting = FALSE, !.error = error]
<1>2. /\ row \in TabState /\ row.page = tab[t].page /\ row.filled = tab[t].filled
      /\ row.step = tab[t].step /\ row.error = error /\ row.seen = tab[t].seen
      /\ row.stage = "none"
  BY TabIsReal DEF TabState, Stage
<1>3. tab' = [tab EXCEPT ![t] = row]
  BY <1>1 DEF WizardInv, WizardShape
<1>4. Onward(t, row)
  BY <1>2, <1>3 DEF Onward, RefuseData
<1>5. QED
  BY <1>2, <1>4, OnwardKeeps

LEMMA RecordKeeps ==
    ASSUME WizardInv, NEW t \in Tab, Record(t)
    PROVE  WizardInv'
<1>1. PICK stage \in {"check", "none"} : tab' = [tab EXCEPT ![t].stage = stage]
  BY DEF Record, To
<1> DEFINE row == [tab[t] EXCEPT !.stage = stage]
<1>2. /\ row \in TabState /\ row.page = tab[t].page /\ row.filled = tab[t].filled
      /\ row.step = tab[t].step /\ row.error = tab[t].error /\ row.seen = tab[t].seen
      /\ row.stage = stage
  BY TabIsReal DEF TabState, Stage
<1>3. tab' = [tab EXCEPT ![t] = row]
  BY <1>1 DEF WizardInv, WizardShape
<1>4. session.status # "absent" /\ tab[t].error # "unseen"
  BY TabIsReal DEF Record, Backed
<1>5. Onward(t, row)
  BY <1>2, <1>3, <1>4 DEF Onward, Record
<1>6. QED
  BY <1>2, <1>5, OnwardKeeps

LEMMA CheckKeeps ==
    ASSUME WizardInv, NEW t \in Tab, Check(t)
    PROVE  WizardInv'
<1>1. /\ tab[t].stage = "check" /\ UNCHANGED <<session, records>>
      /\ session.status # "absent" /\ tab[t].error # "unseen"
  BY TabIsReal DEF Check, Backed
<1>2. CASE To(t, "reread")
  <2> DEFINE row == [tab[t] EXCEPT !.stage = "reread"]
  <2>1. /\ row \in TabState /\ row.page = tab[t].page /\ row.filled = tab[t].filled
        /\ row.step = tab[t].step /\ row.error = tab[t].error /\ row.seen = tab[t].seen
        /\ row.stage = "reread"
    BY TabIsReal DEF TabState, Stage
  <2>2. tab' = [tab EXCEPT ![t] = row]
    BY <1>2 DEF To, WizardInv, WizardShape
  <2>3. Onward(t, row)
    BY <1>1, <2>1, <2>2 DEF Onward
  <2>4. QED
    BY <2>1, <2>3, OnwardKeeps
<1>3. CASE ~To(t, "reread")
  <2>1. PICK error \in {"api", tab[t].error} :
          tab' = [tab EXCEPT ![t].stage = "none", ![t].waiting = FALSE, ![t].error = error]
    BY <1>3 DEF Check
  <2> DEFINE row == [tab[t] EXCEPT !.stage = "none", !.waiting = FALSE, !.error = error]
  <2>2. /\ row \in TabState /\ row.page = tab[t].page /\ row.filled = tab[t].filled
        /\ row.step = tab[t].step /\ row.error = error /\ row.seen = tab[t].seen
        /\ row.stage = "none"
    BY TabIsReal DEF TabState, Stage
  <2>3. tab' = [tab EXCEPT ![t] = row]
    BY <2>1 DEF WizardInv, WizardShape
  <2>4. Onward(t, row)
    BY <1>1, <2>2, <2>3 DEF Onward
  <2>5. QED
    BY <2>2, <2>4, OnwardKeeps
<1>4. QED
  BY <1>2, <1>3

LEMMA RereadKeeps ==
    ASSUME WizardInv, NEW t \in Tab, Reread(t)
    PROVE  WizardInv'
<1>1. /\ tab[t].stage = "reread" /\ UNCHANGED <<session, records>>
      /\ session.status # "absent" /\ tab[t].error # "unseen"
  BY TabIsReal DEF Reread, Backed
<1> DEFINE row == [tab[t] EXCEPT !.stage = "write", !.seen = session.done]
<1>2. /\ row \in TabState /\ row.page = tab[t].page /\ row.filled = tab[t].filled
      /\ row.step = tab[t].step /\ row.error = tab[t].error /\ row.seen = session.done
      /\ row.stage = "write"
  BY TabIsReal, ZenonT(60) DEF TabState, Stage, WizardInv, WizardShape
<1>3. tab' = [tab EXCEPT ![t] = row]
  BY DEF Reread, WizardInv, WizardShape
<1>4. Onward(t, row)
  BY <1>1, <1>2, <1>3 DEF Onward
<1>5. QED
  BY <1>2, <1>4, OnwardKeeps

LEMMA FailKeeps ==
    ASSUME WizardInv, NEW t \in Tab, Fail(t)
    PROVE  WizardInv'
<1>1. PICK error \in {"api", tab[t].error} :
        tab' = [tab EXCEPT ![t].stage = "none", ![t].waiting = FALSE, ![t].seen = {},
                           ![t].error = error]
  BY DEF Fail
<1> DEFINE row == [tab[t] EXCEPT !.stage = "none", !.waiting = FALSE, !.seen = {},
                                 !.error = error]
<1>2. /\ row \in TabState /\ row.page = tab[t].page /\ row.filled = tab[t].filled
      /\ row.step = tab[t].step /\ row.error = error /\ row.seen = {}
      /\ row.stage = "none"
  BY TabIsReal DEF TabState, Stage
<1>3. tab' = [tab EXCEPT ![t] = row]
  BY <1>1 DEF WizardInv, WizardShape
<1>4. error # "unseen"
  BY TabIsReal DEF Backed
<1>5. Onward(t, row)
  BY <1>2, <1>3, <1>4 DEF Onward, Fail
<1>6. QED
  BY <1>2, <1>5, OnwardKeeps

LEMMA FilesKeep ==
    ASSUME WizardInv, NEW t \in Tab, NEW type \in IndividualDocuments \cup CorporateDocuments,
           HandleFileSelect(t, type) \/ Replace(t, type)
    PROVE  WizardInv'
<1>1. PICK filled \in SUBSET (IndividualDocuments \cup CorporateDocuments) :
        /\ filled \subseteq records' /\ records \subseteq records'
        /\ tab' = [tab EXCEPT ![t].filled = filled] /\ UNCHANGED session
        /\ tab[t].page = "documents"
  <2>1. tab[t].filled \subseteq records /\ tab[t] \in TabState
    BY TabIsReal DEF Backed
  <2>2. CASE tab' = [tab EXCEPT ![t].filled = @ \cup {type}] /\ HandleFileSelect(t, type)
    BY <2>1, <2>2 DEF HandleFileSelect, TabState
  <2>3. CASE UNCHANGED tab /\ HandleFileSelect(t, type)
    <3>1. tab' = [tab EXCEPT ![t].filled = tab[t].filled]
      BY <2>1, <2>3 DEF TabState, WizardInv, WizardShape
    <3>2. QED
      BY <2>1, <2>3, <3>1 DEF HandleFileSelect, TabState
  <2>4. CASE Replace(t, type)
    <3>1. tab[t].filled \in SUBSET (IndividualDocuments \cup CorporateDocuments)
      BY <2>1 DEF TabState
    <3>2. PICK filled : filled = tab[t].filled \ {type}
      OBVIOUS
    <3>3. /\ filled \in SUBSET (IndividualDocuments \cup CorporateDocuments)
          /\ filled \subseteq records
      BY <2>1, <3>1, <3>2
    <3>4. QED
      BY <2>4, <3>2, <3>3 DEF Replace
  <2>5. QED
    BY <2>2, <2>3, <2>4 DEF HandleFileSelect
<1> DEFINE row == [tab[t] EXCEPT !.filled = filled]
<1>2. /\ row \in TabState /\ row.page = tab[t].page /\ row.filled = filled
      /\ row.step = tab[t].step /\ row.error = tab[t].error /\ row.seen = tab[t].seen
      /\ row.stage = tab[t].stage
  BY TabIsReal DEF TabState
<1>3. tab' = [tab EXCEPT ![t] = row]
  BY <1>1 DEF WizardInv, WizardShape
<1>4. tab'[t] = row /\ DataStep' = DataStep /\ RequiredDocuments' = RequiredDocuments
  BY <1>1, <1>3, TabIsReal
<1>5. session.status # "absent"
  BY <1>1, TabIsReal
<1>6. Backed(t)'
  BY <1>1, <1>2, <1>4, TabIsReal DEF Backed, Marked, Enough
<1>7. QED
  BY <1>1, <1>2, <1>3, <1>5, <1>6, TabKeeps

\* The answer leads to the next page, through its redirects, or finds nobody.
LEMMA AnswerKeeps ==
    ASSUME WizardInv, NEW t \in Tab, Answer(t)
    PROVE  WizardInv'
<1> DEFINE shown == IF tab[t].waiting THEN Show(t, NextPage(t)) ELSE tab[t]
<1> DEFINE row == [shown EXCEPT !.stage = "none", !.waiting = FALSE]
<1>1. NextPage(t) \in Page
  BY DEF NextPage, Page
<1>2. /\ shown \in TabState /\ shown.filled \subseteq tab[t].filled /\ shown.error # "unseen"
      /\ shown.step = tab[t].step /\ shown.seen = tab[t].seen
      /\ shown.page \in {tab[t].page, Rendered(NextPage(t))}
  BY <1>1, TabIsReal, RedirectsSettle, ZenonT(60) DEF Show, TabState, Backed
<1>3. /\ row \in TabState /\ row.filled \subseteq tab[t].filled /\ row.error # "unseen"
      /\ row.step = tab[t].step /\ row.seen = tab[t].seen /\ row.stage = "none"
      /\ row.page \in {tab[t].page, Rendered(NextPage(t))}
  <2> HIDE DEF shown
  <2>1. QED
    BY <1>2 DEF TabState, Stage
<1>4. tab' = [tab EXCEPT ![t] = row] /\ UNCHANGED <<session, records>> /\ tab[t].stage = "answer"
  BY DEF Answer
<1> HIDE DEF row, shown
<1>5. tab'[t] = row /\ DataStep' = DataStep /\ RequiredDocuments' = RequiredDocuments
  BY <1>4, TabIsReal
<1>6. /\ row.page \in {"identity", "business", "idv"} => "consent" \in records
      /\ row.page = "documents" => {"consent", DataStep} \subseteq records
  <2>1. CASE row.page = tab[t].page
    BY <2>1, TabIsReal DEF Backed
  <2>2. CASE row.page = Rendered(NextPage(t))
    BY <1>1, <2>2, RedirectsSettle DEF WizardInv, Marked, Has, DataStep
  <2>3. QED
    BY <1>3, <2>1, <2>2
<1>7. session.status # "absent"
  BY <1>4, TabIsReal
<1>8. Backed(t)'
  BY <1>3, <1>4, <1>5, <1>6, TabIsReal DEF Backed, Marked, Enough
<1>9. QED
  BY <1>3, <1>4, <1>7, <1>8, TabKeeps

\* A tab keeps what it has when the session is rewritten and stays of its type.
LEMMA OthersKeep ==
    ASSUME WizardInv, NEW o \in Tab, tab'[o] = tab[o], UNCHANGED records,
           UNCHANGED <<DataStep, RequiredDocuments>>
    PROVE  Backed(o)'
  BY DEF WizardInv, Backed, Marked, Enough

LEMMA CreateSessionKeeps ==
    ASSUME WizardInv, NEW t \in Tab, CreateSession(t)
    PROVE  WizardInv'
<1>1. PICK type \in {"individual", "corporate"} :
        session' = [type |-> type, status |-> "in_progress", done |-> {}]
  BY DEF CreateSession
<1> DEFINE row == [tab[t] EXCEPT !.stage = "answer"]
<1>2. \A o \in Tab : /\ tab[o].page = "start" /\ tab[o].stage \in {"none", "create"}
                     /\ tab[o].filled = {} /\ tab[o].seen = {} /\ tab[o].error # "unseen"
  BY DEF WizardInv, Blank, CreateSession, Backed
<1>3. /\ row \in TabState /\ row.page = "start" /\ row.stage = "answer" /\ row.filled = {}
      /\ row.seen = {} /\ row.error # "unseen"
  BY <1>2, TabIsReal DEF TabState, Stage
<1>4. tab' = [tab EXCEPT ![t] = row] /\ UNCHANGED records
  BY DEF CreateSession, To, WizardInv, WizardShape
<1> HIDE DEF row
<1>5. tab'[t] = row /\ \A o \in Tab \ {t} : tab'[o] = tab[o]
  BY <1>4 DEF WizardInv, WizardShape
<1>6. WizardShape'
  BY <1>1, <1>3, <1>4 DEF WizardInv, WizardShape
<1>7. \A o \in Tab : /\ tab'[o].page = "start" /\ tab'[o].stage \in {"none", "create", "answer"}
                     /\ tab'[o].filled = {} /\ tab'[o].seen = {} /\ tab'[o].error # "unseen"
  BY <1>2, <1>3, <1>5
<1>8. \A o \in Tab : Backed(o)'
  BY <1>7 DEF Backed, Marked
<1>9. QED
  BY <1>1, <1>6, <1>8 DEF WizardInv, Blank, Marked

\* The row is written over what others wrote: names may go, and records never do.
LEMMA WriteKeeps ==
    ASSUME WizardInv, NEW t \in Tab, Write(t)
    PROVE  WizardInv'
<1> DEFINE row == [tab[t] EXCEPT !.stage = "answer", !.seen = {}]
<1>1. /\ tab[t].stage = "write" /\ UNCHANGED records
      /\ session' = [session EXCEPT !.done = tab[t].seen \cup {tab[t].step},
                       !.status = IF tab[t].step = "documents" THEN "submitted"
                                  ELSE "in_progress"]
  BY DEF Write
<1>2. /\ row \in TabState /\ row.page = tab[t].page /\ row.stage = "answer"
      /\ row.filled = tab[t].filled /\ row.seen = {} /\ row.error = tab[t].error
  BY TabIsReal DEF TabState, Stage
<1>3. tab' = [tab EXCEPT ![t] = row]
  BY DEF Write, WizardInv, WizardShape
<1> HIDE DEF row
<1>4. tab'[t] = row /\ \A o \in Tab \ {t} : tab'[o] = tab[o]
  BY <1>3 DEF WizardInv, WizardShape
<1>5. tab[t].step \in {"consent", "identity", "business-info", "documents"}
  BY <1>1, TabIsReal DEF Backed, TabState
<1>6. /\ session'.type = session.type /\ session'.done = tab[t].seen \cup {tab[t].step}
      /\ session'.status = IF tab[t].step = "documents" THEN "submitted" ELSE "in_progress"
      /\ session' \in [type : {"none", "individual", "corporate"},
                       status : {"absent", "in_progress", "submitted"},
                       done : SUBSET {"consent", "identity", "business-info", "documents"}]
  BY <1>1, <1>5, TabIsReal DEF WizardInv, WizardShape, TabState
<1>7. WizardShape'
  BY <1>2, <1>3, <1>6 DEF WizardInv, WizardShape
<1>8. DataStep' = DataStep /\ RequiredDocuments' = RequiredDocuments
  BY <1>6 DEF DataStep, RequiredDocuments, IsCorporate
<1>9. Marked(session.done)'
  BY <1>1, <1>6, TabIsReal DEF Backed, Marked
<1>10. session'.status = "submitted" => Enough'
  BY <1>1, <1>6, <1>8, TabIsReal DEF Backed, Enough
<1>11. Backed(t)'
  BY <1>1, <1>2, <1>4, <1>8, TabIsReal DEF Backed, Marked
<1>12. \A o \in Tab \ {t} : Backed(o)'
  BY <1>1, <1>4, <1>8, OthersKeep
<1>13. Blank'
  BY <1>6 DEF Blank
<1>14. QED
  BY <1>7, <1>9, <1>10, <1>11, <1>12, <1>13 DEF WizardInv

LEMMA WizardStepKeeps == WizardInv /\ [WizardNext]_wizardRows => WizardInv'
<1>1. SUFFICES ASSUME WizardInv, [WizardNext]_wizardRows PROVE WizardInv'
  OBVIOUS
<1>2. CASE UNCHANGED wizardRows
  BY <1>1, <1>2 DEF wizardRows, WizardInv, WizardShape, Blank, Marked, Backed, Enough,
     DataStep, RequiredDocuments, IsCorporate
<1>3. ASSUME NEW t \in Tab, NEW dest \in Page, Open(t, dest) PROVE WizardInv'
  BY <1>1, <1>3, OpenKeeps
<1>4. ASSUME NEW t \in Tab, HandleContinue(t) \/ SubmitConsent(t) \/ SubmitData(t)
                            \/ SubmitDocuments(t)
      PROVE WizardInv'
  BY <1>1, <1>4, SendsKeeps DEF HandleContinue, SubmitConsent, SubmitData, SubmitDocuments
<1>5. ASSUME NEW t \in Tab, HandleSkip(t) PROVE WizardInv'
  BY <1>1, <1>5, OpenKeeps DEF HandleSkip, Page
<1>6. QED
  BY <1>1, <1>2, <1>3, <1>4, <1>5, CreateSessionKeeps, RefuseDataKeeps, RecordKeeps,
     FilesKeep, CheckKeeps, RereadKeeps, WriteKeeps, AnswerKeeps, FailKeeps DEF WizardNext

-----------------------------------------------------------------------------
(* The page of a case.                                                     *)

View == [open : BOOLEAN, live : BOOLEAN, due : BOOLEAN, fetched : {"none"} \cup CaseStatus,
         form : BOOLEAN, missed : BOOLEAN, status : CaseStatus, flag : BOOLEAN,
         item : {"pending"} \cup SettledItem]

CaseRow == [status : CaseStatus, who : Officer \cup {Nobody}, flag : BOOLEAN]

\* The status that a page shows, or will when the answer of its refresh arrives.
Shows(v) == IF v.fetched = "none" THEN v.status ELSE v.fetched

\* Nothing is left to tell the page, and nothing was missed.
AtRest(v) == v.open /\ ~v.due /\ ~v.missed

\* What a page shows, or is about to show, is the status of the case.
PageIsRight(o) == /\ AtRest(page[o]) /\ SeesCase(o) => Shows(page[o]) = case.status
                  /\ page[o].form => role[o] # "analyst"

CaseInv == CasePageTypeOK /\ \A o \in Officer : PageIsRight(o)

\* A view that a refresh may be due for, or that may have missed a change.
Stamped(v, b, m) == [v EXCEPT !.due = @ \/ b, !.missed = @ \/ m]

LEMMA StampedView ==
    ASSUME NEW v \in View, NEW b \in BOOLEAN, NEW m \in BOOLEAN
    PROVE  /\ Stamped(v, b, m) \in View
           /\ AtRest(Stamped(v, b, m)) => AtRest(v) /\ ~b /\ ~m
           /\ Stamped(v, b, m).form = v.form
           /\ Shows(Stamped(v, b, m)) = Shows(v)
<1>1. PICK w : w = Stamped(v, b, m)
  OBVIOUS
<1>2. w \in View /\ w.open = v.open /\ w.form = v.form /\ w.fetched = v.fetched
      /\ w.status = v.status
  BY <1>1 DEF View, Stamped
<1>3. w.due = (v.due \/ b) /\ w.missed = (v.missed \/ m)
  BY <1>1 DEF View, Stamped
<1>4. AtRest(w) => AtRest(v) /\ ~b /\ ~m
  BY <1>2, <1>3 DEF AtRest, View
<1>5. QED
  BY <1>1, <1>2, <1>4 DEF Shows

\* What a click makes of the page of its officer.
Own(o, own) == /\ own \in View
               /\ own.live = page[o].live /\ own.open = page[o].open
               /\ own.missed = page[o].missed /\ own.form = page[o].form
               /\ page[o].due => own.due
               /\ Shows(own) = Shows(page[o])

\* After a click every page with a channel that may see the case is about to be refreshed,
\* and one without has missed what changed.
LEMMA ClickKeeps ==
    ASSUME CaseInv, NEW o \in Officer, NEW own, Own(o, own),
           After(o, own, NudgedByEvent) \/ After(o, own, NudgedByCase),
           UNCHANGED <<role, published, item>>, decision' \in {"none"} \cup CompletedStatus,
           case' \in CaseRow
    PROVE  CaseInv'
<1>1. page \in [Officer -> View] /\ case \in CaseRow
  BY DEF CaseInv, CasePageTypeOK, View, CaseRow
<1>2. PICK nudged \in [Officer -> BOOLEAN] :
        /\ page' = [p \in Officer |->
                      LET shown == IF p = o THEN own ELSE page[p] IN
                      [shown EXCEPT !.due = @ \/ nudged[p],
                                    !.missed = @ \/ (shown.open /\ ~shown.live /\ CaseMoves)]]
        /\ \A p \in Officer : page[p].live /\ SeesCase(p)' => nudged[p]
  <2>1. CASE After(o, own, NudgedByEvent)
    <3>1. PICK nudged \in [Officer -> BOOLEAN] : nudged = [p \in Officer |-> NudgedByEvent(p)]
      BY <1>1 DEF NudgedByEvent, View
    <3>2. \A p \in Officer : nudged[p] = NudgedByEvent(p)
      BY <3>1
    <3>3. QED
      BY <2>1, <3>2 DEF After, NudgedByEvent
  <2>2. CASE After(o, own, NudgedByCase)
    <3>1. PICK nudged \in [Officer -> BOOLEAN] : nudged = [p \in Officer |-> NudgedByCase(p)]
      BY <1>1 DEF NudgedByCase, View
    <3>2. \A p \in Officer : nudged[p] = NudgedByCase(p)
      BY <3>1
    <3>3. QED
      BY <2>2, <3>2 DEF After, NudgedByCase, SeesCase
  <2>3. QED
    BY <2>1, <2>2
<1>3. ASSUME NEW p \in Officer
      PROVE  page'[p] \in View /\ PageIsRight(p)'
  <2>1. PICK shown : shown = IF p = o THEN own ELSE page[p]
    OBVIOUS
  <2>2. /\ shown \in View
        /\ shown.live = page[p].live /\ shown.open = page[p].open
        /\ shown.missed = page[p].missed /\ shown.form = page[p].form
        /\ page[p].due => shown.due
        /\ Shows(shown) = Shows(page[p])
    BY <1>1, <2>1 DEF Own
  <2>3. PICK m \in BOOLEAN : m = (shown.open /\ ~shown.live /\ CaseMoves)
    BY <2>2 DEF View
  <2>4. page'[p] = Stamped(shown, nudged[p], m) /\ nudged[p] \in BOOLEAN
    BY <1>2, <2>1, <2>3 DEF Stamped
  <2>5. /\ page'[p] \in View
        /\ AtRest(page'[p]) => AtRest(shown) /\ ~nudged[p] /\ ~m
        /\ page'[p].form = shown.form
        /\ Shows(page'[p]) = Shows(shown)
    <3>1. PICK b \in BOOLEAN : b = nudged[p]
      BY <2>4
    <3>2. shown \in View
      BY <2>2
    <3>3. /\ Stamped(shown, b, m) \in View
          /\ AtRest(Stamped(shown, b, m)) => AtRest(shown) /\ ~b /\ ~m
          /\ Stamped(shown, b, m).form = shown.form
          /\ Shows(Stamped(shown, b, m)) = Shows(shown)
      BY <3>2, StampedView
    <3>4. page'[p] = Stamped(shown, b, m)
      BY <2>4, <3>1
    <3>5. QED
      BY <3>1, <3>3, <3>4
  <2>6. PageIsRight(p)
    BY DEF CaseInv
  <2>7. ASSUME AtRest(page'[p]), SeesCase(p)'
        PROVE  Shows(page'[p]) = case'.status
    <3>1. ~shown.due /\ ~nudged[p] /\ ~shown.missed /\ ~m /\ shown.open
      BY <2>5, <2>7 DEF AtRest
    <3>2. ~page[p].live
      BY <1>2, <2>7, <3>1
    <3>3. ~CaseMoves
      BY <2>2, <2>3, <3>1, <3>2
    <3>4. case'.status = case.status /\ SeesCase(p)
      BY <2>7, <3>3 DEF CaseMoves, SeesCase
    <3>5. AtRest(page[p])
      BY <2>2, <3>1 DEF AtRest
    <3>6. QED
      BY <2>2, <2>5, <2>6, <3>4, <3>5 DEF PageIsRight
  <2>8. QED
    BY <2>2, <2>5, <2>6, <2>7 DEF PageIsRight
<1>4. page' \in [Officer -> View]
  BY <1>2, <1>3
<1>5. QED
  BY <1>3, <1>4 DEF CaseInv, CasePageTypeOK, View, CaseRow

\* What one officer does to the own page only: opened, left, refreshed, joined, cut off.
LEMMA OnePageKeeps ==
    ASSUME CaseInv, NEW o \in Officer, NEW own \in View, page' = [page EXCEPT ![o] = own],
           AtRest(own) /\ SeesCase(o) => Shows(own) = case.status,
           own.form => role[o] # "analyst",
           UNCHANGED <<role, published, case, decision>>, item' \in {"pending"} \cup SettledItem
    PROVE  CaseInv'
<1>1. page \in [Officer -> View] /\ page' \in [Officer -> View]
  BY DEF CaseInv, CasePageTypeOK, View
<1>2. page'[o] = own /\ \A p \in Officer \ {o} : page'[p] = page[p]
  BY <1>1
<1>3. ASSUME NEW p \in Officer PROVE PageIsRight(p)'
  BY <1>2 DEF CaseInv, PageIsRight, SeesCase
<1>4. QED
  BY <1>1, <1>3 DEF CaseInv, CasePageTypeOK, View

LEMMA PageOfItsOwn ==
    ASSUME CaseInv, NEW o \in Officer,
           OpenPage(o) \/ LeavePage(o) \/ Refresh(o) \/ ShowRefreshed(o) \/ Subscribe(o)
             \/ Disconnect(o) \/ SettleItem(o)
    PROVE  CaseInv'
<1>1. page[o] \in View /\ Shut \in View /\ ~Shut.open /\ ~Shut.form
  BY DEF CaseInv, CasePageTypeOK, View, Shut, CaseStatus
<1>2. /\ case \in CaseRow /\ item \in {"pending"} \cup SettledItem
      /\ PageIsRight(o)
  BY DEF CaseInv, CasePageTypeOK, CaseRow
<1>3. CASE OpenPage(o)
  <2>1. PICK own : own = [Shut EXCEPT !.open = TRUE, !.status = case.status, !.flag = case.flag,
                                      !.item = item,
                                      !.form = role[o] # "analyst"
                                                 /\ case.status \notin CompletedStatus]
    OBVIOUS
  <2>2. /\ own \in View /\ own.status = case.status /\ own.fetched = "none"
        /\ own.form => role[o] # "analyst"
    BY <1>2, <2>1 DEF CaseRow, View, Shut, CaseStatus
  <2>3. page' = [page EXCEPT ![o] = own] /\ UNCHANGED <<role, published, case, decision, item>>
    BY <1>3, <2>1 DEF OpenPage
  <2>4. Shows(own) = case.status
    BY <2>2 DEF Shows
  <2>5. QED
    BY <1>2, <2>2, <2>3, <2>4, OnePageKeeps
<1>4. CASE LeavePage(o)
  BY <1>1, <1>2, <1>4, OnePageKeeps DEF LeavePage, AtRest
<1>5. CASE Refresh(o)
  <2>1. PICK own : own = [page[o] EXCEPT !.due = FALSE, !.missed = FALSE,
                                         !.fetched = case.status]
    OBVIOUS
  <2>2. own \in View /\ own.fetched = case.status /\ own.form = page[o].form
        /\ case.status # "none"
    BY <1>1, <1>2, <2>1 DEF CaseRow, View, CaseStatus, CompletedStatus
  <2>3. page' = [page EXCEPT ![o] = IF SeesCase(o) THEN own ELSE Shut]
        /\ UNCHANGED <<role, published, case, decision, item>>
    BY <1>5, <2>1 DEF Refresh
  <2>4. Shows(own) = case.status
    BY <2>2 DEF Shows
  <2>5. CASE SeesCase(o)
    BY <1>2, <2>2, <2>3, <2>4, <2>5, OnePageKeeps DEF PageIsRight
  <2>6. CASE ~SeesCase(o)
    BY <1>1, <1>2, <2>3, <2>6, OnePageKeeps DEF AtRest
  <2>7. QED
    BY <2>5, <2>6
<1>6. ASSUME NEW own \in View, page' = [page EXCEPT ![o] = own],
             own.due = page[o].due, own.open = page[o].open, own.missed = page[o].missed,
             own.form = page[o].form, Shows(own) = Shows(page[o]),
             UNCHANGED <<role, published, case, decision>>,
             item' \in {"pending"} \cup SettledItem
      PROVE  CaseInv'
  <2>1. AtRest(own) /\ SeesCase(o) => Shows(own) = case.status
    BY <1>2, <1>6 DEF PageIsRight, AtRest
  <2>2. QED
    BY <1>2, <1>6, <2>1, OnePageKeeps DEF PageIsRight
<1>7. CASE ShowRefreshed(o)
  <2>1. PICK own : own = [page[o] EXCEPT !.status = page[o].fetched, !.fetched = "none"]
    OBVIOUS
  <2>2. /\ own \in View /\ own.status = page[o].fetched /\ own.fetched = "none"
        /\ own.due = page[o].due /\ own.open = page[o].open /\ own.missed = page[o].missed
        /\ own.form = page[o].form
    BY <1>1, <1>7, <2>1 DEF ShowRefreshed, View
  <2>3. page' = [page EXCEPT ![o] = own] /\ UNCHANGED <<role, published, case, decision, item>>
    BY <1>1, <1>7, <2>1 DEF ShowRefreshed, CaseInv, CasePageTypeOK
  <2>4. Shows(own) = Shows(page[o])
    BY <1>7, <2>2 DEF Shows, ShowRefreshed
  <2>5. QED
    BY <1>2, <1>6, <2>2, <2>3, <2>4
<1>8. CASE Subscribe(o)
  <2>1. PICK own : own = [page[o] EXCEPT !.live = TRUE]
    OBVIOUS
  <2>2. /\ own \in View /\ own.status = page[o].status /\ own.fetched = page[o].fetched
        /\ own.due = page[o].due /\ own.open = page[o].open /\ own.missed = page[o].missed
        /\ own.form = page[o].form
    BY <1>1, <2>1 DEF View
  <2>3. page' = [page EXCEPT ![o] = own] /\ UNCHANGED <<role, published, case, decision, item>>
    BY <1>8, <2>1 DEF Subscribe
  <2>4. QED
    BY <1>2, <1>6, <2>2, <2>3 DEF Shows
<1>9. CASE Disconnect(o)
  <2>1. PICK own : own = [page[o] EXCEPT !.live = FALSE]
    OBVIOUS
  <2>2. /\ own \in View /\ own.status = page[o].status /\ own.fetched = page[o].fetched
        /\ own.due = page[o].due /\ own.open = page[o].open /\ own.missed = page[o].missed
        /\ own.form = page[o].form
    BY <1>1, <2>1 DEF View
  <2>3. page' = [page EXCEPT ![o] = own] /\ UNCHANGED <<role, published, case, decision, item>>
    BY <1>9, <2>1 DEF Disconnect
  <2>4. QED
    BY <1>2, <1>6, <2>2, <2>3 DEF Shows
<1>10. CASE SettleItem(o)
  <2>1. item' \in SettledItem
    BY <1>10 DEF SettleItem
  <2>2. PICK own : own = [page[o] EXCEPT !.item = item']
    OBVIOUS
  <2>3. /\ own \in View /\ own.status = page[o].status /\ own.fetched = page[o].fetched
        /\ own.due = page[o].due /\ own.open = page[o].open /\ own.missed = page[o].missed
        /\ own.form = page[o].form
    BY <1>1, <2>1, <2>2 DEF View
  <2>4. page' = [page EXCEPT ![o] = own] /\ UNCHANGED <<role, published, case, decision>>
    BY <1>10, <2>2 DEF SettleItem
  <2>5. QED
    BY <1>6, <2>1, <2>3, <2>4 DEF Shows
<1>11. QED
  BY <1>3, <1>4, <1>5, <1>7, <1>8, <1>9, <1>10

LEMMA CaseStepKeeps == CaseInv /\ [CasePageNext]_caseRows => CaseInv'
<1>1. SUFFICES ASSUME CaseInv, [CasePageNext]_caseRows PROVE CaseInv'
  OBVIOUS
<1>2. CASE UNCHANGED caseRows
  BY <1>1, <1>2 DEF CaseInv, CasePageTypeOK, PageIsRight, SeesCase, caseRows
<1>3. ASSUME NEW o \in Officer PROVE page[o] \in View /\ Own(o, page[o]) /\ Own(o, Refreshed(o))
  <2>1. page[o] \in View
    BY <1>1 DEF CaseInv, CasePageTypeOK, View
  <2>2. /\ Refreshed(o) \in View /\ Refreshed(o).live = page[o].live
        /\ Refreshed(o).open = page[o].open /\ Refreshed(o).missed = page[o].missed
        /\ Refreshed(o).form = page[o].form /\ Refreshed(o).due
        /\ Refreshed(o).status = page[o].status /\ Refreshed(o).fetched = page[o].fetched
    BY <2>1 DEF Refreshed, View
  <2>3. QED
    BY <2>1, <2>2 DEF Own, Shows
<1>4. case \in CaseRow
  BY <1>1 DEF CaseInv, CasePageTypeOK, CaseRow
<1>5. CASE UNCHANGED page /\ UNCHANGED <<role, published, case, item>>
           /\ decision' \in {"none"} \cup CompletedStatus
  BY <1>1, <1>5 DEF CaseInv, CasePageTypeOK, PageIsRight, SeesCase
<1>6. ASSUME NEW o \in Officer, SubmitNote(o) PROVE CaseInv'
  BY <1>1, <1>3, <1>4, <1>5, <1>6, ClickKeeps DEF SubmitNote, CaseInv, CasePageTypeOK
<1>7. ASSUME NEW o \in Officer, NEW d \in CompletedStatus, Decided(o, d)
      PROVE  case' \in CaseRow
  BY <1>4, <1>7 DEF Decided, CaseRow, CaseStatus
<1>8. ASSUME NEW o \in Officer, SubmitDecision(o) PROVE CaseInv'
  <2>1. CASE UNCHANGED <<case, decision, page>>
    BY <1>1, <1>5, <1>8, <2>1 DEF SubmitDecision, CaseInv, CasePageTypeOK
  <2>2. ASSUME NEW d \in CompletedStatus, Decided(o, d), After(o, Refreshed(o), NudgedByEvent)
        PROVE  CaseInv'
    BY <1>1, <1>3, <1>7, <1>8, <2>2, ClickKeeps DEF SubmitDecision, Decided
  <2>3. QED
    BY <1>8, <2>1, <2>2 DEF SubmitDecision
<1>9. ASSUME NEW o \in Officer, DecisionCutShort(o) PROVE CaseInv'
  <2>1. PICK d \in CompletedStatus : Decided(o, d)
    BY <1>9 DEF DecisionCutShort
  <2>2. UNCHANGED <<role, published, item>> /\ decision' \in {"none"} \cup CompletedStatus
    BY <1>9, <2>1 DEF DecisionCutShort, Decided
  <2>3. CASE SeesCase(o)
    BY <1>1, <1>3, <1>7, <1>9, <2>1, <2>2, <2>3, ClickKeeps DEF DecisionCutShort
  <2>4. CASE ~SeesCase(o)
    BY <1>5, <1>9, <2>1, <2>2, <2>4 DEF DecisionCutShort, Decided
  <2>5. QED
    BY <2>3, <2>4
<1>10. ASSUME NEW o \in Officer, SubmitAssign(o) PROVE CaseInv'
  <2>1. UNCHANGED <<role, published, item>> /\ decision' \in {"none"} \cup CompletedStatus
    BY <1>1, <1>10 DEF SubmitAssign, CaseInv, CasePageTypeOK
  <2>2. ASSUME NEW who \in Officer \cup {Nobody}, case' = [case EXCEPT !.who = who],
               After(o, Refreshed(o), NudgedByCase)
        PROVE  CaseInv'
    <3>1. case' \in CaseRow
      BY <1>4, <2>2 DEF CaseRow
    <3>2. QED
      BY <1>1, <1>3, <2>1, <2>2, <3>1, ClickKeeps
  <2>3. CASE UNCHANGED <<case, page>>
    BY <1>5, <2>1, <2>3
  <2>4. QED
    BY <1>10, <2>2, <2>3 DEF SubmitAssign
<1>11. ASSUME NEW o \in Officer, ToggleFlag(o) PROVE CaseInv'
  <2>1. PICK own : own = [page[o] EXCEPT !.flag = ~@]
    OBVIOUS
  <2>2. /\ own \in View /\ own.status = page[o].status /\ own.fetched = page[o].fetched
        /\ own.due = page[o].due /\ own.open = page[o].open /\ own.missed = page[o].missed
        /\ own.form = page[o].form /\ own.live = page[o].live
    BY <1>3, <2>1 DEF View
  <2>3. After(o, own, NudgedByCase) /\ UNCHANGED <<role, published, decision, item>>
    BY <1>11, <2>1 DEF ToggleFlag
  <2>4. case' \in CaseRow
    BY <1>3, <1>4, <1>11 DEF ToggleFlag, View, CaseRow
  <2>5. Own(o, own)
    BY <2>2 DEF Own, Shows
  <2>6. QED
    BY <1>1, <2>3, <2>4, <2>5, ClickKeeps DEF CaseInv, CasePageTypeOK
<1>12. QED
  BY <1>1, <1>2, <1>6, <1>8, <1>9, <1>10, <1>11, PageOfItsOwn DEF CasePageNext

LEMMA InitCase == CasePageInit => CaseInv
<1>1. SUFFICES ASSUME CasePageInit PROVE CaseInv
  OBVIOUS
<1>2. Shut \in View /\ ~Shut.open /\ ~Shut.form
  BY DEF Shut, View, CaseStatus
<1>3. page \in [Officer -> View] /\ \A o \in Officer : ~page[o].open /\ ~page[o].form
  BY <1>1, <1>2 DEF CasePageInit
<1>4. CasePageTypeOK
  BY <1>1, <1>3 DEF CasePageInit, CasePageTypeOK, View, CaseStatus
<1>5. QED
  BY <1>3, <1>4 DEF CaseInv, PageIsRight, AtRest

\* What the page offers, the routes accept.
LEMMA CaseInvSound == CaseInv => CasePageSound
<1>1. SUFFICES ASSUME CaseInv PROVE ShownStatusIsCurrent /\ OffersAreAccepted
  BY DEF CasePageSound
<1>2. ShownStatusIsCurrent
  BY <1>1 DEF CaseInv, PageIsRight, AtRest, Shows, ShownStatusIsCurrent
<1>3. \A o \in Officer : /\ role[o] \in {"mlro", "senior_reviewer", "analyst"}
                         /\ page[o].status \in {"open"} \cup CompletedStatus
                         /\ page[o].form => role[o] # "analyst"
  BY <1>1 DEF CaseInv, CasePageTypeOK, PageIsRight, CaseStatus
<1>4. OffersAreAccepted
  BY <1>3 DEF OffersAreAccepted, OffersActions, OffersDecision, OffersAssign, OffersFlag, IsClosed,
              AcceptsNote, AcceptsDecision, AcceptsAssign, AcceptsFlag, SeesCase
<1>5. QED
  BY <1>2, <1>4
-----------------------------------------------------------------------------
(* The register and the editor of reports.                                 *)

Dossier == [about : Suspicion \cup {Nothing}, exported : BOOLEAN,
            status : {"draft", "submitted"}, text : SUBSET Reporter]
Desk == [view : {"away", "register", "editor"}, tab : RegisterTab, first : BOOLEAN,
         pending : SUBSET Suspicion, upto : 0..MaxReports, on : 0..MaxReports,
         status : {"draft", "submitted"}, form : SUBSET Reporter, due : BOOLEAN, failed : BOOLEAN]

\* What the desk x of o shows of the reports: an editor has what is stored and the changes
\* of its own reporter, unless the report is among those that met two editors.
Holds(x, o, reports, met) ==
    x.view = "editor" /\ x.on \notin met =>
        reports[x.on].text \subseteq x.form /\ x.form \subseteq reports[x.on].text \cup {o}

\* An editor of o waits for an answer to one of the calls.
Waits(o, calls) == \E m \in calls : m.by = o /\ m.here

\* It is locked, or about to be, when the report is filed.
Locks(x, o, reports, calls, met) ==
    x.view = "editor" /\ x.status # "submitted" /\ reports[x.on].status = "submitted" =>
        x.due \/ x.failed \/ x.on \in met \/ Waits(o, calls)

\* A register offers drafts as DraftsOffered says.
Offers(x, reports, n) ==
    x.view = "register" /\ x.tab = "all" =>
        \A k \in 1..n : reports[k].about \in x.pending =>
            k > x.upto \/ ~x.first \/ k < x.upto - PageSize

Sits(x, n) ==
    /\ x.view = "editor" => x.on \in 1..n
    /\ x.due => x.view = "editor"
    /\ x.upto <= n

Apart(x, y, met) == x.view = "editor" /\ y.view = "editor" /\ x.on = y.on => x.on \in met

On(x, k) == x.view = "editor" /\ x.on = k

\* A post that is underway: whoever has its report open is the editor that waits for it, or
\* they have met; a save has the text that is stored and the changes of its reporter.
InFlight(m, desks, reports, n, met) ==
    /\ m.on \in 1..n
    /\ m.here => On(desks[m.by], m.on)
    /\ m.on \notin met => \A o \in Reporter : On(desks[o], m.on) => m.by = o /\ m.here
    /\ m.on \notin met /\ m.kind = "save" /\ ~m.landed =>
         /\ reports[m.on].text \subseteq m.text /\ m.text \subseteq reports[m.on].text \cup {m.by}
         /\ m.here => m.text \subseteq desks[m.by].form

\* One of a kind.
Single(calls, met) ==
    \A m, n \in calls : m.kind = n.kind /\ m.on = n.on /\ m.on \notin met => m = n

SarPagesInv ==
    /\ flagged \subseteq Suspicion /\ drafted \in 0..MaxReports /\ shared \subseteq ReportNo
    /\ dossier \in [ReportNo -> Dossier]
    /\ desk \in [Reporter -> Desk]
    /\ posts \subseteq SarPost
    /\ saved \in [ReportNo -> SUBSET Reporter]
    /\ \A o \in Reporter :
         /\ Holds(desk[o], o, dossier, shared) /\ Locks(desk[o], o, dossier, posts, shared)
         /\ Offers(desk[o], dossier, drafted) /\ Sits(desk[o], drafted)
    /\ \A m \in posts : InFlight(m, desk, dossier, drafted, shared)
    /\ Single(posts, shared)
    /\ \A k \in ReportNo \ shared : saved[k] \subseteq dossier[k].text
    /\ \A k \in ReportNo : k > drafted => saved[k] = {} /\ dossier[k] = Unwritten
    /\ \A o, p \in Reporter : o # p => Apart(desk[o], desk[p], shared)

LEMMA SarPagesInvSound == SarPagesInv => SarPagesTypeOK /\ SarPagesSound
<1>1. SarPagesInv => SarPagesTypeOK
  BY DEF SarPagesInv, SarPagesTypeOK, Dossier, Desk
<1>2. SarPagesInv => SavedTextStays
  BY DEF SarPagesInv, SavedTextStays, Holds
<1>3. SarPagesInv => FiledIsLocked
  BY DEF SarPagesInv, FiledIsLocked, Locks, Unlocked, Waits
<1>4. SarPagesInv => DraftsOffered
  BY DEF SarPagesInv, DraftsOffered, Offers
<1>5. QED
  BY <1>1, <1>2, <1>3, <1>4 DEF SarPagesSound

LEMMA AwayIsDesk == /\ Away \in Desk /\ ~Away.due /\ Away.upto = 0 /\ Away.view = "away"
  BY SarPagesAssumption DEF Away, Desk, RegisterTab

\* One reporter does something else; the reports stay as they are.
LEMMA DeskKeeps ==
    ASSUME SarPagesInv, NEW o \in Reporter, NEW x \in Desk, desk' = [desk EXCEPT ![o] = x],
           UNCHANGED <<drafted, dossier, saved, flagged>>,
           shared \subseteq shared', shared' \subseteq ReportNo, posts' \subseteq SarPost,
           Holds(x, o, dossier, shared'), Locks(x, o, dossier, posts', shared'),
           Offers(x, dossier, drafted), Sits(x, drafted),
           \A p \in Reporter \ {o} : Apart(x, desk[p], shared'),
           \A p \in Reporter \ {o} : Waits(p, posts) => Waits(p, posts'),
           \A m \in posts' : InFlight(m, desk', dossier, drafted, shared'),
           Single(posts', shared')
    PROVE  SarPagesInv'
<1>1. desk' \in [Reporter -> Desk] /\ desk'[o] = x
      /\ \A p \in Reporter \ {o} : desk'[p] = desk[p]
  BY DEF SarPagesInv
<1>2. ASSUME NEW p \in Reporter
      PROVE  /\ Holds(desk'[p], p, dossier, shared')
             /\ Locks(desk'[p], p, dossier, posts', shared')
             /\ Offers(desk'[p], dossier, drafted) /\ Sits(desk'[p], drafted)
  BY <1>1 DEF SarPagesInv, Holds, Locks
<1>3. ASSUME NEW p \in Reporter, NEW q \in Reporter, p # q
      PROVE  Apart(desk'[p], desk'[q], shared')
  BY <1>1, <1>3 DEF SarPagesInv, Apart
<1>4. QED
  BY <1>1, <1>2, <1>3 DEF SarPagesInv

\* A post survives what its reporter and the others do, if the editor that waits for it is
\* left alone and another one that opens on its report has met it.
LEMMA InFlightKeeps ==
    ASSUME NEW m \in SarPost, NEW o \in Reporter, NEW x \in Desk, NEW met, shared \subseteq met,
           desk \in [Reporter -> Desk], InFlight(m, desk, dossier, drafted, shared),
           desk' = [desk EXCEPT ![o] = x],
           m.by = o /\ m.here => On(x, desk[o].on) /\ desk[o].form \subseteq x.form,
           On(x, m.on) /\ m.on \notin met => On(desk[o], m.on)
    PROVE  InFlight(m, desk', dossier, drafted, met)
<1>1. desk'[o] = x /\ \A p \in Reporter \ {o} : desk'[p] = desk[p]
  OBVIOUS
<1>2. m.by \in Reporter
  BY DEF SarPost
<1>3. m.on \in 1..drafted /\ (m.here => On(desk'[m.by], m.on))
  BY <1>1, <1>2 DEF InFlight, On
<1>4. m.on \notin met => \A p \in Reporter : On(desk'[p], m.on) => m.by = p /\ m.here
  BY <1>1 DEF InFlight
<1>5. m.on \notin met /\ m.kind = "save" /\ ~m.landed =>
        /\ dossier[m.on].text \subseteq m.text /\ m.text \subseteq dossier[m.on].text \cup {m.by}
        /\ m.here => m.text \subseteq desk'[m.by].form
  BY <1>1, <1>2 DEF InFlight
<1>6. QED
  BY <1>3, <1>4, <1>5 DEF InFlight

\* The posts stay, and the desk of a reporter who waits for none of them changes.
LEMMA IdleKeeps ==
    ASSUME SarPagesInv, NEW o \in Reporter, NEW x \in Desk, desk' = [desk EXCEPT ![o] = x],
           posts' = posts, shared \subseteq shared',
           \/ desk[o].view # "editor"
           \/ On(x, desk[o].on) /\ desk[o].form \subseteq x.form,
           \A m \in posts : On(x, m.on) /\ m.on \notin shared' => On(desk[o], m.on)
    PROVE  /\ posts' \subseteq SarPost /\ Single(posts', shared')
           /\ \A m \in posts' : InFlight(m, desk', dossier, drafted, shared')
           /\ \A p \in Reporter \ {o} : Waits(p, posts) => Waits(p, posts')
           /\ Waits(o, posts) => Waits(o, posts')
<1>1. posts \subseteq SarPost /\ Single(posts, shared) /\ desk \in [Reporter -> Desk]
      /\ \A m \in posts : InFlight(m, desk, dossier, drafted, shared)
  BY DEF SarPagesInv
<1>2. ASSUME NEW m \in posts PROVE InFlight(m, desk', dossier, drafted, shared')
  <2>1. m \in SarPost /\ InFlight(m, desk, dossier, drafted, shared)
    BY <1>1
  <2>2. m.by = o /\ m.here => On(x, desk[o].on) /\ desk[o].form \subseteq x.form
    BY <2>1 DEF InFlight, On
  <2>3. QED
    BY <1>1, <2>1, <2>2, InFlightKeeps
<1>3. Single(posts', shared')
  BY <1>1 DEF Single
<1>4. QED
  BY <1>1, <1>2, <1>3

\* A handler, or a download, changes a report.
LEMMA ReportKeeps ==
    ASSUME SarPagesInv, NEW k \in ReportNo, k \in 1..drafted,
           NEW d \in Dossier, dossier' = [dossier EXCEPT ![k] = d], d.about = dossier[k].about,
           NEW s \in SUBSET Reporter, saved' = [saved EXCEPT ![k] = s],
           UNCHANGED <<drafted, flagged, shared, desk>>, posts' \subseteq SarPost,
           k \notin shared => s \subseteq d.text,
           k \notin shared => \A p \in Reporter : On(desk[p], k) =>
               /\ d.text \subseteq desk[p].form /\ desk[p].form \subseteq d.text \cup {p}
               /\ d.status = "submitted" /\ desk[p].status # "submitted" =>
                    desk[p].due \/ desk[p].failed \/ Waits(p, posts'),
           \A p \in Reporter : Waits(p, posts) => Waits(p, posts'),
           \A m \in posts' : InFlight(m, desk, dossier', drafted, shared),
           Single(posts', shared)
    PROVE  SarPagesInv'
<1>1. dossier' \in [ReportNo -> Dossier] /\ dossier'[k] = d
      /\ \A j \in ReportNo \ {k} : dossier'[j] = dossier[j]
  BY DEF SarPagesInv
<1>2. saved' \in [ReportNo -> SUBSET Reporter] /\ saved'[k] = s
      /\ \A j \in ReportNo \ {k} : saved'[j] = saved[j]
  BY DEF SarPagesInv
<1>3. /\ drafted \in 0..MaxReports /\ shared \subseteq ReportNo /\ MaxReports \in Nat
      /\ flagged \subseteq Suspicion /\ desk \in [Reporter -> Desk]
      /\ \A p, q \in Reporter : p # q => Apart(desk[p], desk[q], shared)
  BY SarPagesAssumption DEF SarPagesInv
<1>4. \A j \in 1..drafted : j \in ReportNo /\ dossier'[j].about = dossier[j].about
  BY <1>1, <1>3 DEF ReportNo
<1>5. ASSUME NEW p \in Reporter
      PROVE  /\ Holds(desk[p], p, dossier', shared)
             /\ Locks(desk[p], p, dossier', posts', shared)
             /\ Offers(desk[p], dossier', drafted) /\ Sits(desk[p], drafted)
  <2>1. /\ Holds(desk[p], p, dossier, shared) /\ Locks(desk[p], p, dossier, posts, shared)
        /\ Offers(desk[p], dossier, drafted) /\ Sits(desk[p], drafted)
    BY DEF SarPagesInv
  <2>2. Offers(desk[p], dossier', drafted)
    BY <1>4, <2>1 DEF Offers
  <2>3. CASE On(desk[p], k)
    BY <1>1, <2>1, <2>2, <2>3 DEF Holds, Locks, On
  <2>4. CASE ~On(desk[p], k)
    <3>1. desk[p].view = "editor" => desk[p].on \in ReportNo \ {k}
      BY <1>3, <2>1, <2>4 DEF Sits, On, ReportNo
    <3>2. Holds(desk[p], p, dossier', shared)
      BY <1>1, <2>1, <3>1 DEF Holds
    <3>3. Locks(desk[p], p, dossier', posts', shared)
      BY <1>1, <2>1, <3>1 DEF Locks
    <3>4. QED
      BY <2>1, <2>2, <3>2, <3>3
  <2>5. QED
    BY <2>3, <2>4
<1>6. \A j \in ReportNo \ shared : saved'[j] \subseteq dossier'[j].text
  BY <1>1, <1>2 DEF SarPagesInv
<1>7. \A j \in ReportNo : j > drafted => saved'[j] = {} /\ dossier'[j] = Unwritten
  BY <1>1, <1>2, <1>3 DEF SarPagesInv
<1>8. drafted' = drafted /\ flagged' = flagged /\ shared' = shared /\ desk' = desk
  OBVIOUS
<1>9. SarPagesInv'
  BY ONLY <1>1, <1>2, <1>3, <1>5, <1>6, <1>7, <1>8, posts' \subseteq SarPost,
          \A m \in posts' : InFlight(m, desk, dossier', drafted, shared),
          Single(posts', shared)
     DEF SarPagesInv
<1>10. QED
  BY <1>9

LEMMA OfferedRegister ==
    ASSUME SarPagesInv, NEW choice \in RegisterTab, choice = "all",
           NEW k \in 1..drafted, dossier[k].about \in PendingDraft(choice, 0)
    PROVE  k < drafted - PageSize
<1>1. drafted \in Nat /\ k \in Int /\ PageSize \in Nat
  BY SarPagesAssumption DEF SarPagesInv
<1>2. Matching(choice) = 1..drafted
  BY DEF Matching
<1>3. {j \in Matching(choice) : j > k} = (k+1)..drafted
  BY <1>1, <1>2
<1>4. Newer(k, choice) = drafted - k
  <2>1. Cardinality((k+1)..drafted) = drafted - k
    <3>1. k + 1 \in Int /\ drafted \in Int
      BY <1>1
    <3>2. Cardinality((k+1)..drafted) = IF k + 1 > drafted THEN 0 ELSE drafted - (k + 1) + 1
      BY <3>1, FS_Interval
    <3>3. QED
      BY <1>1, <3>2
  <2>2. QED
    BY <1>3, <2>1 DEF Newer
<1>5. k \notin Fetched(choice, 0)
  BY DEF PendingDraft
<1>6. ~(Newer(k, choice) >= 0 /\ Newer(k, choice) <= 0 + PageSize)
  BY <1>2, <1>5 DEF Fetched
<1>7. QED
  BY <1>1, <1>4, <1>6

\* The register shows what is pending for what it fetched.
LEMMA OpenRegisterKeeps ==
    ASSUME SarPagesInv, NEW o \in Reporter, OpenRegister(o)
    PROVE  SarPagesInv'
<1>1. PICK choice \in RegisterTab, offset \in {n * PageSize : n \in 0..MaxReports} :
        desk' = [desk EXCEPT ![o] = [Away EXCEPT !.view = "register", !.tab = choice,
                                        !.first = (offset = 0), !.upto = drafted,
                                        !.pending = PendingDraft(choice, offset)]]
  BY DEF OpenRegister
<1>2. PICK x : x = [Away EXCEPT !.view = "register", !.tab = choice, !.first = (offset = 0),
                                !.upto = drafted, !.pending = PendingDraft(choice, offset)]
  OBVIOUS
<1>3. /\ x.view = "register" /\ x.tab = choice /\ x.first = (offset = 0) /\ x.upto = drafted
      /\ x.pending = PendingDraft(choice, offset) /\ x.due = FALSE
  BY <1>2 DEF Away
<1>4. x \in Desk
  <2>1. PendingDraft(choice, offset) \subseteq Suspicion /\ drafted \in 0..MaxReports
        /\ (offset = 0) \in BOOLEAN
    BY DEF SarPagesInv, PendingDraft
  <2>2. QED
    BY <1>2, <2>1, AwayIsDesk DEF Desk
<1>5. Offers(x, dossier, drafted)
  <2>1. SUFFICES ASSUME choice = "all", offset = 0, NEW k \in 1..drafted,
                        dossier[k].about \in PendingDraft(choice, offset)
                 PROVE  k < drafted - PageSize
    BY <1>3 DEF Offers
  <2>2. QED
    BY <2>1, OfferedRegister
<1>6. /\ UNCHANGED <<flagged, drafted, dossier, posts, saved, shared>>
      /\ desk' = [desk EXCEPT ![o] = x]
      /\ shared \subseteq ReportNo /\ desk[o].view = "away"
  BY <1>1, <1>2 DEF OpenRegister, SarPagesInv
<1>7. /\ Holds(x, o, dossier, shared') /\ Locks(x, o, dossier, posts', shared') /\ Sits(x, drafted)
      /\ \A p \in Reporter \ {o} : Apart(x, desk[p], shared')
      /\ \A m \in posts : ~On(x, m.on)
  BY <1>3, <1>6 DEF Holds, Locks, Sits, Apart, On, SarPagesInv
<1>8. /\ posts' \subseteq SarPost /\ Single(posts', shared')
      /\ \A m \in posts' : InFlight(m, desk', dossier, drafted, shared')
      /\ \A p \in Reporter \ {o} : Waits(p, posts) => Waits(p, posts')
  BY <1>4, <1>6, <1>7, IdleKeeps
<1>9. QED
  BY <1>4, <1>5, <1>6, <1>7, <1>8, DeskKeeps

\* The text of a new report is empty, and so is the editor that opens on it.
LEMMA DraftKeeps ==
    ASSUME SarPagesInv, NEW o \in Reporter, DraftFromCase(o)
    PROVE  SarPagesInv'
<1>1. PICK k : k = drafted + 1
  OBVIOUS
<1>2. k \in ReportNo /\ drafted \in Nat /\ drafted' = k /\ k \in 0..MaxReports /\ k \in Nat
      /\ MaxReports \in Nat /\ \A j \in 1..k : j # k => j \in 1..drafted
  BY <1>1, SarPagesAssumption DEF DraftFromCase, SarPagesInv, ReportNo
<1>3. PICK c \in Suspicion : dossier' = [dossier EXCEPT ![k] = [Unwritten EXCEPT !.about = c]]
  BY <1>1 DEF DraftFromCase, SarPagesInv, Desk
<1>4. PICK d : d = [Unwritten EXCEPT !.about = c]
  OBVIOUS
<1>5. d \in Dossier /\ d.text = {} /\ d.status = "draft"
  BY <1>4 DEF Unwritten, Dossier
<1>6. dossier' \in [ReportNo -> Dossier] /\ dossier'[k] = d
      /\ \A j \in ReportNo \ {k} : dossier'[j] = dossier[j]
  BY <1>2, <1>3, <1>4, <1>5 DEF SarPagesInv
<1>7. UNCHANGED <<flagged, posts, saved, shared>> /\ shared \subseteq ReportNo
  BY DEF DraftFromCase, SarPagesInv
<1>8. dossier[k].status = "draft" /\ dossier[k].text = {} /\ saved[k] = {}
  BY <1>1, <1>2 DEF SarPagesInv, Unwritten
<1>9. PICK new : new = [Away EXCEPT !.view = "editor", !.on = k, !.status = "draft", !.form = {}]
  OBVIOUS
<1>10. new \in Desk /\ new.view = "editor" /\ new.on = k /\ new.form = {} /\ ~new.due
       /\ new.upto = 0 /\ new.status = "draft"
  BY <1>2, <1>9, AwayIsDesk DEF Desk, Away
<1>11. desk' = [desk EXCEPT ![o] = new] \/ desk' = desk
  BY <1>1, <1>8, <1>9 DEF DraftFromCase, Editor
<1>12. /\ desk' \in [Reporter -> Desk]
       /\ \A p \in Reporter : desk'[p] = desk[p] \/ (p = o /\ desk'[p] = new)
  <2>1. desk \in [Reporter -> Desk]
    BY DEF SarPagesInv
  <2>2. CASE desk' = [desk EXCEPT ![o] = new]
    BY <1>10, <2>1, <2>2
  <2>3. QED
    BY <1>11, <2>1, <2>2
<1>13. ASSUME NEW p \in Reporter
       PROVE  /\ Holds(desk'[p], p, dossier', shared)
              /\ Locks(desk'[p], p, dossier', posts, shared)
              /\ Offers(desk'[p], dossier', k) /\ Sits(desk'[p], k)
  <2>1. CASE desk'[p] = desk[p]
    <3>1. /\ Holds(desk[p], p, dossier, shared) /\ Locks(desk[p], p, dossier, posts, shared)
          /\ Offers(desk[p], dossier, drafted) /\ Sits(desk[p], drafted) /\ desk[p] \in Desk
      BY DEF SarPagesInv
    <3>2. desk[p].view = "editor" => desk[p].on \in ReportNo \ {k}
      BY <1>1, <1>2, <3>1 DEF Sits, ReportNo
    <3>3. Offers(desk[p], dossier', k)
      <4>1. SUFFICES ASSUME desk[p].view = "register", desk[p].tab = "all", NEW j \in 1..k,
                            dossier'[j].about \in desk[p].pending
                     PROVE  j > desk[p].upto \/ ~desk[p].first \/ j < desk[p].upto - PageSize
        BY DEF Offers
      <4>2. CASE j = k
        <5>1. desk[p].upto \in Nat
          BY <3>1 DEF Desk
        <5>2. QED
          BY <1>1, <1>2, <3>1, <4>2, <5>1 DEF Sits
      <4>3. CASE j # k
        <5>1. j \in 1..drafted /\ j \in ReportNo \ {k}
          BY <1>2, <4>3 DEF ReportNo
        <5>2. QED
          BY <1>6, <3>1, <4>1, <5>1 DEF Offers
      <4>4. QED
        BY <4>2, <4>3
    <3>4. Holds(desk[p], p, dossier', shared)
      BY <1>6, <3>1, <3>2 DEF Holds
    <3>5. Locks(desk[p], p, dossier', posts, shared)
      BY <1>6, <3>1, <3>2 DEF Locks
    <3>6. Sits(desk[p], k)
      <4>1. desk[p].upto \in Nat
        BY <3>1 DEF Desk
      <4>2. QED
        BY <1>1, <1>2, <3>1, <4>1 DEF Sits
    <3>7. QED
      BY <2>1, <3>3, <3>4, <3>5, <3>6
  <2>2. CASE desk'[p] = new
    <3>1. Holds(new, p, dossier', shared) /\ Locks(new, p, dossier', posts, shared)
      BY <1>5, <1>6, <1>10 DEF Holds, Locks
    <3>2. Offers(new, dossier', k)
      BY <1>10 DEF Offers
    <3>3. Sits(new, k)
      BY <1>1, <1>2, <1>10 DEF Sits
    <3>4. QED
      BY <2>2, <3>1, <3>2, <3>3
  <2>3. QED
    BY <1>12, <2>1, <2>2
<1>14. ASSUME NEW p \in Reporter, NEW q \in Reporter, p # q
       PROVE  Apart(desk'[p], desk'[q], shared)
  <2>1. Apart(desk[p], desk[q], shared) /\ Sits(desk[p], drafted) /\ Sits(desk[q], drafted)
    BY <1>14 DEF SarPagesInv
  <2>2. k \notin 1..drafted
    BY <1>1, <1>2
  <2>3. QED
    BY <1>10, <1>12, <1>14, <2>1, <2>2 DEF Apart, Sits
<1>15. \A j \in ReportNo \ shared : saved[j] \subseteq dossier'[j].text
  BY <1>6, <1>8 DEF SarPagesInv
<1>16. \A j \in ReportNo : j > k => saved[j] = {} /\ dossier'[j] = Unwritten
  <2>1. \A j \in ReportNo : j > k => j > drafted /\ j # k
    BY <1>1, <1>2 DEF ReportNo
  <2>2. QED
    BY <1>6, <2>1 DEF SarPagesInv
<1>17. flagged \subseteq Suspicion /\ saved \in [ReportNo -> SUBSET Reporter]
       /\ posts \subseteq SarPost /\ Single(posts, shared) /\ desk[o].view = "register"
  BY DEF SarPagesInv, DraftFromCase
<1>18. ASSUME NEW m \in posts PROVE InFlight(m, desk', dossier', k, shared)
  <2>1. m \in SarPost /\ InFlight(m, desk, dossier, drafted, shared) /\ m.by \in Reporter
        /\ desk \in [Reporter -> Desk]
    BY <1>17 DEF SarPagesInv, SarPost
  <2>2. m.on \in 1..drafted /\ m.on \in 1..k /\ m.on # k /\ m.on \in ReportNo \ {k}
    BY <1>1, <1>2, <2>1 DEF InFlight, ReportNo
  <2>3. dossier'[m.on] = dossier[m.on]
    BY <1>6, <2>2
  <2>4. \A p \in Reporter : On(desk'[p], m.on) => On(desk[p], m.on)
    BY <1>10, <1>12, <2>2 DEF On
  <2>5. m.here => desk'[m.by] = desk[m.by]
    BY <1>11, <1>17, <2>1 DEF InFlight, On
  <2>6. QED
    BY <2>1, <2>2, <2>3, <2>4, <2>5 DEF InFlight
<1>19. QED
  BY ONLY <1>2, <1>6, <1>7, <1>12, <1>13, <1>14, <1>15, <1>16, <1>17, <1>18 DEF SarPagesInv

\* What an action on the desk of o starts from.
LEMMA AtDesk ==
    ASSUME SarPagesInv, NEW o \in Reporter
    PROVE  /\ desk[o] \in Desk /\ Holds(desk[o], o, dossier, shared)
           /\ Locks(desk[o], o, dossier, posts, shared) /\ Offers(desk[o], dossier, drafted)
           /\ Sits(desk[o], drafted) /\ desk \in [Reporter -> Desk]
           /\ shared \subseteq ReportNo /\ dossier \in [ReportNo -> Dossier]
           /\ posts \subseteq SarPost /\ Single(posts, shared)
           /\ \A m \in posts : InFlight(m, desk, dossier, drafted, shared)
           /\ drafted \in 0..MaxReports /\ MaxReports \in Nat
           /\ \A p \in Reporter \ {o} : Apart(desk[o], desk[p], shared)
  BY SarPagesAssumption DEF SarPagesInv

LEMMA OpenReportKeeps ==
    ASSUME SarPagesInv, NEW o \in Reporter, OpenReport(o)
    PROVE  SarPagesInv'
<1>1. PICK k \in 1..drafted : /\ desk' = [desk EXCEPT ![o] = Editor(k)]
                              /\ shared' = IF Met(o, k) THEN shared \cup {k} ELSE shared
  BY DEF OpenReport
<1>2. k \in ReportNo /\ k \in 0..MaxReports
  BY <1>1, AtDesk DEF ReportNo
<1>3. PICK x : x = Editor(k)
  OBVIOUS
<1>4. dossier[k].status \in {"draft", "submitted"} /\ dossier[k].text \subseteq Reporter
  BY <1>2, AtDesk DEF Dossier
<1>5. /\ x \in Desk /\ x.view = "editor" /\ x.on = k /\ x.status = dossier[k].status
      /\ x.form = dossier[k].text /\ ~x.due /\ x.upto = 0
  BY <1>2, <1>3, <1>4, AwayIsDesk DEF Editor, Away, Desk
<1>6. /\ shared \subseteq shared' /\ shared' \subseteq ReportNo /\ desk[o].view # "editor"
      /\ UNCHANGED <<drafted, dossier, posts, saved, flagged>>
      /\ desk' = [desk EXCEPT ![o] = x]
  BY <1>1, <1>2, <1>3, AtDesk DEF OpenReport
<1>7. \A p \in Reporter \ {o} : Apart(x, desk[p], shared')
  BY <1>1, <1>5 DEF Apart, Met
<1>8. /\ Holds(x, o, dossier, shared') /\ Locks(x, o, dossier, posts', shared')
      /\ Offers(x, dossier, drafted) /\ Sits(x, drafted)
  BY <1>1, <1>5, AtDesk DEF Holds, Locks, Offers, Sits
<1>9. \A m \in posts : On(x, m.on) => m.on \in shared'
  BY <1>1, <1>5 DEF On, Met
<1>10. /\ posts' \subseteq SarPost /\ Single(posts', shared')
       /\ \A m \in posts' : InFlight(m, desk', dossier, drafted, shared')
       /\ \A p \in Reporter \ {o} : Waits(p, posts) => Waits(p, posts')
  BY <1>5, <1>6, <1>9, IdleKeeps
<1>11. QED
  BY <1>5, <1>6, <1>7, <1>8, <1>10, DeskKeeps

\* The posts of an editor that is left go on without it.
LEMMA LeaveDeskKeeps ==
    ASSUME SarPagesInv, NEW o \in Reporter, LeaveDesk(o)
    PROVE  SarPagesInv'
<1>1. PICK x \in Desk : x = Away /\ ~x.due /\ x.upto = 0 /\ x.view = "away"
  BY AwayIsDesk
<1>2. /\ shared' = shared /\ desk' = [desk EXCEPT ![o] = x]
      /\ UNCHANGED <<drafted, dossier, saved, flagged>>
      /\ posts' = {m \in posts : m.by # o}
                  \cup {[m EXCEPT !.here = FALSE] : m \in {m \in posts : m.by = o /\ ~m.landed}}
  BY <1>1 DEF LeaveDesk
<1>3. /\ Holds(x, o, dossier, shared) /\ Locks(x, o, dossier, posts', shared)
      /\ Offers(x, dossier, drafted) /\ Sits(x, drafted)
      /\ \A p \in Reporter \ {o} : Apart(x, desk[p], shared)
  BY <1>1, AtDesk DEF Holds, Locks, Offers, Sits, Apart
\* Each post now was one before.
<1>4. ASSUME NEW n \in posts'
      PROVE  \E m \in posts :
               /\ n \in SarPost /\ n.by = m.by /\ n.on = m.on /\ n.kind = m.kind
               /\ n.text = m.text /\ n.landed = m.landed
               /\ n.by = o => n = [m EXCEPT !.here = FALSE] /\ ~n.here
               /\ n.by # o => n = m
  <2>1. posts \subseteq SarPost
    BY AtDesk
  <2>2. CASE n \in {m \in posts : m.by # o}
    BY <2>1, <2>2
  <2>3. CASE n \in {[m EXCEPT !.here = FALSE] : m \in {m \in posts : m.by = o /\ ~m.landed}}
    <3>1. PICK m \in posts : m.by = o /\ n = [m EXCEPT !.here = FALSE]
      BY <2>3
    <3>2. m \in SarPost
      BY <2>1
    <3>3. /\ n \in SarPost /\ n.by = m.by /\ n.on = m.on /\ n.kind = m.kind
          /\ n.text = m.text /\ n.landed = m.landed /\ ~n.here
      BY <3>1, <3>2 DEF SarPost
    <3>4. QED
      BY <3>1, <3>3
  <2>4. QED
    BY <1>2, <2>2, <2>3
<1>5. posts' \subseteq SarPost
  BY <1>4
<1>6. ASSUME NEW n \in posts' PROVE InFlight(n, desk', dossier, drafted, shared)
  <2>1. PICK m \in posts :
               /\ n \in SarPost /\ n.by = m.by /\ n.on = m.on /\ n.kind = m.kind
               /\ n.text = m.text /\ n.landed = m.landed
               /\ n.by = o => n = [m EXCEPT !.here = FALSE] /\ ~n.here
               /\ n.by # o => n = m
    BY <1>4
  <2>2. InFlight(m, desk, dossier, drafted, shared) /\ n.by \in Reporter
        /\ desk \in [Reporter -> Desk]
    BY <2>1, AtDesk DEF SarPost
  <2>3. desk'[o] = x /\ \A p \in Reporter \ {o} : desk'[p] = desk[p]
    BY <1>2, <2>2
  <2>4. \A p \in Reporter : On(desk'[p], n.on) => p # o /\ On(desk[p], n.on)
    BY <1>1, <2>3 DEF On
  <2>5. n.here => n.by # o /\ n = m /\ desk'[n.by] = desk[n.by]
    BY <2>1, <2>2, <2>3
  <2>6. n.on \notin shared => \A p \in Reporter : On(desk'[p], n.on) => n.by = p /\ n.here
    BY <2>1, <2>2, <2>4 DEF InFlight
  <2>7. QED
    BY <2>1, <2>2, <2>5, <2>6 DEF InFlight
<1>7. Single(posts', shared)
  <2>1. SUFFICES ASSUME NEW n \in posts', NEW l \in posts', n.kind = l.kind, n.on = l.on,
                        n.on \notin shared
                 PROVE  n = l
    BY DEF Single
  <2>2. PICK m \in posts : /\ n.by = m.by /\ n.on = m.on /\ n.kind = m.kind
                           /\ n.by = o => n = [m EXCEPT !.here = FALSE]
                           /\ n.by # o => n = m
    BY <1>4
  <2>3. PICK k \in posts : /\ l.by = k.by /\ l.on = k.on /\ l.kind = k.kind
                           /\ l.by = o => l = [k EXCEPT !.here = FALSE]
                           /\ l.by # o => l = k
    BY <1>4
  <2>4. m = k
    BY <2>1, <2>2, <2>3, AtDesk DEF Single
  <2>5. QED
    BY <2>2, <2>3, <2>4
<1>8. \A p \in Reporter \ {o} : Waits(p, posts) => Waits(p, posts')
  BY <1>2 DEF Waits
<1>9. shared \subseteq ReportNo
  BY AtDesk
<1>10. QED
  BY <1>1, <1>2, <1>3, <1>5, <1>6, <1>7, <1>8, <1>9, DeskKeeps

\* An editor that is refreshed or changed.
LEMMA EditorKeeps ==
    ASSUME SarPagesInv, NEW o \in Reporter, RefreshEditor(o) \/ ChangeText(o)
    PROVE  SarPagesInv'
<1>1. UNCHANGED <<drafted, dossier, posts, saved, flagged, shared>>
  BY DEF RefreshEditor, ChangeText
<1>2. ASSUME NEW x \in Desk, desk' = [desk EXCEPT ![o] = x], x.view = "editor",
             desk[o].view = "editor", x.on = desk[o].on, x.upto = desk[o].upto,
             desk[o].form \subseteq x.form, x.form \subseteq desk[o].form \cup {o},
             Locks(x, o, dossier, posts, shared)
      PROVE  SarPagesInv'
  <2>1. /\ Holds(x, o, dossier, shared) /\ Offers(x, dossier, drafted) /\ Sits(x, drafted)
        /\ \A p \in Reporter \ {o} : Apart(x, desk[p], shared)
        /\ On(x, desk[o].on)
        /\ \A m \in posts : On(x, m.on) => On(desk[o], m.on)
    BY <1>2, AtDesk DEF Holds, Offers, Sits, Apart, On
  <2>2. /\ posts' \subseteq SarPost /\ Single(posts', shared')
        /\ \A m \in posts' : InFlight(m, desk', dossier, drafted, shared')
        /\ \A p \in Reporter \ {o} : Waits(p, posts) => Waits(p, posts')
    BY <1>1, <1>2, <2>1, IdleKeeps
  <2>3. shared \subseteq ReportNo
    BY AtDesk
  <2>4. QED
    BY <1>1, <1>2, <2>1, <2>2, <2>3, DeskKeeps
<1>3. CASE RefreshEditor(o)
  <2>1. desk[o].view = "editor" /\ desk[o].on \in ReportNo
    BY <1>3, AtDesk DEF RefreshEditor, Sits, ReportNo
  <2>2. PICK x : x = [desk[o] EXCEPT !.due = FALSE, !.status = dossier[desk[o].on].status]
    OBVIOUS
  <2>3. dossier[desk[o].on].status \in {"draft", "submitted"}
    BY <2>1, AtDesk DEF Dossier
  <2>4. /\ x \in Desk /\ x.view = "editor" /\ x.on = desk[o].on /\ x.form = desk[o].form
        /\ x.status = dossier[x.on].status /\ x.upto = desk[o].upto
    BY <2>1, <2>2, <2>3, AtDesk DEF Desk
  <2>5. desk' = [desk EXCEPT ![o] = x]
    BY <1>3, <2>2, AtDesk DEF RefreshEditor
  <2>6. Locks(x, o, dossier, posts, shared)
    BY <2>4 DEF Locks
  <2>7. QED
    BY <1>2, <2>1, <2>4, <2>5, <2>6
<1>4. CASE ChangeText(o)
  <2>1. PICK x : x = [desk[o] EXCEPT !.form = @ \cup {o}]
    OBVIOUS
  <2>2. /\ x \in Desk /\ x.view = "editor" /\ x.on = desk[o].on /\ x.form = desk[o].form \cup {o}
        /\ x.status = desk[o].status /\ x.upto = desk[o].upto
        /\ x.due = desk[o].due /\ x.failed = desk[o].failed /\ desk[o].view = "editor"
    BY <1>4, <2>1, AtDesk DEF Desk, ChangeText, Unlocked
  <2>3. desk' = [desk EXCEPT ![o] = x]
    BY <1>4, <2>1, AtDesk DEF ChangeText
  <2>4. Locks(x, o, dossier, posts, shared)
    BY <2>2, AtDesk DEF Locks
  <2>5. QED
    BY <1>2, <2>2, <2>3, <2>4
<1>5. QED
  BY <1>3, <1>4

\* The new post has the text of its editor.  There is no other of its kind, unless the
\* editor met somebody.
LEMMA StartPostKeeps ==
    ASSUME SarPagesInv, NEW o \in Reporter, NEW kind \in {"save", "file"}, StartPost(o, kind)
    PROVE  SarPagesInv'
<1> DEFINE k == desk[o].on
           new == [by |-> o, on |-> k, kind |-> kind, here |-> TRUE,
                   text |-> IF kind = "save" THEN desk[o].form ELSE {}, landed |-> FALSE]
<1>1. /\ desk[o].view = "editor" /\ posts' = posts \cup {new}
      /\ \A m \in posts : m.by = o /\ m.here => m.kind # kind
      /\ UNCHANGED <<drafted, dossier, saved, flagged, shared>>
  BY DEF StartPost, Unlocked
<1>2. k \in ReportNo /\ k \in 1..drafted /\ desk[o].form \subseteq Reporter
  BY <1>1, AtDesk DEF Sits, ReportNo, Desk
<1>3. /\ new \in SarPost /\ new.by = o /\ new.on = k /\ new.kind = kind /\ new.here
      /\ kind = "save" => new.text = desk[o].form
  BY <1>2 DEF SarPost
<1> HIDE DEF new
<1>4. PICK x : x = [desk[o] EXCEPT !.failed = FALSE]
  OBVIOUS
<1>5. /\ x \in Desk /\ x.view = "editor" /\ x.on = k /\ x.form = desk[o].form
      /\ x.upto = desk[o].upto
  BY <1>1, <1>4, AtDesk DEF Desk
<1>6. desk' = [desk EXCEPT ![o] = x]
  BY <1>4, AtDesk DEF StartPost
<1>7. /\ Holds(x, o, dossier, shared) /\ Offers(x, dossier, drafted) /\ Sits(x, drafted)
      /\ \A p \in Reporter \ {o} : Apart(x, desk[p], shared)
  BY <1>1, <1>5, AtDesk DEF Holds, Offers, Sits, Apart
<1>8. Waits(o, posts') /\ \A p \in Reporter : Waits(p, posts) => Waits(p, posts')
  BY <1>1, <1>3 DEF Waits
<1>9. Locks(x, o, dossier, posts', shared)
  BY <1>8 DEF Locks
<1>10. ASSUME NEW m \in posts PROVE InFlight(m, desk', dossier, drafted, shared)
  <2>1. m \in SarPost /\ InFlight(m, desk, dossier, drafted, shared)
        /\ desk \in [Reporter -> Desk]
    BY AtDesk
  <2>2. On(x, desk[o].on) /\ desk[o].form \subseteq x.form /\ (On(x, m.on) => On(desk[o], m.on))
    BY <1>1, <1>5 DEF On
  <2>3. QED
    BY <1>5, <1>6, <2>1, <2>2, InFlightKeeps
<1>11. InFlight(new, desk', dossier, drafted, shared)
  <2>1. desk \in [Reporter -> Desk] /\ Holds(desk[o], o, dossier, shared)
        /\ \A p \in Reporter \ {o} : Apart(desk[o], desk[p], shared)
    BY AtDesk
  <2>2. desk'[o] = x /\ \A p \in Reporter \ {o} : desk'[p] = desk[p]
    BY <1>6, <2>1
  <2>3. k \notin shared => \A p \in Reporter : On(desk'[p], k) => p = o
    BY <1>1, <2>1, <2>2 DEF Apart, On
  <2>4. On(desk'[o], k)
    BY <1>5, <2>2 DEF On
  <2>5. k \notin shared /\ kind = "save" =>
          dossier[k].text \subseteq new.text /\ new.text \subseteq dossier[k].text \cup {o}
    BY <1>1, <1>3, <2>1 DEF Holds
  <2>6. kind = "save" => new.text \subseteq desk'[o].form
    BY <1>3, <1>5, <2>2
  <2>7. QED
    BY <1>2, <1>3, <2>3, <2>4, <2>5, <2>6 DEF InFlight
<1>12. Single(posts', shared)
  <2>1. ASSUME NEW m \in posts, m.kind = kind, m.on = k, k \notin shared PROVE FALSE
    <3>1. On(desk[o], m.on)
      BY <1>1, <2>1 DEF On
    <3>2. m.by = o /\ m.here
      BY <2>1, <3>1, AtDesk DEF InFlight
    <3>3. QED
      BY <1>1, <2>1, <3>2
  <2>2. Single(posts, shared)
    BY AtDesk
  <2>3. QED
    BY <1>1, <1>3, <2>1, <2>2 DEF Single
<1>13. /\ posts' \subseteq SarPost /\ shared \subseteq ReportNo
       /\ \A m \in posts' : InFlight(m, desk', dossier, drafted, shared)
  BY <1>1, <1>3, <1>10, <1>11, AtDesk
<1>14. QED
  BY <1>1, <1>5, <1>6, <1>7, <1>8, <1>9, <1>12, <1>13, DeskKeeps

LEMMA ReceiveAnswerKeeps ==
    ASSUME SarPagesInv, NEW m \in posts, ReceiveAnswer(m)
    PROVE  SarPagesInv'
<1>1. m \in SarPost /\ m.by \in Reporter /\ posts \subseteq SarPost
  BY DEF SarPagesInv, SarPost
<1>2. PICK o \in Reporter : o = m.by
  BY <1>1
<1>3. PICK ok \in BOOLEAN :
        desk' = IF m.here THEN [desk EXCEPT ![m.by].due = @ \/ (ok /\ TRUE),
                                            ![m.by].failed = @ \/ ~ok]
                ELSE desk
  BY DEF ReceiveAnswer, Answered
<1>4. posts' = posts \ {m} /\ UNCHANGED <<flagged, drafted, dossier, saved, shared>>
  BY DEF ReceiveAnswer, Answered
<1>5. PICK x : x = IF m.here THEN [desk[o] EXCEPT !.due = @ \/ (ok /\ TRUE),
                                                  !.failed = @ \/ ~ok]
                   ELSE desk[o]
  OBVIOUS
<1>6. desk[o] \in Desk /\ desk \in [Reporter -> Desk]
  BY AtDesk
<1>7. /\ x \in Desk /\ x.view = desk[o].view /\ x.on = desk[o].on /\ x.form = desk[o].form
      /\ x.status = desk[o].status /\ x.upto = desk[o].upto
      /\ x.tab = desk[o].tab /\ x.pending = desk[o].pending /\ x.first = desk[o].first
      /\ ~m.here => x = desk[o]
  BY <1>5, <1>6 DEF Desk
<1>8. m.here => x.due \/ x.failed
  BY <1>3, <1>5, <1>6 DEF Desk
<1>9. desk' = [desk EXCEPT ![o] = x]
  BY <1>2, <1>3, <1>5, <1>6
<1>10. m.here => desk[o].view = "editor"
  BY <1>2, AtDesk DEF InFlight, On
<1>11. /\ Holds(x, o, dossier, shared) /\ Offers(x, dossier, drafted) /\ Sits(x, drafted)
       /\ \A p \in Reporter \ {o} : Apart(x, desk[p], shared)
  BY <1>7, <1>10, AtDesk DEF Holds, Offers, Sits, Apart
<1>12. /\ \A p \in Reporter \ {o} : Waits(p, posts) => Waits(p, posts')
       /\ ~m.here /\ Waits(o, posts) => Waits(o, posts')
  BY <1>2, <1>4 DEF Waits
<1>13. Locks(x, o, dossier, posts', shared)
  BY <1>7, <1>8, <1>12, AtDesk DEF Locks
<1>14. ASSUME NEW n \in posts' PROVE InFlight(n, desk', dossier, drafted, shared)
  <2>1. n \in SarPost /\ InFlight(n, desk, dossier, drafted, shared)
    BY <1>4, AtDesk
  <2>2. n.by = o /\ n.here => On(x, desk[o].on) /\ desk[o].form \subseteq x.form
    BY <1>7, <2>1 DEF InFlight, On
  <2>3. On(x, n.on) => On(desk[o], n.on)
    BY <1>7 DEF On
  <2>4. QED
    BY <1>6, <1>7, <1>9, <2>1, <2>2, <2>3, InFlightKeeps
<1>15. /\ posts' \subseteq SarPost /\ Single(posts', shared) /\ shared \subseteq ReportNo
  BY <1>4, AtDesk DEF Single
<1>16. QED
  BY <1>4, <1>7, <1>9, <1>11, <1>12, <1>13, <1>14, <1>15, DeskKeeps

\* What is left of a post that has landed.
LEMMA Landed ==
    ASSUME SarPagesInv, NEW m \in posts, Lands(m)
    PROVE  /\ posts' \subseteq SarPost /\ Single(posts', shared)
           /\ \A p \in Reporter : Waits(p, posts) => Waits(p, posts')
           /\ \A n \in posts' :
                \/ n \in posts \ {m}
                \/ /\ m.here /\ n = [m EXCEPT !.landed = TRUE] /\ n \in SarPost
                   /\ n.by = m.by /\ n.on = m.on /\ n.here /\ n.landed /\ n.kind = m.kind
<1>1. m \in SarPost /\ posts \subseteq SarPost /\ Single(posts, shared)
  BY DEF SarPagesInv
<1>2. posts' = (posts \ {m}) \cup {[n EXCEPT !.landed = TRUE] : n \in {n \in {m} : n.here}}
  BY DEF Lands
<1>3. ASSUME NEW n \in posts'
      PROVE  \/ n \in posts \ {m}
             \/ /\ m.here /\ n = [m EXCEPT !.landed = TRUE] /\ n \in SarPost
                /\ n.by = m.by /\ n.on = m.on /\ n.here /\ n.landed /\ n.kind = m.kind
  <2>1. CASE n \in posts \ {m}
    BY <2>1
  <2>2. CASE m.here /\ n = [m EXCEPT !.landed = TRUE]
    BY <1>1, <2>2 DEF SarPost
  <2>3. QED
    BY <1>2, <2>1, <2>2
<1>4. posts' \subseteq SarPost
  BY <1>1, <1>3
<1>5. Single(posts', shared)
  <2>1. SUFFICES ASSUME NEW n \in posts', NEW l \in posts', n.kind = l.kind, n.on = l.on,
                        n.on \notin shared
                 PROVE  n = l
    BY DEF Single
  <2>2. n \in posts \ {m} /\ l \in posts \ {m} => n = l
    BY <1>1, <2>1 DEF Single
  <2>3. ~(n \in posts \ {m} /\ l.on = m.on /\ l.kind = m.kind)
    BY <1>1, <2>1 DEF Single
  <2>4. ~(l \in posts \ {m} /\ n.on = m.on /\ n.kind = m.kind)
    BY <1>1, <2>1 DEF Single
  <2>5. QED
    BY <1>3, <2>2, <2>3, <2>4
<1>6. ASSUME NEW p \in Reporter, Waits(p, posts) PROVE Waits(p, posts')
  <2>1. PICK n \in posts : n.by = p /\ n.here
    BY <1>6 DEF Waits
  <2>2. CASE n # m
    BY <1>2, <2>1, <2>2 DEF Waits
  <2>3. CASE n = m
    <3>1. PICK l : l = [m EXCEPT !.landed = TRUE]
      OBVIOUS
    <3>2. l \in posts' /\ l.by = p /\ l.here
      BY <1>1, <1>2, <2>1, <2>3, <3>1 DEF SarPost
    <3>3. QED
      BY <3>2 DEF Waits
  <2>4. QED
    BY <2>2, <2>3
<1>7. QED
  BY <1>3, <1>4, <1>5, <1>6

\* The handlers of a save and of a submission.
LEMMA HandlerKeeps ==
    ASSUME SarPagesInv, NEW m \in posts, SaveText(m) \/ FileReport(m)
    PROVE  SarPagesInv'
<1>1. /\ Lands(m) /\ ~m.landed /\ UNCHANGED <<flagged, drafted, desk, shared>>
  BY DEF SaveText, FileReport, Lands
<1>2. /\ m \in SarPost /\ InFlight(m, desk, dossier, drafted, shared)
      /\ m.by \in Reporter /\ m.text \in SUBSET Reporter
      /\ drafted \in 0..MaxReports /\ MaxReports \in Nat
      /\ dossier \in [ReportNo -> Dossier] /\ saved \in [ReportNo -> SUBSET Reporter]
      /\ Single(posts, shared)
  BY SarPagesAssumption DEF SarPagesInv, SarPost
<1>3. PICK k : k = m.on
  OBVIOUS
<1>4. k \in 1..drafted /\ k \in ReportNo /\ dossier[k] \in Dossier /\ saved[k] \in SUBSET Reporter
      /\ (k \notin shared => saved[k] \subseteq dossier[k].text)
  BY <1>2, <1>3 DEF InFlight, ReportNo, SarPagesInv
<1>5. k \notin shared => \A p \in Reporter : On(desk[p], k) => m.by = p /\ m.here
  BY <1>2, <1>3 DEF InFlight
<1>6. \A p \in Reporter : k \notin shared /\ On(desk[p], k) =>
        dossier[k].text \subseteq desk[p].form /\ desk[p].form \subseteq dossier[k].text \cup {p}
  BY AtDesk DEF Holds, On
<1>7. k \notin shared => \A p \in Reporter : On(desk[p], k) => Waits(p, posts')
  BY <1>1, <1>5, Landed DEF Waits
\* The other posts, if what they have to do with the report k stays.
<1>8. ASSUME NEW d \in Dossier, dossier' = [dossier EXCEPT ![k] = d],
             \/ d.text = dossier[k].text
             \/ m.kind = "save"
      PROVE  \A n \in posts' : InFlight(n, desk, dossier', drafted, shared)
  <2>1. SUFFICES ASSUME NEW n \in posts' PROVE InFlight(n, desk, dossier', drafted, shared)
    OBVIOUS
  <2>2. dossier'[k] = d /\ \A j \in ReportNo \ {k} : dossier'[j] = dossier[j]
    BY <1>2, <1>4, <1>8
  <2>3. CASE n \in posts \ {m}
    <3>1. InFlight(n, desk, dossier, drafted, shared) /\ n.on \in ReportNo
      BY <1>2, <2>3 DEF SarPagesInv, InFlight, ReportNo
    <3>2. CASE n.on # k \/ d.text = dossier[k].text
      <4>1. dossier'[n.on].text = dossier[n.on].text
        BY <2>2, <3>1, <3>2
      <4>2. QED
        BY <3>1, <4>1 DEF InFlight
    <3>3. CASE n.on = k /\ m.kind = "save"
      <4>1. ~(n.on \notin shared /\ n.kind = "save")
        BY <1>2, <1>3, <2>3, <3>3 DEF Single
      <4>2. QED
        BY <3>1, <4>1 DEF InFlight
    <3>4. QED
      BY <1>8, <3>2, <3>3
  <2>4. CASE n \notin posts \ {m}
    <3>1. n.by = m.by /\ n.on = m.on /\ n.here /\ n.landed /\ m.here
      BY <1>1, <2>4, Landed
    <3>2. QED
      BY <1>2, <3>1 DEF InFlight
  <2>5. QED
    BY <2>3, <2>4
<1>9. /\ posts' \subseteq SarPost /\ Single(posts', shared)
      /\ \A p \in Reporter : Waits(p, posts) => Waits(p, posts')
  BY <1>1, Landed
<1>10. CASE SaveText(m)
  <2>1. PICK d, s : d = [dossier[k] EXCEPT !.text = m.text] /\ s = saved[k] \cup (m.text \cap {m.by})
    OBVIOUS
  <2>2. /\ d \in Dossier /\ d.about = dossier[k].about /\ d.text = m.text
        /\ s \in SUBSET Reporter /\ m.kind = "save"
    BY <1>2, <1>4, <1>10, <2>1 DEF Dossier, SaveText
  <2>3. dossier' = [dossier EXCEPT ![k] = d] /\ saved' = [saved EXCEPT ![k] = s]
    BY <1>2, <1>3, <1>10, <2>1 DEF SaveText
  <2>4. k \notin shared =>
          /\ dossier[k].text \subseteq m.text /\ m.text \subseteq dossier[k].text \cup {m.by}
          /\ m.here => m.text \subseteq desk[m.by].form
    BY <1>1, <1>2, <1>3, <2>2 DEF InFlight
  <2>5. k \notin shared => s \subseteq d.text
    BY <1>4, <2>1, <2>2, <2>4
  <2>6. k \notin shared => \A p \in Reporter : On(desk[p], k) =>
               /\ d.text \subseteq desk[p].form /\ desk[p].form \subseteq d.text \cup {p}
               /\ d.status = "submitted" /\ desk[p].status # "submitted" =>
                    desk[p].due \/ desk[p].failed \/ Waits(p, posts')
    BY <1>5, <1>6, <1>7, <2>2, <2>4
  <2>7. \A n \in posts' : InFlight(n, desk, dossier', drafted, shared)
    BY <1>8, <2>2, <2>3
  <2>8. QED
    BY <1>1, <1>4, <1>9, <2>2, <2>3, <2>5, <2>6, <2>7, ReportKeeps
<1>11. CASE FileReport(m)
  <2>1. PICK d, s : d = [dossier[k] EXCEPT !.status = "submitted"] /\ s = saved[k]
    OBVIOUS
  <2>2. /\ d \in Dossier /\ d.about = dossier[k].about /\ d.text = dossier[k].text
        /\ s \in SUBSET Reporter
    BY <1>4, <2>1 DEF Dossier
  <2>3. dossier' = [dossier EXCEPT ![k] = d] /\ saved' = [saved EXCEPT ![k] = s]
    BY <1>2, <1>3, <1>11, <2>1 DEF FileReport
  <2>4. k \notin shared => s \subseteq d.text
    BY <1>4, <2>1, <2>2
  <2>5. k \notin shared => \A p \in Reporter : On(desk[p], k) =>
               /\ d.text \subseteq desk[p].form /\ desk[p].form \subseteq d.text \cup {p}
               /\ d.status = "submitted" /\ desk[p].status # "submitted" =>
                    desk[p].due \/ desk[p].failed \/ Waits(p, posts')
    BY <1>6, <1>7, <2>2
  <2>6. \A n \in posts' : InFlight(n, desk, dossier', drafted, shared)
    BY <1>8, <2>2, <2>3
  <2>7. QED
    BY <1>1, <1>4, <1>9, <2>2, <2>3, <2>4, <2>5, <2>6, ReportKeeps
<1>12. QED
  BY <1>10, <1>11

LEMMA DownloadKeeps ==
    ASSUME SarPagesInv, NEW o \in Reporter, DownloadXml(o)
    PROVE  SarPagesInv'
<1>1. PICK k : k = desk[o].on
  OBVIOUS
<1>2. /\ k \in 1..drafted /\ k \in ReportNo /\ dossier[k] \in Dossier
      /\ saved[k] \in SUBSET Reporter /\ (k \notin shared => saved[k] \subseteq dossier[k].text)
      /\ dossier \in [ReportNo -> Dossier] /\ saved \in [ReportNo -> SUBSET Reporter]
  BY <1>1, SarPagesAssumption DEF DownloadXml, SarPagesInv, Sits, ReportNo
<1>3. PICK d, s : d = [dossier[k] EXCEPT !.exported = TRUE] /\ s = saved[k]
  OBVIOUS
<1>4. /\ d \in Dossier /\ d.about = dossier[k].about /\ d.text = dossier[k].text
      /\ d.status = dossier[k].status /\ s \in SUBSET Reporter
  BY <1>2, <1>3 DEF Dossier
<1>5. /\ dossier' = [dossier EXCEPT ![k] = d] /\ saved' = [saved EXCEPT ![k] = s]
      /\ UNCHANGED <<drafted, flagged, shared, desk, posts>>
  BY <1>1, <1>2, <1>3 DEF DownloadXml
<1>6. dossier'[k] = d /\ \A j \in ReportNo \ {k} : dossier'[j] = dossier[j]
  BY <1>2, <1>5
<1>7. k \notin shared => \A p \in Reporter : On(desk[p], k) =>
             /\ d.text \subseteq desk[p].form /\ desk[p].form \subseteq d.text \cup {p}
             /\ d.status = "submitted" /\ desk[p].status # "submitted" =>
                  desk[p].due \/ desk[p].failed \/ Waits(p, posts')
  <2>1. SUFFICES ASSUME k \notin shared, NEW p \in Reporter, On(desk[p], k)
                 PROVE  /\ dossier[k].text \subseteq desk[p].form
                        /\ desk[p].form \subseteq dossier[k].text \cup {p}
                        /\ dossier[k].status = "submitted" /\ desk[p].status # "submitted" =>
                             desk[p].due \/ desk[p].failed \/ Waits(p, posts)
    BY <1>4, <1>5
  <2>2. Holds(desk[p], p, dossier, shared) /\ Locks(desk[p], p, dossier, posts, shared)
    BY AtDesk
  <2>3. QED
    BY <2>1, <2>2 DEF Holds, Locks, On
<1>8. ASSUME NEW m \in posts PROVE InFlight(m, desk, dossier', drafted, shared)
  <2>1. InFlight(m, desk, dossier, drafted, shared) /\ m.on \in ReportNo
    BY SarPagesAssumption DEF SarPagesInv, InFlight, ReportNo
  <2>2. dossier'[m.on].text = dossier[m.on].text
    BY <1>4, <1>6, <2>1
  <2>3. QED
    BY <2>1, <2>2 DEF InFlight
<1>9. posts \subseteq SarPost /\ Single(posts, shared)
  BY DEF SarPagesInv
<1>10. QED
  BY <1>2, <1>3, <1>4, <1>5, <1>7, <1>8, <1>9, ReportKeeps

LEMMA SarPagesStepKeeps == SarPagesInv /\ [SarPagesNext]_sarPageRows => SarPagesInv'
<1>1. SUFFICES ASSUME SarPagesInv, [SarPagesNext]_sarPageRows PROVE SarPagesInv'
  OBVIOUS
<1>2. CASE UNCHANGED <<drafted, dossier, desk, posts, saved, shared>> /\ flagged' \subseteq Suspicion
  BY <1>1, <1>2 DEF SarPagesInv
<1>3. CASE UNCHANGED sarPageRows
  BY <1>1, <1>2, <1>3 DEF sarPageRows, SarPagesInv
<1>4. ASSUME NEW c \in Suspicion, ToggleSuspicion(c) PROVE SarPagesInv'
  <2>1. flagged' \subseteq Suspicion
    BY <1>1, <1>4 DEF ToggleSuspicion, SarPagesInv
  <2>2. QED
    BY <1>2, <1>4, <2>1 DEF ToggleSuspicion
<1>5. ASSUME NEW m \in posts, SaveText(m) \/ FileReport(m) \/ ReceiveAnswer(m)
      PROVE  SarPagesInv'
  BY <1>1, <1>5, HandlerKeeps, ReceiveAnswerKeeps
<1>6. ASSUME NEW o \in Reporter,
             \/ OpenRegister(o) \/ DraftFromCase(o) \/ OpenReport(o) \/ LeaveDesk(o)
             \/ RefreshEditor(o) \/ ChangeText(o) \/ DownloadXml(o)
             \/ StartPost(o, "save") \/ StartPost(o, "file")
      PROVE  SarPagesInv'
  BY <1>1, <1>6, OpenRegisterKeeps, DraftKeeps, OpenReportKeeps, LeaveDeskKeeps, EditorKeeps,
     DownloadKeeps, StartPostKeeps
<1>7. QED
  BY <1>1, <1>3, <1>4, <1>5, <1>6 DEF SarPagesNext

LEMMA InitSarPages == SarPagesInit => SarPagesInv
<1>1. SUFFICES ASSUME SarPagesInit PROVE SarPagesInv
  OBVIOUS
<1>2. PICK x \in Desk : x = Away /\ ~x.due /\ x.upto = 0 /\ x.view = "away"
  BY AwayIsDesk
<1>3. desk = [o \in Reporter |-> x]
  BY <1>1, <1>2 DEF SarPagesInit
<1>4. PICK d \in Dossier : d = Unwritten
  BY DEF Unwritten, Dossier
<1>5. /\ dossier \in [ReportNo -> Dossier] /\ desk \in [Reporter -> Desk]
      /\ saved \in [ReportNo -> SUBSET Reporter]
      /\ \A k \in ReportNo : saved[k] = {} /\ dossier[k] = Unwritten
      /\ \A o \in Reporter : desk[o] = x
      /\ flagged = {} /\ drafted = 0 /\ shared = {} /\ posts = {}
  BY <1>1, <1>3, <1>4 DEF SarPagesInit
<1>6. /\ \A o \in Reporter : /\ Holds(x, o, dossier, shared)
                            /\ Locks(x, o, dossier, posts, shared)
      /\ Offers(x, dossier, drafted) /\ Sits(x, drafted)
      /\ Apart(x, x, shared)
  BY <1>2, <1>5 DEF Holds, Locks, Offers, Sits, Apart
<1>7. 0 \in 0..MaxReports
  BY SarPagesAssumption
<1>8. QED
  BY <1>5, <1>6, <1>7 DEF SarPagesInv, Single
-----------------------------------------------------------------------------
(* The way to the pages of the platform.                                   *)

Token == [role : Role \cup {"none", "signed_out"}, aal2 : BOOLEAN]
Screen == [at : PlatformPage \cup Outside \cup {"denied", "not_found"},
           role : Role \cup {"none"}, sidebar : Role \cup {"none"}]

\* The permissions of a role, field by field.
LEMMA PermissionTable ==
    /\ DOMAIN Granted = Role
    /\ Granted["platform_super_admin"] = {"manage_config", "audit_read", "audit_export"}
    /\ Granted["tenant_admin"] =
        {"manage_users", "manage_config", "activate_workflow", "read_all", "add_note",
         "approve_standard", "reject", "flag_sar", "assign", "read_edd_data",
         "documents_read", "documents_verify", "resolve_hit", "audit_read", "audit_export",
         "read_aggregate"}
    /\ Granted["mlro"] =
        {"read_all", "add_note", "approve_standard", "reject", "flag_sar", "assign",
         "read_edd_data", "documents_read", "documents_verify", "resolve_hit", "audit_read",
         "audit_export", "read_aggregate"}
    /\ Granted["senior_reviewer"] =
        {"read_assigned", "add_note", "approve_standard", "reject", "assign",
         "read_edd_data", "documents_read", "documents_verify", "resolve_hit",
         "read_aggregate"}
    /\ Granted["analyst"] = {"read_assigned", "add_note", "documents_read", "documents_verify",
                             "resolve_hit"}
    /\ Granted["onboarding_agent"] = {"documents_read"}
    /\ Granted["read_only"] = {"read_aggregate"}
  BY DEF Granted, Role

LEMMA NavigationTable ==
    /\ DOMAIN NavItems = {"dashboard", "cases", "customers", "sar", "reporting", "audit", "users",
                          "config", "workflows", "webhooks", "platform"}
    /\ NavItems["dashboard"] = Role
    /\ NavItems["cases"] = {"mlro", "senior_reviewer", "analyst", "tenant_admin"}
    /\ NavItems["customers"] = {"mlro", "senior_reviewer", "analyst", "tenant_admin"}
    /\ NavItems["sar"] = {"tenant_admin", "mlro"}
    /\ NavItems["reporting"] = {"tenant_admin", "mlro", "senior_reviewer", "read_only"}
    /\ NavItems["audit"] = {"mlro", "tenant_admin"}
    /\ NavItems["users"] = {"tenant_admin", "platform_super_admin"}
    /\ NavItems["config"] = {"tenant_admin", "platform_super_admin"}
    /\ NavItems["workflows"] = {"tenant_admin", "mlro"}
    /\ NavItems["webhooks"] = {"tenant_admin", "mlro", "platform_super_admin"}
    /\ NavItems["platform"] = {"platform_super_admin"}
  BY DEF NavItems

\* What a browser with claims t shows after a request for a page.
LEMMA Renders ==
    ASSUME NEW to \in PlatformPage \cup {"case_documents"}, NEW t \in Token,
           NEW around \in Role \cup {"none"},
           NEW s, s = PlatformLayout(Destination(to, t), t.role, around)
    PROVE  /\ s \in Screen
           /\ s.role # "none" => s.role = t.role
           /\ s.role \in MFARequiredRoles => t.aal2
           /\ s.sidebar \in MFARequiredRoles => around \in MFARequiredRoles \/ t.aal2
           /\ s.role \in Role => /\ ~ForbiddenPath(s.at, s.role)
                                 /\ s.at \in PlatformPage => Opens(s.at, s.role)
<1>1. PICK at : at = Destination(to, t)
  OBVIOUS
<1>2. CASE Middleware(to, t) # "next"
  <2>1. at \in Outside
    BY <1>1, <1>2 DEF Destination, Middleware, Outside
  <2>2. s = [at |-> at, role |-> "none", sidebar |-> "none"]
    BY <1>1, <2>1 DEF PlatformLayout
  <2>3. QED
    BY <2>1, <2>2 DEF Screen, Role, MFARequiredRoles
<1>3. CASE Middleware(to, t) = "next"
  <2>1. /\ t.role \in Role /\ (t.role \in MFARequiredRoles => t.aal2)
        /\ ~ForbiddenPath(to, t.role)
    BY <1>3 DEF Middleware
  <2>2. \/ at = to /\ to \in PlatformPage /\ Opens(to, t.role)
        \/ at \in {"not_found", "denied"}
    BY <1>1, <1>3 DEF Destination
  <2>3. at \notin Outside /\ at \in PlatformPage \cup {"not_found", "denied"}
    BY <2>2 DEF Outside, PlatformPage, AdminPage
  <2>4. PICK side : side = IF around = "none" THEN t.role ELSE around
    OBVIOUS
  <2>5. s = [at |-> at, role |-> t.role, sidebar |-> side]
    BY <1>1, <2>3, <2>4 DEF PlatformLayout
  <2>6. s.at = at /\ s.role = t.role /\ s.sidebar = side
    BY <2>5
  <2>7. side \in Role \cup {"none"}
    BY <2>1, <2>4
  <2>8. s \in Screen
    BY <2>1, <2>3, <2>5, <2>7 DEF Screen
  <2>9. ~ForbiddenPath(at, t.role) /\ (at \in PlatformPage => Opens(at, t.role))
    BY <2>1, <2>2 DEF ForbiddenPath, PlatformPage, AdminPage
  <2>10. QED
    BY <2>1, <2>4, <2>6, <2>8, <2>9
<1>4. QED
  BY <1>2, <1>3

\* The links of the sidebar, for the claims that the page was rendered with.
LEMMA SidebarLeads ==
    ASSUME NEW t \in Token, t.role \in Role, t.role \in MFARequiredRoles => t.aal2,
           NEW to \in VisibleItems(t.role)
    PROVE  Destination(to, t) = to \/ <<t.role, to>> \in DeadEnds
<1>1. to \in DOMAIN NavItems /\ t.role \in NavItems[to]
  BY DEF VisibleItems
<1>2. to \in PlatformPage
  BY <1>1, NavigationTable DEF PlatformPage, AdminPage
<1>3. SUFFICES ASSUME <<t.role, to>> \notin DeadEnds
               PROVE  ~ForbiddenPath(to, t.role) /\ Opens(to, t.role)
  BY <1>2 DEF Destination, Middleware
<1>4. CASE t.role = "platform_super_admin"
  BY <1>1, <1>2, <1>3, <1>4, NavigationTable, PermissionTable
     DEF DeadEnds, ForbiddenPath, AdminPage, Opens, HasPermission, CasesPage, SARRegisterPage,
         ReportingPage, AuditPage, UsersPage, AdminConfigPage, AdminWorkflowsPage,
         AdminWebhooksPage, PlatformAdminPage
<1>5. CASE t.role = "tenant_admin"
  BY <1>1, <1>2, <1>3, <1>5, NavigationTable, PermissionTable
     DEF DeadEnds, ForbiddenPath, AdminPage, Opens, HasPermission, CasesPage, SARRegisterPage,
         ReportingPage, AuditPage, UsersPage, AdminConfigPage, AdminWorkflowsPage,
         AdminWebhooksPage, PlatformAdminPage
<1>6. CASE t.role = "mlro"
  BY <1>1, <1>2, <1>3, <1>6, NavigationTable, PermissionTable
     DEF DeadEnds, ForbiddenPath, AdminPage, Opens, HasPermission, CasesPage, SARRegisterPage,
         ReportingPage, AuditPage, UsersPage, AdminConfigPage, AdminWorkflowsPage,
         AdminWebhooksPage, PlatformAdminPage
<1>7. CASE t.role = "senior_reviewer"
  BY <1>1, <1>2, <1>3, <1>7, NavigationTable, PermissionTable
     DEF DeadEnds, ForbiddenPath, AdminPage, Opens, HasPermission, CasesPage, SARRegisterPage,
         ReportingPage, AuditPage, UsersPage, AdminConfigPage, AdminWorkflowsPage,
         AdminWebhooksPage, PlatformAdminPage
<1>8. CASE t.role = "analyst"
  BY <1>1, <1>2, <1>3, <1>8, NavigationTable, PermissionTable
     DEF DeadEnds, ForbiddenPath, AdminPage, Opens, HasPermission, CasesPage, SARRegisterPage,
         ReportingPage, AuditPage, UsersPage, AdminConfigPage, AdminWorkflowsPage,
         AdminWebhooksPage, PlatformAdminPage
<1>9. CASE t.role = "onboarding_agent"
  BY <1>1, <1>2, <1>3, <1>9, NavigationTable, PermissionTable
     DEF DeadEnds, ForbiddenPath, AdminPage, Opens, HasPermission, CasesPage, SARRegisterPage,
         ReportingPage, AuditPage, UsersPage, AdminConfigPage, AdminWorkflowsPage,
         AdminWebhooksPage, PlatformAdminPage
<1>10. CASE t.role = "read_only"
  BY <1>1, <1>2, <1>3, <1>10, NavigationTable, PermissionTable
     DEF DeadEnds, ForbiddenPath, AdminPage, Opens, HasPermission, CasesPage, SARRegisterPage,
         ReportingPage, AuditPage, UsersPage, AdminConfigPage, AdminWorkflowsPage,
         AdminWebhooksPage, PlatformAdminPage
<1>11. QED
  BY <1>4, <1>5, <1>6, <1>7, <1>8, <1>9, <1>10 DEF Role

\* The links of the dashboards.  One page of the analyst's does not exist.
LEMMA DashboardLeads ==
    ASSUME NEW t \in Token, t.role \in Role, t.role \in MFARequiredRoles => t.aal2,
           NEW to \in DashboardPage(t.role)
    PROVE  Destination(to, t) = to \/ <<t.role, to>> \in DeadEnds
<1>1. SUFFICES ASSUME <<t.role, to>> \notin DeadEnds
               PROVE  to \in PlatformPage /\ ~ForbiddenPath(to, t.role) /\ Opens(to, t.role)
  BY DEF Destination, Middleware
<1>2. CASE t.role = "platform_super_admin"
  <2>1. to \in PlatformAdminDashboard
    BY <1>2 DEF DashboardPage
  <2>2. QED
    BY <1>1, <1>2, <2>1, PermissionTable
       DEF PlatformAdminDashboard, DeadEnds, ForbiddenPath, PlatformPage, AdminPage,
           Opens, HasPermission, CasesPage, CaseDetailPage, SARRegisterPage, ReportingPage,
           AuditPage, UsersPage, AdminConfigPage, AdminWorkflowsPage
<1>3. CASE t.role = "tenant_admin"
  <2>1. to \in TenantAdminDashboard
    BY <1>3 DEF DashboardPage
  <2>2. QED
    BY <1>1, <1>3, <2>1, PermissionTable
       DEF TenantAdminDashboard, DeadEnds, ForbiddenPath, PlatformPage, AdminPage,
           Opens, HasPermission, CasesPage, CaseDetailPage, SARRegisterPage, ReportingPage,
           AuditPage, UsersPage, AdminConfigPage, AdminWorkflowsPage
<1>4. CASE t.role = "mlro"
  <2>1. to \in MLRODashboard
    BY <1>4 DEF DashboardPage
  <2>2. QED
    BY <1>1, <1>4, <2>1, PermissionTable
       DEF MLRODashboard, DeadEnds, ForbiddenPath, PlatformPage, AdminPage,
           Opens, HasPermission, CasesPage, CaseDetailPage, SARRegisterPage, ReportingPage,
           AuditPage, UsersPage, AdminConfigPage, AdminWorkflowsPage
<1>5. CASE t.role = "senior_reviewer"
  <2>1. to \in SeniorReviewerDashboard
    BY <1>5 DEF DashboardPage
  <2>2. QED
    BY <1>1, <1>5, <2>1, PermissionTable
       DEF SeniorReviewerDashboard, DeadEnds, ForbiddenPath, PlatformPage, AdminPage,
           Opens, HasPermission, CasesPage, CaseDetailPage, SARRegisterPage, ReportingPage,
           AuditPage, UsersPage, AdminConfigPage, AdminWorkflowsPage
<1>6. CASE t.role = "analyst"
  <2>1. to \in AnalystDashboard
    BY <1>6 DEF DashboardPage
  <2>2. QED
    BY <1>1, <1>6, <2>1, PermissionTable
       DEF AnalystDashboard, DeadEnds, ForbiddenPath, PlatformPage, AdminPage,
           Opens, HasPermission, CasesPage, CaseDetailPage, SARRegisterPage, ReportingPage,
           AuditPage, UsersPage, AdminConfigPage, AdminWorkflowsPage
<1>7. CASE t.role = "onboarding_agent"
  <2>1. to \in OnboardingAgentDashboard
    BY <1>7 DEF DashboardPage
  <2>2. QED
    BY <1>1, <1>7, <2>1, PermissionTable
       DEF OnboardingAgentDashboard, DeadEnds, ForbiddenPath, PlatformPage, AdminPage,
           Opens, HasPermission, CasesPage, CaseDetailPage, SARRegisterPage, ReportingPage,
           AuditPage, UsersPage, AdminConfigPage, AdminWorkflowsPage
<1>8. CASE t.role = "read_only"
  <2>1. to \in ReadOnlyDashboard
    BY <1>8 DEF DashboardPage
  <2>2. QED
    BY <1>1, <1>8, <2>1, PermissionTable
       DEF ReadOnlyDashboard, DeadEnds, ForbiddenPath, PlatformPage, AdminPage,
           Opens, HasPermission, CasesPage, CaseDetailPage, SARRegisterPage, ReportingPage,
           AuditPage, UsersPage, AdminConfigPage, AdminWorkflowsPage
<1>9. QED
  BY <1>2, <1>3, <1>4, <1>5, <1>6, <1>7, <1>8 DEF Role

\* What a button and its route ask for.
LEMMA ControlTable ==
    /\ DOMAIN CaseControls = {"note", "decide", "reject", "assign", "flag", "verify", "edd", "resolve"}
    /\ CaseControls["note"] = "add_note" /\ CaseControls["decide"] = "approve_standard"
    /\ CaseControls["reject"] = "reject" /\ CaseControls["assign"] = "assign"
    /\ CaseControls["flag"] = "flag_sar" /\ CaseControls["verify"] = "documents_verify"
    /\ CaseControls["edd"] = "read_edd_data" /\ CaseControls["resolve"] = "resolve_hit"
    /\ AssertPermission["note"] = "add_note" /\ AssertPermission["decide"] = "approve_standard"
    /\ AssertPermission["reject"] = "approve_standard" /\ AssertPermission["assign"] = "assign"
    /\ AssertPermission["flag"] = "flag_sar" /\ AssertPermission["verify"] = "documents_read"
    /\ AssertPermission["edd"] = "read_edd_data" /\ AssertPermission["resolve"] = "resolve_hit"
    /\ AssertPermission["draft"] = "flag_sar" /\ AssertPermission["save"] = "flag_sar"
    /\ AssertPermission["submit"] = "flag_sar" /\ AssertPermission["export"] = "audit_export"
    /\ AssertPermission["invite"] = "manage_users"
    /\ AssertPermission["change_role"] = "manage_users"
    /\ AssertPermission["settings"] = "manage_config"
    /\ AssertPermission["branding"] = "manage_config"
    /\ AssertPermission["toggle"] = "activate_workflow"
    /\ AssertPermission["clone"] = "activate_workflow"
    /\ AssertPermission["acknowledge"] = "activate_workflow"
  BY DEF CaseControls, AssertPermission

\* Whoever is shown a button may use the route behind it.  On the page of a case no role has
\* the permission of the button without that of the route; elsewhere the page asks for it.
LEMMA ControlsWork ==
    ASSUME NEW t \in Token, t.role \in Role, t.role \in MFARequiredRoles => t.aal2,
           NEW at, ~ForbiddenPath(at, t.role), at \in PlatformPage => Opens(at, t.role),
           NEW control \in Offered(at, t.role)
    PROVE  Accepted(at, control, t)
<1>1. at \in {"case", "sar", "report", "audit", "users", "config", "workflows"}
  BY DEF Offered
<1>2. at \in PlatformPage /\ Opens(at, t.role)
  BY <1>1 DEF PlatformPage, AdminPage
<1>3. Middleware(IF SamePath(at) THEN at ELSE "dashboard", t) = "next"
  BY DEF Middleware, ForbiddenPath, AdminPage
<1>4. CASE at = "case"
  <2>1. control \in DOMAIN CaseControls
        /\ (control = "note" \/ HasPermission(t.role, CaseControls[control]))
    BY <1>4 DEF Offered
  <2>2. "read_assigned" \in Granted[t.role] \/ "read_all" \in Granted[t.role]
    BY <1>2, <1>4 DEF Opens, CaseDetailPage, CasesPage, HasPermission
  <2>3. t.role \in {"tenant_admin", "mlro", "senior_reviewer", "analyst"}
    BY <2>2, PermissionTable DEF Role
  <2>4. HasPermission(t.role, AssertPermission[control])
    BY <2>1, <2>3, PermissionTable, ControlTable DEF HasPermission
  <2>5. QED
    BY <1>3, <2>4 DEF Accepted
<1>5. CASE at \in {"sar", "report"}
  <2>1. control \in {"draft", "save", "submit"}
    BY <1>5 DEF Offered
  <2>2. HasPermission(t.role, "flag_sar")
    BY <1>2, <1>5 DEF Opens, SARRegisterPage, SarDetailPage
  <2>3. QED
    BY <1>3, <2>1, <2>2, ControlTable DEF Accepted
<1>6. CASE at = "audit"
  <2>1. control = "export" /\ HasPermission(t.role, "audit_export")
    BY <1>6 DEF Offered
  <2>2. QED
    BY <1>3, <2>1, ControlTable DEF Accepted
<1>7. CASE at = "users"
  <2>1. control \in {"invite", "change_role"}
    BY <1>7 DEF Offered
  <2>2. HasPermission(t.role, "manage_users")
    BY <1>2, <1>7 DEF Opens, UsersPage
  <2>3. QED
    BY <1>3, <2>1, <2>2, ControlTable DEF Accepted
<1>8. CASE at = "config"
  <2>1. control \in {"settings", "branding"} /\ HasPermission(t.role, "manage_config")
    BY <1>8 DEF Offered
  <2>2. QED
    BY <1>3, <2>1, ControlTable DEF Accepted
<1>9. CASE at = "workflows"
  <2>1. t.role # "mlro"
    BY <1>9 DEF ForbiddenPath, AdminPage
  <2>2. control \in {"toggle", "clone"} /\ HasPermission(t.role, "activate_workflow")
    BY <1>9, <2>1 DEF Offered
  <2>3. QED
    BY <1>3, <2>2, ControlTable DEF Accepted
<1>10. QED
  BY <1>1, <1>4, <1>5, <1>6, <1>7, <1>8, <1>9

\* The token has the second factor exactly if it was shown since the password, and what is
\* on the screen was rendered for a role that may see it.
AccessInv ==
    /\ assigned \in Role \cup {"none"} /\ changes \in 0..MaxRoleChanges
    /\ factor \in BOOLEAN /\ proved \in BOOLEAN
    /\ token \in Token /\ screen \in Screen
    /\ SecondFactorShown
    /\ SignedIn(token) => token.aal2 = proved
    /\ ~SignedIn(token) => ~token.aal2
    /\ screen.role \in Role => /\ ~ForbiddenPath(screen.at, screen.role)
                               /\ screen.at \in PlatformPage => Opens(screen.at, screen.role)

LEMMA AccessInvSound == AccessInv => AccessTypeOK /\ AccessSound
<1>1. SUFFICES ASSUME AccessInv PROVE AccessTypeOK /\ AccessSound
  OBVIOUS
<1>2. AccessTypeOK
  BY <1>1 DEF AccessInv, AccessTypeOK, Token, Screen
<1>3. UpToDate => token \in Token /\ token.role \in Role /\ screen.sidebar = token.role
                  /\ screen.role = token.role /\ (token.role \in MFARequiredRoles => token.aal2)
  <2>1. "signed_out" \notin Role
    BY DEF Role
  <2>2. QED
    BY <1>1, <2>1 DEF AccessInv, UpToDate, SecondFactorShown, SignedIn
<1>4. LinksLead
  <2>1. SUFFICES ASSUME UpToDate, NEW to \in Links
                 PROVE  Destination(to, token) = to \/ <<screen.role, to>> \in DeadEnds
    BY DEF LinksLead
  <2>2. to \in VisibleItems(token.role) \/ to \in DashboardPage(token.role)
    BY <1>3, <2>1 DEF Links
  <2>3. QED
    BY <1>3, <2>1, <2>2, SidebarLeads, DashboardLeads
<1>5. ButtonsWork
  <2>1. SUFFICES ASSUME UpToDate, NEW control \in Offered(screen.at, screen.role)
                 PROVE  Accepted(screen.at, control, token)
    BY DEF ButtonsWork
  <2>2. PICK at : at = screen.at
    OBVIOUS
  <2>3. ~ForbiddenPath(at, token.role) /\ (at \in PlatformPage => Opens(at, token.role))
    BY <1>1, <1>3, <2>1, <2>2 DEF AccessInv
  <2>4. QED
    BY <1>3, <2>1, <2>2, <2>3, ControlsWork
<1>6. QED
  BY <1>1, <1>2, <1>4, <1>5 DEF AccessInv, AccessSound

\* A step to a screen outside of the platform.
LEMMA LeavesPlatform ==
    ASSUME AccessInv, NEW at \in Outside, screen' = Shown(at),
           assigned' = assigned, changes' = changes, factor' \in BOOLEAN, proved' \in BOOLEAN,
           token' \in Token, SignedIn(token') => token'.aal2 = proved',
           ~SignedIn(token') => ~token'.aal2
    PROVE  AccessInv'
<1>1. screen' \in Screen /\ screen'.role = "none" /\ screen'.sidebar = "none"
  BY DEF Shown, Screen
<1>2. "none" \notin Role /\ "none" \notin MFARequiredRoles
  BY DEF Role, MFARequiredRoles
<1>3. QED
  BY <1>1, <1>2 DEF AccessInv, SecondFactorShown, SignedIn

\* A page is loaded whole, or below the sidebar that is there.
LEMMA ArrivesOnPage ==
    ASSUME AccessInv, NEW to \in PlatformPage \cup {"case_documents"},
           NEW around \in Role \cup {"none"},
           screen' = PlatformLayout(Destination(to, token'), token'.role, around),
           around \in MFARequiredRoles => proved',
           assigned' = assigned, changes' = changes, factor' \in BOOLEAN, proved' \in BOOLEAN,
           token' \in Token, SignedIn(token') => token'.aal2 = proved',
           ~SignedIn(token') => ~token'.aal2
    PROVE  AccessInv'
<1>1. PICK t \in Token : t = token'
  OBVIOUS
<1>2. PICK s : s = screen'
  OBVIOUS
<1>3. /\ s \in Screen
      /\ s.role \in MFARequiredRoles => t.aal2
      /\ s.sidebar \in MFARequiredRoles => around \in MFARequiredRoles \/ t.aal2
      /\ s.role \in Role => /\ ~ForbiddenPath(s.at, s.role)
                            /\ s.at \in PlatformPage => Opens(s.at, s.role)
  BY <1>1, <1>2, Renders
<1>4. t.aal2 => proved'
  BY <1>1
<1>5. SecondFactorShown'
  BY <1>2, <1>3, <1>4 DEF SecondFactorShown
<1>6. QED
  BY <1>1, <1>2, <1>3, <1>5 DEF AccessInv, SignedIn

\* A sign-in, or the renewal of a token.
LEMMA TokenRenewed ==
    ASSUME AccessInv
    PROVE  /\ \A b \in BOOLEAN : LET t == [role |-> assigned, aal2 |-> b] IN
                t \in Token /\ SignedIn(t) /\ t.aal2 = b
           /\ LET t == [role |-> "signed_out", aal2 |-> FALSE] IN
                t \in Token /\ ~SignedIn(t) /\ ~t.aal2
           /\ LET t == [token EXCEPT !.role = assigned] IN
                t \in Token /\ SignedIn(t) /\ t.aal2 = token.aal2
<1>1. assigned \in Role \cup {"none"} /\ token \in Token /\ "signed_out" \notin Role
  BY DEF AccessInv, Role
<1>2. \A b \in BOOLEAN : LET t == [role |-> assigned, aal2 |-> b] IN
                t \in Token /\ SignedIn(t) /\ t.aal2 = b
  BY <1>1 DEF Token, SignedIn
<1>3. LET t == [role |-> "signed_out", aal2 |-> FALSE] IN t \in Token /\ ~SignedIn(t) /\ ~t.aal2
  BY DEF Token, SignedIn
<1>4. LET t == [token EXCEPT !.role = assigned] IN
        t \in Token /\ SignedIn(t) /\ t.aal2 = token.aal2
  BY <1>1 DEF Token, SignedIn
<1>5. QED
  BY <1>2, <1>3, <1>4

\* The role, or the token, changes under a screen that stays.
LEMMA ScreenStays ==
    ASSUME AccessInv, screen' = screen,
           assigned' \in Role \cup {"none"}, changes' \in 0..MaxRoleChanges, factor' \in BOOLEAN,
           proved' \in BOOLEAN, proved => proved',
           token' \in Token, SignedIn(token') => token'.aal2 = proved',
           ~SignedIn(token') => ~token'.aal2
    PROVE  AccessInv'
  BY DEF AccessInv, SecondFactorShown, SignedIn

LEMMA SignInKeeps ==
    ASSUME AccessInv,
           HandleSignIn \/ HandleMfaVerify \/ BackToSignIn \/ HandleEnroll \/ HandleVerify
             \/ HandleComplete
    PROVE  AccessInv'
<1>1. /\ assigned \in Role \cup {"none"} /\ changes \in 0..MaxRoleChanges
      /\ factor \in BOOLEAN /\ proved \in BOOLEAN /\ token \in Token
      /\ SignedIn(token) => token.aal2 = proved
      /\ ~SignedIn(token) => ~token.aal2
      /\ "none" \notin MFARequiredRoles
  BY DEF AccessInv, MFARequiredRoles
<1>2. {"sign_in", "code", "mfa_setup", "verify", "complete"} \subseteq Outside
      /\ PlatformPage \subseteq PlatformPage \cup {"case_documents"}
      /\ "dashboard" \in PlatformPage
  BY DEF Outside, PlatformPage
<1>3. CASE HandleSignIn
  <2>1. /\ token' \in Token /\ SignedIn(token') /\ token'.aal2 = FALSE /\ proved' = FALSE
        /\ UNCHANGED <<assigned, changes, factor>>
    BY <1>3, TokenRenewed DEF HandleSignIn
  <2>2. ASSUME NEW at \in {"code", "mfa_setup"}, screen' = Shown(at) PROVE AccessInv'
    <3>1. at \in Outside
      BY <1>2
    <3>2. QED
      BY <1>1, <2>1, <2>2, <3>1, LeavesPlatform
  <2>3. ASSUME NEW to \in PlatformPage, LoadPage(to, token') PROVE AccessInv'
    BY <1>1, <1>2, <2>1, <2>3, ArrivesOnPage DEF LoadPage
  <2>4. QED
    BY <1>3, <2>2, <2>3 DEF HandleSignIn
<1>4. CASE HandleMfaVerify
  <2>1. /\ token' \in Token /\ SignedIn(token') /\ token'.aal2 = TRUE /\ proved' = TRUE
        /\ UNCHANGED <<assigned, changes, factor>>
    BY <1>4, TokenRenewed DEF HandleMfaVerify
  <2>2. PICK to \in PlatformPage : LoadPage(to, token')
    BY <1>4 DEF HandleMfaVerify
  <2>3. QED
    BY <1>1, <1>2, <2>1, <2>2, ArrivesOnPage DEF LoadPage
<1>5. CASE BackToSignIn
  <2>1. /\ token' \in Token /\ ~SignedIn(token') /\ ~token'.aal2
        /\ UNCHANGED <<assigned, changes, factor, proved>> /\ screen' = Shown("sign_in")
    BY <1>5, TokenRenewed DEF BackToSignIn
  <2>2. QED
    BY <1>1, <1>2, <2>1, LeavesPlatform
<1>6. CASE HandleEnroll
  BY <1>1, <1>2, <1>6, LeavesPlatform DEF HandleEnroll
<1>7. CASE HandleVerify
  <2>1. /\ token' \in Token /\ SignedIn(token') /\ token'.aal2 = TRUE /\ proved' = TRUE
        /\ factor' = TRUE /\ UNCHANGED <<assigned, changes>>
    BY <1>7, TokenRenewed DEF HandleVerify
  <2>2. ASSUME NEW at \in {"complete", "sign_in"}, screen' = Shown(at) PROVE AccessInv'
    BY <1>1, <1>2, <2>1, <2>2, LeavesPlatform
  <2>3. CASE UNCHANGED screen
    BY <1>1, <2>1, <2>3, ScreenStays
  <2>4. QED
    BY <1>7, <2>2, <2>3 DEF HandleVerify
<1>8. CASE HandleComplete
  <2>1. /\ screen' = PlatformLayout(Destination("dashboard", token'), token'.role, "none")
        /\ UNCHANGED <<assigned, changes, factor, token, proved>>
    BY <1>8 DEF HandleComplete, LoadPage
  <2>2. QED
    BY <1>1, <1>2, <2>1, ArrivesOnPage
<1>9. QED
  BY <1>3, <1>4, <1>5, <1>6, <1>7, <1>8

LEMMA MovesKeep ==
    ASSUME AccessInv,
           \/ ChangeRole \/ RefreshToken
           \/ \E to \in PlatformPage : VisitPage(to)
           \/ \E to \in PlatformPage \cup {"case_documents"} : FollowLink(to)
           \/ HandleSignOut \/ ForgotPassword \/ OpenRecoveryLink \/ ResetPassword
    PROVE  AccessInv'
<1>1. /\ assigned \in Role \cup {"none"} /\ changes \in 0..MaxRoleChanges
      /\ factor \in BOOLEAN /\ proved \in BOOLEAN /\ token \in Token /\ screen \in Screen
      /\ SignedIn(token) => token.aal2 = proved
      /\ ~SignedIn(token) => ~token.aal2
      /\ "none" \notin MFARequiredRoles
      /\ screen.sidebar \in MFARequiredRoles => proved
  BY DEF AccessInv, MFARequiredRoles, SecondFactorShown
<1>2. {"sign_in", "forgot", "reset"} \subseteq Outside
      /\ PlatformPage \subseteq PlatformPage \cup {"case_documents"}
  BY DEF Outside, PlatformPage
<1>3. CASE ChangeRole
  <2>1. changes' \in 0..MaxRoleChanges
    BY <1>1, <1>3, AccessBound DEF ChangeRole
  <2>2. QED
    BY <1>1, <1>3, <2>1, ScreenStays DEF ChangeRole
<1>4. CASE RefreshToken
  <2>1. token' \in Token /\ SignedIn(token') /\ token'.aal2 = proved
    BY <1>1, <1>4, TokenRenewed DEF RefreshToken
  <2>2. QED
    BY <1>1, <1>4, <2>1, ScreenStays DEF RefreshToken
<1>5. ASSUME NEW to \in PlatformPage, VisitPage(to) PROVE AccessInv'
  <2>1. /\ token' \in Token /\ (SignedIn(token') => token'.aal2 = proved)
        /\ (~SignedIn(token') => ~token'.aal2)
    <3>1. CASE UNCHANGED token
      BY <1>1, <3>1
    <3>2. CASE SignedIn(token) /\ token' = [token EXCEPT !.role = assigned]
      BY <1>1, <3>2, TokenRenewed
    <3>3. QED
      BY <1>5, <3>1, <3>2 DEF VisitPage
  <2>2. /\ screen' = PlatformLayout(Destination(to, token'), token'.role, "none")
        /\ UNCHANGED <<assigned, changes, factor, proved>>
    BY <1>5 DEF VisitPage, LoadPage
  <2>3. QED
    BY <1>1, <1>2, <2>1, <2>2, ArrivesOnPage
<1>6. ASSUME NEW to \in PlatformPage \cup {"case_documents"}, FollowLink(to) PROVE AccessInv'
  <2>1. PICK around \in Role \cup {"none"} : around = screen.sidebar
    BY <1>1 DEF Screen
  <2>2. /\ screen' = PlatformLayout(Destination(to, token'), token'.role, around)
        /\ UNCHANGED <<assigned, changes, factor, token, proved>>
    BY <1>6, <2>1 DEF FollowLink
  <2>3. QED
    BY <1>1, <2>1, <2>2, ArrivesOnPage
<1>7. CASE HandleSignOut
  <2>1. /\ token' \in Token /\ ~SignedIn(token') /\ ~token'.aal2
        /\ UNCHANGED <<assigned, changes, factor, proved>> /\ screen' = Shown("sign_in")
    BY <1>7, TokenRenewed DEF HandleSignOut
  <2>2. QED
    BY <1>1, <1>2, <2>1, LeavesPlatform
<1>8. CASE ForgotPassword
  BY <1>1, <1>2, <1>8, LeavesPlatform DEF ForgotPassword
<1>9. CASE OpenRecoveryLink
  <2>1. CASE /\ token' = [role |-> assigned, aal2 |-> FALSE] /\ proved' = FALSE
             /\ screen' = Shown("reset")
    <3>1. token' \in Token /\ SignedIn(token') /\ ~token'.aal2
      BY <2>1, TokenRenewed
    <3>2. QED
      BY <1>1, <1>2, <1>9, <2>1, <3>1, LeavesPlatform DEF OpenRecoveryLink
  <2>2. CASE screen' = Shown("sign_in") /\ UNCHANGED <<token, proved>>
    BY <1>1, <1>2, <1>9, <2>2, LeavesPlatform DEF OpenRecoveryLink
  <2>3. QED
    BY <1>9, <2>1, <2>2 DEF OpenRecoveryLink
<1>10. CASE ResetPassword
  BY <1>1, <1>2, <1>10, LeavesPlatform DEF ResetPassword
<1>11. QED
  BY <1>3, <1>4, <1>5, <1>6, <1>7, <1>8, <1>9, <1>10

LEMMA AccessStepKeeps == AccessInv /\ [AccessNext]_accessRows => AccessInv'
<1>1. SUFFICES ASSUME AccessInv, [AccessNext]_accessRows PROVE AccessInv'
  OBVIOUS
<1>2. CASE UNCHANGED accessRows
  BY <1>1, <1>2, ScreenStays DEF accessRows, AccessInv
<1>3. CASE AccessNext
  BY <1>1, <1>3, SignInKeeps, MovesKeep DEF AccessNext
<1>4. QED
  BY <1>1, <1>2, <1>3

LEMMA InitAccess == AccessInit => AccessInv
<1>1. SUFFICES ASSUME AccessInit PROVE AccessInv
  OBVIOUS
<1>2. screen \in Screen /\ screen.role = "none" /\ screen.sidebar = "none"
      /\ "none" \notin Role /\ "none" \notin MFARequiredRoles
  BY <1>1 DEF AccessInit, Shown, Screen, Outside, Role, MFARequiredRoles
<1>3. token \in Token /\ ~SignedIn(token) /\ ~token.aal2
  BY <1>1 DEF AccessInit, Token, SignedIn
<1>4. 0 \in 0..MaxRoleChanges
  BY AccessBound
<1>5. QED
  BY <1>1, <1>2, <1>3, <1>4 DEF AccessInit, AccessInv, SecondFactorShown
-----------------------------------------------------------------------------
(* The types of the areas, where the invariants above leave them open.     *)

RecordName == {"consent", "identity", "business-info"} \cup IndividualDocuments
                \cup CorporateDocuments

LEMMA WizardTypes ==
    ASSUME WizardInv, records \subseteq RecordName, [WizardNext]_wizardRows
    PROVE  records' \subseteq RecordName
<1>1. ASSUME NEW t \in Tab, Record(t) PROVE records' \subseteq RecordName
  BY <1>1, TabIsReal DEF Record, Backed, RecordName
<1>2. ASSUME NEW t \in Tab, NEW type, HandleFileSelect(t, type)
      PROVE  records' \subseteq RecordName
  BY <1>2 DEF HandleFileSelect, RequiredDocuments, RecordName
<1>3. CASE UNCHANGED records
  BY <1>3
<1>4. QED
  BY <1>1, <1>2, <1>3, ZenonT(60) DEF WizardNext, wizardRows, Open, HandleContinue, CreateSession,
     SubmitConsent, SubmitData, RefuseData, Replace, SubmitDocuments, HandleSkip, Check, Reread,
     Write, Answer, Fail, Sends

LEMMA WizardTyped == WizardInv /\ records \subseteq RecordName => WizardTypeOK
  BY DEF WizardInv, WizardShape, WizardTypeOK, RecordName

\* The events that were answered are events.
Heard == answered \in SUBSET Event /\ dropped \in SUBSET Event

LEMMA BillingTypes ==
    ASSUME BillingInv, Heard, [BillingNext]_billingRows
    PROVE  Heard'
<1>1. \A d \in event : d.e \in Event
  BY DEF BillingInv, BillingShape, Delivered
<1>2. ASSUME NEW d \in event, Acknowledge(d) \/ AcknowledgeFailure(d)
      PROVE  Heard'
  BY <1>1, <1>2 DEF Acknowledge, AcknowledgeFailure, Settled, Heard
<1>3. CASE UNCHANGED <<answered, dropped>>
  BY <1>3 DEF Heard
<1>4. QED
  BY <1>2, <1>3 DEF BillingNext, billingRows, nomodRows, StartSignUp, InsertTenant,
     InsertBilling, CreatePaymentLink, StoreLink, OfferLink, SignUpFails, Pay, PostUnsigned,
     Arrives, SendAgain, UpdateLink, Activate, WebhookDies

LEMMA BillingTyped == BillingInv /\ Heard => BillingTypeOK
<1>1. SUFFICES ASSUME BillingInv, Heard PROVE BillingTypeOK
  OBVIOUS
<1>2. tenant = {} \/ \E c : tenant = {c}
  BY <1>1 DEF BillingInv, OneTenant
<1>3. Cardinality(tenant) = 0 \/ Cardinality(tenant) = 1
  BY <1>2, FS_EmptySet, FS_Singleton
<1>4. Cardinality(tenant) <= 1
  BY <1>3
<1>5. writable \in Grant
  BY <1>1 DEF BillingInv, BillingShape, Grant
<1>6. QED
  BY <1>1, <1>4, <1>5 DEF BillingInv, BillingShape, BillingTypeOK, Heard, Delivered, LinkStatus
-----------------------------------------------------------------------------
\* Sumsub's verdicts are counted over all applicants, and so bound those of each.
IdvLimits ==
    /\ grant \in Grants /\ idvDone \in BOOLEAN /\ unread \in SUBSET Applicant
    /\ told \in StoredStatus \cup {"nothing", "not_found"}
    /\ IsFiniteSet(Reviews) /\ \A a \in Applicant : Len(review[a]) <= MaxReviews

LEMMA ReviewCounted ==
    ASSUME IdvInv, IdvLimits, NEW a \in Applicant, Review(a)
    PROVE  IsFiniteSet(Reviews)' /\ \A b \in Applicant : Len(review'[b]) <= MaxReviews
<1>1. PICK v \in Verdict : review' = [review EXCEPT ![a] = Append(@, v)]
  BY DEF Review
<1>2. /\ review[a] \in Seq(Verdict) /\ Len(review[a]) \in Nat
      /\ Len(review'[a]) = Len(review[a]) + 1
      /\ \A b \in Applicant \ {a} : review'[b] = review[b]
  BY <1>1 DEF IdvInv, IdvShape
<1>3. Len(review[a]) < MaxReviews
  <2>1. SUFFICES ASSUME ~(Len(review[a]) < MaxReviews) PROVE FALSE
    OBVIOUS
  <2> DEFINE mine == {a} \X (1..MaxReviews)
  <2>2. mine \in SUBSET Reviews
    BY <1>2, <2>1, IdvBound DEF Reviews
  <2>3. IsFiniteSet(1..MaxReviews) /\ Cardinality(1..MaxReviews) = MaxReviews
    BY IdvBound, FS_Interval
  <2>4. IsFiniteSet({a}) /\ Cardinality({a}) = 1
    BY FS_Singleton
  <2>5. Cardinality(mine) = 1 * MaxReviews
    BY <2>3, <2>4, FS_Product, ZenonT(60)
  <2>6. Cardinality(mine) <= Cardinality(Reviews)
    BY <2>2, FS_Subset DEF IdvLimits
  <2>7. Cardinality(Reviews) \in Nat /\ Cardinality(Reviews) < MaxReviews
    BY FS_CardinalityType DEF Review, IdvLimits
  <2> HIDE DEF mine
  <2>8. QED
    BY <2>5, <2>6, <2>7, IdvBound
<1>4. Reviews' \in SUBSET (Reviews \cup {<<a, Len(review[a]) + 1>>})
  <2>1. ASSUME NEW r \in Reviews' PROVE r \in Reviews \cup {<<a, Len(review[a]) + 1>>}
    <3>1. PICK b \in Applicant, i \in 1..MaxReviews : r = <<b, i>> /\ i <= Len(review'[b])
      BY <2>1 DEF Reviews
    <3>2. CASE b # a
      <4>1. <<b, i>> \in Applicant \X (1..MaxReviews) /\ i <= Len(review[b])
        BY <1>2, <3>1, <3>2
      <4>2. <<b, i>>[1] = b /\ <<b, i>>[2] = i
        OBVIOUS
      <4>3. QED
        BY <3>1, <4>1, <4>2 DEF Reviews
    <3>3. CASE b = a
      <4>1. i <= Len(review[a]) \/ i = Len(review[a]) + 1
        BY <1>2, <3>1, <3>3
      <4>2. QED
        BY <3>1, <3>3, <4>1 DEF Reviews
    <3>4. QED
      BY <3>2, <3>3
  <2>2. QED
    BY <2>1
<1>5. IsFiniteSet(Reviews \cup {<<a, Len(review[a]) + 1>>})
  BY FS_AddElement DEF IdvLimits
<1>6. IsFiniteSet(Reviews')
  BY <1>4, <1>5, FS_Subset
<1>7. \A b \in Applicant : Len(review'[b]) <= MaxReviews
  BY <1>2, <1>3, IdvBound DEF IdvLimits
<1>8. QED
  BY <1>6, <1>7

LEMMA IdvTypes ==
    ASSUME IdvInv, IdvLimits, [IdvNext]_idvRows
    PROVE  IdvLimits'
<1>1. ASSUME NEW a \in Applicant, Review(a) PROVE IdvLimits'
  <2>1. UNCHANGED <<grant, idvDone, told, unread>>
    BY <1>1 DEF Review
  <2>2. QED
    BY <1>1, <2>1, ReviewCounted DEF IdvLimits
<1>2. ASSUME UNCHANGED review,
             grant' = grant, idvDone' \in BOOLEAN, unread' \in SUBSET Applicant,
             told' \in StoredStatus \cup {"nothing", "not_found"}
      PROVE  IdvLimits'
  BY <1>2 DEF IdvLimits, Reviews
<1>3. ASSUME NEW d \in delivery, UpdateApplicant(d) PROVE IdvLimits'
  <2>1. d.to \in Applicant
    BY DeliveryIsReal
  <2>2. QED
    BY <1>2, <1>3, <2>1 DEF UpdateApplicant, IdvLimits
<1>4. ASSUME NEW d \in delivery, UpdateSession(d) PROVE IdvLimits'
  BY <1>2, <1>4 DEF UpdateSession, IdvLimits, Grants
<1>5. CASE GetStatus
  <2>1. told' \in StoredStatus \cup {"nothing", "not_found"}
    <3>1. \A a \in Rows : applicant[a].stored \in StoredStatus
      BY DEF Rows, IdvInv, IdvShape, ApplicantRow
    <3>2. \A a \in Rows : PendingStatus(a) \in StoredStatus
      BY DEF PendingStatus, StoredStatus, Verdict
    <3>3. CASE told' = "not_found"
      BY <3>3
    <3>4. CASE \E a \in Rows : told' \in {PendingStatus(a), applicant[a].stored}
      BY <3>1, <3>2, <3>4
    <3>5. QED
      BY <1>5, <3>3, <3>4 DEF GetStatus
  <2>2. QED
    BY <1>2, <1>5, <2>1 DEF GetStatus, IdvLimits
<1>6. CASE UNCHANGED <<grant, review, idvDone, told, unread>>
  BY <1>2, <1>6 DEF IdvLimits
<1>7. QED
  BY <1>1, <1>3, <1>4, <1>5, <1>6 DEF IdvNext, idvRows, StartIDV, CreateApplicant,
     CreateAccessToken, InsertApplicant, AuditApplicant, StartFails, StartStep, Redeliver,
     AuditResult, DeliveryFails

LEMMA InitIdvLimits == IdvInit => IdvLimits
<1>1. SUFFICES ASSUME IdvInit PROVE IdvLimits
  OBVIOUS
<1>2. \A a \in Applicant : Len(review[a]) = 0
  BY <1>1 DEF IdvInit
<1>3. Reviews = {}
  BY <1>2 DEF Reviews
<1>4. IsFiniteSet(Reviews)
  BY <1>3, FS_EmptySet
<1>5. \A a \in Applicant : Len(review[a]) <= MaxReviews
  BY <1>2, IdvBound
<1>6. QED
  BY <1>1, <1>4, <1>5 DEF IdvInit, IdvLimits

LEMMA IdvTyped == IdvInv /\ IdvLimits => IdvTypeOK
<1>1. SUFFICES ASSUME IdvInv, IdvLimits PROVE IdvTypeOK
  OBVIOUS
<1>2. \A a \in Applicant : review[a] \in Seq(Verdict) /\ Len(review[a]) \in Nat
  BY <1>1 DEF IdvInv, IdvShape
<1>3. \A a \in Applicant : Range(review[a]) \subseteq Verdict
  BY <1>2 DEF Range
<1>4. ASSUME NEW d \in delivery
      PROVE  d \in [to : Applicant, n : 1..MaxReviews, stage : {"sent", "session", "audit"}]
  <2>1. /\ d \in Dispatch /\ d.to \in Applicant /\ d.n \in 1..Len(review[d.to])
    BY <1>1, DeliveryIsReal
  <2>2. d.n \in 1..MaxReviews
    BY <1>1, <1>2, <2>1, IdvBound DEF IdvLimits
  <2>3. QED
    BY <2>1, <2>2 DEF Dispatch
<1>5. QED
  BY <1>1, <1>3, <1>4 DEF IdvInv, IdvShape, IdvLimits, IdvTypeOK, ApplicantRow
-----------------------------------------------------------------------------
CaseRecord(now) == [status : OpenStatus \cup DecidedStatus, owner : Staff \cup {Unset},
                    flagged : BOOLEAN, band : Band, opened : 0..now,
                    closed : (0..now) \cup {Unset}]
StartRecord(now) == [status : {"in_progress", "submitted"}, at : 0..now]

LEMMA RecordsAge ==
    ASSUME NEW now \in Nat, NEW later \in Nat, now <= later
    PROVE  /\ CaseRecord(now) \subseteq CaseRecord(later)
           /\ StartRecord(now) \subseteq StartRecord(later)
<1>1. 0..now \subseteq 0..later
  OBVIOUS
<1>2. QED
  BY <1>1 DEF CaseRecord, StartRecord

LEMMA DashboardsTyped ==
    DashboardsTypeOK <=>
      /\ clock \in 0..MaxClock /\ approvals \subseteq CaseId
      /\ caseRow \in [CaseId -> CaseRecord(clock) \cup {Unset}]
      /\ started \in [SessionId -> StartRecord(clock) \cup {Unset}]
  BY DEF DashboardsTypeOK, CaseRecord, StartRecord

\* A row that is written has the columns of the table.
LEMMA WrittenCase ==
    ASSUME DashboardsTypeOK, NEW c \in CaseId, NEW row \in CaseRecord(clock),
           caseRow' = [caseRow EXCEPT ![c] = row], approvals' \subseteq CaseId,
           UNCHANGED <<clock, started>>
    PROVE  DashboardsTypeOK'
<1>1. caseRow' \in [CaseId -> CaseRecord(clock) \cup {Unset}]
  BY DashboardsTyped
<1>2. QED
  BY <1>1 DEF DashboardsTypeOK, CaseRecord

LEMMA DashboardsTypes ==
    ASSUME DashboardsTypeOK, [DashboardsNext]_dashboardRows
    PROVE  DashboardsTypeOK'
<1>1. clock \in Nat /\ clock \in 0..clock
  BY DashboardsAssumption DEF DashboardsTypeOK
<1>2. CASE Tick
  <2>1. clock' = clock + 1 /\ clock' \in 0..MaxClock /\ clock' \in Nat
    BY <1>1, <1>2, DashboardsAssumption DEF Tick, DashboardsTypeOK
  <2>2. CaseRecord(clock) \subseteq CaseRecord(clock + 1)
        /\ StartRecord(clock) \subseteq StartRecord(clock + 1)
    BY <1>1, RecordsAge
  <2>3. /\ caseRow' \in [CaseId -> CaseRecord(clock + 1) \cup {Unset}]
        /\ started' \in [SessionId -> StartRecord(clock + 1) \cup {Unset}]
    BY <1>2, <2>2, DashboardsTyped DEF Tick
  <2>4. QED
    BY <1>2, <2>1, <2>3 DEF Tick, DashboardsTypeOK, CaseRecord, StartRecord
<1>3. ASSUME NEW s \in SessionId, InsertSession(s) \/ MarkSubmitted(s) PROVE DashboardsTypeOK'
  <2>1. PICK row \in StartRecord(clock) : started' = [started EXCEPT ![s] = row]
    <3>1. CASE InsertSession(s)
      BY <1>1, <1>3, <3>1 DEF InsertSession, StartRecord
    <3>2. CASE MarkSubmitted(s)
      <4>1. started[s] \in StartRecord(clock)
        BY <3>2, DashboardsTyped DEF MarkSubmitted
      <4>2. [started[s] EXCEPT !.status = "submitted"] \in StartRecord(clock)
        BY <4>1 DEF StartRecord
      <4>3. started' = [started EXCEPT ![s] = [started[s] EXCEPT !.status = "submitted"]]
        BY <3>2, DashboardsTyped DEF MarkSubmitted
      <4>4. QED
        BY <4>2, <4>3
    <3>3. QED
      BY <1>3, <3>1, <3>2
  <2>2. started' \in [SessionId -> StartRecord(clock) \cup {Unset}]
    BY <2>1, DashboardsTyped
  <2>3. UNCHANGED <<clock, caseRow, approvals>>
    BY <1>3 DEF InsertSession, MarkSubmitted
  <2>4. QED
    BY <2>2, <2>3 DEF DashboardsTypeOK, StartRecord
<1>4. ASSUME NEW c \in CaseId, NEW band \in Band, CreateCase(c, band) PROVE DashboardsTypeOK'
  <2> DEFINE row == [status |-> "open", owner |-> Unset, flagged |-> FALSE, band |-> band,
                     opened |-> clock, closed |-> Unset]
  <2>1. row \in CaseRecord(clock)
    BY <1>1 DEF CaseRecord, OpenStatus
  <2>2. caseRow' = [caseRow EXCEPT ![c] = row] /\ UNCHANGED <<clock, approvals, started>>
    BY <1>4 DEF CreateCase
  <2>3. approvals' \subseteq CaseId
    BY <2>2 DEF DashboardsTypeOK
  <2> HIDE DEF row
  <2>4. QED
    BY <2>1, <2>2, <2>3, WrittenCase
<1>5. ASSUME NEW c \in CaseId,
             \/ \E owner \in Staff : AssignCase(c, owner)
             \/ \E status \in {"escalated", "pending_info"} : SetOpenStatus(c, status)
             \/ \E flag \in BOOLEAN : FlagCase(c, flag)
      PROVE  DashboardsTypeOK'
  <2>1. caseRow[c] \in CaseRecord(clock)
    BY <1>5, DashboardsTyped DEF AssignCase, SetOpenStatus, FlagCase
  <2>2. /\ \A owner \in Staff : [caseRow[c] EXCEPT !.owner = owner] \in CaseRecord(clock)
        /\ \A status \in {"escalated", "pending_info"} :
              [caseRow[c] EXCEPT !.status = status] \in CaseRecord(clock)
        /\ \A flag \in BOOLEAN : [caseRow[c] EXCEPT !.flagged = flag] \in CaseRecord(clock)
    BY <2>1 DEF CaseRecord, OpenStatus
  <2>3. PICK row \in CaseRecord(clock) : /\ caseRow' = [caseRow EXCEPT ![c] = row]
                                         /\ UNCHANGED <<clock, approvals, started>>
    BY <1>5, <2>2 DEF AssignCase, SetOpenStatus, FlagCase, WriteCase
  <2>4. approvals' \subseteq CaseId
    BY <2>3 DEF DashboardsTypeOK
  <2>5. QED
    BY <2>3, <2>4, WrittenCase
<1>6. ASSUME NEW c \in CaseId, NEW ruling \in DecidedStatus, DecideCase(c, ruling)
      PROVE  DashboardsTypeOK'
  <2>1. caseRow[c] \in CaseRecord(clock)
    BY <1>6, DashboardsTyped DEF DecideCase
  <2> DEFINE row == [caseRow[c] EXCEPT !.status = ruling, !.closed = clock]
  <2>2. row \in CaseRecord(clock)
    BY <1>1, <2>1 DEF CaseRecord
  <2>3. approvals' \subseteq CaseId /\ UNCHANGED <<clock, started>>
    BY <1>6 DEF DecideCase, DashboardsTypeOK
  <2>4. CASE CloseCase(c, ruling)
    <3>1. caseRow' = [caseRow EXCEPT ![c] = row]
      BY <2>4, DashboardsTyped DEF CloseCase
    <3> HIDE DEF row
    <3>2. QED
      BY <2>2, <2>3, <3>1, WrittenCase
  <2>5. CASE UNCHANGED caseRow
    BY <2>3, <2>5 DEF DashboardsTypeOK
  <2>6. QED
    BY <1>6, <2>4, <2>5 DEF DecideCase
<1>7. CASE UNCHANGED dashboardRows
  BY <1>7 DEF DashboardsTypeOK, dashboardRows
<1>8. QED
  BY <1>2, <1>3, <1>4, <1>5, <1>6, <1>7 DEF DashboardsNext

LEMMA InitDashboards == DashboardsInit => DashboardsTypeOK
  BY DashboardsAssumption DEF DashboardsInit, DashboardsTypeOK
-----------------------------------------------------------------------------
(* Sums and counts                                                         *)

\* Among sets of rows one has no other within it.
LEMMA SmallestSet ==
    ASSUME NEW S, IsFiniteSet(S), NEW F, F \subseteq SUBSET S, F # {}
    PROVE  \E A \in F : \A B \in F : B \subseteq A => B = A
<1>1. IsWellFoundedOn(StrictSubsetOrdering(S), SUBSET S)
  BY FS_StrictSubsetOrderingWellFounded, FS_FiniteSubsetsOfFinite
<1>2. PICK A \in F : \A B \in F : ~(<<B, A>> \in StrictSubsetOrdering(S))
  BY <1>1, WFMin
<1>3. ASSUME NEW B \in F, B \subseteq A PROVE B = A
  <2>1. A \in SUBSET S /\ B \in SUBSET S
    OBVIOUS
  <2>2. QED
    BY <1>2, <1>3, <2>1 DEF StrictSubsetOrdering
<1>4. QED
  BY <1>3

\* sum adds up f over every set of its keys, one key at a time.
Adds(f, sum) ==
    sum = [s \in SUBSET DOMAIN f |->
             IF s = {} THEN 0
             ELSE f[CHOOSE x \in s : TRUE] + sum[s \ {CHOOSE x \in s : TRUE}]]

\* The order of the summands does not matter: what every month adds its own to is the sum.
LEMMA TotalIsUnique ==
    ASSUME NEW f, IsFiniteSet(DOMAIN f), NEW g, DOMAIN g = SUBSET DOMAIN f, g[{}] = 0,
           \A s \in SUBSET DOMAIN f : \A x \in s : g[s] = f[x] + g[s \ {x}]
    PROVE  Total(f) = g[DOMAIN f]
<1> DEFINE sum == CHOOSE h : Adds(f, h)
<1>1. Total(f) = sum[DOMAIN f]
  BY DEF Total, MapThenSumSet, MapThenFoldSet, Adds
<1>2. Adds(f, sum)
  <2> DEFINE h == [s \in SUBSET DOMAIN f |-> g[s]]
  <2>1. ASSUME NEW s \in SUBSET DOMAIN f, s # {}
        PROVE  h[s] = f[CHOOSE x \in s : TRUE] + h[s \ {CHOOSE x \in s : TRUE}]
    <3>1. (CHOOSE x \in s : TRUE) \in s
      BY <2>1
    <3>2. QED
      BY <3>1, s \ {CHOOSE x \in s : TRUE} \in SUBSET DOMAIN f
  <2>2. h[{}] = 0
    OBVIOUS
  <2>3. Adds(f, h)
    BY <2>1, <2>2 DEF Adds
  <2>4. QED
    BY <2>3
<1> DEFINE Differ == {s \in SUBSET DOMAIN f : sum[s] # g[s]}
<1>3. SUFFICES ASSUME Differ # {} PROVE FALSE
  BY <1>1
<1>4. PICK s \in Differ : \A t \in Differ : t \subseteq s => t = s
  <2>1. Differ \subseteq SUBSET DOMAIN f
    OBVIOUS
  <2> HIDE DEF Differ
  <2>2. QED
    BY <1>3, <2>1, SmallestSet
<1>5. s # {}
  BY <1>2, <1>4 DEF Adds
<1>6. PICK x \in s : x = (CHOOSE y \in s : TRUE)
  BY <1>5
<1>7. sum[s] = f[x] + sum[s \ {x}]
  BY <1>2, <1>5, <1>6 DEF Adds
<1>8. sum[s \ {x}] = g[s \ {x}]
  BY <1>4, <1>6
<1>9. QED
  BY <1>4, <1>7, <1>8

\* A count is that of two parts.
LEMMA PartsCount ==
    ASSUME NEW A, NEW B, IsFiniteSet(A \cup B), A \cap B = {}
    PROVE  /\ Cardinality(A \cup B) = Cardinality(A) + Cardinality(B)
           /\ Cardinality(A) \in Nat /\ Cardinality(B) \in Nat
<1>1. IsFiniteSet(A) /\ IsFiniteSet(B)
  BY FS_Subset
<1>2. Cardinality(A \cup B) = Cardinality(A) + Cardinality(B) - Cardinality(A \cap B)
  BY <1>1, FS_Union
<1>3. Cardinality(A \cap B) = 0
  BY FS_EmptySet
<1>4. QED
  BY <1>1, <1>2, <1>3, FS_CardinalityType

\* The rows counted by a column add up to the rows whose column is counted.
LEMMA ClassesAdd ==
    ASSUME NEW S, IsFiniteSet(S), NEW class, NEW f, IsFiniteSet(DOMAIN f),
           \A k \in DOMAIN f : f[k] = Cardinality({s \in S : class[s] = k})
    PROVE  Total(f) = Cardinality({s \in S : class[s] \in DOMAIN f})
<1> DEFINE g == [d \in SUBSET DOMAIN f |-> Cardinality({s \in S : class[s] \in d})]
<1>1. g[{}] = 0
  <2>1. {s \in S : class[s] \in {}} = {}
    OBVIOUS
  <2>2. QED
    BY <2>1, FS_EmptySet
<1>2. ASSUME NEW d \in SUBSET DOMAIN f, NEW x \in d PROVE g[d] = f[x] + g[d \ {x}]
  <2> DEFINE A == {s \in S : class[s] = x}
             B == {s \in S : class[s] \in d \ {x}}
  <2>1. A \cup B = {s \in S : class[s] \in d} /\ A \cap B = {}
    OBVIOUS
  <2>2. IsFiniteSet(A \cup B)
    BY FS_Subset, A \cup B \in SUBSET S
  <2>3. Cardinality(A \cup B) = Cardinality(A) + Cardinality(B)
    BY <2>1, <2>2, PartsCount
  <2>4. f[x] = Cardinality(A) /\ g[d \ {x}] = Cardinality(B)
        /\ g[d] = Cardinality(A \cup B)
    BY <2>1, d \ {x} \in SUBSET DOMAIN f
  <2>5. QED
    BY <2>3, <2>4
<1> HIDE DEF g
<1>3. DOMAIN g = SUBSET DOMAIN f /\ g[DOMAIN f] = Cardinality({s \in S : class[s] \in DOMAIN f})
  BY DEF g
<1>4. QED
  BY <1>1, <1>2, <1>3, TotalIsUnique

\* A sum of naturals that have a bound is a natural.
LEMMA NaturalsAdd ==
    ASSUME NEW f, IsFiniteSet(DOMAIN f), NEW m \in Nat, \A k \in DOMAIN f : f[k] \in 0..m
    PROVE  Total(f) \in Nat
<1> DEFINE Units(d) == {p \in d \X (1..m) : p[2] <= f[p[1]]}
           g == [d \in SUBSET DOMAIN f |-> Cardinality(Units(d))]
<1>1. \A d \in SUBSET DOMAIN f : IsFiniteSet(Units(d))
  <2>1. TAKE d \in SUBSET DOMAIN f
  <2>2. IsFiniteSet(d) /\ IsFiniteSet(1..m)
    BY FS_Subset, FS_Interval
  <2>3. IsFiniteSet(d \X (1..m))
    BY <2>2, FS_Product
  <2>4. QED
    BY <2>3, FS_Subset, Units(d) \in SUBSET (d \X (1..m))
<1>2. g[{}] = 0
  BY FS_EmptySet, Units({}) = {}
<1>3. ASSUME NEW d \in SUBSET DOMAIN f, NEW x \in d PROVE g[d] = f[x] + g[d \ {x}]
  <2>1. Units(d) = Units({x}) \cup Units(d \ {x}) /\ Units({x}) \cap Units(d \ {x}) = {}
    OBVIOUS
  <2>2. Cardinality(Units(d)) = Cardinality(Units({x})) + Cardinality(Units(d \ {x}))
    <3>1. IsFiniteSet(Units({x}) \cup Units(d \ {x}))
      BY <1>1, <2>1
    <3> HIDE DEF Units
    <3>2. QED
      BY <2>1, <3>1, PartsCount
  <2>3. Cardinality(Units({x})) = f[x]
    <3> DEFINE h == [i \in 1..f[x] |-> <<x, i>>]
    <3>1. f[x] \in Nat /\ f[x] <= m
      OBVIOUS
    <3>2. Units({x}) = {<<x, i>> : i \in 1..f[x]}
      BY <3>1
    <3>3. h \in Bijection(1..f[x], Units({x}))
      BY <3>2 DEF Bijection, Injection, Surjection, IsInjective
    <3>4. ExistsBijection(1..f[x], Units({x}))
      BY <3>3 DEF ExistsBijection
    <3>5. QED
      BY <3>1, <3>4, FS_CountingElements
  <2>4. QED
    BY <2>2, <2>3, d \ {x} \in SUBSET DOMAIN f
<1> HIDE DEF g
<1>4. DOMAIN g = SUBSET DOMAIN f /\ g[DOMAIN f] \in Nat
  BY <1>1, FS_CardinalityType DEF g
<1>5. QED
  BY <1>2, <1>3, <1>4, TotalIsUnique

-----------------------------------------------------------------------------
(* The rows that are counted                                               *)

\* Only finitely many rows were written.  A case that was decided has closed_at, unless its
\* author did not see it; closed_at comes with an approval, and after opened_at.
CaseHistory ==
    \A c \in CaseRows :
      /\ caseRow[c].status \in DecidedStatus => caseRow[c].closed # Unset
      /\ caseRow[c].closed # Unset => /\ c \in approvals
                                     /\ caseRow[c].closed >= caseRow[c].opened

FewRows == IsFiniteSet(CaseRows) /\ IsFiniteSet(Sessions)

\* The columns of a row of cases.
LEMMA CaseColumns ==
    ASSUME DashboardsTypeOK, NEW c \in CaseRows
    PROVE  /\ c \in CaseId /\ caseRow[c].status \in OpenStatus \cup DecidedStatus
           /\ caseRow[c].owner \in Staff \cup {Unset} /\ caseRow[c].band \in Band
           /\ caseRow[c].opened \in Nat /\ caseRow[c].opened <= clock
           /\ caseRow[c].closed # Unset => caseRow[c].closed \in Nat /\ caseRow[c].closed <= clock
           /\ clock \in Nat
  BY DashboardsAssumption DEF DashboardsTypeOK, CaseRows

\* The columns of a row of onboarding_sessions.
LEMMA SessionColumns ==
    ASSUME DashboardsTypeOK, NEW s \in Sessions
    PROVE  /\ started[s].status \in {"in_progress", "submitted"}
           /\ started[s].at \in Nat /\ started[s].at <= clock /\ clock \in Nat
  BY DashboardsAssumption DEF DashboardsTypeOK, Sessions

\* A set of cases has the one that was opened first.
LEMMA OldestCase ==
    ASSUME DashboardsTypeOK, NEW S, S \subseteq CaseRows, S # {}
    PROVE  \E c \in S : \A d \in S : caseRow[c].opened <= caseRow[d].opened
<1> DEFINE T == {caseRow[c].opened : c \in S}
<1>1. \A c \in S : caseRow[c].opened \in Nat
  BY CaseColumns
<1>2. T \subseteq Nat /\ T # {}
  BY <1>1
<1> HIDE DEF T
<1>3. PICK t \in T : \A u \in T : ~(<<u, t>> \in OpToRel(<, Nat))
  BY <1>2, NatLessThanWellFounded, WFMin
<1>4. \A u \in T : t <= u
  <2>1. TAKE u \in T
  <2>2. u \in Nat /\ t \in Nat
    BY <1>2
  <2>3. ~(u < t)
    BY <1>3, <2>2 DEF OpToRel
  <2>4. QED
    BY <2>2, <2>3
<1>5. QED
  BY <1>3, <1>4 DEF T

\* The open cases, by their owner: a sum over the staff and the two tiles without an owner.
LEMMA OpenCasesCount ==
    ASSUME DashboardsTypeOK, FewRows
    PROVE  CountOpenCases
             = CountUnassignedOpenCases
               + Total([user \in Staff |-> CountCasesAssignedTo(user)
                          + CountCasesAssignedToWithStatus(user, {"escalated"})])
               + CountCasesAssignedToWithStatus(Unset, {"pending_info", "escalated"})
<1> DEFINE Undecided == {c \in CaseRows : caseRow[c].status \in OpenStatus}
           owners == [c \in CaseRows |-> caseRow[c].owner]
           f == [user \in Staff |-> CountCasesAssignedTo(user)
                          + CountCasesAssignedToWithStatus(user, {"escalated"})]
           Unassigned == {c \in CaseRows : caseRow[c].status = "open"
                                           /\ caseRow[c].owner = Unset}
           Neither == {c \in CaseRows : /\ caseRow[c].owner = Unset
                                        /\ caseRow[c].status \in {"pending_info", "escalated"}}
           Assigned == {c \in Undecided : owners[c] \in Staff}
<1>1. IsFiniteSet(Undecided)
  BY FS_Subset, Undecided \in SUBSET CaseRows DEF FewRows
<1>2. ASSUME NEW user \in Staff PROVE f[user] = Cardinality({c \in Undecided : owners[c] = user})
  <2> DEFINE A == {c \in CaseRows : /\ caseRow[c].owner = user
                                    /\ caseRow[c].status \in {"open", "pending_info"}}
             B == {c \in CaseRows : /\ caseRow[c].owner = user
                                    /\ caseRow[c].status \in {"escalated"}}
  <2>1. A \cup B = {c \in Undecided : owners[c] = user} /\ A \cap B = {}
    BY DEF OpenStatus
  <2>2. IsFiniteSet(A \cup B)
    BY <1>1, <2>1, FS_Subset, A \cup B \in SUBSET Undecided
  <2>3. Cardinality(A \cup B) = Cardinality(A) + Cardinality(B)
    <3> HIDE DEF A, B
    <3>1. QED
      BY <2>1, <2>2, PartsCount
  <2>4. f[user] = Cardinality(A) + Cardinality(B)
    BY DEF CountCasesAssignedTo, CountCasesAssignedToWithStatus
  <2>5. QED
    BY <2>1, <2>3, <2>4
<1>3. Total(f) = Cardinality(Assigned)
  <2>1. DOMAIN f = Staff /\ IsFiniteSet(Staff)
    BY DashboardsAssumption
  <2> HIDE DEF f, Undecided, owners
  <2>2. QED
    BY <1>1, <1>2, <2>1, ClassesAdd
<1>4. /\ Undecided = Unassigned \cup (Assigned \cup Neither)
      /\ Unassigned \cap (Assigned \cup Neither) = {} /\ Assigned \cap Neither = {}
  BY CaseColumns, DashboardsAssumption DEF OpenStatus
<1>5. /\ CountOpenCases = Cardinality(Undecided)
      /\ CountUnassignedOpenCases = Cardinality(Unassigned)
      /\ CountCasesAssignedToWithStatus(Unset, {"pending_info", "escalated"})
           = Cardinality(Neither)
  BY DEF CountOpenCases, CountCasesByStatus, CountUnassignedOpenCases,
         CountCasesAssignedToWithStatus
<1> HIDE DEF Undecided, Unassigned, Assigned, Neither, f
<1>6. /\ Cardinality(Undecided) = Cardinality(Unassigned) + Cardinality(Assigned \cup Neither)
      /\ Cardinality(Unassigned) \in Nat
  BY <1>1, <1>4, PartsCount
<1>7. IsFiniteSet(Assigned \cup Neither)
  BY <1>1, <1>4, FS_Subset, Assigned \cup Neither \in SUBSET Undecided
<1>8. /\ Cardinality(Assigned \cup Neither) = Cardinality(Assigned) + Cardinality(Neither)
      /\ Cardinality(Assigned) \in Nat /\ Cardinality(Neither) \in Nat
  BY <1>4, <1>7, PartsCount
<1>9. Cardinality(Undecided) = Cardinality(Unassigned) + Total(f) + Cardinality(Neither)
  BY <1>3, <1>6, <1>8
<1>10. QED
  BY <1>5, <1>9 DEF f

\* The tiles of the dashboards.
LEMMA TilesCount ==
    ASSUME DashboardsTypeOK, FewRows
    PROVE  TilesAgree
<1>1. \A c \in CaseRows : caseRow[c].status # "closed"
  BY CaseColumns DEF OpenStatus, DecidedStatus
<1>2. \A user \in Staff : CountOverdueAssignedCases(user, 1) <= CountCasesAssignedTo(user)
  <2>1. TAKE user \in Staff
  <2> DEFINE Mine == {c \in CaseRows : /\ caseRow[c].owner = user
                                       /\ caseRow[c].status \in {"open", "pending_info"}}
             Late == {c \in CaseRows : /\ caseRow[c].owner = user
                                       /\ caseRow[c].status \in {"open", "pending_info"}
                                       /\ caseRow[c].opened < clock - 2 * 1}
  <2>2. IsFiniteSet(Mine)
    BY FS_Subset, Mine \in SUBSET CaseRows DEF FewRows
  <2>3. Cardinality(Late) <= Cardinality(Mine)
    BY <2>2, FS_Subset, Late \in SUBSET Mine
  <2>4. QED
    BY <2>3 DEF CountOverdueAssignedCases, CountCasesAssignedTo, CountCasesAssignedToWithStatus
<1>3. CountCasesByQueue({"standard", "edd", "escalation"}) = Cardinality(CaseRows)
  <2>1. {c \in CaseRows : /\ RiskBandToQueue[caseRow[c].band] \in {"standard", "edd", "escalation"}
                          /\ caseRow[c].status # "closed"} = CaseRows
    BY <1>1, CaseColumns DEF RiskBandToQueue, Band
  <2>2. QED
    BY <2>1 DEF CountCasesByQueue
<1>4. CountOpenCasesByRiskBand(Band) = CountOpenCases + CountCasesByStatus(DecidedStatus)
  <2> DEFINE A == {c \in CaseRows : caseRow[c].status \in OpenStatus}
             B == {c \in CaseRows : caseRow[c].status \in DecidedStatus}
  <2>1. A \cup B = CaseRows /\ A \cap B = {}
    BY CaseColumns DEF OpenStatus, DecidedStatus
  <2>2. Cardinality(CaseRows) = Cardinality(A) + Cardinality(B)
    <3> HIDE DEF A, B
    <3>1. QED
      BY <2>1, PartsCount DEF FewRows
  <2>3. {c \in CaseRows : caseRow[c].band \in Band /\ caseRow[c].status # "closed"} = CaseRows
    BY <1>1, CaseColumns
  <2>4. QED
    BY <2>2, <2>3 DEF CountOpenCasesByRiskBand, CountOpenCases, CountCasesByStatus
<1>5. CountSarFlagged = Cardinality({c \in CaseRows : caseRow[c].flagged})
  <2>1. {c \in CaseRows : caseRow[c].flagged /\ caseRow[c].status # "closed"}
          = {c \in CaseRows : caseRow[c].flagged}
    BY <1>1
  <2>2. QED
    BY <2>1 DEF CountSarFlagged
<1>6. \A band \in Band : GetOldestOpenInQueue({RiskBandToQueue[band]}) = {}
                           <=> CountOpenCasesByRiskBand({band}) = 0
  <2>1. TAKE band \in Band
  <2> DEFINE Queue == {c \in CaseRows : caseRow[c].band \in {band}
                                        /\ caseRow[c].status # "closed"}
  <2>2. \A c \in CaseRows :
          RiskBandToQueue[caseRow[c].band] \in {RiskBandToQueue[band]} <=> caseRow[c].band = band
    BY CaseColumns DEF RiskBandToQueue, Band
  <2>3. GetOldestOpenInQueue({RiskBandToQueue[band]})
          = {c \in Queue : \A d \in Queue : caseRow[c].opened <= caseRow[d].opened}
    BY <2>2 DEF GetOldestOpenInQueue
  <2>4. CountOpenCasesByRiskBand({band}) = Cardinality(Queue)
    BY DEF CountOpenCasesByRiskBand
  <2>5. IsFiniteSet(Queue) /\ Queue \subseteq CaseRows
    BY FS_Subset, Queue \in SUBSET CaseRows DEF FewRows
  <2>6. Cardinality(Queue) = 0 <=> Queue = {}
    BY <2>5, FS_EmptySet
  <2>7. Queue # {} => \E c \in Queue : \A d \in Queue : caseRow[c].opened <= caseRow[d].opened
    BY <2>5, OldestCase
  <2>8. QED
    BY <2>3, <2>4, <2>6, <2>7
<1>7. QED
  BY <1>2, <1>3, <1>4, <1>5, <1>6, OpenCasesCount DEF TilesAgree

\* A column of finitely many rows has finitely many values.
LEMMA ImageIsFinite ==
    ASSUME NEW S, IsFiniteSet(S), NEW h
    PROVE  IsFiniteSet({h[s] : s \in S})
<1>1. [s \in S |-> h[s]] \in Surjection(S, {h[s] : s \in S})
  BY DEF Surjection
<1>2. QED
  BY <1>1, FS_Surjection

\* The sum of one number.
LEMMA OneSummand ==
    ASSUME NEW f, NEW b, DOMAIN f = {b}, f[b] \in Int
    PROVE  Total(f) = f[b]
<1> DEFINE g == [s \in SUBSET {b} |-> IF s = {} THEN 0 ELSE f[b]]
<1>1. g[{}] = 0 /\ DOMAIN g = SUBSET DOMAIN f /\ g[DOMAIN f] = f[b]
  OBVIOUS
<1>2. ASSUME NEW s \in SUBSET DOMAIN f, NEW x \in s PROVE g[s] = f[x] + g[s \ {x}]
  <2>1. x = b /\ s = {b} /\ s \ {x} = {}
    OBVIOUS
  <2>2. QED
    BY <2>1
<1>3. IsFiniteSet(DOMAIN f)
  BY FS_Singleton
<1> HIDE DEF g
<1>4. QED
  BY <1>1, <1>2, <1>3, TotalIsUnique

\* What the two tables of the report count.
Found(viewer, monthsBack) ==
    {c \in VisibleTo(viewer) : InRange(caseRow[c].opened, monthsBack)}
FoundClosed(viewer, monthsBack) ==
    {c \in Found(viewer, monthsBack) : caseRow[c].closed # Unset}
StatusIn(S, month, T) == {c \in S : MonthKey(caseRow[c].opened) = month /\ caseRow[c].status \in T}
OfBand(S, band) == {c \in S : caseRow[c].band = band}
Months(S) == {MonthKey(caseRow[c].opened) : c \in S}
Bands(S) == {caseRow[c].band : c \in S}

\* The rows that are found are rows of the table, finitely many.
LEMMA FoundRows ==
    ASSUME FewRows, NEW viewer, NEW monthsBack
    PROVE  /\ FoundClosed(viewer, monthsBack) \subseteq Found(viewer, monthsBack)
           /\ Found(viewer, monthsBack) \subseteq CaseRows
           /\ IsFiniteSet(Found(viewer, monthsBack))
           /\ IsFiniteSet(FoundClosed(viewer, monthsBack))
<1>1. /\ Found(viewer, monthsBack) \in SUBSET CaseRows
      /\ FoundClosed(viewer, monthsBack) \in SUBSET Found(viewer, monthsBack)
  BY DEF Found, FoundClosed, VisibleTo
<1>2. QED
  BY <1>1, FS_Subset DEF FewRows

\* So are their months and their bands.
LEMMA FewColumns ==
    ASSUME NEW S, IsFiniteSet(S)
    PROVE  IsFiniteSet(Months(S)) /\ IsFiniteSet(Bands(S))
<1> DEFINE months == [c \in S |-> MonthKey(caseRow[c].opened)]
           bands == [c \in S |-> caseRow[c].band]
<1>1. Months(S) = {months[c] : c \in S} /\ Bands(S) = {bands[c] : c \in S}
  BY DEF Months, Bands
<1> HIDE DEF months, bands
<1>2. QED
  BY <1>1, ImageIsFinite

\* The months of the report, and the decided cases of one of them.
LEMMA ApprovalRow ==
    ASSUME DashboardsTypeOK, FewRows, NEW viewer, NEW monthsBack,
           NEW rate, rate = GetApprovalRateByMonth(viewer, monthsBack)
    PROVE  /\ DOMAIN rate = Months(Found(viewer, monthsBack))
           /\ \A month \in DOMAIN rate :
                rate[month].approved + rate[month].rejected
                  = Cardinality(StatusIn(Found(viewer, monthsBack), month, DecidedStatus))
<1> DEFINE S == Found(viewer, monthsBack)
<1>1. rate = [month \in Months(S) |->
                [approved |-> Cardinality(StatusIn(S, month, {"approved"})),
                 rejected |-> Cardinality(StatusIn(S, month, {"rejected"})),
                 pending  |-> Cardinality(StatusIn(S, month, OpenStatus \cup {"closed"}))]]
  BY DEF GetApprovalRateByMonth, Found, Months, StatusIn
<1>2. ASSUME NEW month
      PROVE  Cardinality(StatusIn(S, month, {"approved"}))
             + Cardinality(StatusIn(S, month, {"rejected"}))
               = Cardinality(StatusIn(S, month, DecidedStatus))
  <2> DEFINE A == StatusIn(S, month, {"approved"})
             B == StatusIn(S, month, {"rejected"})
  <2>1. A \cup B = StatusIn(S, month, DecidedStatus) /\ A \cap B = {}
    BY DEF DecidedStatus, StatusIn
  <2>2. IsFiniteSet(A \cup B)
    <3>1. A \cup B \in SUBSET S
      BY DEF StatusIn
    <3>2. QED
      BY <3>1, FoundRows, FS_Subset
  <2> HIDE DEF A, B
  <2>3. Cardinality(A \cup B) = Cardinality(A) + Cardinality(B)
    BY <2>1, <2>2, PartsCount
  <2>4. QED
    BY <2>1, <2>3 DEF A, B
<1> HIDE DEF S
<1>3. QED
  BY <1>1, <1>2 DEF S

\* A row per band, over the cases that have closed_at.
LEMMA DecisionRow ==
    ASSUME DashboardsTypeOK, FewRows, CaseHistory, NEW viewer, NEW monthsBack,
           NEW table, table = GetAvgTimeToDecision(viewer, monthsBack)
    PROVE  /\ DOMAIN table = Bands(FoundClosed(viewer, monthsBack))
           /\ \A band \in DOMAIN table :
                /\ table[band].decisions
                     = Cardinality(OfBand(FoundClosed(viewer, monthsBack), band))
                /\ table[band].total_days >= 0
<1> DEFINE S == FoundClosed(viewer, monthsBack)
           spans(band) == [c \in OfBand(S, band) |-> caseRow[c].closed - caseRow[c].opened]
<1>1. table = [band \in Bands(S) |->
                 [total_days |-> Total(spans(band)), decisions |-> Cardinality(OfBand(S, band))]]
  <2>1. {c \in VisibleTo(viewer) : /\ InRange(caseRow[c].opened, monthsBack)
                                   /\ caseRow[c].closed # Unset} = S
    BY DEF FoundClosed, Found
  <2> HIDE DEF S
  <2>2. QED
    BY <2>1 DEF GetAvgTimeToDecision, Bands, OfBand
<1>2. ASSUME NEW band PROVE Total(spans(band)) >= 0
  <2>1. OfBand(S, band) \in SUBSET S /\ S \subseteq CaseRows /\ IsFiniteSet(S)
    BY FoundRows DEF OfBand
  <2>2. \A c \in OfBand(S, band) : caseRow[c].closed - caseRow[c].opened \in 0..clock
    <3>1. TAKE c \in OfBand(S, band)
    <3>2. c \in CaseRows /\ caseRow[c].closed # Unset
      BY <2>1 DEF FoundClosed
    <3>3. QED
      BY <3>2, CaseColumns DEF CaseHistory
  <2>3. clock \in Nat
    BY DashboardsAssumption DEF DashboardsTypeOK
  <2> DEFINE f == spans(band)
  <2>4. IsFiniteSet(DOMAIN f) /\ \A c \in DOMAIN f : f[c] \in 0..clock
    BY <2>1, <2>2, FS_Subset
  <2> HIDE DEF f
  <2>5. Total(f) \in Nat
    BY <2>3, <2>4, NaturalsAdd
  <2>6. QED
    BY <2>5 DEF f
<1> HIDE DEF S, spans
<1>3. QED
  BY <1>1, <1>2 DEF S

\* The headline, the table of times and the approvals.
LEMMA ReportsCount ==
    ASSUME DashboardsTypeOK, FewRows, CaseHistory
    PROVE  ReportsAgree
<1> SUFFICES ASSUME NEW viewer \in Staff \cup {Unset}
             PROVE  LET every == MonthKey(clock) + 1
                        headline == Sum(GetApprovalRateByMonth(viewer, every),
                                        LAMBDA r : r.approved + r.rejected)
                        table == GetAvgTimeToDecision(viewer, every)
                    IN /\ Sum(table, LAMBDA r : r.decisions)
                            = headline + Cardinality({c \in VisibleTo(viewer) :
                                                        /\ caseRow[c].closed # Unset
                                                        /\ caseRow[c].status \in OpenStatus})
                       /\ Cardinality(approvals \cap VisibleTo(viewer))
                            = Sum(table, LAMBDA r : r.decisions)
                              + Cardinality({c \in VisibleTo(viewer) \cap approvals :
                                               caseRow[c].closed = Unset})
                       /\ \A band \in DOMAIN table : table[band].total_days >= 0
  BY DEF ReportsAgree
<1> DEFINE every == MonthKey(clock) + 1
           rate == GetApprovalRateByMonth(viewer, every)
           table == GetAvgTimeToDecision(viewer, every)
           V == VisibleTo(viewer)
           Closed == {c \in V : caseRow[c].closed # Unset}
           Judged == {c \in V : caseRow[c].status \in DecidedStatus}
           Again == {c \in V : caseRow[c].closed # Unset /\ caseRow[c].status \in OpenStatus}
           Unread == {c \in V \cap approvals : caseRow[c].closed = Unset}
<1>1. V \subseteq CaseRows /\ IsFiniteSet(V)
  BY FS_Subset, V \in SUBSET CaseRows DEF VisibleTo, FewRows
<1>2. V = Found(viewer, every) /\ Closed = FoundClosed(viewer, every)
  <2>1. \A c \in V : InRange(caseRow[c].opened, every)
    <3>1. TAKE c \in V
    <3>2. caseRow[c].opened \in Nat /\ clock \in Nat /\ MonthLength \in Nat \ {0}
      BY <1>1, CaseColumns, DashboardsAssumption
    <3>3. MonthKey(caseRow[c].opened) \in Nat /\ MonthKey(clock) \in Nat
      BY <3>2 DEF MonthKey
    <3>4. QED
      BY <3>3 DEF InRange
  <2>2. QED
    BY <2>1 DEF Found, FoundClosed
<1>3. Sum(rate, LAMBDA r : r.approved + r.rejected) = Cardinality(Judged)
  <2> DEFINE f == [month \in DOMAIN rate |-> rate[month].approved + rate[month].rejected]
             months == [c \in V |-> MonthKey(caseRow[c].opened)]
  <2>1. /\ DOMAIN rate = Months(V) /\ IsFiniteSet(DOMAIN rate)
        /\ \A month \in DOMAIN rate :
             rate[month].approved + rate[month].rejected
               = Cardinality(StatusIn(V, month, DecidedStatus))
    <3>1. rate = GetApprovalRateByMonth(viewer, every)
      OBVIOUS
    <3> HIDE DEF every, rate, V
    <3>2. QED
      BY <1>1, <1>2, <3>1, ApprovalRow, FewColumns
  <2>2. \A month : StatusIn(V, month, DecidedStatus) = {c \in Judged : months[c] = month}
    BY DEF StatusIn
  <2>3. IsFiniteSet(Judged)
    BY <1>1, FS_Subset, Judged \in SUBSET V
  <2>4. {c \in Judged : months[c] \in Months(V)} = Judged
    BY DEF Months
  <2> HIDE DEF rate, Judged, months, V
  <2>5. IsFiniteSet(DOMAIN f)
        /\ \A month \in DOMAIN f : f[month] = Cardinality({c \in Judged : months[c] = month})
    BY <2>1, <2>2
  <2>6. {c \in Judged : months[c] \in DOMAIN f} = Judged
    BY <2>1, <2>4
  <2> HIDE DEF f
  <2>7. Total(f) = Cardinality({c \in Judged : months[c] \in DOMAIN f})
    BY <2>3, <2>5, ClassesAdd
  <2>8. QED
    BY <2>6, <2>7 DEF Sum, f
<1>4. /\ Sum(table, LAMBDA r : r.decisions) = Cardinality(Closed)
      /\ \A band \in DOMAIN table : table[band].total_days >= 0
  <2> DEFINE f == [band \in DOMAIN table |-> table[band].decisions]
             bands == [c \in Closed |-> caseRow[c].band]
  <2>1. IsFiniteSet(Closed)
    BY <1>1, FS_Subset, Closed \in SUBSET V
  <2>2. /\ DOMAIN table = Bands(Closed) /\ IsFiniteSet(DOMAIN table)
        /\ \A band \in DOMAIN table : /\ table[band].decisions = Cardinality(OfBand(Closed, band))
                                      /\ table[band].total_days >= 0
    <3>1. table = GetAvgTimeToDecision(viewer, every)
      OBVIOUS
    <3> HIDE DEF every, table, Closed
    <3>2. QED
      BY <1>2, <2>1, <3>1, DecisionRow, FewColumns
  <2>3. \A band : OfBand(Closed, band) = {c \in Closed : bands[c] = band}
    BY DEF OfBand
  <2>4. {c \in Closed : bands[c] \in Bands(Closed)} = Closed
    BY DEF Bands
  <2> HIDE DEF table, Closed, bands
  <2>5. IsFiniteSet(DOMAIN f)
        /\ \A band \in DOMAIN f : f[band] = Cardinality({c \in Closed : bands[c] = band})
    BY <2>2, <2>3
  <2>6. {c \in Closed : bands[c] \in DOMAIN f} = Closed
    BY <2>2, <2>4
  <2> HIDE DEF f
  <2>7. Total(f) = Cardinality({c \in Closed : bands[c] \in DOMAIN f})
    BY <2>1, <2>5, ClassesAdd
  <2>8. QED
    BY <2>2, <2>6, <2>7 DEF Sum, f
<1>5. Closed = Judged \cup Again /\ Judged \cap Again = {}
  BY <1>1, CaseColumns DEF CaseHistory, OpenStatus, DecidedStatus
<1>6. approvals \cap V = Closed \cup Unread /\ Closed \cap Unread = {}
  BY <1>1 DEF CaseHistory
<1>7. IsFiniteSet(Closed) /\ IsFiniteSet(approvals \cap V)
  BY <1>1, FS_Subset, Closed \in SUBSET V, approvals \cap V \in SUBSET V
<1>8. Cardinality(Closed) = Cardinality(Judged) + Cardinality(Again)
  <2> HIDE DEF Closed, Judged, Again
  <2>1. QED
    BY <1>5, <1>7, PartsCount
<1>9. Cardinality(approvals \cap V) = Cardinality(Closed) + Cardinality(Unread)
  <2> HIDE DEF Closed, Unread, V
  <2>1. QED
    BY <1>6, <1>7, PartsCount
<1>10. QED
  BY <1>3, <1>4, <1>8, <1>9

\* The bars count every row of the last days, once.
LEMMA BarsCount ==
    ASSUME NEW at, IsFiniteSet(DOMAIN at), clock \in Nat,
           \A x \in DOMAIN at : at[x] \in Nat /\ at[x] <= clock
    PROVE  /\ Sum(DailyVolume(at), LAMBDA n : n)
                = Cardinality({x \in DOMAIN at : at[x] > clock - 2 * Days})
           /\ DailyVolume(at)[Days]
                = Cardinality({x \in DOMAIN at : at[x] >= clock - 1})
<1> DEFINE volume == DailyVolume(at)
           f == [d \in DOMAIN volume |-> volume[d]]
           bar == [x \in DOMAIN at |-> Days - (clock - at[x]) \div 2]
<1>1. Days \in Nat \ {0}
  BY DashboardsAssumption
<1>2. volume = [d \in 1..Days |-> Cardinality({x \in DOMAIN at : bar[x] = d})]
  <2>1. \A d : {x \in DOMAIN at : bar[x] = d}
                 = {x \in DOMAIN at : d = Days - (clock - at[x]) \div 2}
    OBVIOUS
  <2>2. QED
    BY <2>1 DEF DailyVolume
<1>3. \A x \in DOMAIN at : /\ bar[x] \in 1..Days <=> at[x] > clock - 2 * Days
                           /\ bar[x] = Days <=> at[x] >= clock - 1
  BY <1>1
<1>4. DOMAIN f = 1..Days /\ IsFiniteSet(DOMAIN f)
      /\ \A d \in DOMAIN f : f[d] = Cardinality({x \in DOMAIN at : bar[x] = d})
  <2> HIDE DEF volume, bar
  <2>1. QED
    BY <1>1, <1>2, FS_Interval
<1>5. Total(f) = Cardinality({x \in DOMAIN at : bar[x] \in 1..Days})
  <2> DEFINE S == DOMAIN at
  <2>1. IsFiniteSet(S) /\ IsFiniteSet(DOMAIN f)
        /\ \A d \in DOMAIN f : f[d] = Cardinality({x \in S : bar[x] = d})
    BY <1>4
  <2> HIDE DEF f, bar, S
  <2>2. Total(f) = Cardinality({x \in S : bar[x] \in DOMAIN f})
    BY <2>1, ClassesAdd
  <2>3. QED
    BY <1>4, <2>2 DEF S
<1>6. {x \in DOMAIN at : bar[x] \in 1..Days} = {x \in DOMAIN at : at[x] > clock - 2 * Days}
  BY <1>3
<1>7. {x \in DOMAIN at : bar[x] = Days} = {x \in DOMAIN at : at[x] >= clock - 1}
  BY <1>3
<1>8. volume[Days] = Cardinality({x \in DOMAIN at : bar[x] = Days})
  <2> HIDE DEF volume, bar
  <2>1. QED
    BY <1>1, <1>2
<1>9. Sum(volume, LAMBDA n : n) = Total(f)
  BY DEF Sum
<1>10. QED
  BY <1>5, <1>6, <1>7, <1>8, <1>9

\* The sparklines and the tile of today.
LEMMA VolumesCount ==
    ASSUME DashboardsTypeOK, FewRows
    PROVE  BarsAdd
<1> DEFINE at == [s \in Sessions |-> started[s].at]
           opened == [c \in CaseRows |-> caseRow[c].opened]
<1>1. clock \in Nat /\ Days \in Nat
  BY DashboardsAssumption DEF DashboardsTypeOK
<1>2. /\ \A s \in Sessions : started[s].at \in Nat /\ started[s].at <= clock
      /\ \A c \in CaseRows : caseRow[c].opened \in Nat /\ caseRow[c].opened <= clock
  BY CaseColumns, SessionColumns
<1>3. /\ Sum(GetDailySessionVolume, LAMBDA n : n)
           = Cardinality({s \in Sessions : started[s].at > clock - 2 * Days})
      /\ GetDailySessionVolume[Days] = Cardinality({s \in Sessions : started[s].at >= clock - 1})
  <2>1. DOMAIN at = Sessions /\ IsFiniteSet(Sessions)
        /\ \A s \in Sessions : at[s] = started[s].at
    BY DEF FewRows
  <2>2. GetDailySessionVolume = DailyVolume(at)
    BY DEF GetDailySessionVolume
  <2> HIDE DEF at
  <2>3. /\ Sum(DailyVolume(at), LAMBDA n : n)
             = Cardinality({x \in DOMAIN at : at[x] > clock - 2 * Days})
        /\ DailyVolume(at)[Days] = Cardinality({x \in DOMAIN at : at[x] >= clock - 1})
    BY <1>1, <1>2, <2>1, BarsCount
  <2>4. /\ {x \in DOMAIN at : at[x] > clock - 2 * Days}
             = {s \in Sessions : started[s].at > clock - 2 * Days}
        /\ {x \in DOMAIN at : at[x] >= clock - 1} = {s \in Sessions : started[s].at >= clock - 1}
    BY <2>1
  <2>5. QED
    BY <2>2, <2>3, <2>4
<1>4. Sum(GetDailyCaseVolume, LAMBDA n : n)
        = Cardinality({c \in CaseRows : caseRow[c].opened > clock - 2 * Days})
  <2>1. DOMAIN opened = CaseRows /\ IsFiniteSet(CaseRows)
        /\ \A c \in CaseRows : opened[c] = caseRow[c].opened
    BY DEF FewRows
  <2>2. GetDailyCaseVolume = DailyVolume(opened)
    BY DEF GetDailyCaseVolume
  <2> HIDE DEF opened
  <2>3. Sum(DailyVolume(opened), LAMBDA n : n)
          = Cardinality({x \in DOMAIN opened : opened[x] > clock - 2 * Days})
    BY <1>1, <1>2, <2>1, BarsCount
  <2>4. {x \in DOMAIN opened : opened[x] > clock - 2 * Days}
          = {c \in CaseRows : caseRow[c].opened > clock - 2 * Days}
    BY <2>1
  <2>5. QED
    BY <2>2, <2>3, <2>4
<1>5. CountSessionsSince(clock - 2 * Days + 1)
        = Cardinality({s \in Sessions : started[s].at > clock - 2 * Days})
  <2>1. {s \in Sessions : started[s].at >= clock - 2 * Days + 1}
          = {s \in Sessions : started[s].at > clock - 2 * Days}
    BY <1>1, <1>2
  <2>2. QED
    BY <2>1 DEF CountSessionsSince
<1>6. CountSessionsSince(StartOfToday)
        <= Cardinality({s \in Sessions : started[s].at >= clock - 1})
  <2>1. StartOfToday \in Nat /\ StartOfToday >= clock - 1
    BY <1>1 DEF StartOfToday
  <2>2. {s \in Sessions : started[s].at >= StartOfToday}
          \in SUBSET {s \in Sessions : started[s].at >= clock - 1}
    BY <1>1, <1>2, <2>1
  <2>3. IsFiniteSet({s \in Sessions : started[s].at >= clock - 1})
    BY FS_Subset, {s \in Sessions : started[s].at >= clock - 1} \in SUBSET Sessions DEF FewRows
  <2>4. QED
    BY <2>2, <2>3, FS_Subset DEF CountSessionsSince
<1>7. CountActiveSessions <= CountSessionsSince(0)
  <2>1. {s \in Sessions : started[s].at >= 0} = Sessions
    BY <1>2
  <2>2. {s \in Sessions : started[s].status = "in_progress"} \in SUBSET Sessions
    OBVIOUS
  <2>3. QED
    BY <2>1, <2>2, FS_Subset DEF CountActiveSessions, CountSessionsSince, FewRows
<1>8. GetDailySessionVolume[Days] >= CountSessionsSince(StartOfToday)
  <2>1. IsFiniteSet({s \in Sessions : started[s].at >= clock - 1})
        /\ IsFiniteSet({s \in Sessions : started[s].at >= StartOfToday})
    BY FS_Subset, {s \in Sessions : started[s].at >= clock - 1} \in SUBSET Sessions,
       {s \in Sessions : started[s].at >= StartOfToday} \in SUBSET Sessions DEF FewRows
  <2>2. GetDailySessionVolume[Days] \in Nat /\ CountSessionsSince(StartOfToday) \in Nat
    BY <1>3, <2>1, FS_CardinalityType DEF CountSessionsSince
  <2>3. QED
    BY <1>3, <1>6, <2>2
<1>9. QED
  BY <1>3, <1>4, <1>5, <1>7, <1>8 DEF BarsAdd

\* Of two months in a row, the prior period of one month is the first.
LEMMA PriorRow ==
    ASSUME NEW table, NEW month \in Int, month \in DOMAIN table,
           DOMAIN table \subseteq {month, month + 1}
    PROVE  PriorPeriod(table, 1) = [m \in {month} |-> table[m]]
<1>1. \A m \in DOMAIN table : Cardinality({l \in DOMAIN table : l < m}) < 1 <=> m = month
  <2>1. TAKE m \in DOMAIN table
  <2>2. CASE m = month
    <3>1. {l \in DOMAIN table : l < m} = {}
      BY <2>2
    <3>2. QED
      BY <2>2, <3>1, FS_EmptySet
  <2>3. CASE m = month + 1
    <3>1. {l \in DOMAIN table : l < m} = {month}
      BY <2>3
    <3>2. Cardinality({month}) = 1 /\ m # month
      BY <2>3, FS_Singleton
    <3>3. QED
      BY <3>1, <3>2
  <2>4. QED
    BY <2>2, <2>3
<1>2. {m \in DOMAIN table : Cardinality({l \in DOMAIN table : l < m}) < 1} = {month}
  BY <1>1
<1>3. QED
  BY <1>2 DEF PriorPeriod

\* What the query of two months finds is of this month or of the one before.
LEMMA TwoMonths ==
    ASSUME clock \in Nat, NEW t \in Nat, t <= clock
    PROVE  /\ MonthKey(t) \in Int /\ MonthKey(clock) \in Int
           /\ InRange(t, 2) <=> MonthKey(t) \in {MonthKey(clock) - 1, MonthKey(clock)}
<1>1. MonthLength \in Nat \ {0}
  BY DashboardsAssumption
<1>2. t \div MonthLength \in Int /\ clock \div MonthLength \in Int
      /\ t \div MonthLength <= clock \div MonthLength
  BY <1>1
<1>3. QED
  BY <1>2 DEF MonthKey, InRange

\* The badges of the read-only dashboard.
LEMMA BadgesCompare ==
    ASSUME DashboardsTypeOK, FewRows
    PROVE  PriorIsBefore
<1> DEFINE volume == GetMonthlyOnboardingVolume(2)
           approval == GetApprovalRateByMonth(Unset, 2)
           before == MonthKey(clock) - 1
           Started == {s \in Sessions : MonthKey(started[s].at) = before}
           Ruled == {c \in CaseRows : /\ MonthKey(caseRow[c].opened) = before
                                      /\ caseRow[c].status \in DecidedStatus}
<1>1. clock \in Nat /\ before \in Int
  <2>1. clock \in Nat
    BY DashboardsAssumption DEF DashboardsTypeOK
  <2>2. QED
    BY <2>1, TwoMonths
<1>2. before \in DOMAIN volume =>
        Sum(PriorPeriod(volume, 1), LAMBDA r : r.received) = Cardinality(Started)
  <2> SUFFICES ASSUME before \in DOMAIN volume
               PROVE  Sum(PriorPeriod(volume, 1), LAMBDA r : r.received) = Cardinality(Started)
    OBVIOUS
  <2> DEFINE found == {s \in Sessions : InRange(started[s].at, 2)}
             f == [month \in {before} |-> volume[month].received]
  <2>1. \A s \in Sessions :
          InRange(started[s].at, 2) <=> MonthKey(started[s].at) \in {before, before + 1}
    <3>1. TAKE s \in Sessions
    <3>2. started[s].at \in Nat /\ started[s].at <= clock
      BY SessionColumns
    <3>3. before + 1 = MonthKey(clock)
      BY <1>1, <3>2, TwoMonths
    <3> HIDE DEF before
    <3>4. QED
      BY <1>1, <3>2, <3>3, TwoMonths DEF before
  <2>2. DOMAIN volume \subseteq {before, before + 1}
    BY <2>1 DEF GetMonthlyOnboardingVolume
  <2>3. volume[before].received = Cardinality(Started)
    <3>1. {s \in found : /\ MonthKey(started[s].at) = before
                         /\ started[s].status \in {"in_progress", "submitted"}} = Started
      BY <2>1, SessionColumns
    <3>2. volume[before].received
            = Cardinality({s \in found : /\ MonthKey(started[s].at) = before
                                         /\ started[s].status \in {"in_progress", "submitted"}})
      BY DEF GetMonthlyOnboardingVolume
    <3>3. QED
      BY <3>1, <3>2
  <2>4. Cardinality(Started) \in Nat
    BY FS_Subset, FS_CardinalityType, Started \in SUBSET Sessions DEF FewRows
  <2> HIDE DEF volume, before, Started
  <2>5. PriorPeriod(volume, 1) = [month \in {before} |-> volume[month]]
    BY <1>1, <2>2, PriorRow
  <2>6. Sum(PriorPeriod(volume, 1), LAMBDA r : r.received) = Total(f)
    BY <2>5 DEF Sum
  <2>7. DOMAIN f = {before} /\ f[before] = Cardinality(Started)
    BY <2>3
  <2> HIDE DEF f
  <2>8. QED
    BY <2>4, <2>6, <2>7, OneSummand
<1>3. before \in DOMAIN approval =>
        Sum(PriorPeriod(approval, 1), LAMBDA r : r.approved + r.rejected) = Cardinality(Ruled)
  <2> SUFFICES ASSUME before \in DOMAIN approval
               PROVE  Sum(PriorPeriod(approval, 1), LAMBDA r : r.approved + r.rejected)
                        = Cardinality(Ruled)
    OBVIOUS
  <2> DEFINE S == Found(Unset, 2)
             f == [month \in {before} |-> approval[month].approved + approval[month].rejected]
  <2>1. \A c \in CaseRows :
          InRange(caseRow[c].opened, 2) <=> MonthKey(caseRow[c].opened) \in {before, before + 1}
    <3>1. TAKE c \in CaseRows
    <3>2. caseRow[c].opened \in Nat /\ caseRow[c].opened <= clock
      BY CaseColumns
    <3>3. before + 1 = MonthKey(clock)
      BY <1>1, <3>2, TwoMonths
    <3> HIDE DEF before
    <3>4. QED
      BY <1>1, <3>2, <3>3, TwoMonths DEF before
  <2>2. S = {c \in CaseRows : InRange(caseRow[c].opened, 2)}
    BY DEF Found, VisibleTo
  <2>3. /\ DOMAIN approval = Months(S)
        /\ \A month \in DOMAIN approval :
             approval[month].approved + approval[month].rejected
               = Cardinality(StatusIn(S, month, DecidedStatus))
    BY ApprovalRow
  <2>4. DOMAIN approval \subseteq {before, before + 1}
    BY <2>1, <2>2, <2>3 DEF Months
  <2>5. StatusIn(S, before, DecidedStatus) = Ruled
    BY <2>1, <2>2 DEF StatusIn
  <2>6. approval[before].approved + approval[before].rejected = Cardinality(Ruled)
    <3> HIDE DEF approval, before, Ruled, S
    <3>1. QED
      BY <2>3, <2>5
  <2>7. Cardinality(Ruled) \in Nat
    BY FS_Subset, FS_CardinalityType, Ruled \in SUBSET CaseRows DEF FewRows
  <2> HIDE DEF approval, before, Ruled, S
  <2>8. PriorPeriod(approval, 1) = [month \in {before} |-> approval[month]]
    BY <1>1, <2>4, PriorRow
  <2>9. Sum(PriorPeriod(approval, 1), LAMBDA r : r.approved + r.rejected) = Total(f)
    BY <2>8 DEF Sum
  <2>10. DOMAIN f = {before} /\ f[before] = Cardinality(Ruled)
    BY <2>6
  <2> HIDE DEF f
  <2>11. Total(f) = Cardinality(Ruled)
    BY <2>7, <2>10, OneSummand
  <2>12. QED
    BY <2>9, <2>11
<1>4. QED
  BY <1>2, <1>3 DEF PriorIsBefore
-----------------------------------------------------------------------------
DashboardsInv == DashboardsTypeOK /\ FewRows /\ CaseHistory

\* The invariant explains the numbers.
LEMMA DashboardsInvSound == DashboardsInv => DashboardsSound
  BY TilesCount, ReportsCount, VolumesCount, BadgesCompare DEF DashboardsInv, DashboardsSound

\* At first there is nothing to count.
LEMMA InitDashboardRows == DashboardsInit => FewRows /\ CaseHistory
<1>1. DashboardsInit => CaseRows = {} /\ Sessions = {}
  BY DEF DashboardsInit, CaseRows, Sessions
<1>2. QED
  BY <1>1, FS_EmptySet DEF FewRows, CaseHistory

\* One case is written: it has its history, and the others keep theirs.
LEMMA CaseHistoryKept ==
    ASSUME DashboardsTypeOK, FewRows, CaseHistory, NEW c \in CaseId, NEW row,
           caseRow' = [caseRow EXCEPT ![c] = row], approvals \subseteq approvals',
           UNCHANGED started,
           row.status \in DecidedStatus => row.closed # Unset,
           row.closed # Unset => c \in approvals' /\ row.closed >= row.opened
    PROVE  FewRows' /\ CaseHistory'
<1>1. /\ caseRow'[c] = row /\ CaseRows' \subseteq CaseRows \cup {c} /\ Sessions' = Sessions
      /\ \A d \in CaseRows' : d # c => d \in CaseRows /\ caseRow'[d] = caseRow[d]
  BY DEF DashboardsTypeOK, CaseRows, Sessions
<1>2. IsFiniteSet(CaseRows \cup {c})
  BY FS_AddElement DEF FewRows
<1>3. FewRows'
  BY <1>1, <1>2, FS_Subset DEF FewRows
<1>4. CaseHistory'
  <2>1. SUFFICES ASSUME NEW d \in CaseRows'
                 PROVE  /\ caseRow'[d].status \in DecidedStatus => caseRow'[d].closed # Unset
                        /\ caseRow'[d].closed # Unset =>
                             d \in approvals' /\ caseRow'[d].closed >= caseRow'[d].opened
    BY DEF CaseHistory
  <2>2. CASE d = c
    BY <1>1, <2>2
  <2>3. CASE d # c
    BY <1>1, <2>3 DEF CaseHistory
  <2>4. QED
    BY <2>2, <2>3
<1>5. QED
  BY <1>3, <1>4

\* Whatever a handler writes, the rows stay finitely many and keep their history.
LEMMA DashboardRowsKeep ==
    ASSUME DashboardsInv, [DashboardsNext]_dashboardRows
    PROVE  FewRows' /\ CaseHistory'
<1> USE DEF DashboardsInv
<1>1. clock \in Nat
  BY DashboardsAssumption DEF DashboardsTypeOK
<1>2. CASE Tick \/ UNCHANGED dashboardRows
  BY <1>2 DEF Tick, dashboardRows, FewRows, CaseHistory, CaseRows, Sessions
<1>3. ASSUME NEW s \in SessionId, InsertSession(s) \/ MarkSubmitted(s)
      PROVE  FewRows' /\ CaseHistory'
  <2>1. Sessions' \subseteq Sessions \cup {s} /\ CaseRows' = CaseRows
        /\ UNCHANGED <<caseRow, approvals>>
    BY <1>3 DEF InsertSession, MarkSubmitted, DashboardsTypeOK, Sessions, CaseRows
  <2>2. IsFiniteSet(Sessions \cup {s})
    BY FS_AddElement DEF FewRows
  <2>3. QED
    BY <2>1, <2>2, FS_Subset DEF FewRows, CaseHistory
<1>4. ASSUME NEW c \in CaseId, NEW band \in Band, CreateCase(c, band)
      PROVE  FewRows' /\ CaseHistory'
  <2> DEFINE row == [status |-> "open", owner |-> Unset, flagged |-> FALSE, band |-> band,
                     opened |-> clock, closed |-> Unset]
  <2>1. caseRow' = [caseRow EXCEPT ![c] = row] /\ UNCHANGED <<clock, approvals, started>>
    BY <1>4 DEF CreateCase
  <2>2. row.closed = Unset /\ row.status \notin DecidedStatus
    BY DEF DecidedStatus
  <2> HIDE DEF row
  <2>3. QED
    BY <2>1, <2>2, CaseHistoryKept
<1>5. ASSUME NEW c \in CaseId,
             \/ \E owner \in Staff : AssignCase(c, owner)
             \/ \E status \in {"escalated", "pending_info"} : SetOpenStatus(c, status)
             \/ \E flag \in BOOLEAN : FlagCase(c, flag)
      PROVE  FewRows' /\ CaseHistory'
  <2>1. c \in CaseRows
    BY <1>5 DEF AssignCase, SetOpenStatus, FlagCase, CaseRows
  <2>2. caseRow[c] \in CaseRecord(clock)
    BY <2>1, DashboardsTyped DEF CaseRows
  <2>3. PICK row :
          /\ caseRow' = [caseRow EXCEPT ![c] = row] /\ UNCHANGED <<clock, approvals, started>>
          /\ row.opened = caseRow[c].opened /\ row.closed = caseRow[c].closed
          /\ row.status \in DecidedStatus => caseRow[c].status \in DecidedStatus
    <3>1. CASE \E owner \in Staff : AssignCase(c, owner)
      BY <2>2, <3>1 DEF AssignCase, WriteCase, CaseRecord
    <3>2. CASE \E status \in {"escalated", "pending_info"} : SetOpenStatus(c, status)
      <4>1. PICK status \in {"escalated", "pending_info"} : SetOpenStatus(c, status)
        BY <3>2
      <4> DEFINE row == [caseRow[c] EXCEPT !.status = status]
      <4>2. caseRow' = [caseRow EXCEPT ![c] = row] /\ UNCHANGED <<clock, approvals, started>>
        BY <4>1 DEF SetOpenStatus, WriteCase
      <4>3. /\ row.opened = caseRow[c].opened /\ row.closed = caseRow[c].closed
            /\ row.status \notin DecidedStatus
        BY <2>2 DEF CaseRecord, DecidedStatus
      <4> HIDE DEF row
      <4>4. QED
        BY <4>2, <4>3
    <3>3. CASE \E flag \in BOOLEAN : FlagCase(c, flag)
      BY <2>2, <3>3 DEF FlagCase, WriteCase, CaseRecord
    <3>4. QED
      BY <1>5, <3>1, <3>2, <3>3
  <2>4. /\ caseRow[c].status \in DecidedStatus => caseRow[c].closed # Unset
        /\ caseRow[c].closed # Unset => c \in approvals /\ caseRow[c].closed >= caseRow[c].opened
    BY <2>1 DEF CaseHistory
  <2>5. QED
    BY <2>3, <2>4, CaseHistoryKept
<1>6. ASSUME NEW c \in CaseId, NEW ruling \in DecidedStatus, DecideCase(c, ruling)
      PROVE  FewRows' /\ CaseHistory'
  <2>1. c \in CaseRows /\ approvals' = approvals \cup {c} /\ UNCHANGED <<clock, started>>
    BY <1>6 DEF DecideCase, CaseRows
  <2>2. caseRow[c] \in CaseRecord(clock)
    BY <2>1, DashboardsTyped DEF CaseRows
  <2>3. CASE CloseCase(c, ruling)
    <3> DEFINE row == [caseRow[c] EXCEPT !.status = ruling, !.closed = clock]
    <3>1. caseRow' = [caseRow EXCEPT ![c] = row]
      BY <2>3, DashboardsTyped DEF CloseCase
    <3>2. row.closed = clock /\ row.opened = caseRow[c].opened /\ clock # Unset
      BY <1>1, <2>2, DashboardsAssumption DEF CaseRecord
    <3>3. clock >= row.opened
      BY <1>1, <2>1, <3>2, CaseColumns
    <3> HIDE DEF row
    <3>4. QED
      BY <2>1, <3>1, <3>2, <3>3, CaseHistoryKept
  <2>4. CASE UNCHANGED caseRow
    BY <2>1, <2>4 DEF FewRows, CaseHistory, CaseRows, Sessions
  <2>5. QED
    BY <1>6, <2>3, <2>4 DEF DecideCase
<1>7. QED
  BY <1>2, <1>3, <1>4, <1>5, <1>6 DEF DashboardsNext
-----------------------------------------------------------------------------
\* completeAuthentication: for any number of attempts, reloads, changed policies, rotated keys
\* and failed fetches of the keys, an identity was vouched for at the level that its attempt
\* asked for, what the browser was told is what the row and the log say unless two callbacks
\* met, and a token is refused for its signature only if the key changed or could not be had.
THEOREM IdentityIsAssured == PortalSpec => []IdentityAssured
<1>1. PortalInit => PassInv
  BY InitPass DEF PortalInit
<1>2. PassInv /\ [PortalNext]_portal => PassInv'
  <2>1. [PortalNext]_portal => [PassNext]_passRows
    BY DEF PortalNext, portal
  <2>2. QED
    BY <2>1, PassStepKeeps
<1>3. QED
  BY <1>1, <1>2, PassInvAssures, PTL DEF PortalSpec

\* The handlers of the two webhooks, for any number of applicants, sign-ups, verdicts and
\* events, delivered late, twice, in any order or to handlers that die: a verified session
\* and every answer have a verdict of Sumsub behind them, an active subscription has a
\* payment or an event that Nomod did not send, and what was answered 200 has reached the
\* tables unless the model says why not.
THEOREM ProvidersAreHeard == PortalSpec => []ProvidersHeard
<1>1. PortalInit => BillingInv /\ IdvInv
  BY InitBilling, InitIdv DEF PortalInit
<1>2. BillingInv /\ IdvInv /\ [PortalNext]_portal => (BillingInv /\ IdvInv)'
  <2>1. [PortalNext]_portal => [BillingNext]_billingRows /\ [IdvNext]_idvRows
    BY DEF PortalNext, portal
  <2>2. QED
    BY <2>1, BillingStepKeeps, IdvStepKeeps
<1>3. BillingInv /\ IdvInv => ProvidersHeard
  BY BillingInvCounts, IdvInvReaches DEF ProvidersHeard
<1>4. QED
  BY <1>1, <1>2, <1>3, PTL DEF PortalSpec

\* The wizard, for any number of tabs, reloads, lost answers and overlapping steps: a
\* submitted session has its consent, its data and its documents, the redirects of the
\* pages end, and a refused save says which field to mend.
THEOREM WizardIsSound == PortalSpec => []WizardSound
<1>1. PortalInit => WizardInv
  BY InitWizard DEF PortalInit
<1>2. WizardInv /\ [PortalNext]_portal => WizardInv'
  <2>1. [PortalNext]_portal => [WizardNext]_wizardRows
    BY DEF PortalNext, portal
  <2>2. QED
    BY <2>1, WizardStepKeeps
<1>3. QED
  BY <1>1, <1>2, WizardInvSound, PTL DEF PortalSpec

\* The pages of the staff, for any number of officers and reporters, reports, refreshes, lost
\* answers and changes of role: a page shows the status of its case unless the case changed
\* while the page had no channel, and offers what the routes accept; a report keeps what was
\* saved in it and is locked when it is filed, unless two editors met, or an editor and a call
\* that an earlier one left behind; and a page, its links and its buttons are those of a role
\* that was shown.
THEOREM ScreensAreSound == PortalSpec => []ScreensSound
<1>1. PortalInit => CaseInv /\ SarPagesInv /\ AccessInv
  BY InitCase, InitSarPages, InitAccess DEF PortalInit
<1>2. CaseInv /\ SarPagesInv /\ AccessInv /\ [PortalNext]_portal
        => (CaseInv /\ SarPagesInv /\ AccessInv)'
  <2>1. [PortalNext]_portal =>
          [CasePageNext]_caseRows /\ [SarPagesNext]_sarPageRows /\ [AccessNext]_accessRows
    BY DEF PortalNext, portal
  <2>2. QED
    BY <2>1, CaseStepKeeps, SarPagesStepKeeps, AccessStepKeeps
<1>3. CaseInv /\ SarPagesInv /\ AccessInv => ScreensSound
  BY CaseInvSound, SarPagesInvSound, AccessInvSound DEF ScreensSound
<1>4. QED
  BY <1>1, <1>2, <1>3, PTL DEF PortalSpec

\* The numbers of the dashboards and of the reporting page, for any number of users, cases,
\* sessions and months, and bars of any number, where a query gets all the rows it asks for
\* (up to 1000, see Dashboards): however the handlers write the rows, each
\* number agrees with the others, but for the cases that were reopened, that were decided by
\* somebody who did not see them, or that nobody owns.
THEOREM NumbersAreExplained == PortalSpec => []NumbersExplained
<1>1. PortalInit => DashboardsInv
  BY InitDashboards, InitDashboardRows DEF PortalInit, DashboardsInv
<1>2. DashboardsInv /\ [PortalNext]_portal => DashboardsInv'
  <2>1. [PortalNext]_portal => [DashboardsNext]_dashboardRows
    BY DEF PortalNext, portal
  <2>2. DashboardsInv /\ [DashboardsNext]_dashboardRows => DashboardsTypeOK'
    BY DashboardsTypes DEF DashboardsInv
  <2>3. DashboardsInv /\ [DashboardsNext]_dashboardRows => FewRows' /\ CaseHistory'
    BY DashboardRowsKeep
  <2>4. QED
    BY <2>1, <2>2, <2>3 DEF DashboardsInv
<1>3. DashboardsInv => NumbersExplained
  BY DashboardsInvSound DEF NumbersExplained
<1>4. QED
  BY <1>1, <1>2, <1>3, PTL DEF PortalSpec

\* Every state of the portal has its type in the area that is at work.
THEOREM PortalTypes == PortalSpec => []PortalTypeOK
<1> DEFINE Sound == PassInv /\ BillingInv /\ IdvInv /\ WizardInv /\ CaseInv /\ SarPagesInv
                      /\ AccessInv
           Typed == /\ records \subseteq RecordName /\ Heard /\ IdvLimits
                    /\ DashboardsTypeOK /\ where \in PortalArea
<1>1. PortalInit => Sound /\ Typed
  <2>1. PortalInit => Sound
    BY InitPass, InitBilling, InitIdv, InitWizard, InitCase, InitSarPages, InitAccess
       DEF PortalInit
  <2>2. PortalInit => Typed
    BY InitIdvLimits, InitDashboards DEF PortalInit, WizardInit, BillingInit, Heard
  <2>3. QED
    BY <2>1, <2>2
<1>2. Sound /\ Typed /\ [PortalNext]_portal => (Sound /\ Typed)'
  <2>1. SUFFICES ASSUME Sound, Typed, [PortalNext]_portal PROVE (Sound /\ Typed)'
    OBVIOUS
  <2>2. /\ [PassNext]_passRows /\ [BillingNext]_billingRows /\ [IdvNext]_idvRows
        /\ [WizardNext]_wizardRows /\ [CasePageNext]_caseRows /\ [SarPagesNext]_sarPageRows
        /\ [AccessNext]_accessRows /\ [DashboardsNext]_dashboardRows /\ UNCHANGED where
    BY <2>1 DEF PortalNext, portal
  <2>3. Sound'
    BY <2>1, <2>2, PassStepKeeps, BillingStepKeeps, IdvStepKeeps, WizardStepKeeps,
       CaseStepKeeps, SarPagesStepKeeps, AccessStepKeeps
  <2>4. Typed'
    BY <2>1, <2>2, WizardTypes, BillingTypes, IdvTypes, DashboardsTypes
  <2>5. QED
    BY <2>3, <2>4
<1>3. Sound /\ Typed => PortalTypeOK
  <2>1. SUFFICES ASSUME Sound, Typed PROVE PortalTypeOK
    OBVIOUS
  <2>2. WizardTypeOK /\ IdvTypeOK /\ BillingTypeOK /\ PassTypeOK
    BY <2>1, WizardTyped, IdvTyped, BillingTyped DEF PassInv
  <2>3. CasePageTypeOK /\ SarPagesTypeOK /\ AccessTypeOK /\ DashboardsTypeOK
    BY <2>1, SarPagesInvSound, AccessInvSound DEF CaseInv
  <2>4. QED
    BY <2>1, <2>2, <2>3 DEF PortalTypeOK, PortalArea
<1>4. QED
  BY <1>1, <1>2, <1>3, PTL DEF PortalSpec
=============================================================================
