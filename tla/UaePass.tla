------------------------------- MODULE UaePass -------------------------------
(***************************************************************************)
(* UAE Pass: POST /api/auth/uae-pass/authorize, GET .../callback and       *)
(* modules/auth/uae-pass, for one onboarding session of one tenant.        *)
(*                                                                         *)
(* The browser comes back from UAE Pass with the state of an attempt and   *)
(* the code issued for it, once or, after a reload, again while the first  *)
(* callback is still at work.  The tenant may change its policy, the       *)
(* session may end, and UAE Pass may rotate its keys at any time; the keys *)
(* are cached for an hour.                                                 *)
(***************************************************************************)
EXTENDS Naturals

CONSTANTS
    Attempt,   \* clicks on "Continue with UAE Pass"
    Callback,  \* requests of the callback route
    NoKey,     \* no key cached
    MaxKeys    \* bound: rotations of the signing key

ASSUME UaePassAssumption == MaxKeys \in Nat /\ NoKey \notin 0..MaxKeys

VARIABLES
    policy,     \* tenant_configurations: uae_pass.enabled, required_assurance_level
    complete,   \* the onboarding session is submitted or approved
    attempt,    \* per attempt: its request, its row, and who signs in at UAE Pass
    key,        \* UAE Pass: the key that signs, by its number
    jwks,       \* the cached key
    callback,   \* per callback: its attempt and its stage, or its answer
    passTrail,  \* audit_log: type of the entry and attempt
    crossed,    \* history: attempts with two callbacks at work at once
    keyless     \* history: callbacks that asked UAE Pass for its keys and got none

passRows == <<policy, complete, attempt, key, jwks, callback, passTrail, crossed, keyless>>

UserType == {"SOP1", "SOP2", "SOP3", "VISITOR"}
Level == {"SOP2", "SOP3"}
PassStatus == {"absent", "initiated", "succeeded", "failed"}
Rejection == {"idp_returned_error", "token_exchange_failed", "id_token_signature_invalid",
              "userinfo_failed", "assurance_level_too_low", "unexpected_error"}
Answers == {"success", "state_already_completed", "killed"} \cup Rejection

\* The authorize request of an attempt, its row in uae_pass_authentications, and the code.
AttemptRow == [stage : {"none", "insert", "discover", "audit", "offered", "refused", "failed"},
               status : PassStatus, level : Level, code : {"none", "issued", "used", "denied"},
               user : UserType, type : UserType \cup {"none"}]

CallbackRow == [of : Attempt, error : Rejection \cup {"none"},
                signed : (0..MaxKeys) \cup {NoKey},
                stage : {"none", "load", "exchange", "verify", "userinfo", "succeed", "audit",
                         "fail", "audit_failure"} \cup Answers]

PassTypeOK ==
    /\ policy \in [enabled : BOOLEAN, level : Level]
    /\ complete \in BOOLEAN
    /\ attempt \in [Attempt -> AttemptRow]
    /\ key \in 0..MaxKeys /\ jwks \in (0..MaxKeys) \cup {NoKey}
    /\ callback \in [Callback -> CallbackRow]
    /\ passTrail \subseteq {"initiated", "succeeded", "failed"} \X Attempt
    /\ crossed \subseteq Attempt /\ keyless \subseteq Callback

PassInit ==
    /\ policy \in [enabled : BOOLEAN, level : Level]
    /\ complete = FALSE
    /\ attempt \in [Attempt -> [stage : {"none"}, status : {"absent"}, level : {"SOP3"},
                                code : {"none"}, user : {"SOP1"}, type : {"none"}]]
    /\ key = 0 /\ jwks = NoKey
    /\ callback \in [Callback -> [of : Attempt, error : {"none"}, signed : {NoKey},
                                  stage : {"none"}]]
    /\ passTrail = {} /\ crossed = {} /\ keyless = {}
-----------------------------------------------------------------------------
(* POST /api/auth/uae-pass/authorize                                       *)

StartAuthorize(a) ==
    /\ attempt[a].stage = "none"
    /\ attempt' = [attempt EXCEPT
         ![a].stage = IF ~policy.enabled \/ complete THEN "refused" ELSE "insert",
         ![a].level = policy.level]
    /\ UNCHANGED <<policy, complete, key, jwks, callback, passTrail, crossed, keyless>>

AuthorizeTo(a, from, to) ==
    /\ attempt[a].stage = from
    /\ attempt' = [attempt EXCEPT ![a].stage = to]
    /\ UNCHANGED <<policy, complete, key, jwks, callback, crossed, keyless>>

\* The row keeps the level of the policy that was read.
InsertInitiated(a) ==
    /\ attempt[a].stage = "insert"
    /\ attempt' = [attempt EXCEPT ![a].stage = "discover", ![a].status = "initiated"]
    /\ UNCHANGED <<policy, complete, key, jwks, callback, passTrail, crossed, keyless>>

Discover(a) == AuthorizeTo(a, "discover", "audit") /\ UNCHANGED passTrail

\* The answer carries the URL that the browser goes to.
OfferUrl(a) ==
    /\ AuthorizeTo(a, "audit", "offered")
    /\ passTrail' = passTrail \cup {<<"initiated", a>>}

AuthorizeFails(a) ==
    /\ \E stage \in {"insert", "discover", "audit"} : AuthorizeTo(a, stage, "failed")
    /\ UNCHANGED passTrail
-----------------------------------------------------------------------------
(* UAE Pass, and the tenant                                                *)

\* Somebody of some level signs in, or declines.
SignInAtIdp(a) ==
    /\ attempt[a].stage = "offered" /\ attempt[a].code = "none"
    /\ \E type \in UserType, code \in {"issued", "denied"} :
         attempt' = [attempt EXCEPT ![a].user = type, ![a].code = code]
    /\ UNCHANGED <<policy, complete, key, jwks, callback, passTrail, crossed, keyless>>

RotateKey ==
    /\ key < MaxKeys
    /\ key' = key + 1
    /\ UNCHANGED <<policy, complete, attempt, jwks, callback, passTrail, crossed, keyless>>

\* An hour is over, or the function instance is another one.
CacheExpires ==
    /\ jwks' = NoKey
    /\ UNCHANGED <<policy, complete, attempt, key, callback, passTrail, crossed, keyless>>

ChangePolicy ==
    /\ policy' \in [enabled : BOOLEAN, level : Level]
    /\ UNCHANGED <<complete, attempt, key, jwks, callback, passTrail, crossed, keyless>>

SubmitSession ==
    /\ complete' = TRUE
    /\ UNCHANGED <<policy, attempt, key, jwks, callback, passTrail, crossed, keyless>>
-----------------------------------------------------------------------------
(* GET /api/auth/uae-pass/callback: completeAuthentication                 *)

AtWork(c) == callback[c].stage \notin {"none"} \cup Answers

ReturnFromIdp(c) ==
    LET a == callback[c].of IN
    /\ callback[c].stage = "none" /\ attempt[a].code # "none"
    /\ callback' = [callback EXCEPT ![c].stage = "load"]
    /\ crossed' = IF \E o \in Callback : AtWork(o) /\ callback[o].of = a
                  THEN crossed \cup {a} ELSE crossed
    /\ UNCHANGED <<policy, complete, attempt, key, jwks, passTrail, keyless>>

CallbackTo(c, from, to) == callback[c].stage = from /\ callback' = [callback EXCEPT ![c].stage = to]

Reject(c, from, error) ==
    /\ callback[c].stage = from
    /\ callback' = [callback EXCEPT ![c].stage = "fail", ![c].error = error]

Load(c) ==
    /\ CallbackTo(c, "load", IF attempt[callback[c].of].status = "initiated" THEN "exchange"
                             ELSE "state_already_completed")
    /\ UNCHANGED <<policy, complete, attempt, key, jwks, passTrail, crossed, keyless>>

\* A code is good for one exchange; the reply may be no token, or be lost.
Exchange(c) ==
    LET a == callback[c].of IN
    /\ callback[c].stage = "exchange"
    /\ CASE attempt[a].code = "denied" -> Reject(c, "exchange", "idp_returned_error")
                                            /\ UNCHANGED attempt
         [] attempt[a].code = "used"   -> Reject(c, "exchange", "token_exchange_failed")
                                            /\ UNCHANGED attempt
         [] attempt[a].code = "issued" ->
              /\ attempt' = [attempt EXCEPT ![a].code = "used"]
              /\ \/ \E error \in {"token_exchange_failed", "unexpected_error"} :
                      Reject(c, "exchange", error)
                 \/ callback' = [callback EXCEPT ![c].stage = "verify", ![c].signed = key]
    /\ UNCHANGED <<policy, complete, key, jwks, passTrail, crossed, keyless>>

\* getJwks: what is cached is used; it is not fetched again for a key that it lacks.
Jwks == IF jwks = NoKey THEN key ELSE jwks

\* The code came back with its own state, so nonce, issuer and audience are right; expiry
\* is a minute generous.
VerifyIdToken(c) ==
    /\ jwks' = Jwks
    /\ \/ callback[c].signed = Jwks /\ CallbackTo(c, "verify", "userinfo")
       \/ callback[c].signed # Jwks /\ Reject(c, "verify", "id_token_signature_invalid")
    /\ UNCHANGED <<policy, complete, attempt, key, passTrail, crossed, keyless>>

\* An answer that is not 200, or without a key: nothing is cached, and the token is refused
\* with the same code although nobody looked at its signature.
FetchKeysFails(c) ==
    /\ jwks = NoKey
    /\ Reject(c, "verify", "id_token_signature_invalid")
    /\ keyless' = keyless \cup {c}
    /\ UNCHANGED <<policy, complete, attempt, key, jwks, passTrail, crossed>>

Acceptable(type, level) == type = "SOP3" \/ (type = "SOP2" /\ level = "SOP2")

\* Bug: the policy is read anew.
RequiredNowBug(a) == policy.level

Required(a) == attempt[a].level

FetchUserInfo(c) ==
    LET a == callback[c].of IN
    /\ \/ Reject(c, "userinfo", "userinfo_failed")
       \/ /\ Acceptable(attempt[a].user, Required(a))
          /\ CallbackTo(c, "userinfo", "succeed")
       \/ /\ ~Acceptable(attempt[a].user, Required(a))
          /\ Reject(c, "userinfo", "assurance_level_too_low")
    /\ UNCHANGED <<policy, complete, attempt, key, jwks, passTrail, crossed, keyless>>

\* Both updates find the row by its id, whatever its status is by now.
MarkSucceeded(c) ==
    /\ CallbackTo(c, "succeed", "audit")
    /\ attempt' = [attempt EXCEPT ![callback[c].of].status = "succeeded",
                                  ![callback[c].of].type = attempt[callback[c].of].user]
    /\ UNCHANGED <<policy, complete, key, jwks, passTrail, crossed, keyless>>

AuditSuccess(c) ==
    /\ CallbackTo(c, "audit", "success")
    /\ passTrail' = passTrail \cup {<<"succeeded", callback[c].of>>}
    /\ UNCHANGED <<policy, complete, attempt, key, jwks, crossed, keyless>>

\* An error of a call within the try, after the row was stored as well.  The keys are
\* asked for when none is cached.
Throws(c) ==
    /\ \E stage \in {"exchange", "verify", "userinfo", "succeed", "audit"} :
         Reject(c, stage, "unexpected_error")
    /\ callback[c].stage = "verify" => jwks = NoKey
    /\ UNCHANGED <<policy, complete, attempt, key, jwks, passTrail, crossed, keyless>>

MarkFailed(c) ==
    /\ CallbackTo(c, "fail", "audit_failure")
    /\ attempt' = [attempt EXCEPT ![callback[c].of].status = "failed"]
    /\ UNCHANGED <<policy, complete, key, jwks, passTrail, crossed, keyless>>

AuditFailure(c) ==
    /\ CallbackTo(c, "audit_failure", callback[c].error)
    /\ passTrail' = passTrail \cup {<<"failed", callback[c].of>>}
    /\ UNCHANGED <<policy, complete, attempt, key, jwks, crossed, keyless>>

\* The function dies, or a call of the catch block fails.
CallbackDies(c) ==
    /\ AtWork(c)
    /\ callback' = [callback EXCEPT ![c].stage = "killed"]
    /\ UNCHANGED <<policy, complete, attempt, key, jwks, passTrail, crossed, keyless>>

PassNext ==
    \/ \E a \in Attempt : \/ StartAuthorize(a) \/ InsertInitiated(a) \/ Discover(a)
                          \/ OfferUrl(a) \/ AuthorizeFails(a) \/ SignInAtIdp(a)
    \/ RotateKey \/ CacheExpires \/ ChangePolicy \/ SubmitSession
    \/ \E c \in Callback :
         \/ ReturnFromIdp(c) \/ Load(c) \/ Exchange(c) \/ VerifyIdToken(c) \/ FetchKeysFails(c)
         \/ FetchUserInfo(c) \/ MarkSucceeded(c) \/ AuditSuccess(c) \/ Throws(c)
         \/ MarkFailed(c) \/ AuditFailure(c) \/ CallbackDies(c)

PassSpec == PassInit /\ [][PassNext]_passRows
-----------------------------------------------------------------------------
\* What the identity form is filled with was vouched for by UAE Pass at the level that the
\* tenant asked for when the attempt began; and nobody is turned away over a level that
\* was raised in between (the comment of migration 0041).
LevelAsAsked ==
    \A a \in Attempt :
      /\ attempt[a].status = "succeeded" => Acceptable(attempt[a].type, attempt[a].level)
      /\ (\E c \in Callback : callback[c].of = a /\ callback[c].error = "assurance_level_too_low")
           => ~Acceptable(attempt[a].user, attempt[a].level)

\* One callback of an attempt at most succeeds, and what the browser was told stays in the
\* row and in the log, unless the page was reloaded while the callback was at work: then
\* the later of the two callbacks decides, and a failure hides the identity just stored.
OutcomeKept ==
    \A c \in Callback : LET a == callback[c].of IN
      /\ callback[c].stage = "success" =>
           /\ \A o \in Callback \ {c} : callback[o].of = a => callback[o].stage # "success"
           /\ a \notin crossed => attempt[a].status = "succeeded" /\ <<"succeeded", a>> \in passTrail
      /\ callback[c].stage \in Rejection /\ a \notin crossed =>
           attempt[a].status = "failed" /\ <<"succeeded", a>> \notin passTrail

\* A good token is refused for its signature only when UAE Pass changed its key while an
\* older one, or a newer, was cached, or when its keys could not be had.
SignatureRefusalExplained ==
    \A c \in Callback : callback[c].error = "id_token_signature_invalid" =>
      key > 0 \/ c \in keyless

IdentityAssured == LevelAsAsked /\ OutcomeKept /\ SignatureRefusalExplained
=============================================================================
