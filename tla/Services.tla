------------------------------ MODULE Services ------------------------------
(***************************************************************************)
(* The services around the money path, side by side: in each behaviour one *)
(* of them (`part') runs in one of its environments and the others stay as *)
(* they start.  They share no variable but `setting', so that the states   *)
(* of this module are the sum of the services' and not their product.      *)
(***************************************************************************)
EXTENDS Integers, Sequences, FiniteSets

\* The parameters of each service, and its environments.
CONSTANTS Keypads, Inputs, Recipients, Amounts, Otps, UssdSettings
CONSTANTS Consumers, Officers, NoEvent, FinancialEvents, WalletsOf, AmlSettings
CONSTANTS KycFiles, NoFile, Clerks, KycSettings
CONSTANTS Workers, NoticeRows, Messages, Types, MaxAttempts, NotificationSettings
CONSTANTS Phones, Handlers, NoRequest, AuthRequests, LockoutAfter, AuthSettings
CONSTANTS PaymentRows, Keys, NoKey, Customers, MaxPinFailures, MaxTimers, PaymentSettings
CONSTANTS Endpoints, HookEvents, AttemptRows, Wants, HookSettings
CONSTANTS Shops, ConsoleCalls, ConsoleSettings
CONSTANTS Users, Batches, MaxLines, BulkSettings
CONSTANTS Merchants, SchemaSettings
CONSTANTS Fold, Lists, ScreeningSettings
CONSTANTS Wallets, Amount, AuditSettings
CONSTANTS FormKeys, PaymentSlots, MaxPolls, PageLimit, RecentLimit, PagesSettings
CONSTANTS PageHooks, EventTypes, HookSlots, MaxHooks, AttemptLimit, HookPageSettings
CONSTANTS Members, RolesOf, WebSlots, SignIns, WebSettings
CONSTANTS TryTimes, Downtimes, SignatureSettings

VARIABLES part, setting
VARIABLES session, marked, at, working, pressed, composed, shown, orders
VARIABLES amlArrived, amlQueue, task, alerts, deadLetters, toCore, handled, frozen, review, acts, told
VARIABLES file, history, desk, channel, kycEvents, notices, served
VARIABLES published, ntfQueue, row, work, ntfSends, ntfArrived, dead
VARIABLES user, otp, lock, fails, timed, tokens, pc, req, sent, guesses
VARIABLES payment, payEvents, failures, blocked, timers, page
VARIABLES up, hook, attempt, doing, listed, rest, waits, emitted, hookSends
VARIABLES account, issued, stale, token, skTest, tab, ready, call, clicks
VARIABLES batch, deeds, calls
VARIABLES schema, table, old, target, owners, version, start, left
VARIABLES name, phase, k, i, j, dp, prev, best, kind
VARIABLES computed, entries, stored, commits, verify, snapshot, checkpoint, asked, reading, report
VARIABLES payments, browser, filter, modal, payList, overview, shownPay, shownErr, poller, payCalls,
          going, payLost, payClicks
VARIABLES hooks, hookRows, hooksUsed, hookList, hookForm, attemptsOf, hookCalls, hookLost, hookClicks
VARIABLES webCookie, oidc, begun, atKeycloak, webRequests, passed, pageShown, webClicks
VARIABLES clock, wsec, signedRows, changes, verdicts

(***************************************************************************)
(* The services.  The names of the constants and variables are shared out  *)
(* where two services use the same one.                                    *)
(***************************************************************************)
Ussd == INSTANCE UssdSession WITH Settings <- UssdSettings

AML == INSTANCE Aml WITH
    Events <- FinancialEvents, Settings <- AmlSettings, arrived <- amlArrived, queue <- amlQueue

KYC == INSTANCE Kyc WITH Files <- KycFiles, Settings <- KycSettings, events <- kycEvents

Ntf == INSTANCE Notifications WITH
    Rows <- NoticeRows, Settings <- NotificationSettings,
    queue <- ntfQueue, sends <- ntfSends, arrived <- ntfArrived

AUTH == INSTANCE Auth WITH Requests <- AuthRequests, Settings <- AuthSettings

Pay == INSTANCE LegacyPayments WITH
    Rows <- PaymentRows, Settings <- PaymentSettings, events <- payEvents

Hook == INSTANCE LegacyWebhooks WITH
    Hooks <- Endpoints, Events <- HookEvents, Rows <- AttemptRows, Settings <- HookSettings,
    sends <- hookSends

Console == INSTANCE MerchantConsole WITH
    Merchants <- Shops, Calls <- ConsoleCalls, Deeds <- UNION {s.deeds : s \in ConsoleSettings},
    Settings <- ConsoleSettings, page <- tab

Bulk == INSTANCE BulkPayments WITH
    Files <- UNION {s.files : s \in BulkSettings}, Settings <- BulkSettings

Schema == INSTANCE LegacySchema WITH Settings <- SchemaSettings, rows <- table, pc <- start

Screen == INSTANCE Screening WITH Settings <- ScreeningSettings, pc <- phase

Audit == INSTANCE LedgerAudit WITH Settings <- AuditSettings

Pages == INSTANCE PaymentPages WITH
    Rows <- PaymentRows, Keys <- FormKeys, Slots <- PaymentSlots, Settings <- PagesSettings,
    rows <- payments, tab <- browser, list <- payList, stats <- overview, pay <- shownPay, err <- shownErr,
    timer <- poller, call <- payCalls, lost <- payLost, clicks <- payClicks

HookPage == INSTANCE WebhookPage WITH
    Hooks <- PageHooks, Slots <- HookSlots, Settings <- HookPageSettings, attempts <- hookRows,
    used <- hooksUsed, list <- hookList, form <- hookForm, call <- hookCalls, lost <- hookLost,
    clicks <- hookClicks

Web == INSTANCE WebSessions WITH
    Slots <- WebSlots, Settings <- WebSettings, cookie <- webCookie, keycloak <- atKeycloak,
    request <- webRequests, shown <- pageShown, clicks <- webClicks

Sign == INSTANCE SignatureWindow WITH
    Settings <- SignatureSettings, now <- clock, secret <- wsec, rows <- signedRows,
    answers <- verdicts

ASSUME ServicesAssumption ==
    /\ Ussd!UssdAssumption /\ AML!AmlAssumption /\ KYC!KycAssumption
    /\ Ntf!NotificationsAssumption /\ AUTH!AuthAssumption
    /\ Pay!LegacyPaymentsAssumption /\ Hook!LegacyWebhooksAssumption
    /\ Console!ConsoleAssumption
    /\ Bulk!BulkAssumption /\ Schema!SchemaAssumption /\ Screen!ScreeningAssumption
    /\ Audit!AuditAssumption /\ Pages!PagesAssumption /\ HookPage!PageAssumption
    /\ Web!SessionsAssumption /\ Sign!WindowAssumption

(***************************************************************************)
(* The sum.                                                                *)
(***************************************************************************)
ussdVars == <<session, marked, at, working, pressed, composed, shown, orders>>
amlVars == <<amlArrived, amlQueue, task, alerts, deadLetters, toCore, handled, frozen, review,
             acts, told>>
kycVars == <<file, history, desk, channel, kycEvents, notices, served>>
notificationVars == <<published, ntfQueue, row, work, ntfSends, ntfArrived, dead>>
authVars == <<user, otp, lock, fails, timed, tokens, pc, req, sent, guesses>>
paymentVars == <<payment, payEvents, failures, blocked, timers, page>>
hookVars == <<up, hook, attempt, doing, listed, rest, waits, emitted, hookSends>>
consoleVars == <<account, issued, stale, token, skTest, tab, ready, call, clicks>>
bulkVars == <<batch, deeds, calls>>
schemaVars == <<schema, table, old, target, owners, version, start, left>>
screenVars == <<name, phase, k, i, j, dp, prev, best, kind>>
auditVars == <<computed, entries, stored, commits, verify, snapshot, checkpoint, asked, reading,
               report>>
pagesVars == <<payments, browser, filter, modal, payList, overview, shownPay, shownErr, poller,
               payCalls, going, payLost, payClicks>>
hookPageVars == <<hooks, hookRows, hooksUsed, hookList, hookForm, attemptsOf, hookCalls, hookLost,
                  hookClicks>>
webVars == <<webCookie, oidc, begun, atKeycloak, webRequests, passed, pageShown, webClicks>>
signatureVars == <<clock, wsec, signedRows, changes, verdicts>>

vars == <<part, setting, ussdVars, amlVars, kycVars, notificationVars, authVars, paymentVars,
          hookVars, consoleVars, bulkVars, schemaVars, screenVars, auditVars, pagesVars,
          hookPageVars, webVars, signatureVars>>

Init ==
    /\ Ussd!Idle /\ AML!Idle /\ KYC!Idle /\ Ntf!Idle /\ AUTH!Idle /\ Pay!Idle /\ Hook!Idle
    /\ Console!Idle /\ Bulk!Idle /\ Schema!Idle /\ Screen!Idle /\ Audit!Idle
    /\ Pages!Idle /\ HookPage!Idle /\ Web!Idle /\ Sign!Idle
    /\ \/ part = "ussd" /\ setting \in UssdSettings
       \/ part = "aml" /\ setting \in AmlSettings
       \/ part = "kyc" /\ setting \in KycSettings
       \/ part = "notifications" /\ setting \in NotificationSettings
       \/ part = "auth" /\ setting \in AuthSettings
       \/ part = "payments" /\ setting \in PaymentSettings
       \/ part = "webhooks" /\ setting \in HookSettings
       \/ part = "console" /\ setting \in ConsoleSettings
       \/ part = "bulk" /\ setting \in BulkSettings
       \/ part = "schema" /\ setting \in SchemaSettings
       \/ part = "screening" /\ setting \in ScreeningSettings
       \/ part = "audit" /\ setting \in AuditSettings
       \/ part = "pages" /\ setting \in PagesSettings
       \/ part = "hook page" /\ setting \in HookPageSettings
       \/ part = "sessions" /\ setting \in WebSettings
       \/ part = "signatures" /\ setting \in SignatureSettings

Next ==
    /\ UNCHANGED part
    /\ IF part = "ussd" THEN Ussd!Next ELSE UNCHANGED ussdVars
    /\ IF part = "aml" THEN AML!Next ELSE UNCHANGED amlVars
    /\ IF part = "kyc" THEN KYC!Next ELSE UNCHANGED kycVars
    /\ IF part = "notifications" THEN Ntf!Next ELSE UNCHANGED notificationVars
    /\ IF part = "auth" THEN AUTH!Next ELSE UNCHANGED authVars
    /\ IF part = "payments" THEN Pay!Next ELSE UNCHANGED paymentVars
    /\ IF part = "webhooks" THEN Hook!Next ELSE UNCHANGED hookVars
    /\ IF part = "console" THEN Console!Next ELSE UNCHANGED consoleVars
    /\ IF part = "bulk" THEN Bulk!Next ELSE UNCHANGED bulkVars
    /\ IF part = "schema" THEN Schema!Next ELSE UNCHANGED schemaVars
    /\ IF part = "screening" THEN Screen!Next ELSE UNCHANGED screenVars
    /\ IF part = "audit" THEN Audit!Next ELSE UNCHANGED auditVars
    /\ IF part = "pages" THEN Pages!Next ELSE UNCHANGED pagesVars
    /\ IF part = "hook page" THEN HookPage!Next ELSE UNCHANGED hookPageVars
    /\ IF part = "sessions" THEN Web!Next ELSE UNCHANGED webVars
    /\ IF part = "signatures" THEN Sign!Next ELSE UNCHANGED signatureVars

Spec == Init /\ [][Next]_vars

\* What is fair in a service that does not run is never enabled.
FairSpec == Spec /\ Ntf!Fairness /\ Pay!Fairness /\ Hook!Fairness /\ Pages!Fairness

(***************************************************************************)
(* The services' properties; in a service that does not run they hold.     *)
(***************************************************************************)
\* The shape of every service's state.
TypeOK ==
    /\ Ussd!TypeOK /\ AML!TypeOK /\ KYC!TypeOK /\ Ntf!TypeOK
    /\ AUTH!TypeOK /\ Pay!TypeOK /\ Hook!TypeOK /\ Console!TypeOK
    /\ Bulk!TypeOK /\ Schema!TypeOK /\ Screen!TypeOK /\ Audit!TypeOK
    /\ Pages!TypeOK /\ HookPage!TypeOK /\ Web!TypeOK /\ Sign!TypeOK

\* ussd-service: what is sent was on a confirmation screen.
SentAsShown == part = "ussd" => Ussd!SentAsShown
\* ussd-service: a dialogue is one order at most (refines OneOrder).
ImplementsOneOrder == Ussd!ImplementsOneOrder

\* aml-service: no failure and no stop loses a suspicion silently, and the resolution
\* published last is the one recorded.
AlertsStand == part = "aml" => AML!AlertsStand

\* kyc-service: decisions that do not overlap decide a file once.
DecidedOnce == part = "kyc" => KYC!DecidedOnce
\* kyc-service: what is written is announced, what is announced is written.
HeardAsWritten == part = "kyc" => KYC!HeardAsWritten

\* notification-service: a row is tried MAX_ATTEMPTS times at most, and told once.
TriedEnough == part = "notifications" => Ntf!TriedEnough
\* notification-service: every row is sent or given up in the end.
RowsSettle == Ntf!RowsSettle

\* api-core's authentication: passwords tried between two fresh starts are bounded.
FewGuesses == part = "auth" => AUTH!FewGuesses
\* What login answers a locked client (auth_lockout finds that it is not so).
LockoutEnds == part = "auth" => AUTH!LockoutEnds
\* What aml-consumer.service.ts:9 says an alert does (aml_freeze: it does not).
FreezeIsHeeded == part = "aml" => AML!FreezeIsHeeded

\* The aggregator's payments: one final event, which the row tells too.
TimelineTells == part = "payments" => Pay!TimelineTells
\* The aggregator's checkout: an accepted confirmation has its result in the end.
ConfirmedEnds == Pay!ConfirmedEnds

\* The aggregator's webhooks: an endpoint that answers is given a row once.
GivenOnce == part = "webhooks" => Hook!GivenOnce
\* The aggregator's webhooks: every webhook listed for an event has its end.
EveryHookServed == Hook!EveryHookServed

\* The dashboard: the key the browser keeps is one the server takes.
KeyWorks == part = "console" => Console!KeyWorks

\* business-service: a batch is executed once, after another's approval than its maker's.
FourEyes == part = "bulk" => Bulk!FourEyes

\* The aggregator's database: no start that ends well loses a merchant.
KeepsMerchants == part = "schema" => Schema!KeepsMerchants

\* aml-service: no listed name that is close enough is missed.
NothingMissed == part = "screening" => Screen!NothingMissed

\* The verification of quiet books, and the daily report, find what is wrong; the
\* balances of one checkpoint are those of one moment.
ReadingsAreTrue == part = "audit" => Audit!ReadingsAreTrue

\* The page of a payment shows its end, while it has polls left.
DetailFollows == Pages!DetailFollows
\* The page of webhooks: what it shows when it is at rest is what there is.
ListIsCurrent == part = "hook page" => HookPage!ListIsCurrent

\* The web portals: what is shown is shown to whom it is for.
ShownIsAllowed == part = "sessions" => Web!ShownIsAllowed

\* Signatures of webhooks: none is sent too late to be verified.
LastTryVerifies == part = "signatures" => Sign!LastTryVerifies
=============================================================================
