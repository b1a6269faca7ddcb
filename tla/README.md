# Formal model of CauriPay / Goursi

TLA+ specifications of this repository's services, TLC runs that check them on
small instances, and TLAPS proofs of what matters most. Source paths are relative
to the repository root; in `PROJECT.json` the same paths start with `src/`.

## 1. Inventory

### 1.1 The parts, their state and their models

| Part | Where | State it keeps | Operations | Module |
|---|---|---|---|---|
| ledger: write API | `services/ledger-service/.../application/LedgerWriteService.java` | Postgres `ledger_balances`, `ledger_entries` | `transferAtomic`, `credit`, `debit`, `reverse` | `LedgerWrite` over `LedgerCommands`, refines `LedgerBook` |
| ledger: idempotency | `IdempotencyService.java`, `RedisIdempotencyStore.java` | Redis `ledger:idem:<key>`: absent, claimed (30 s), result (24 h) | `getCached`, `claim`, `storeResult`, `release` | `LedgerWrite` |
| ledger: events | `LedgerEventPublisher.java` | what left for RabbitMQ | after-commit send, dead-letter send | `LedgerWrite` |
| ledger: audit jobs; reconciliation-service | `CheckpointScheduler.java`, `LedgerVerifyService.java`; `services/reconciliation-service/src/` | checkpoints; daily reports | `snapshotAll`, `verifyAll`; `generate` | `LedgerAudit` |
| ledger: reads and filters | `LedgerReadService`, `RateLimitFilter`, `ServiceKeyFilter` | buckets in memory | queries, 429 | none |
| api-core: transactions, ledger client | `services/api-core/src/transactions/`, `ledger-client/` | Prisma `Transaction` rows | `transfer`, `cashIn`, `confirmCashIn`, `cashOut`, `reverse` | `Transactions` |
| api-core: authentication | `auth/` | users, Redis codes, counters, locks, refresh tokens | register, verify, login, refresh, change MPIN | `Auth` |
| api-core: AML consumer; aml-service | `amq/`; `services/aml-service/src/` | wallet status; alerts, actions | freeze; analyse, alert, act on an alert | `Aml` |
| aml-service: screening | `screening/list-screener.service.ts` | none | `screen` | `Screening` |
| kyc-service | `services/kyc-service/src/` | records, audit entries, AMQP channel | submit, approve, reject | `Kyc` |
| notification-service | `services/notification-service/src/` | notifications, attempts | consume, test, dispatch, cron job | `Notifications` |
| ussd-service | `services/ussd-service/src/` | Redis sessions, seen markers | one handler per keypress | `UssdSession`, refines `OneOrder` |
| business-service: bulk | `services/business-service/src/bulk/` | batches in memory | upload, submit, approve, reject, execute | `BulkPayments` |
| business-service: router, merchants | `payments/`, `merchants/` | registers in memory | route, initiate | none |
| developer-gateway | `services/developer-gateway/src/` | keys, buckets, sandbox in memory | keys, sandbox, webhooks | signatures only |
| web portals | `apps/web-admin/`, `apps/web-business/` | cookies | sign-in, callback, second factor, logout, two middlewares | `WebSessions` |
| legacy server: payments, checkout | `legacy/server/src/payments.ts`, `routes/` | SQLite payments, timers | create, checkout page, merchant API, simulator | `LegacyPayments` |
| legacy server: webhooks | `webhooks.ts`, `routes/webhooks.ts` | endpoints, attempts, timers | register, dispatch, deliver, retry, replay, ping | `LegacyWebhooks`, `SignatureWindow` |
| legacy server: database | `db.ts` | the schema | the migration at start | `LegacySchema` |
| legacy server and dashboard: accounts, keys | `auth.ts`, `routes/auth.ts`, `routes/merchant.ts`; `legacy/dashboard/src/` | accounts; token and key in `localStorage`, page, calls under way | register, log in, settings, rotate a key, use it | `MerchantConsole` |
| legacy dashboard: payments, webhooks | `pages/` | lists, forms, polling | load, filter, create, watch, simulate; toggle, delete, replay | `PaymentPages`, `WebhookPage` |
| fees and limits | `packages/validation-rules/` | none | `calculateFee`, `checkKycLimit` | within `Transactions`, in part |

### 1.2 How the parts interact

```
 USSD, web, SDKs, business-service
        | HTTP                                     aml-service --- aml.events --> api-core (freeze)
        v                                              ^
     api-core -- HTTP, 10 s abort --> ledger-service   | financial.events
        |   Postgres (Prisma), Redis      |  Postgres SERIALIZABLE + FOR UPDATE, Redis keys
        +---------- RabbitMQ -------------+----------> aml, notification, reconciliation

 browser: dashboard -- HTTP --> legacy server (SQLite, one process) -- webhooks --> merchants
 browser: portals -- cookies --> middleware -- Keycloak
```

api-core writes a `PENDING` row, calls the ledger with the key `tx:<id>` (or
`rev:<id>`), then writes the outcome. The ledger claims the key in Redis, posts
under row locks, stores its answer in Redis *before* the commit, and tells
RabbitMQ after it. Nothing is shared between services but messages; inside a
service the handlers share Postgres rows and Redis keys. The legacy server is one
process with synchronous SQLite calls, so that there a handler is one step and
interleaving begins at timers, outgoing POSTs and browsers.

### 1.3 What is hard, and what must hold

| Part | Hard behaviour | What makes it correct |
|---|---|---|
| ledger write | opposite transfers lock rows in opposite order; snapshots; rollback half way | books as if posted one by one (`ImplementsBook`), unbroken chains (`AuditChain`), nothing overdrawn, a transaction mirrored at most once, every request answered |
| ledger idempotency | three separate Redis calls; claim and result expire; the result precedes the commit | posted once per key (`OnePostingPerKey`), answers are true, no claim for ever |
| ledger events | broker down, process dies after the commit | events tell the truth; what is announced and posted is told (`EventsTellPostings`) |
| ledger audit, reports | reads while transfers commit | one moment per checkpoint, no wrong report on quiet books (`ReadingsAreTrue`) |
| transactions | the ledger answers after the caller gave up; lookups, limits and statuses read before an await and used after it; a password read and deleted in two calls | rows and books agree (`RowsAgree`), one key moves money once as far as the ledger's memory of keys holds, statuses move in order, limits hold, transfers settle |
| authentication | counters and expiry in two calls, handlers past the lock check | guesses stay bounded (`FewGuesses`), a lock ends |
| AML, KYC | redelivery, two officers at once, a stop between update and publish | no suspicion is lost, what is told is what is recorded, a file is decided once |
| screening | an edit distance computed in one row, two similarities | no close name is missed (`NothingMissed`) |
| notifications | a stop between send and update, cron runs that overlap | tried a bounded number of times, told once, settled in the end |
| USSD | keypresses that overlap, repeat or get lost | what is sent was put together on one screen; one dialogue, one order |
| bulk | every way back from a rejection | executed once, after another's approval (`FourEyes`) |
| legacy payments | pages and timers of one payment, process restarts | one end per timeline, confirmed payments end |
| legacy webhooks | dispatches wait for each other, retries across restarts, one signature for all tries | an answering endpoint is asked once, every endpoint is served, the last try verifies |
| legacy database | a migration without a transaction | no merchant is lost |
| dashboard, portals | answers that overtake each other, two tabs, a late cookie | the stored key works, the pages show what is, only the allowed see |

The hazards are listed with their lines in `PROJECT.json`, each with the property
that would catch it. A hazard whose going wrong the code allows has no property there
and a note instead: the deletion of another call's claim (`IdempotencyService.java:104`)
and a claim outlived by its call (`:28`); officers who overlap over an alert
(`aml.service.ts:96`) or a file (`kyc.service.ts:63`); a broker's channel lost
(`kyc-events.publisher.ts:54`); a message sent twice after a crash
(`dispatch.service.ts:49`) or by two cron runs (`retry-cron.service.ts:23`); a USSD
confirmation repeated (`ussd.service.ts:83`); a verification beside commits
(`LedgerVerifyService.java:39`). Covered in part, and noted so: a password used twice
while both calls are in the ledger (`auth.service.ts:160`), the second page of a payment
(`checkout.ts:75`), a death inside the migration (`db.ts:57`), a code without a sign-in
(`2fa/route.ts:29`). For each of them the models contain the behaviour, and a condition
in the property of that part says that it is left out (section 4).

Known and not in that list (`api-core/` is `services/api-core/src/`):

* `api-core/transactions/transactions.service.ts:109`: the ledger types the key as a
  UUID; the runs assume the documented contract (finding below).
* `:182`: `clientPhone` is not compared with the transaction's recipient: a password
  of one client can confirm another's cash-in. The model gives the right client.
* `:173`, `:127`: a crash between INSERT and `sendOtp`, or between the ledger's answer
  and the update, leaves a row PENDING; `TransfersSettle` excludes crashes.
* `services/ledger-service/.../CheckpointScheduler.java:49`: a second snapshot of a day
  violates the unique index and loses all rows of its transaction.
* `services/ledger-service/.../RateLimitFilter.java:86` and
  `services/developer-gateway/src/rate-limit/rate-limit.service.ts:10`: fixed windows;
  the second is called sliding ("fenêtre glissante").
* `packages/validation-rules/src/index.ts:137`: `MAX_BALANCE` is tested on the sender.
* `legacy/server/src/webhooks.ts:145`: a restart resumes only what is due already; retries due
  later are lost.

## 2. Plan

| Step | Modules | State |
|---|---|---|
| 1 | `LedgerCommands`, `LedgerBook`, `LedgerWrite`, its proofs; refinement `ImplementsBook` | done |
| 2 | `Transactions` over `LedgerBook`, with proofs | done |
| 3 | `Aml`, `Kyc`, `Notifications`, `Auth`, `UssdSession` with `OneOrder` | done |
| 4 | `LedgerAudit`, `Screening`, `BulkPayments` | done |
| 5 | legacy: `LegacyPayments`, `LegacyWebhooks`, `SignatureWindow`, `LegacySchema`, `MerchantConsole`, `PaymentPages`, `WebhookPage`; `WebSessions` | done |
| 6 | proofs about money: `LedgerWrite` implements `LedgerBook`; double entry, answers, events and keys of the ledger; rows and books, keys and limits of `Transactions` | done |
| 7 | proofs about the smaller services: bulk payments, schema, signatures, portals, KYC, AML, USSD with `OneOrder` | done |
| 8 | proofs about the rest: authentication, notifications, readers of the ledger, screening, the aggregator and its dashboard | done, but for the services' `TypeOK` |
| 9 | the lapses of the ledger's keys behind the HTTP call of `Transactions`, with the proofs about rows, keys and limits over them | done |
| 10 | fee and limit tables as functions | open |

Abstract specifications: `LedgerBook` (two tables, one step per command) and
`OneOrder` (a transfer leaves after its screen was answered, and one per dialogue).

## 3. Modules and how they correspond to the code

`PROJECT.json` maps each definition to its lines. Conventions: a CONSTANT `Settings`
is a set of environments, each a record of what clients do and which faults happen;
`setting` is chosen at the start and never changes. Each `await` (or database call of
the ledger) ends a step; a handler is a label, `pc` or a record with `at` or `next`.
`Quiet` (or the like) is the only way to stop, since the deadlock check is on in every
run.

**Money.**

* `LedgerCommands`: commands, entries, legs: what one `transferAtomic`, `credit`,
  `debit` or `reverse` writes, as pure operators. Amounts are whole centimes, as
  commands refuse more than two decimals. The assumption that a transfer has two
  different wallets is `TransferCommand.java:23`.
* `LedgerBook`: the abstract specification, two tables and one atomic step per command.
* `LedgerWrite`: the service. `pc[t]` is where a request thread is: `cache`
  (`getCached`), `claim` and `setnx` (the GET and SET NX of `claim`), `begin` (first
  statement, snapshot), `locking`, `checking`, `posting` (`FOR UPDATE`, funds, one leg
  at a time on the loaded entity), `commit`, `publish` (the after-commit callback),
  `failing` and `rollback` (the catch block, then the interceptor). `owner` is the row
  lock, `work`/`fresh` the persistence context, `idem` Redis. Postgres is modelled by
  what the code relies on: a row lock has one holder, cycles of waits are broken, and
  under SERIALIZABLE a row that another transaction committed since the snapshot cannot
  be locked (`stale`; the write-conflict rule alone, the weaker part of what
  SERIALIZABLE gives, so nothing here depends on predicate locks).
* `Transactions`: api-core's handlers. The ledger is `LedgerBook` behind `inbox` and
  `reply`; a caller that gives up leaves its call in `inbox` addressed to `Nobody`. The
  memory of keys, `answers`, is `IdempotencyService`'s: a call is at the `door` until
  `getCached` finds nothing (`LedgerEnters`) or the answer (`LedgerReplays`); `inside` it
  claims its key, also one that holds the result of the same command (`Claimed`), and is
  executed (`LedgerPosts`), fails and releases the key (`LedgerFails`), is refused
  (`LedgerRefuses`), or stores its answer and loses its commit (`LedgerLosesCommit`);
  `AnswerExpires` is the end of the 24 h. So two calls of one key can both be executed,
  as findings 1 and 2 say. The history `lapse` notes for each key whether that can have
  happened (`twice`) or an answer outlived its posting (`lost`). Only cash-ins confirmed
  again and reversals are called twice under one key: a transfer's key is that of the one
  call its handler makes. Wallets stand for users, as registration creates one wallet each.
* `LedgerAudit`: the checkpoint and the verification, row by row, beside transfers that
  commit, and the day's report. The books are sums here.

**Services of the platform.**

* `UssdSession`: `handle` call by call over the menu tree as a function from step and
  input; the session and its marker with their lifetimes; `Act` is the call to api-core
  that moves money. `composed` are the confirmation screens that were computed, `shown`
  those that were answered after `set` and the marker. `OneOrder` is what it refines.
* `Aml`: `Deliver` scores an event, `InsertAlert` and `PublishCreated` are the awaits of
  `analyse`; any exception is `Bury` (dead letters, acknowledged). Officers read,
  decide, tell. `HandleAmlAlert` is api-core's consumer. Events have the fields that
  `FinancialEvent` names; what the ledger really publishes has others (section 5).
* `Screening`: one name, one cell of the distance per step, as in the code's loop with
  its single row `dp`; the reference is the recursive definition of the distance.
* `Kyc`: `Find`, `Write`, `Publishing`, `Publish`, `publishNotification` over a channel
  that is cached and, once broken, never reopened while the process lives.
* `Notifications`: consumer deliveries, test requests and cron runs are workers; a
  worker has a batch of rows with the number of attempts it read. A cron run
  takes the rows as they fell due, which is any order of their ids.
* `Auth`: the handlers of one phone; `fails`/`timed` is the counter and whether it has
  an expiry, `lock` the Redis lock, `user` the row.
* `BulkPayments`: every call is one step, as the batches are a map in memory; `deeds` is
  the history of accepted calls of a batch.
* `WebSessions`: a request carries the cookies of the moment it leaves, and
  `Receive` sets those its answer brings, whenever it comes; both middlewares with the sections and roles of
  `rbac.ts`. Tokens are data. A code is right or wrong for the secret in effect, the one
  the request names or else the environment's; with neither the route answers 500, which
  sets as little as a wrong code. `passed` are the sign-ins with a right code, 0 for a code
  accepted without a session.

**The legacy aggregator and its dashboard.**

* `LegacyPayments`: the transition table, `Make` (update and event in two statements),
  the checkout's routes, its page per customer, the timers of PIN confirmations (an
  exception in a timer ends the process), the PIN throttle, merchant and simulator.
* `LegacyWebhooks`: `Emit` lists the endpoints and inserts the first one's row, `DispatchNext`
  serves the others one by one,
  `Step` is one try of a row (`sending`, `taken`, `refused`, `timer`); registration with
  its limit around the look-up of the host, `Die` and `Restart`.
* `SignatureWindow`: the same rows seen by a clock: when each try leaves, and what a
  verifier with a window of five minutes answers.
* `LegacySchema`: the migration statement by statement. Foreign keys follow a renamed
  table (`target`), which is why DROP fails when payments exist.
* `MerchantConsole`: server accounts and JWTs, `localStorage`, the page shown and the
  calls under way; `own` says that the page that sent a call still waits for it.
* `PaymentPages`, `WebhookPage`: the pages' state (list, filter, form, detail, poller)
  and calls in slots that are served and received in any order.

**Instances.** `Services` puts the sixteen smaller services side by side as a sum:
`part` says which one runs, and the others stay idle. They share only `setting`, so that
a state of the sum is a state of one service, and one run checks all of them, each in
several environments. A property of a part that does not run holds trivially there and a
fair action of it is never enabled. `MCLedgerWrite`, `MCTransactions` and `MCServices`
give the constants their small values; the proofs speak of `LedgerWrite`, `Transactions`
and `Services` themselves.

An operator whose comment says *mutant* stands just before the definition it is a
mutant of: with it in place the property named in `PROJECT.json` fails, so the property
depends on that line of the code.

## 4. What the runs check

| Run | Question | Result |
|---|---|---|
| `ledger_safety` | A transfer and its reversal sent again at any time, with every expiry, crash and failing commit; commands retried, one under a taken key; opposite transfers with a cash-out and a reversal over shared rows; a retry beside the call it repeats: is this one clerk's work, are answers and events true? | yes |
| `ledger_progress` | Opposite transfers, and clients that wait before they retry: does every request and every claim end, is a key posted once? | yes |
| `ledger_concurrent_retry` | May a retry overlap the first call? | **no**: posted twice |
| `ledger_commit_failure` | May the commit itself fail? | **no**: the stored answer tells of a posting that does not exist |
| `txn_traffic` | A transfer and a cash-in with one client key, repeated confirmations and reversals; a slow or failing ledger whose memory of keys lapses, handlers that die; one request at a time over midnight: do rows and books agree, does money move once and in order, do limits hold? | yes |
| `txn_answers` | With a ledger that may never answer: does every request end, does every transfer settle? | yes |
| `txn_timeout` | May the ledger be slow? | **no**: FAILED, and the money moved |
| `txn_limit_race` | Two transfers at once within the limit? | **no**: both pass |
| `txn_late_confirm` | Is REVERSED final? | **no**: a late confirmation writes SUCCESS over it |
| `services` | Each of the sixteen services in each of its environments: does it keep what it promises, and does what must happen in the end happen? | yes |
| `auth_lockout` | Is an account open again after 30 minutes? | **no**: the row stays LOCKED |
| `aml_freeze` | Does an alert that asks for it freeze the wallets? | **no**: the consumer looks for another field |

Passing and violated runs read together say under which conditions a promise holds, and
many properties of passing runs name their condition:

| Property | Holds while |
|---|---|
| `OnePostingPerKey` | clients wait, no call outlives its claim, no result expires |
| `AnswersAreTrue` | commits succeed and the process lives; a call that overlaps the one it repeats may hear of the posting while it is being committed |
| `OncePerKey`, `RowsAgree` | always for transfers; "once" for a cash-in while no two of its calls are inside the ledger at once, no answer expires and no commit fails; "mirrored" while the reversal's commit does not fail |
| `WithinLimitOneByOne`; the FAILED part of `RowsAgree` | one handler at a time, a ledger within 10 s, and handlers that live to write the outcome (a row left PENDING counts in no total); a ledger within 10 s |
| `SentAsShown` | one screen composed it: always; that screen was answered: keypresses do not overlap and handlers live |
| `ImplementsOneOrder` | the gateway waits, handlers live, the marker (24 h) lives |
| `AlertsStand` | its first part always; that the last resolution told is the recorded one, without faults and one officer at a time |
| `DecidedOnce`; `HeardAsWritten` | decisions of a file do not overlap; a broker that stays and handlers that live, for "written is heard" |
| `TriedEnough`, `RowsSettle` | cron runs do not overlap and calls succeed; told once also needs a provider that answers in time |
| `FewGuesses` | handlers do not die between INCR and what follows, and none is so slow that the lock it set is gone when it deletes the counter |
| `TimelineTells`, `ConfirmedEnds` | always one end; the row agrees unless stopped in between; one page per payment and no merchant's act, for the end |
| `GivenOnce` | at most `MAX_ATTEMPTS` times: nobody stops the process or deletes an endpoint; once: receivers answer in time, nobody stops it, and no endpoint is deleted where others fail |
| `EveryHookServed` | nobody stops the process or deletes the endpoint |
| `KeyWorks` | the user waits for answers and none is lost |
| `KeepsMerchants` | the process does not die inside the migration |
| `ReadingsAreTrue` | nothing commits during the verification; one wallet at most is off, for the report; checkpoints always |
| `DetailFollows` | polls left, the user stays, no error box |
| `ListIsCurrent` | no other tab, no lost call, lists arrive in order |
| `LastTryVerifies` | the merchant keeps his secret and the process lives; no try takes more than 66 s |

**Bounds.** Two threads or handlers: every race in the listed hazards is between two
requests, and the proofs of section 6 cover any number. Two customers and the fee wallet
give opposite and shared rows; `ghost` is a wallet without a row. `sends` is how often
one command or request is sent (2 = one retry); amounts, limits and opening balances are
chosen so that some commands are not covered. In `Transactions` the days 1 and 2 let a
daily total start over while the monthly one goes on; the client keys are fewer than the
requests where clashes matter. In `MCServices` each environment is small because it asks
one thing: USSD dialogues of seven keypresses, and of six where they overlap, handlers die
or the language is chosen late, which is enough for a transfer to be sent in each; the limit of MPIN
failures, endpoints or polls lowered to 2 (`MaxPinFailures`, `MaxHooks`, `MaxPolls`), as
the code compares with them and nothing else depends on them, and never that of
`MAX_ATTEMPTS` = 4, `LockoutAfter` = 3 or the seconds of `SignatureWindow`; `clicks`,
`calls`, `requests` and `presses` bound what users do, large enough for the longest
sequence a property names (four deeds of a batch, a rotation after a second login, a
form at the limit of endpoints). Symmetry is not used.

**Fairness.** `LedgerWrite`: each thread weakly fair (Tomcat runs it; Postgres hands a
freed row to a waiter and ends a cycle of waits), and Redis expires a claim that is due.
`Transactions`: each handler weakly fair (the event loop, with the timer of the abort).
`Notifications`: workers go on, the cron job starts while rows are due, time passes.
`LegacyPayments`: timers fire, the checkout page polls. `LegacyWebhooks`: tries and
dispatches go on, a stopped container restarts. `PaymentPages`: what was sent is served
and received, the interval ticks. Weak fairness is enough in each, as the number of
requests is bounded and nobody can be overtaken for ever. Nothing that users, receivers
of webhooks, the ledger's answers or faults do is fair, nor is the expiry of results.

## 5. Findings

Seven runs show code and comment apart; `PROJECT.json` quotes both.

1. `IdempotencyService.claim` treats a stored result of the same command as a free
   key, so a retry that overlaps the first call is posted again. From api-core this
   reaches cash-ins: two confirmations under way at once may credit twice. Reversals are
   saved by the ledger's look for mirrors, transfers are called once.
2. `storeResult` precedes the commit; a commit that fails leaves the result. From api-core
   a cash-in confirmed again then says SUCCESS without a credit, and a reversal REVERSED
   without its mirror.
3. Every failure of the ledger call, a timeout included, marks a transfer FAILED.
4. Limits are read before, and counted after, the ledger call.
5. `confirmCashIn` writes SUCCESS without a second look at the row.
6. A lockout writes LOCKED into the row and nothing takes it back.
7. aml-service publishes `walletIds`, api-core reads `walletId`: nothing is frozen.

Met while modelling, without a run of their own:

* *Ledger.* Its request records type the idempotency key as a UUID, api-core sends
  `tx:<uuid>` (`transactions.service.ts:109`, `TransferRequest.java:10`): as written, each
  command's body is refused. The runs assume the documented contract, in which a key is
  any string; the fault `"key refused"` is there to see the rest. Release deletes the key
  of whoever holds it, so that overlapping calls of two commands under one key can both
  post. With both exchanges down an event is only logged, and a crash after the commit
  loses it.
* *Audit.* A verification beside commits reports discrepancies that are none, and never
  looks at wallets without entries. A checkpoint pairs balances of one moment with counts
  of later ones. Discrepancies of opposite sign cancel in the day's report, a slower run
  of the report overwrites a newer one, and the source of totals answers an empty list.
* *Transactions.* No code writes PROCESSING or reads `expiresAt`, so a cash-in nobody
  confirms stays PENDING; a handler that dies after the ledger's answer leaves a posted
  row PENDING. Nothing sends a CASH_OUT password, so `cashOut` never gets past
  `verifyOtp`; the model stops there too.
* *Authentication.* The third failure resets the counter, which is therefore never above
  2 at rest. `changeMpin` asks for the old MPIN only if the caller gives one.
* *AML.* The ledger's event carries `amount` and no names (`LedgerEventPublisher.java:62`),
  the analysis reads `amountMinor` and `senderName`, `recipientName` (`aml.service.ts:27`,
  `:37`): an amount that is missing counts as 0 and nobody is screened, so that no event of
  the ledger scores above 70. What api-core publishes goes to Redis, not to RabbitMQ
  (`transactions.service.ts:352`). The model gives the analysis events with the fields of
  its own type, as its tests do. A stop between the INSERT of an alert and its publication is not repaired: the
  redelivered event violates the unique transaction and goes to the dead letters.
  `tokenJaccard` counts a repeated word each time and can exceed 1.
* *Bulk.* An amount between 0 and 0.5 passes and is rounded to 0. `execute` only marks the
  batch. The identity of maker and checker comes from the request's body.
* *Router.* api-core's global guard (`jwt-auth.guard.ts:56`) refuses a call that brings
  only `X-Service-Key`, and the adapter waits for `SUCCEEDED` where api-core says
  `SUCCESS`: every payment it routes ends FAILED.
* *Gateway.* The guard of its only controller ignores `@Public`: the first key cannot be
  made without one.
* *Legacy webhooks.* A restart resumes only what is due already: later retries are lost,
  though `legacy/docs/API.md:182` says that they go on. Replays and pings are retried too, though
  their comments say "livré une fois" (`webhooks.ts:123`, `:161`). Two registrations that
  overlap around the look-up pass the limit (`routes/webhooks.ts:44`). Rows resumed after a
  restart, or after a rotation of the secret, carry the old signature. The delay of
  300 s is never used.
* *Legacy checkout.* A second confirmation within the 1.5 s starts a second timer, whose
  exception ends the process with all other timers.
* *Legacy database.* A crash between RENAME and the version leaves the merchants in the
  old table; with payments DROP fails, the process ends, and the next start takes the
  path of a new database, in which payments of the merchants that came later are refused;
  without payments DROP succeeds and every later payment is refused by its foreign key.
* *Dashboard.* Logout keeps the secret test key, and a wrong password's 401 wipes both it
  and the token (`api.ts:60`), though the key is given only once (`:17`); a late 401 ends a
  newer session. An answer to an older filter is shown for ever; a failed load shows the
  error box though the polls succeed; without a key the list says that there are no
  payments; a creation that was closed or left still redirects; the page stops asking
  after eleven answers. A double click on a webhook's switch sends the same value twice;
  an endpoint with attempts cannot be deleted (500), a replay without any is a 500 too.
* *Portals.* Logout redirects to a relative address, which this version of Next refuses:
  the answer is a 500 and the cookie stays ("détruit la session"). The login page of
  web-business has no link to its sign-in route. A right code without a session makes a
  verified session of nobody, and a late answer brings back an older session. The request
  may bring the secret that its code is checked with (`2fa/route.ts:10`), so that it can
  always bring a right code.

## 6. What is proved

All for any number of wallets, threads, keys, commands, handlers, requests, users, files
and events, and any set of environments, from the assumptions next to the CONSTANTS.

| Module | Theorem | States |
|---|---|---|
| `LedgerWriteProofs` | `TypeCorrect`, `BooksAudit`, `NeverOverdrawn`, `ReversedOnce` | `TypeOK`, `AuditChain`, `NonNegative`, `NoSecondReversal` |
| `LedgerAnswersProofs` | `EventsAreTold`, `AnswersTrue`, `OneKeyOnePosting` | `EventsTellPostings`, `AnswersAreTrue`, `OnePostingPerKey` |
| `LedgerBookProofs` | `EntriesBalance` | `TransfersBalance` |
| `LedgerBookProofs` | `OneClerk` | `ImplementsBook`: `LedgerWrite` implements `LedgerBook` |
| `TransactionsProofs` | `RowsAreKnown`, `TransfersMoveInOrder` | the invariant behind the statuses, `StatusOrder` |
| `TransactionsProofs` | `RowsAreTyped`, `RowsTellTheBooks`, `OneKeyMovesOnce`, `LimitHoldsOneByOne` | `TypeOK`, `RowsAgree`, `OncePerKey`, `WithinLimitOneByOne` |
| `ServicesProofs` | `FourEyesHold`, `MerchantsAreKept`, `TriesAreTimely`, `PagesAreAllowed`, `FilesAreDecidedOnce`, `DecisionsAreHeard`, `SuspicionsStand`, `SentWasShown` | `FourEyes`, `KeepsMerchants`, `LastTryVerifies`, `ShownIsAllowed`, `DecidedOnce`, `HeardAsWritten`, `AlertsStand`, `SentAsShown` |
| `ServicesProofs` | `OneOrderLeaves` | `ImplementsOneOrder`: `UssdSession` implements `OneOrder` |
| `PlatformProofs` | `GuessesAreFew`, `RowsAreTriedEnough`, `ReadersTellTheTruth`, `NoNameIsMissed` | `FewGuesses`, `TriedEnough`, `ReadingsAreTrue`, `NothingMissed` |
| `AggregatorProofs` | `KeptKeyWorks`, `RowsAreGivenOnce`, `PaymentsEndOnce`, `ListEndsCurrent` | `KeyWorks`, `GivenOnce`, `TimelineTells`, `ListIsCurrent` |

`FoldFacts` holds the lemmas about sums over finite sets that the ledger's, api-core's and
the readers' proofs share.

### 6.1 The ledger

*Books.* `AuditChain` is not inductive: a commit writes what a thread computed
earlier. `BookInv` adds what a thread knows while it holds a row: it is in its
transaction (`OwnersAtWork`), only holders have unsaved entries for a row
(`OnlyOwnersWrite`), and their unsaved page continues the committed chain and ends
in the loaded entity's balance (`PagesContinue`). Nobody else can commit a held row,
so the page still fits when it is appended.

*Reversals.* Two threads may both find no mirrors. `ReversalInv` says that all
threads reversing one transaction must lock a common row (`CommonRow`, as an entry
of the original is never removed), that one who comes after the first commit has a
stale row still to lock (`LateIsStale`), and that held rows are not stale
(`HeldIsFresh`): so nobody reaches a second commit. The property does not use the
idempotency keys, which is why it survives the first finding.

*Events and answers.* `EventsInv` follows a posting from the plan to the event: rows
that a thread has written are of its command, a thread between commit and publish has
its posting in the tables, and every posting has its event, a thread about to send it,
or a fault. `AnswersInv` says that a stored result names a command of its key that is
posted or at its `commit`: with commits that succeed a result is true or about to be.
A call that overlaps the one it repeats can be answered from a result stored before the
commit (first and second finding), which is why `AnswersAreTrue` leaves it that moment.

*One posting per key.* `KeysInv`: while clients wait, a thread at work holds the claim of
its key, a key with a result is not claimed anew, and the result of a posting stays. So
who reaches `commit` finds its command not written (`CountInv`).

*Double entry.* `BalanceInv` adds up what is committed of a transaction, what a thread has
posted of it, and the legs it has still to post. The mirrors of a reversal are a bijection
of the entries they mirror, so that their total is the opposite one.

*One clerk.* A step refines `LedgerBook` if, at its commit, the legs a thread posted one
by one against loaded entities are what the clerk would post in one go against the current
tables. `ClerkInv` holds the bridge: for each thread a walk of pages, one leg at a time,
from the committed state of the rows it holds to its unsaved pages, the order in which a
reversal mirrors, and the check of funds, which still holds as the sender's row is held.
A reversal that planned on a snapshot in which rows of the transaction are missing has a
stale row still to lock (`Outdated`) and never commits.
Every other step leaves balances and entries alone.

### 6.2 api-core

*Statuses.* No write looks at the status it replaces. `StatusInv` says what each
handler knows from its check to its write (`KnownInv`): the row of its transfer is
PENDING and its own (`OwnedInv`), the row of a confirmation is a cash-in, and the
row being reversed, if a transfer, is past SUCCESS. `PathInv` says which operations
come by which label.

*Rows and books.* `MoneyInv` is `StatusInv`, the types, and `AgreeInv`, which follows each
transaction through four places. What is in the books under it is what its row asks for,
in whole postings (`RowOK`). Its calls in the ledger's inbox are those its row asks for;
a transfer has one at most, and none once it was executed, so that it is posted once
although nothing else stops a second posting (`QueueOK`). A key the ledger remembers is a
transaction posted or mirrored, or its `lapse` says why not; two calls inside on one key
are a lapse too. And a reply of success, a SUCCESS row or an announcement means a
credited transaction (`Credited`: posted, or a cash-in whose answer outlived its
posting), a REVERSED row one taken back. `RowsAgree` and `OncePerKey` follow, also for
calls that reach the ledger after their caller left.

*Limits.* The day's total is read before the row exists. `LimitInv` says, for one request
at a time (`AloneInv`): a handler past the check has room on a day that is not over or just
was (`CheckedInv`), its row has room on the row's own day (`RoomInv`), no posted transfer
is missing from the totals but the one at work or one taken back (`TracedInv`), and what was
sent on a day is within the limit (`KeptInv`). Rows that were made are a finite set, so totals are sums.

### 6.3 The smaller services

Each has an inductive invariant of its own that speaks of the behaviours in which it runs.

* `BulkInv`: a batch's status says what was done with it last, and by whom.
* `SchemaInv`: while no process dies, each statement of the migration finds the merchants
  in one of the two tables, or in what is still to be copied.
* `SignInv`: the time of a row's next try is bounded by the number of its tries, and only
  one row waits at a time; four tries with the delays of the code stay within the window.
* `WebInv`: every session, of the cookie, of a request under way, or of an answer that
  waits, that is verified has its sign-in in `passed`: a right code was accepted with its
  cookie. For a session that no sign-in made, that is a code accepted without a cookie.
* `KycInv`: what a handler read still holds while decisions do not overlap (`KycInTurn`),
  and what is written and not yet said is in some handler's hands (`KycHeard`).
* `AmlInv`: a suspicion is somewhere at any moment; one alert per transaction, and an
  officer at `tell` tells what he wrote.
* `UssdInv`: a session at the confirmation, and a handler that is to send, hold a transfer
  that one screen was composed for, whatever overlaps (`UssdSound`). Without overlap and
  deaths, a session at rest holds one that was answered (`UssdSeen`). In a calm dialogue,
  once a transfer may have left the session is gone or about to be, the marker is set, and
  nobody is on the way to another one (`UssdOnce`); every step is then a step of `OneOrder`.
* `AuthInv`: the bound on guesses is not inductive, as handlers are between the lock check,
  the password and the counter. While a phone is open its guesses are those the counter
  tells and those of handlers that have yet to count (`AuthBounded`); once it is locked,
  whoever still guesses was past the check; and who deletes the counter has locked it.
* `NtfInv`: each row a worker holds is as the worker read it and pending, nobody else has
  it (`NtfHeld`, `NtfAlone`), one cron run at most is under way, and a row was asked for no
  more often than its attempts say, plus once by who has it in hand (`NtfKnown`).
* `AuditInv`: balances differ from sums of entries by what other means added, in every
  state; a verification that nothing overtook holds true sums of the wallets it has read
  (`AuditVerify`); a report finds the same differences whenever it reads (`AuditReport`); a
  checkpoint's balances add up to all the money there is (`AuditCut`), as a transfer moves
  it and makes none.
* `ScreenInv`: the row `dp`, overwritten from the left, is the next row of the table up to
  the cell, and the row before it from there on (`ScreenAtCell`), and nothing that is close
  was passed over. The table is the recursive definition of the distance: `NothingMissed`
  compares the two for names and lists of any length.
* `ConsoleInv`: the key in the browser is one the server takes unless its successor is on
  the way, and a key on the way is a live one or works (`ConsoleKept`, `ConsoleSound`).
* `HookInv`: tries that were made are counted or at hand (`HookTries`); a row that was given
  is about to be recorded or done with (`HookOnce`), and where nothing fails no row is ever
  due again (`HookQuiet`).
* `PayInv`: a final event is the last of its timeline, and the row is final by then
  (`PayEndsIn`); while nothing stops a handler between its two statements the last event
  is the row's status (`PayTellsOf`). Sweeps that write many payments in one step are folds.
* `PageInv`: the page will ask for the list again, or the newest list on its way is the
  list as it is, or none is on its way and that list is shown (`PageNews`).

### 6.4 Assumptions and what the proofs changed

`TxsAssumption` (`LedgerWrite`): a transaction id stands for one posting and one reversal,
as api-core takes a command from the row with that id. `TransactionsAssumption`: the
ledger's keys hold `tx:<id>` and `rev:<id>` for each row. `WindowAssumption`: a try takes
66 s at most, which is what the window leaves to four tries and the delays between them
(4 * 66 + 1 + 5 + 30 = 300); a POST is given up after 8 s, and a look-up after the
resolver's 40 s unless it is told otherwise. TLC evaluates each on the instances.

Attempts that failed were findings about the model. `AnswersAreTrue` was false for a retry
that overlaps: the run had no such environment, and now has. `WithinLimitOneByOne` was not
implied while handlers may die between the ledger's answer and the update: the total then
misses a posted row, and the condition now says so. What an alert was told last is kept by
transaction, as the message of the code carries no other name. `FewGuesses` was false
where a handler sets the lock, is held up until the lock has expired, and then deletes a
counter that others are filling; `GivenOnce` was false where one endpoint fails and another
is deleted: the dispatch that finds it deleted ends the process with a row half recorded.
The runs now have the first environment, both conditions name what they exclude, and the
batch of the cron job, in the order of its ids before, comes in any order.

### 6.5 Only model-checked

* Liveness (`Answered`, `ClaimsEnd`, `TransfersSettle`, `RowsSettle`, `ConfirmedEnds`,
  `EveryHookServed`, `DetailFollows`), out of the prover's reach.
* The services' `TypeOK`: sixteen records of shapes, one service each; what the proofs
  need of the shape of a service is part of its invariant.

Sums over finite sets are folds of a recursive function in the library; `FoldFacts` gets
their equations from the induction theorems in their form for sets, as the form for
formulas takes an operator that no prover here can instantiate. The table of the distance
is reached in the same way, through a least set of numbers.

## 7. What is not modelled

Parts: ledger reads and filters, the router and the registers of business-service, the
developer-gateway, api-core's audit trail, SDKs, infrastructure and scripts, each with
its reason in `PROJECT.json`. In short, they keep no state, or cannot be used as the code
stands, or are one counter whose behaviour is its definition.

Inside the modelled parts: a Redis call of the ledger that fails; `freeze`, `unfreeze` and
`publishFailed`, which have no caller; a commit whose outcome the client of the database
cannot know; the loss of an event by a crash after the commit is possible in the model and
no property excludes it; behind the HTTP call of `Transactions`, the steps of
`LedgerWrite` inside a posting, whose effect `ImplementsBook` proves to be one step, and the
30 s of a claim, which a call there may outlive at any time; fees and limits of one KYC level and one transaction type; the
freeze of a wallet while a transfer is under way. `UssdEngine` and its store have no caller.
The dashboards' static pages, texts, layout, hashing, JSON, metrics and logs are left out.
