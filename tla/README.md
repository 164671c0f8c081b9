# VaultBank: TLA+ models of the banking services

Specifications, model-checking runs and proofs for the back end of VaultBank
(`src/backend-service`, a NestJS monorepo of five services) and for the parts of
its React front end (`src/frontend`) that keep state or drive a protocol of the
back end. Paths below are relative to `src/`; `B` stands for
`src/backend-service`, `F` for `src/frontend/src`.

Run a check with `tlc -config MCAccountRows.cfg MCAccountRows`, a proof with
`tlapm AccountRowsProofs.tla`. `PROJECT.json` lists components, runs, mutants
(small code changes that break each property), the source lines of every
definition, findings, hazards and theorems.

## 1. The system

| Component | State it keeps | Operations that change it | Module |
|---|---|---|---|
| account-service, account rows (`B/apps/account-service/src/accounts`) | PostgreSQL `accounts`: balance, status, KYC, deletedAt | updateBalance, reverse-balance, freeze, unfreeze, close, updateKyc, deleteWithOtp; open, limits, beneficiaries | `AccountRows`, `AccountBook` |
| transaction-service, fees and ledger (`fee.service.ts`, `ledger.service.ts`) | `ledger_entries` | calculate, createEntries, assertBalanced | `LedgerFees` |
| transaction-service, transactions (`transactions.service.ts`) | `transactions` | transfer, deposit, withdrawal, reverse | `TransferSaga`, `TransactionLifecycle` |
| HTTP clients (`B/libs/common/src/http/base-http.service.ts` and one client per service) | attempts, circuit breaker | execute with timeout, retries and breaker | `RemoteCalls`, `CircuitBreaker` |
| payment-service, orders and refunds (`B/apps/payment-service/src/payments`) | `payment_orders`, `payment_receipts`, `refunds` | initiate, receipts, refund request and approval | `PaymentOrders` |
| payment-service, consumer (`consumers/transaction-events.consumer.ts`) and the event bus (`B/libs/events`, RabbitMQ) | `payment.queue` | publish, deliver, ack, requeue, dead-letter | `PaymentOrders` |
| payment-service, transfer OTP (`transfer-otp.service.ts`) | codes in Redis | send, verify | `OneTimeCodes` |
| payment-service, gateway webhooks | none of its own | applyGatewayStatus | not modelled |
| auth-service, sessions and tokens (`B/apps/auth-service/src/auth`) | `users`, `refresh_tokens`, `otp_codes`, session record and codes in Redis | login, second factor, refresh, logout, resetPassword, issueOtp, verifyOtp | `AuthSessions`, `OneTimeCodes` |
| auth-service, users and roles; the guards (`B/libs/common/src/guards`) | `users`; a token cache of 30 s | updateProfile, assignRole, validateUser, canActivate | `GuardCache`, `AuthSessions` |
| notification-service | none | sends e-mail | not modelled |
| libraries for Redis, TypeORM, Vault | none | wrappers | the keys of `CacheService` in the modules that use them |
| front end, API client and stores (`F/api/axios.ts`, `F/store/auth.store.ts`) | user, tokens, queue of waiting requests | single-flight refresh, sign-in, sign-out, page load | `BrowserSession` |
| front end, KYC store (`F/lib/kyc-store.ts`) and the pages that write it | submissions in localStorage | uploads, deletions, reviews, compaction, report to account-service | `KycReview` |
| front end, approval store (`F/lib/account-approval-store.ts`), administrator's page, account opening in account-service | requests in localStorage; `accounts`, `account_limits` | request, approve, reject; openWithKycStatus, close | `AccountApprovals` |
| front end, transfer page (`F/pages/payments/PaymentsPage.tsx`) | React state, lookups and mutations under way | choose, add, look up a recipient; proceed, resend, confirm | `TransferForm` |
| other pages; CI, GitOps, infrastructure; `B/src` (a legacy single service outside the nest-cli build) | | | not modelled |

### How the parts interact

- The browser calls each service over HTTP with an access token.
- `POST /payments` (payment-service) calls `POST /transactions/transfer`
  (transaction-service), which calls account-service: first to validate, then one
  PATCH per balance. Every call goes through `BaseHttpService`: three retries after
  a network error or a 5xx, none after a 4xx or the 5 s timeout, and nothing in the
  request that lets the server recognise a repeated one.
- transaction-service publishes `transaction.completed` to RabbitMQ before it
  answers; payment-service consumes it. `publish` is fire and forget.
- Each service has its own database. Its requests run interleaved at every
  `await`, and in several instances, so the only atomic step is one SQL statement
  or an explicit database transaction (createEntries, reverse-balance, createUser).
- account-, transaction- and payment-service validate an access token at
  auth-service through `RemoteAuthGuard` and keep the answer in Redis.
- The page interleaves at every `await` as well; what it keeps in localStorage is
  shared by all tabs.

### What is hard, and what has to be right

| Component | Hard behaviour | What makes it correct |
|---|---|---|
| account rows | read, change and save are separate statements; `save` writes the columns in which a possibly stale entity differs from the row; two-row reversals lock rows | balances stay in range; money is lost only through a stale save; a reversal is atomic; no request waits for ever |
| transactions | two PATCHes in parallel, each may be lost, repeated or late; failing writes, crashes; two administrators | a status never claims more than the balances did; every row gets an outcome; limits |
| fees and ledger | one amount computed in the entries, in the balance updates and in the reversal | the three agree |
| orders and events | answer and event of one transfer race; redelivery; a REFUNDED order overwritten by a late event | what counts as paid was paid; no order or message stays open |
| refunds | check, insert and approval in separate statements | one refund in progress |
| sessions and tokens | every handler is a row of statements; `save` undoes what others wrote; the Redis record is read and written back | as many sessions as overlapping requests at most; the record lists what a refresh would accept; a lock or a password is undone by a stale save only |
| one-time codes | two stores, read and cleared in parallel; check and consume are separate | a code that is over is refused, the latest one accepted |
| guards | an answer is cached after the edit that should have dropped it | roles and contact data are old for a bounded time |
| circuit breaker | calls in flight change its counter and clock after it has opened | refusals end |
| stored session | requests queued while one refresh runs; sign-in, sign-out and page loads meanwhile | a refresh token is presented once, the tokens are the shown user's, no request is left in the queue of a refresh that is over |
| identity review | two tabs, history compacted, report sent after the write | approved means approved evidence is held; the account follows, until something else writes it |
| account requests | call first, mark after; two tabs decide | an approved request was carried out, once |
| transfer page | three handlers and an effect look accounts up while the form changes | the account paid is the one shown; a failure shown is no payment made |

`PROJECT.json` lists every hazard at its line with the properties that cover it.

## 2. The modules

### AccountRows, AccountBook

`row` is the accounts table, `entity` the object a request holds, `columns` what
`save` found changed, `lock` and `draft` the row locks and uncommitted balances of
reversals. A request of `accounts.service.ts` is three steps because TypeORM makes
it so: `FindAccount` (findById, checks and mutation run without an await),
`SaveSelect` (save reads the row again and computes the changed columns) and
`SaveUpdate` (UPDATE of those columns), with `SaveUnchanged` when nothing differs.
deleteWithOtp awaits auth-service with its entity in hand (`otp`) and soft-deletes
in a statement of its own. A reversal is `LockDebit`, `LockCredit` (SELECT FOR
UPDATE) and `Commit`, or `Rollback`; `DeadlockAbort` is PostgreSQL's detector.
`Abort` is a database error or a crash at any await.

`fresh`, `clean` and `booked` are history variables: whether a request still holds
the row's latest version, whether a stale save has touched an account's balance,
and what the accepted requests add up to.

`AccountBook` is what the other services may rely on: balances in range, any
request replaces one balance, and a reversal moves its legs together, once, on the
balances of that moment.

### LedgerFees

`fee.service.ts`, `ledger.service.ts` and the balance arithmetic of
`transactions.service.ts` as operators on whole ten-thousandths: `Fee`, `Entries`,
`Balanced`, `LegEffect` and `ReversalEffect`. The column balanceAfter is left out.

### RemoteCalls

One call through `BaseHttpService`: `phase` is the client's view, `served` counts
how often the server carried it out, `late` the copies still under way after the
client stopped waiting. A crash of the client is `Abandon`. A call may fail at once
without being sent (`Start`), which contains whatever the circuit breaker does.

### CircuitBreaker

The counter and clock of `BaseHttpService`, one instance per client, with the calls
that share it. A call that finds the breaker open is refused (`RefusedOpen`), and
that refusal counts as no failure; a call let through before it opened still resets
or raises the counter when it ends (`AnswerResets`, `FailureCounts`), and the fifth
failure and each one after it start the clock again. `RefusalsBounded`: no call is refused later
than the cooling down and one call's duration after the opening.

### TransferSaga, TransactionLifecycle

One action per write or call of a handler, in the code's order: validate, limits
(one step: the balance seen earlier, the daily total queried now), PENDING,
PROCESSING, ledger, the legs of `Promise.all`, COMPLETED or FAILED. `LegFailed`
fires with the first error while the other leg goes on. `reverse` reads the
status, calls account-service and writes REVERSED. Writes fail, handlers crash.
A PATCH is what updateBalance makes of it: it reads the balance, checks it and saves the
new one in separate statements, so that the write may start from any balance the account had
while a copy of the call was under way. `found` collects these (`Track` adds the balance
after every step), and `CarryOut` picks one. Two calls that overlap on an account may so
lose an update or take money twice from one balance, which is what `account_rows_debits`
shows of the rows; `crossed` remembers that there were such calls. A reversal locks its rows
and starts from the balances of the moment. What else writes an account meanwhile is in
AccountRows only.

`TransactionLifecycle` is the abstract life of a transaction: money moves only
after the ledger has it, COMPLETED only when every leg has moved, REVERSED only
after a balance reversal, FAILED and REVERSED are kept. It does not promise that a
FAILED transaction moved nothing, because the code does not: the other leg, a late
copy, or both legs before a failed write of COMPLETED may have.

### PaymentOrders

`initiate` writes INITIATED, verifies the OTP, calls the transfer, and writes
SUCCESS and a receipt, or FAILED. The k-th transfer carried out for an order has
number k, and `event[o][k]` is its message: `LoadUnpaid`, `EventPays`,
`EventReceipt` and `Requeue` are the consumer's awaits. Refund requests and
approvals take a step per statement. A write that fails where nothing follows from
it is the same as not taking the next step, so it needs no action.

Taken from the code and visible in the model, without a property, since nothing
is promised: a retried `POST /transactions/transfer` makes several transfers for one
order (no idempotency key); an order can be FAILED while its transfer is made
later; a refund moves no money (`callGatewayRefund` is a stub); a SUCCESS order
may have no receipt. approve's save fails in TypeORM when the order it read
lacks a receipt or refund row; the model allows the save to fail always.

Not in the model because they cannot do anything: `transaction.failed` finds no
order, since a failed transfer answers with an error and leaves transactionId empty;
`syncOrderWithTransaction` looks for INITIATED orders with a transactionId and
there is none (the second conjunct of `SuccessMeansPaid` checks this); no code
stores a gatewayReference, so no webhook finds an order.

Nothing connects an order with the reversal of its transaction either: the order
stays SUCCESS. That is what the code does, and no document says otherwise.

### AuthSessions

One user of auth-service. `row` has the columns of `users` that matter (password,
failed attempts, lockedUntil), `live` the refresh tokens that are not revoked,
`session` the record in Redis. Each request is an `AuthJob`, and every database or
Redis statement of its handler is a step: load, compare, `SaveSelect` and
`SaveUpdate` for TypeORM's `save`, the revocations and the two halves of
`createTokenPair` and of the session record. Any statement may fail (`Fails`), and
the request then stops where it is. Tokens and record expire: `expires` is the day from
which a token is refused (its row stays, not revoked), `sessionEnds` the day on which Redis
drops the record, seven days (`TokenLife`) after it was last written, not after the tokens it
lists were issued. `Accepted` is what a refresh would accept. `multiSession` is
ALLOW_MULTI_SESSION. verifyEmail
and updateProfile are the job "edit": only that they save the whole row matters.
History: who inserted each live token (`minter`), who holds an outdated entity
(`stale`), whether requests overlapped or failed (`disturbed`).

### OneTimeCodes

One user's codes for one purpose. With `inTable` they are auth-service's, in the table and in
Redis, without it payment-service's, in Redis only. `verifyOtp` reads both stores in a
`Promise.all`, compares, and clears both in another: `pending` says which statements are
out, a failing one leaves the others under way (`LateStatement`). Rows and keys expire
separately; issuing replaces the key and adds a row.

### GuardCache

`RemoteAuthGuard` with its cache entry `token_valid:<hash>`, the validation call to
auth-service, and what changes the user: `assignRole`, which leaves the cache
alone, and `PATCH /me`, which drops the entry after its save. `since` and the clock
give the age of what a request is let through with.

### BrowserSession

One tab. `shown` and `pair` are the stored user and tokens; a request is `sent`, waits in
the interceptor's `queued`, or is the one that is `refreshing`. Sign-in, sign-out,
the queries that store the user they return, and page loads happen at any time.
auth-service may answer anything, since a service that cannot reach it says 401 to
a valid token. A request is given up after 15 s, except the refresh itself, which is
sent by the bare `axios` without a timeout. No property says that a request ends, because
the code does not make it so: a request that waited in the queue carries no `_retry` flag, so
when it is refused again while another refresh is under way it is queued again, as often as
that happens. What holds is `QueueAwaitsRefresh`: whoever waits, waits for a refresh that is
under way and will send or reject the whole queue.

### KycReview

The submission of one customer in localStorage, which the tabs of customer and
administrator share. Every update reads, normalises, compacts and writes within one
event, so it is one step; `OverallStatus`, `DocumentStatus`, `Normalized` and
`Compacted` are the store's functions. A review decides on what the tab shows, which may be
gone by then, and reports the overall status to account-service in a call that may
be late, cross another, or be lost. `account` is the KYC status of the account the
portal lists first. Opening another account, or deleting this one, changes which one that is,
and every handler of account-service that changes something else loads the account, waits,
and saves all of it: `loaded` is what such handlers may have read, `SaveStaleAccount` writes
it back (`apart` remembers it). AccountRows has these handlers statement by statement.

### AccountApprovals

Requests to open or delete an account in localStorage, the calls by which the
administrator's page carries them out, and `openWithKycStatus` and `close` in
account-service. The page calls first and marks the request when the answer is there;
the account and its limits are two writes. `unsure` marks the requests whose
decisions crossed or whose call broke off after the account was saved.

### TransferForm

The transfer page as React runs it: one action per event or answer, and after each
the effects that depend on what changed (`Renders`: resolve the selected
recipient, reselect when it is gone) before the next. `work` holds the handlers at
their awaits with what they captured, `latest` which call each mutation hook
reports as pending, `form.lookup` the effect's own lookup, which its cleanup cancels.
The panel for the code covers the form. The page is not left. `PaymentRefused` is an error
without a transfer; `PaymentMisreported` is everything that is a failure for the page and not
for the bank: the answer is lost or takes longer than 15 s, or payment-service answers an
error though the transfer was made or will be (it could not save the order, or its own call
timed out and is carried out later).

The model shows two things the page does not promise away. A number that is typed and not
saved is never paid, though the page says "Select a beneficiary or enter a valid
account number" (`F/pages/payments/PaymentsPage.tsx:305`): the effect drops the account
that `proceed` has found because `isAddingNewBeneficiary` is set, and Confirm then answers
"Please select valid accounts". And lists that are loaded again while the panel is open may select
another recipient: what is paid is what the covered form shows.

### MCIdentity, MCPortal

These check several modules that share no state in one run each: a variable `scene`
says which module takes the steps of a behaviour. AuthSessions has two
scenes that offer different requests.

## 3. What the runs check

| Run | What it shows | Distinct states |
|---|---|---|
| `account_rows` | three requests of any of 16 kinds on two rows: `BalanceInRange`, `BooksAgreeWhileClean`, `FreshSavesAreSurgical`, `DeletedRowsOnlyWrittenStale`, and AccountBook is implemented | 214 000 |
| `account_rows_live` | `RequestsFinish`: lock waits end, the deadlock of two crossing reversals is broken | 154 000 |
| `transfer_saga` | one transaction of each type, one retry, two administrators, every failure: `StatusTellsMoves`, `OnceAtFirstAttempt`, TransactionLifecycle is implemented, `RowsResolve` | 230 000 |
| `transfer_pair` | two transactions and a reversal: `QuietBooksAgree` (balances, ledger and reversals agree unless two calls crossed on an account), `DailyLimitKeptInTurn` | 1 490 000 |
| `payment_orders` | one order, two refunds, two approvals, one retry: `SuccessMeansPaid`, `OneRefundInTurn`, `OrderMoves`, `RefundedIsFinalOnceSettled`, `EventsSettle`, `OrdersSettle` | 173 000 |

| `identity` | AuthSessions: `OneSessionPerRequestAtOnce`, `SessionAgreesInTurn`, `LockLiftedOnlyByStaleSave`, `PasswordChangedOnlyByResetOrStaleSave`; OneTimeCodes: `DeadCodesRefused`, `LatestCodeAcceptedInTurn`; GuardCache: `RecordsAtMostStale`; CircuitBreaker: `RefusalsBounded`; TransferForm: `DestinationIsShown`, `FailureMeansUnpaid` | 1 432 000 |
| `portal` | BrowserSession: `TokensOfUserShown`, `RefreshTokenSentOnce`, `QueueAwaitsRefresh`; KycReview: `ApprovedOnHeldEvidence`, `AccountFollowsReview`; AccountApprovals: `ApprovedIsCarriedOut`, `OneAccountPerRequestInTurn` | 1 151 000 |

Five runs end in a counterexample; each refutes a sentence of the repository and is
a finding:

| Run | Refuted | Why |
|---|---|---|
| `account_rows_debits` | 'rejects debits larger than the balance' | two debits of one balance are both accepted: the check is made on an entity, not on the row that is updated |
| `transfer_limit` | 'Daily transfer limit exceeded' | two transfers of one payer are checked before either counts |
| `transfer_reverse` | 'Only completed transactions can be reversed' | two administrators read COMPLETED; the money is moved back twice |
| `payment_refunds` | 'rejects a second refund while one is in progress' | two requests look before either inserts |
| `payment_events` | 'Permanent consumer errors are dead-lettered' | an event overtakes the answer that tells the order its transaction; it is dead-lettered though its order exists a moment later |

The passing properties say exactly how far the code can be trusted next to these:
books agree until a stale save, the limit holds unless handlers overlap, one refund
unless requests overlap or a refund is approved twice. The exceptions named in the other
properties are behaviours of the code as well, which TLC reports when the exception is
taken out:

- two refreshes with one token, or a refresh and a logout, leave more than one
  session, one per request; the Redis record then lists some of them only;
- with several sessions the record is renewed by a new token and goes on listing tokens that
  have expired; it never vanishes before a token that it lists and a refresh would accept;
- of two transactions of one account whose calls overlap one may be lost from its balance,
  though nothing failed and nothing was retried: `QuietBooksAgree` is about the others;
- a save of an entity loaded before takes a lock off, or brings an old password back;
- verifications that overlap accept one code twice;
- a sign-out overtaken by the answer of a refresh is undone, and a sign-in by an
  answer about the former user shows that user;
- two decisions on one account request open two accounts, or open one and reject it;
- a review's report that is lost or crosses another leaves the account behind, and a save
  by any handler of account-service that had loaded the account before undoes it; such a save
  also opens a closed account again;
- Confirm pressed twice while the profile is asked for makes two payments if the
  code is accepted twice, and the page may end with "failed"; and so it may after one payment,
  when payment-service answers an error after the transfer was made.

### Bounds

- `Account` has two rows, because no request touches more; three requests allow a
  stale reader, a writer and a third who depends on the result, and a cycle of two
  reversals with a bystander. Balances are 0 to 3 with `MaxBalance` 3: the amounts
  offered hit zero, the whole balance and overflow.
- `MaxAttempts` is 2 (the code's default is 4, one and three retries): the first retry
  already gives a repeated and a late request; later ones repeat them. The
  proofs hold for any number. `transfer_pair`, which asks about calls that went
  well, and the counterexamples have 1.
- Amounts in TransferSaga are real ones: 100.0000 with a fee of 0.1000, and a daily
  limit that one transfer meets and two exceed.
- One order suffices for PaymentOrders: no step of an order reads another's row,
  and refunds and events belong to one order. Two requests and two approvals give
  every overlap, including two approvals of one refund.

- `identity`: two requests, three tokens and two passwords (old and new); the lock
  after two failures instead of three and one period that passes: the counter's way
  from one failure to the last is all that the third adds. `TokenLife`
  is one such period for the code's 7 days, so that a token expires and a later one renews
  the record; the proofs hold for any life and any number of days. Two codes and two
  verifications: one code replaces another, one verification overtakes another. The
  guard's clock has two cache lives and the breaker's two openings, with calls of up to one
  tick; its threshold is 2 for 5. Two payees and two handlers for the transfer page; a
  separate exploration with three payees found nothing else.
- `portal`: two requests of the tab, two users, three pairs of tokens: one handed out at
  sign-in, one by its refresh, one more. Three documents with a history of two instead of
  six, so that compaction drops one; two reports. `MaxPair` bounds the rotations, which the code
  does not; the properties are safety properties and proved for any number of pairs. Two account requests, accounts and calls:
  two decisions on one request, or one on each.

`SYMMETRY` is used for requests, transactions, codes and payees, only in runs without
liveness. Deadlock is checked in every run; the last disjunct of each `Next` lets
a finished system stutter.

### Fairness

- Weak fairness of every handler's next step: the event loop runs what can run,
  PostgreSQL grants locks in turn and breaks deadlocks.
- Weak fairness of every call: it is served, answered or times out after 5 s, and
  its attempts are bounded.
- PaymentOrders: weak fairness of the consumer (the broker delivers a queued
  message), strong fairness of `EventPays`: a write that is tried again and again
  succeeds now and then. Without it a database that always fails requeues a message
  for ever, which the code does.
- None in BrowserSession, where the code gives none: nothing ends a refresh that is not
  answered, and nothing bounds how often a request is queued again.
- None of a crash, a failing write, a refund request, an approval or a reversal
  being asked for (a reversal under way is run on).

`RowsResolve` and `OrdersSettle` except a handler that crashed or could not write
FAILED: nothing in the code picks up such rows.

## 4. What is proved

With TLAPS, for every value of the constants, from the named assumptions on
them (amounts are natural numbers, the sets of handlers are disjoint, at least
one attempt; a day has finitely many transactions and reversals, and there are
finitely many codes). Every property of a run that is not a liveness property is proved, for
the component it is about; the compositions `MCIdentity` and `MCPortal` add that
each of their behaviours is one of every part.

Each module states an inductive invariant, proves one lemma per action or group of
actions that move the same state, and derives its theorems from it.

**AccountRowsProofs.** `IInv` is TypeOK, `EntitySound` (an entity in hand was
accepted: its balance is not negative), `FreshEntity` (a fresh entity differs from
the row only by its own change), `LegsHeld` (a reversal past a leg holds its lock,
and its draft is the row's balance plus the leg), and the two invariants.
A balance alone is not inductive: that a save keeps it in range needs the entity,
that a commit does needs the lock. Results: `TypeCorrect`, `BalancesStayInRange`,
`OnlyStaleSavesLoseMoney` (BooksAgreeWhileClean), and `FreshSaves`
(FreshSavesAreSurgical). `RowsAlive` (fresh entities and the rows a
reversal has locked are of rows that are not deleted) gives `DeletedRowsStand`
(DeletedRowsOnlyWrittenStale). `Refinement`: every step is a step of AccountBook or a
stutter; the step that counts is the commit of a reversal, whose draft is what
AccountBook would compute because of the locks.

**FiniteSums.** Sums as `MapThenSumSet` forms them: the recursive function that it
chooses exists, does not depend on the order of the elements, and adds up over
parts, changes and opposites. The library's theorem of induction over finite sets takes an
operator the provers cannot instantiate; these proofs look for a smallest
counterexample instead, which well-foundedness of the subset order (`WFMin`) gives.

**TransferSagaProofs.** Of LedgerFees: `FeeBounds`, `EntriesAreBalanced` (assertBalanced
never refuses what buildEntries builds), `LedgerAgreesWithLegs`, `ReversalUndoesTransaction`.
Of the saga, `IInv` adds `CallsSound` (served + late + under way is at most
attempts; an answered call was served), `NotStarted` (calls are idle before the
handler sends them), `RowAtStep` (a handler's step determines its row's status) and
`CallsFollowRows` (a call that is not idle belongs to a posted, or completed,
transaction). Results: `TypeCorrect`, `StatusNeverAhead`, `OnceWithoutRetry`, and
`Refinement`: every step is a step of TransactionLifecycle or a stutter.
Two more invariants go with it:

- `LimitInv`: unless handlers have overlapped, an account has at most one handler at
  work, and what it pays still fits the limit. The limit alone is not inductive,
  since Complete does not look at it. Result: `LimitInTurn` (DailyLimitKeptInTurn).
- `BooksInv`: as long as no two calls have crossed on an account and no call was sent twice,
  a balance is the opening balance plus what each call has moved, times how often it was
  served. `FoundInv` says why: what updateBalance may have found is the present balance then. On a quiet day each term is one
  transaction's entries or cancels one. Result: `QuietDay` (QuietBooksAgree).

**PaymentOrdersProofs.** `IInv` adds `CallsSound`, `OrderAtStep`, `NamesTransfer`
(an order names a transfer that was made, a paid one does), `EventOfOrder` (the
consumer holds only the event its order names) and `RefundsOfPaid` (refunds exist
only for paid orders, approvals only for refunds). Results: `TypeCorrect`,
`PaidOrdersWerePaid`, and for the action properties `OrdersMoveOn` and
`RefundedStays`, from one lemma that lists the steps that change a status.
`RefundInv` gives `OneRefund` (OneRefundInTurn): in turn, a refund that is about to be inserted,
pending or approved is the latest its order has asked for, which is the one findRefundByOrder
looks at; and an approval approves what is pending. Without the second part a repeated approval
would bring a completed refund back.

**AuthSessionsProofs.** `AuthInv` is the type invariant, `OneSessionPerRequestAtOnce` and
`RequestInv` for each request: a request past the check of a refresh has a token,
its step belongs to its job, an entity that is not stale differs from the row in the
columns its job changes only, and a request that has revoked all tokens and not yet
inserted its own has none live. Results: `AuthTypeCorrect`, `OneSessionEach`, and the action
properties `LockStands` and `PasswordStands`. `SessionInTurn` says how the session record
and the live tokens differ at each step of the one request at work, and `RecordOutlives`
that the record ends no earlier than any token it lists or is about to list: the days pass
at any of these steps. Result: `SessionAgrees`.

**IdentityProofs.**

- OneTimeCodes: `CodesInv` adds `RowsNumbered` (rows are numbered as inserted), `KeySound`
  (the key never holds a code that is over, since each code is written once, before the one
  that replaces it) and `VerifySound` (what a verification has read was not over when
  it began). Results: `CodesTypeCorrect`, `DeadCodes`. `TurnInv` adds, for requests in turn, that at
  most one code is live and the stores hold it. Result: `LatestCode`.
- GuardCache: `GuardInv` says that an entry holds what the user had at most one life and one
  call ago. Result: `RecentGuards`.
- CircuitBreaker: `BreakerInv` says that the calls under way were let through before the
  breaker opened, so that what they do to its clock ends with them. Result: `BoundedRefusals`.
- TransferForm: `DeskInv` says that the form shows its destination in every state between
  renders, and that one payment is on its way at a time. Results: `ShownDestination`, `FailedUnpaid`.
- `IdentityTypeCorrect`, by `PartSpecs`: a behaviour of the composition is one of every part.

**KycReviewProofs.** `KycInv` adds that documents are numbered as uploaded, that what is
stored is normalised and compacted (`WellKept`), that an old document is kept only as the
one of the address, and `AccountInStep`. The lemmas say what normalising and
compacting do to the overall status. Results: `KycTypeCorrect`, `ApprovedOnEvidence`, `AccountAgrees`.

**PortalProofs.**

- BrowserSession: `PageInv` adds `PairsHandedOut` (tokens in use are among those
  handed out), `OneRefresh` (at most one request refreshes, exactly while
  isRefreshing is set; others wait only then) and `OneUser`. Results: `PageTypeCorrect`,
  `TokensOfUser`, `TokensSentOnce`, `QueueAwaits`.
- AccountApprovals: `ApprovalInv` adds that a request to delete names an account, what
  `openedFor` says of every request, that a call agrees with its request (`CallAgrees`), and
  that a request in turn has at most one decision under way (`InTurn`). Results:
  `ApprovalTypeCorrect`, `ApprovedCarriedOut`, `OneAccountPerRequest`.
- `PortalTypeCorrect`, for the composition.

### Only model-checked

- Liveness (`RequestsFinish`, `RowsResolve`, `EventsSettle`, `OrdersSettle`): fairness and
  ENABLED are beyond the prover.
- The properties of the runs that expect a violation: each is false.

## 5. Assumptions and what is not modelled

- A database write that reports an error has written nothing. (A commit whose
  answer is lost is not modelled.)
- READ COMMITTED, PostgreSQL's default, and TypeORM's `save` as described above:
  code outside the repository, modelled from its use and marked external.
- Time is modelled only where something expires or a bound is claimed (AuthSessions,
  GuardCache, CircuitBreaker): elsewhere timeouts may fire at any moment of a wait, and
  transactions of one model belong to one day.
- PaymentOrders lets transaction-service carry a transfer out at once;
  TransferSaga has the steps in between. Composing the two would multiply their
  states and show no behaviour that a late or lost answer does not show already.
- Ownership, role, currency and KYC checks of validateAccount are one choice
  between passing and failing.
- A user's row is saved by TypeORM with its relations; the rows of roles are not modelled,
  nor is the record of an administrator's second factor, which expires by itself.
- Codes drawn by different requests are different; attempts are not counted by the code.
- localStorage holds what is written to it: that it may be full, and the sizes of images,
  are left out, as are the notifications of a review.

Not modelled:

- register, which reads and then inserts one user in a transaction: the unique columns of
  `users` decide; the form that checks names beforehand; the other sign-in
  wizards, which call the operations modelled here one at a time.
- deleteAllUsers, updateLimits, beneficiaries in account-service: no operation of a module
  reads what they write. The optimistic removal of a beneficiary in the page.
- `saveMaterializedApprovedAccount` and the Twilio branch of the transfer OTP, which nothing calls.
- Gateway webhooks, since no order can be found by one.
- notification-service formats and sends e-mail; the Vault bootstrap runs once before a
  service listens and ends it when it fails.
- Reports, dashboards, cards, profile and account pages: they compute and lay out what the
  back end answers. They, DTOs, configuration and migrations are most of the
  source by length, which is why the models stand for about an eighth of its
  lines although they have nearly all operations that change state.
- CI, GitOps, infrastructure, and the legacy service `B/src`.

## 6. Plan

Done, in this order: AccountRows with AccountBook; LedgerFees; RemoteCalls and
TransferSaga with TransactionLifecycle; PaymentOrders; AuthSessions, OneTimeCodes,
GuardCache and CircuitBreaker; BrowserSession, KycReview and AccountApprovals;
TransferForm; the proofs above, which cover every safety and action property of the runs.

Next, by weight:

1. Proofs: that BrowserSession's and AccountApprovals' properties hold of the composition by name;
   that in RemoteCalls a call under way is answered or timed out within its attempts, as
   an invariant, since liveness stays with TLC.
2. `balanceAfter` of ledger entries, which is computed from what validateAccount read.
3. Beneficiaries with their optimistic removal and limits.
4. Payment orders composed with reversals, once the code connects them.
