# AgncyPay backend: a TLA+ model, its checks and its proofs

This directory holds a formal model of the money-moving core of the AgncyPay
backend (NestJS, Prisma, PostgreSQL), of its registration and of its vendor
integrations, checked by TLC on small instances.  Every
safety property of the passing runs, and the refinement of the payout's abstract
specification, is also proved by TLAPS, for every instance that the named hypotheses
allow (section 4).  `PROJECT.json` lists the components, the runs, the theorems, the
hazards and, definition by definition, the source lines each one stands for.

## 1. The system

| Component | State | Operations | Talks to |
|---|---|---|---|
| Ledger (`modules/ledger`) | `ledger_transactions`, `ledger_entries`, `accounts`; append-only | `postTransaction`, `reverseTransaction`, `computeBalanceFromLedger`, `lockAccountForUpdate`, `createAccountsForWallet` | called by every other service, inside their database transaction or in one of its own |
| Payouts (`modules/payouts`) | `payouts.status` | `initiatePayout`, `_handleBankRejection`, `handleBankWebhook` | Idempotency, Ledger, the bank adapter |
| Idempotency (`common/utils`) | `idempotency_keys` | `check`, `complete`, `remove` | called first and last by payments and payouts |
| Payments (`modules/payments`) | `payments`, `payment_splits` | `ingestPayment`, `refundPayment`, `handleChargeback` | Idempotency, split engine, Ledger |
| Split engine, `Money` | none | split computation and its ledger entries, exact and rounded decimals | called by payments |
| Credit engine and risk | `credit_lines`, `credit_usages` | `requestCreditAdvance`, `reconcileCredit`, `freezeCreditLine`, risk score | Ledger, payments (history) |
| Wallets and registration | `wallets`, `wallet_external_accounts`, `users` | `createWallet`, `mapExternalAccount`, `suspendWallet`, `register` | Ledger (accounts of a wallet) |
| Reconciliation | `reconciliations` (reports that no code reads back) | `reconcilePayment`, `reconcilePayout`, `auditGlobalLedgerBalance` | reads Ledger, payments, payouts |
| QuickBooks, Plaid, token storage | one token file, `data/integrations.json`; the set of processed webhooks, in memory | OAuth and public-token exchange, token refresh before a query, `disconnect`, `handleWebhook` | vendor APIs |
| Bank adapter (Column) | none (a mock) | `initiateACHTransfer` | called by payouts; the bank calls back by webhook |
| Events, guards, filters, health | none | logging, authentication, error formatting | subscribers only log |

Components interact by method calls inside one Node process, and across requests
only through PostgreSQL.  Node runs one callback at a time, so every `await` is a
place where another handler may run; PostgreSQL runs the interactive transactions
at READ COMMITTED, and the one explicit lock is `SELECT ... FOR UPDATE` on the
PAYABLE account row.  A foreign key from `ledger_entries` to `accounts` makes every
insert of an entry take `FOR KEY SHARE` on the account, which waits for that lock.

What is hard here, and what must hold:

* **Ledger.**  A reversal reads its original and posts later: two may overlap.  The
  zero-sum check is on the amounts sent, the rows hold them rounded.  *Every row
  balances; rows never change; a reversal mirrors its original; the second reversal
  of a row is refused.*
* **Payouts.**  A balance read and a hold must not be separated by another hold; the
  bank call is outside the transaction; the catch block may repeat what the try block
  did; the bank's webhook writes the ledger and the status separately, may come again
  or early; the process may die anywhere.  *No hold without funds; a hold with every payout; a
  hold released once, and in the direction the bank decided.*
* **Idempotency.**  A read followed by an insert; expired keys; keys left by a crash.
  *One order is sent once; a client is not locked out for ever.*
* **Payments.**  Deduplication and wallet status are read before the transaction;
  refund and chargeback are three statements.  *A payment reaches the ledger once and
  is reversed at most once.*
* **Credit.**  Advances and repayments read the used amount without a lock; usage is
  written after the ledger; a line is sized once.  *Only overlapping calls overdraw or
  overpay a line; the ledger and the usages agree.*
* **Wallets and registration.**  The wallet is created outside the registration's
  transaction, statement by statement, on other connections of the same pool while the
  transaction keeps one.  *Whoever can use a wallet finds all its accounts; a wallet
  without an owner has a cause; a full pool is not waited for without end.*
* **QuickBooks and Plaid.**  A handler reads the token, awaits the vendor and writes the
  file, while another connects or disconnects; both integrations rewrite the whole file;
  the processed set forgets.  *The file names the last connection; a token is used with
  its own company; neither integration loses the other's token; an event is announced
  again only much later.*
* **Split engine.**  *Shares add up to the amount to the last 1/10000.*

## 2. The modules

### LedgerOps
The ledger as data, with no variables.  A ledger is the sequence of committed rows of
`ledger_transactions` with their entries; a row's place is its id.  `Balanced` is
`validateDoubleEntryInvariant`, `ReversalOf` and `Reversible` are the two halves of
`reverseTransaction`, `Balance` is `computeBalanceFromLedger`.  Amounts are integers
in the unit of the column `Decimal(19, 4)`; debit is positive.

### Ledger
`LedgerService` behind its controller, with any number of concurrent `Callers`.
`PostTransaction` is one step because it is one database transaction;
`ReadOriginal` and `PostReversal` are two because nothing joins them.  Every way a
call can fail ends in `RefuseTransaction`, `RefuseReversal` or `ReversalFails`; the
last also stands for a process that dies between the two steps.  A
draft's amounts are finer than the column by the factor `Scale`, and `Stored` rounds
them (half away from zero, as `numeric` does).  `seen` and `readAt` are history: how
long the ledger was when a caller read its original.

### LedgerOpsProofs and the proofs of each component
`LedgerOpsProofs` holds the lemmas about the operators of LedgerOps, and about the sums
they take.  `LedgerProofs`, `PayoutsProofs`, `PaymentsProofs`, `SplitsProofs`,
`CreditProofs`, `ProvisioningProofs` and `IntegrationsProofs` hold the theorems about the
module they are named after (section 4).

### Idempotency
The table of keys, one operator per statement of `check`, `complete` and `remove`, and
`Expire`.  It has no `Next`: `Payouts` and `Payments` conjoin its statements with theirs.  The
expired branch is kept as in the code: the row is deleted and *not* created anew.

### PayoutPromise
The abstract specification of a payout: its money is taken once, when there is enough
available, and then is paid or comes back, once.

### Payouts
`initiatePayout`, `_handleBankRejection` and `handleBankWebhook`, one action per
statement that touches shared state:

| Label of a request | Action | Code |
|---|---|---|
| `idle`, `reserve`, `drop` | `FindKey`, `ReserveKey`, `DropKey` | `IdempotencyService.check` |
| `begin`, `locked`, `hold` | `LockPayable`, `ReadBalance`, `CommitHold` | the interactive transaction |
| `bank`, `markSubmitted`, `complete` | `SubmitToBank`, `MarkSubmitted`, `CompleteKey` | the try block |
| `readHold`, `reverse`, `markFailed`, `failAgain`, `removeKey` | `ReadHold`, `ReverseHold`, `MarkFailed`, `RemoveKey` | `_handleBankRejection`, called from the try block (`path` is `rejected`) or the catch block (`error`), and the rethrow |
| any | `TransactionFails`, `CaughtFailure`, `UncaughtFailure` | a database error in the transaction, in the try block, or where nothing catches it |

A delivery of the webhook is `Deliver` (read, status check), `PostRelease`,
`MarkOutcome`.  `Callers` are the other calls that post to the same accounts, none of which
looks at a balance:

| Place of a call | Action | Code |
|---|---|---|
| `idle` | `PostDraft` | `postTransaction` of one of the `Drafts`, from `ingestPayment`, the credit engine or `POST /ledger/transactions` |
| `idle`, `post` | `ReadRow`, `PostReversal` | `reverseTransaction`: the read of the row and its reversals, and the post after it |
| `post` | `ReversalFails` | a database error between them |

`MayReverse` says who may reverse what: `refundPayment` and `handleChargeback` the row that
booked a payment, with their types; a call of `Manual`, which is one of `POST /ledger`, any
row, also a payout's, with any of the three types.  `Opening` holds the rows there are at
first.

`BankDecides`, `KeyExpires` and `Crash` are the environment.  The writes of a transaction
appear at its commit, the last step of `CommitHold`; until then only its lock is visible, as
under READ COMMITTED.  A request's name is the id of the payout
it may create.  `SELECT ... FOR UPDATE` is a guard on `lock`, and so is every insert on
PAYABLE.

### SplitOps, Splits
`SplitOps` is the arithmetic that turns an order into ledger entries:
`Money.distribute` (every share cut down to a unit, the remainder to the first largest
ratio), the fee, `computeSplitEntries`, `_ingestSimple`, and the `payment_splits` rows.
`Splits` is one call of the engine, whole or partial (`computePartialSplitEntries`): it
answers entries or refuses.  Its properties compare `Distribute` with its definition by
exact fractions.

### Payments
`ingestPayment`, `refundPayment` and `handleChargeback` over SplitOps and Idempotency:

| Label | Action | Code |
|---|---|---|
| `idle`, `reserve`, `drop` | `FindKey`, `ReserveKey`, `DropKey` | `IdempotencyService.check`, when a key is sent |
| `dedupe`, `wallet` | `FindDuplicate`, `ReadWallet` | the reads before the transaction |
| `giveUp` | `GiveUp` | the key removed, the wallet refused |
| `book` | `BookPayment`, `RefusePayment` | the interactive transaction, which takes no explicit lock |
| `complete`, `removeKey` | `CompleteKey`, `RemoveKey` | the answer recorded; the catch block |
| any | `CaughtFailure`, `UncaughtFailure` | a database error inside and outside the try block |
| `read`, `post`, `mark` of an `undo` | `ReadPayment`, `RefuseUndo`, `ReadRow`, `PostUndo`, `MarkUndone`, `UndoFails` | refund and chargeback, three statements each |

`SuspendWallet` is `suspendWallet`, by another request.  `Matched` is the verdict of
`reconcilePayment`.  A call's name is the id of the payment it may create.

### Credit
`requestCreditAdvance`, `reconcileCredit` and `freezeCreditLine`, one action per
statement, with the risk score computed as `RiskAssessmentService` does from the
wallet's age, its payments and its line.  Payments settle and are charged back beside
them.  `readAt` is history: how many usages a call had read.

### Provisioning
`register`, `createWallet` with `createAccountsForWallet`, and `mapExternalAccount`:

| Label | Action | Code |
|---|---|---|
| `idle`, `begin` of a registration | `FindUser`, `BeginTransaction` | the look for the email; `$transaction` takes a connection |
| `wallet` of a registration, `idle` of `POST /wallets` | `CreateWallet` | `wallet.create`, committed by itself |
| `accounts` | `CreateAccount` | one turn of the loop of `createAccountsForWallet` |
| `user` | `CreateUser` | `user.create` and the commit, or the unique index, or a transaction that is gone |
| `idle`, `existing`, `map` of a mapping | `FindWallet`, `FindMapping`, `CreateMapping` | the two reads and the insert |
| any | `ConnectionTimesOut`, `StatementFails`, `TransactionTimesOut`, `Crash` | `connectionTimeoutMillis`, a database error, the transaction's own time limit, a dying process |

`open` is the set of registrations whose transaction keeps a connection; every other
statement needs one that is free at that moment (`ConnectionFree`).  `late` is history:
the registrations that found their email taken.

### TokenStore, Integrations
`TokenStore` is `TokenStorageService`: the file as its readers see it, one operator per
method; a method runs without an await, so it is one step.  `Integrations` puts the
handlers of `QuickBooksService` and `PlaidService` on it.  A job says where a call is and
what it has read:

| Place | Action | Code |
|---|---|---|
| `exchange` | `StartExchange`, `FinishExchange` | `exchangeOAuthCode` around the vendor's answer |
| `refresh`, `refreshed`, `query` | `AskCompany`, `Refresh`, `SaveRefreshed`, `Query` | `getAuthenticatedClient` and the request of `getInvoices`, `getPayouts`, `getVendors`, `getCompanyInfo` |
| `revoke`, `clear` | `StartDisconnect`, `Revoke`, `FinishDisconnect` | `disconnect` of QuickBooks |
| `plaidExchange`, `remove` | `StartPlaidExchange`, `FinishPlaidExchange`, `StartPlaidDisconnect`, `FinishPlaidDisconnect` | `exchangeToken` and `disconnect` of Plaid |
| none | `ReceiveEvent` | one entity of a notification: no await |

A token is the grant it came from, the company it is stored with, and whether it is still
valid; `TokenExpires` and `Restart` are the environment.  A restart forgets the processed
events, ends every call, and may find the file torn: `writeFileSync` truncates before it
writes, and a file that cannot be parsed reads as empty.  `latest`, `before`, `outlived`,
`realmOf` and `heard` are history.

Read-only endpoints (`getPayout`, lists, balances) change nothing and are left out.
Domain events are emitted in the code at the end of each operation and subscribers only
log them: they are left out too.

## 3. The runs

| Run | Instance | Shows |
|---|---|---|
| `ledger` | 2 callers, 4 rows, valid drafts and drafts that do not balance, name a missing account or another currency | type invariant, every row balances, reversals mirror, double reversals only by overlap, append-only |
| `ledger_double_reversal` | same | **violated**: two overlapping reversals both post |
| `ledger_rounding` | 1 caller, amounts at half a unit | **violated**: an accepted transaction does not balance as stored |
| `payouts` | 3 requests, 2 of one key, 2 payments, 1 delivery, 1 other call that books a payment, repays a credit or reverses any row with any type, 1 database error or crash, expired keys; at most 3 requests, deliveries and calls begun | no hold without funds but for a wallet that a row which looks at no balance put in debit, the balance read stays current, no hold reversed twice but by hand, payout and hold commit together, finished payouts are released |
| `payouts_served` | 3 requests, 2 deliveries one after the other, no faults, weak fairness | implements `PayoutPromise`, accepted transfers stay held, one order sent once, keys given back, every request ends |
| `payouts_redelivered` | 1 request, 2 deliveries, 1 crash | **violated**: a hold released twice |
| `payouts_expired_key` | 2 requests of one key that expires | **violated**: an accepted transfer's hold is returned |
| `splits` | every amount to 12 units in halves of a unit, 13 lists of ratios in tenths for 1 to 3 participants, fees, wallets that are missing or take part twice, parts of an order | shares and fee add up and are fair, the last validation never refuses, split records agree with the entries |
| `payments` | 5 calls: 2 retries of one key without external id, 3 for one external id of which 2 share a key that may expire; a suspension; 2 refunds or chargebacks of the split payment of the fifth; 1 failure | one payment per external id, one booking per key, announcements are true, lock-outs have a cause, a status names its reversal, the report matches exactly while nothing is reversed |
| `credit` | 1 wallet, 3 advances or repayments, 2 payments that settle and are charged back, 1 failure | a line is overdrawn or overpaid only by overlap, the ledger agrees with the usages |
| `provisioning` | 2 registrations of one email, 1 `POST /wallets`, 2 mappings of one external account, a pool of 2, 1 failure, weak fairness | a usable wallet has its accounts, a wallet without an owner has a cause, answered mappings stay, every call ends |
| `integrations` | 5 calls of any kind, 2 companies, 3 events of which 2 are remembered, 1 restart | the file holds the last connection unless a refresh outlived it, tokens keep their company, repeats are far apart, each integration's calls leave the other's section alone |

**Bounds.**  Two callers are enough for a read to go stale between another's read and
write; four rows allow an original, its two reversals and a reversal of a reversal.
The wallet of the payout runs has two payments of 1; one order asks for 2 and the other
for 1: both do not fit, so any interleaving that loses the lock overdraws, and a returned
hold makes room for the other order.  A reversal of one payment, or a repayment of credit, after the
order of 2 leaves a debt of exactly the other order: the case in which `abs()` takes a debt
for funds.  Of the requests, deliveries and other calls of `payouts` at most `MaxActive` = 3
begin, any three of them (a state constraint, in a run that checks invariants only): two
payouts and a caller between them, a payout, its delivery and a caller, or three requests.
No exception that the properties name needs a fourth, and the proofs have no such bound.
Two requests share a key (a retry) and a third does not (a competitor).  One database error
or crash can strike at every statement; properties that need more would show up as an
interleaving of two requests of which one is hit.  The rows of a ledger are not bounded in
`Payouts`: each request holds and reverses at most once, each delivery posts at most once,
and each other call posts at most once.
`MaxFailures`, `MaxActive`, `MaxTransactions`, `MaxPayments`, `MaxProcessed` (10000 in the code) and
`MaxRestarts` are the only counters.

In `payments`, two retries are what the key must keep apart, and a third call with the
external id of two others reaches the unique index while one of them holds an expired
key.  Two undo calls are what can overlap on one payment.  In `splits` a
half unit is the only fraction that rounding treats specially, three participants leave
remainders of up to two units, and amounts are small enough for shares of nothing.  In
`credit` two overlapping calls overdraw and a third finds the line overdrawn; a wallet
with no payment, one settled or one charged back is scored partial, approved and
rejected.

In `provisioning` two registrations fill the pool of two, so that both can wait inside
their transactions for a connection; two accounts stand for the six, since a wallet can
then have none, some or all of them.  In `integrations` two calls connect, one refreshes
across both and one disconnects, and a fifth is Plaid's; a set that remembers two of three
events forgets one.

**Deadlock** is checked in the runs of the ledger.  In the others calls end and deliveries
are finite, so the system does stop; that a call does not wait for ever is
`EveryRequestEnds` for the row lock and `EveryCallEnds` for the pool of connections.

**Fairness.**  `FairSpec` assumes that a handler whose next statement can run does run
it: Node's event loop runs every ready callback, and PostgreSQL grants a lock that stays
free to its waiters.  Nothing is assumed of clients, of the bank, or of failures.
Weak fairness of a request is enough because a lock is released by its holder alone and
each holder asks for it once.
`Provisioning` assumes in its `FairSpec` that a call that was sent either gets the
connection it waits for or has its time run out: the pool serves its queue, and
`connectionTimeoutMillis` is set in `PrismaService`.  The assumption is on the two
together (`Proceed`), never on the success of a statement; `EveryCallEnds` fails when the
time-out covers the beginning of a transaction only, because registrations that hold every
connection then wait for each other.

**`SerialDelivery`** says the bank sends a webhook again only after the earlier one was
answered or lost.  `payouts_served` and the violations assume it, so that the
violations do not rest on two deliveries at once; `payouts` does not.

## 4. The proofs

**Sums.**  A balance is a sum over the ledger, a share one of several that must add up to
an amount, and the library defines a sum by recursion on the set it is taken over.  Its
induction theorems take an operator, which the provers cannot instantiate, so
`LedgerOpsProofs` does the induction on data instead: `SubsetInduction` says that a set of
good subsets holds all of them when a set is good whenever its smaller subsets are, because
the exceptions would have a minimal element.  `SumUnfolds` gives the recursion of the
library's sum by it, and from there come the lemmas that the components cite: `SumRemove`
(any element may be taken out, not only the library's choice), `SumPlus`, `SumTimes`,
`SumUnion`, `SumOfConcat`, `SumChange`, `SumOfFirst`.  `BalanceOfAppend` is the one that
matters most: the balance after one more row is the balance before and what the row adds.
`CutsFit`, `RoundWhole` and `FairShares` do the same for the rounding of shares.


`LedgerProofs` proves about `Ledger`, for any callers, accounts, references, currencies,
drafts, `Scale` and `MaxTransactions`:

* `TypeCorrect`: `Spec => []TypeOK`;
* `Immutable`: a committed row is never changed or removed;
* `ReversalsMirror`: a reversal is the earlier row it names with its amounts negated;
* `OnlyOverlapsReverseTwice`: if a row has two reversals, the later one's caller had
  read before the earlier one was posted;
* `DoubleEntry`: every row satisfies the double-entry check *as stored*, assuming that
  rounding keeps the balance of each draft (`ColumnKeepsBalance`); the run
  `ledger_rounding` shows that the assumption is needed.

The argument is one inductive invariant, `IInv`.  What the properties say of committed
rows is not inductive by itself, since a caller between its read and its post holds a
row computed from an older ledger.  `PendingStillMirrors` says that this row is still
the reversal of its original (rows never change) and that any reversal of the same
original found in the ledger was posted after the caller's read (there was none at the
read); `RowsMirror` is the mirror property in the form the operators give it.  Whether
a row balances is carried from the draft to its reversals as one predicate.

`PayoutsProofs` proves about `Payouts`, for any requests, wallets, keys, orders, number of
deliveries and other calls, faults, crashes, expired keys and overlapping deliveries:

* `TypeCorrect`: `Spec => []TypeOK`, where `TypeOK` includes that every row lock is
  held by the request that is inside its transaction on that wallet, and by no other;
* `BalanceIsCurrent`: from the balance read to the commit nothing is posted on the
  PAYABLE account, so the check that was made still holds when the hold is written;
* `HoldIffPayout`: a payout record and its one hold exist together;
* `NoHoldReversedTwice`: no hold is reversed twice, though the catch block may repeat
  what the try block did, unless one of the two reversals was asked for by hand
  (`POST /ledger/reverse`, whose check two overlapping calls pass: `ledger_double_reversal`);
* `FinalIsReleased`: a payout in a final status has had its hold released.

The inductive invariant `IInv` adds to these what a request carries between two
statements: `PayoutExists` (a request past its commit has a record), `LedgerShape` (which
rows can be there for a payout, and what a reversal reverses), `StillReversible` (a hold
read as unreversed is still unreversed when its request reverses it, because a request
reverses no hold but its own) and `ReleasedFirst` (whoever is about to write a final
status has posted the release).  `CallsInOrder` says that a call about to reverse has found
its row and may.

Most steps post nothing and are dealt with together (`QuietMove`); the ones that post, `CommitHold`, `ReverseHold`,
`PostRelease`, and `PostDraft` and `PostReversal` of another call, have a lemma each
(`CommitKeeps`, `ReverseKeeps`, `PostReleaseKeeps`, `CallerKeeps`).  Another call waits for
the same row lock, and its row is no hold; it disturbs what a request knows of its own hold
only when it reverses that hold, which only `POST /ledger/reverse` can, and which
`NoHoldReversedTwice` and `StillReversible` except by name (`ReversedByHand`).

The funds of a wallet, with the same generality, but for one hypothesis on the rows there
are at first (a row that looks at no balance took from each wallet in debit, which holds of
every wallet that starts without debt):

* `HoldsCovered`: the rows posted before a hold covered it, or the debt of its wallet did, and
  then a row that is no hold had taken from the wallet before (`TakesUnchecked`).

Here `FundsInv` adds to the property that a request that has checked the balance and not
committed is still covered (`StillCovered`, because of `BalanceStaysCurrent` and the row
lock) and that a debit has such a row before it (`DebitHasACause`, because every other row
that lowers what is available is the hold of a request that was covered).

What clients are promised while nothing fails.  A database error after the bank's answer
sends an accepted transfer through the catch block, which returns its hold and frees its
key, and a crash leaves a key in progress; so the theorems say that each holds for as long
as neither has happened (`Undisturbed`), assuming that keys do not expire.  The bound on
failures is free, deliveries may overlap, and payments be booked, refunded and charged back;
but nobody posts through `POST /ledger` (`Manual = {}`), which returns the hold of any payout
it is told to, accepted or not:

* `AcceptedIsHeld`: nobody returns the hold of a transfer that the bank accepted or paid;
* `OneTransferPerOrder`: the bank accepts one transfer for all the retries of an order;
* `NoKeyIsLost`: a key is in progress only while a request that uses it is.

`ServedInv` is behind all three: a key in progress has one owner (`KeysHaveOwners`), the
place of a request agrees with the bank's answer (`FollowsTheBank`), a release comes after
the bank's answer and from nobody else while its request is about to undo the hold
(`NotYetReleased`), and a delivery carries what the bank decided for good
(`CarriesOutcome`).

The refinement, in the situation of the run `payouts_served` (no failure, expired key,
overlapping delivery or other call, no wallet in debt at first), for any requests, wallets,
keys and amounts:

* `PromiseIsKept`: every step of `Payouts` is a step of `PayoutPromise` or changes nothing
  it speaks of.

Each hypothesis excludes something that a run shows to break the promise or that the promise
does not speak of: a second delivery before the first is answered, or a crash between its
statements, releases a hold twice (`payouts_redelivered`), an expired key returns the hold
of an accepted transfer (`payouts_expired_key`), another call posts or takes funds that the
promise has no step for, and a wallet in debt finds its debt taken for funds (section 5).

`PromiseInv` adds to `IInv` and `FundsInv` that a payout has one delivery underway at most (`OneDelivery`), that it is held until that delivery posts its
release (`ReleasedByOne`), and that no wallet is in debt (`NoDebt`).  The step is `Hold` at
`CommitHold`, `Pay` or `Return` at `PostRelease`, `Return` at `ReverseHold`, and a
stutter everywhere else.

`PaymentsProofs` proves about `Payments`, for any calls, orders, keys, external ids,
suspensions, undo calls and number of failures:

* `TypeCorrect`: the rows are on accounts that exist, and every call is at one of its
  statements;
* `BooksOncePerExternalId`: no two payments of one source share an external id;
* `BooksOncePerKey`: without database errors, a key that does not expire books one payment;
* `AnnouncedAsDone`: without database errors, a call with such a key announces
  PAYMENT_FAILED only for what was not booked;
* `LockedOutBy`: a key stays in progress without a call only by a failure, a crash, or a
  duplicate by external id;
* `StatusIsReversed`: a payment marked refunded or charged back has a reversal of that kind;
* `MatchesUntilReversed`: a payment's report matches exactly while nothing of it is
  reversed, assuming that no amount rounds to zero in the column.  The code needs that
  assumption too: its DTO only asks for a string, and a payment of less than half a unit is
  booked as zero, so that its reversal adds nothing to the sum the report compares.

Its `IInv` says that each row of the ledger books its payment or reverses the row that did
(`LedgerOfBookings`), that an undo call marks after it has reversed (`UndosInOrder`), that a
call before its transaction has booked nothing (`NothingBookedBefore`), that a key that does
not expire has one holder, and after a booking the call that booked (`KeysAreHeld`), and who
answers for a key in progress (`KeysInProgress`).

`SplitsProofs` proves about `Splits`, for orders of any amount, ratios, fee, participants and
places below the column's:

* `EachGetsItsFraction`: shares and fee add up to what is paid, and each share is its exact
  fraction cut down to a unit, but for the largest, which takes less than one unit per
  participant more;
* `NeverRefusedAfterwards`: the entries of an order that passes the first checks balance
  after rounding, so the last validation of the engine never refuses;
* `RecordedAsPosted`: the `payment_splits` row of a participant is its ledger entry when no
  wallet takes part twice.

They assume amounts and ratios of zero or more (`WellFormed`), which the callers mean and
the DTO does not enforce.

`CreditProofs` proves about `Credit`, for any finite set of calls, ages, thresholds, amounts
and numbers of payments and failures:

* `TypeCorrect`: usages are of wallets that have a line, for amounts above zero, and every
  risk score is on its scale of 0 to 100;
* `OverdrawsByOverlap`, `OverpaysByOverlap`: a line is exceeded, or its used amount below
  zero, only when a call read the used amount before another's usage was there;
* `LedgerAgrees`: while nothing has failed, the balance of CREDIT is the sum of the usages and of
  what calls have posted and not recorded yet.

`WithinWhatWasRead` makes the overlap properties inductive: a call carries how many usages it had read,
and its amount is within the line less the sum of those.

`ProvisioningProofs` proves about `Provisioning`, for any registrations, creations,
mappings, emails, accounts, pool and number of failures:

* `TypeCorrect`, where `TypeOK` includes that only a registration inside its transaction
  keeps a connection;
* `UsableIsProvisioned`: a wallet that a user has, or that `POST /wallets` answered, has
  all its accounts;
* `LeftoversExplained`: a wallet left without its user had a failure, or another
  registration of its email that it could not see;
* `AnswersAreStable`: an external account resolves to the wallet a mapping was answered
  for.

The invariant relates the place of a call to the tables: `ProvisionedFirst` (past
`accounts` a wallet has them all), `UsersAreRegistered` (a user's wallet is that of a
registration of the email that is done), `LateLeavesNothing` (a registration that found its
email taken never made a wallet) and `MappedWalletsExist`.

`IntegrationsProofs` proves about `Integrations`, for any calls, companies, events, size of
the set of processed events and number of restarts:

* `TypeCorrect`, where `TypeOK` includes that the set never exceeds its bound;
* `ConnectionLatest`: the file names the last connection made or undone, unless a refresh
  that had begun before has written its own back;
* `CompanyOfToken`: a token is used with, and stored beside, its own company;
* `RepeatsApart`: an event is announced again only after as many others as the set holds;
* `SectionsApart`: a step that changes Plaid's token is one of Plaid's calls, and a step that
  changes that of QuickBooks one of QuickBooks' (or the token growing old), but for a write
  that the process does not survive, which may take both (`Torn`).

For the connection the invariant adds that a grant is unknown to the file and to other
calls until its connect ends (`GrantsAreFresh`), that a call connects in its own name
(`ExchangesOwnGrant`), and that a refresh of another grant than the latest is one of those
that were under way when the latest ended (`RefreshesAreKnown`).  Steps that do not write
the QuickBooks token are dealt with together (`QuietKeeps`), and the two kinds that do have
a lemma each (`SettleKeeps`, `RefreshKeeps`).  For the events, the set is the end of what
was heard, and all of it while it is not full (`RemembersTheLast`).

## 5. Checked but not proved

* `EveryRequestEnds` and `EveryCallEnds` are liveness under fairness, which needs ENABLED:
  out of the prover's reach.
* The violations are counterexamples found by TLC.
* The theorems named above with a hypothesis say nothing without it; the runs `payouts` and
  `payments` check what remains (failures, expired keys, overlaps) on their instances.

`HoldsAreCovered` states the balance check of `initiatePayout` with the one exception the
code has: `balance.abs()` (`payouts.service.ts:98`) takes the debt of a wallet for funds, so a
payout up to the debt is accepted.  A payout itself never leaves such a debt; any row that
looks at no balance may.  A refund or a charge-back of a payment that is paid out already,
the reversal of a payout's return through `POST /ledger/reverse`, a repayment of credit
(`reconcileCredit`) and a transaction sent to `POST /ledger/transactions` all do, and none of
them leaves a mark that the balance check sees.  TLC reaches such states in `payouts`.  Every
other hold was covered by the rows that preceded it.

## 6. Assumptions and what is left out

* Amounts are positive, as all callers of the repository mean them; the DTOs do not
  enforce it.
* A commit either happens or is reported as failed; a commit whose answer is lost is a
  crash here.
* Outside `Provisioning`, accounts exist once their wallet does, including the SUSPENSE
  account that `initiatePayout` creates on demand in its transaction.
* A registration fills the pool by its transaction only; connections that other requests
  hold for the length of one statement come free by themselves and are left out.
* The key that encrypts the token file is the same in every life of the process.  It falls
  back to `PLAID_SECRET` when `ENCRYPTION_KEY` is not set: another value makes every stored
  token read as none.
* One entity of a QuickBooks notification is one call: the loop over them has no await.
* The vendor answers a connect or a refresh with an access token; an answer without one
  would be stored as not connected.
* The bank's adapter is a mock that answers `submitted` or `failed` and does not throw;
  its answer is a free choice.
* `externalId` and `Idempotency-Key` may be missing: the controllers import their DTOs as
  types, so nothing validates them, and the code tests for both.
* Every draft of `POST /ledger/transactions` leaves payouts alone: one that names a payout as
  its reference, which the endpoint would accept, is left out of `Payouts`
  (`CallerAssumption`).
* `POST /ledger/reverse` gives a reversal one of the three types its body declares, which
  nothing validates at run time.
* `Payouts` lets a refund and a charge-back reverse any row of a payment that has no reversal;
  the status check of `refundPayment` is in `Payments`.
* A partial refund is the code's: the amount is compared with the payment's, and the
  whole row is reversed.
* Decimals are exact in the split arithmetic: their 20 digits hold every amount of the
  column.
* The several reads of one risk assessment are one step.
* Events, guards, filters, configuration and health: the consumers only log, the webhooks
  controller only acknowledges, and none keeps state.
* Reports of reconciliation, stored risk assessments, link tokens, Plaid accounts and its
  webhook's sync: written or read for people, and read back by no handler.
* Components listed in `PROJECT.json` as `not_modelled` or `partly`.

Read while modelling and in the model, but not stated by a run of its own: two overlapping
advances exceed a credit line (`OverdrawnOnlyByOverlap` says that nothing else does), a
frozen line is still used, and a wallet that asks for credit before its first payment
settles keeps a line of zero; a webhook that comes before the `SUBMITTED` update is
acknowledged and dropped; a status update that fails after `_handleBankRejection` leaves
the payout `PROCESSING` with its key in progress; a duplicate by external id leaves its
key in progress; a call whose key had expired commits its payment, cannot record the answer
and announces PAYMENT_FAILED (`AnnouncesTruly` leaves such keys out); a registration that
fails leaves a wallet without a user, and the comment "in a transaction" of
`auth.service.ts:57` does not hold for the wallet; a failed Plaid exchange saves the mock
token over a real one.  `reconcileCredit` is called by no code (the model calls it).

## 7. Plan

Done: `Ledger`, `Idempotency`, `Payouts` with `PayoutPromise` and the other calls on its accounts, `Splits`,
`Payments`, `Credit`, `Provisioning`, `TokenStore` and `Integrations`, each with the proofs of
its safety properties.  Next, in this order:

1. A webhook of the bank that comes before the `SUBMITTED` update: a property that says the
   outcome is applied in the end, for the deliveries the bank repeats.
2. What a single database error may break of the promise: `PayoutPromise` with a step for a
   lost answer, so that `MaxFailures = 0` can be dropped from `PromiseIsKept`.
3. `PayoutsProofs` split in two, once there is room for another module: what holds whatever
   fails, and what is promised while nothing does.
