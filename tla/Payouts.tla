------------------------------- MODULE Payouts -------------------------------
(***************************************************************************)
(* PayoutsService: POST /payouts (initiatePayout) and POST                 *)
(* /payouts/webhook/bank (handleBankWebhook) on one database, with the     *)
(* idempotency keys, the ledger, the row lock on a PAYABLE account and the *)
(* bank.  One action per statement that reads or writes something shared,  *)
(* so that every await is a place where another handler may run.           *)
(*                                                                         *)
(* A request creates at most one payout: the request's name is the         *)
(* payout's id.  Requests with one key are a client's retries: one order.  *)
(***************************************************************************)
EXTENDS LedgerOps, Idempotency

CONSTANTS
    Requests,          \* calls of POST /payouts
    Webhooks,          \* deliveries of the bank's webhook
    Wallets,
    KeyOf, WalletOf, AmountOf,    \* what each request asks for
    Opening,           \* the ledger before the first payout
    Callers,           \* other calls that post to the same accounts
    Manual,            \* those of them that come through POST /ledger
    Drafts,            \* the rows they may post
    ReversalTypes,     \* the types a reversal is given
    Nobody,            \* no request: the value of a free lock
    SerialDelivery,    \* the bank waits for one delivery to end before the next
    KeysExpire,        \* idempotency keys may outlive their time to live
    MaxFailures        \* bound on database errors and crashes of the process

Account(w, type) == <<w, type>>
Payable(w) == Account(w, "PAYABLE")
Suspense(w) == Account(w, "SUSPENSE")
Cash(w) == Account(w, "CASH")
Accounts == Wallets \X {"PAYABLE", "SUSPENSE", "CASH", "FEE", "CREDIT"}

Row ==
    [referenceId : Requests \cup {Nobody},
     type : {"PAYMENT_RECEIVED", "PAYMENT_SPLIT", "PAYOUT_INITIATED", "PAYOUT_SETTLED",
             "CREDIT_ADVANCE", "CREDIT_REPAYMENT", "REFUND", "CHARGEBACK", "ADJUSTMENT"},
     status : {"POSTED"}, original : Nat,
     entries : Seq([account : Accounts, amount : Int])]

NotOfPayouts(row) == row.referenceId = Nobody /\ row.original = NoOriginal

\* Retries repeat the order they retry, and what others post is no payout's.
ASSUME OrderAssumption ==
    /\ KeyOf \in [Requests -> Keys]
    /\ WalletOf \in [Requests -> Wallets]
    /\ AmountOf \in [Requests -> Nat \ {0}]
    /\ \A q, r \in Requests : KeyOf[q] = KeyOf[r] =>
          WalletOf[q] = WalletOf[r] /\ AmountOf[q] = AmountOf[r]
ASSUME OpeningAssumption ==
    /\ Opening \in Seq(Row)
    /\ \A t \in DOMAIN Opening : NotOfPayouts(Opening[t])
ASSUME CallerAssumption ==
    /\ Manual \subseteq Callers
    /\ Drafts \subseteq Row
    /\ \A row \in Drafts : NotOfPayouts(row)
    /\ ReversalTypes \subseteq {"REFUND", "CHARGEBACK", "ADJUSTMENT"}
ASSUME NameAssumption ==
    /\ Responses = Requests /\ NoResponse \notin Requests
    /\ Nobody \notin Requests
ASSUME BoundAssumption ==
    /\ SerialDelivery \in BOOLEAN /\ KeysExpire \in BOOLEAN
    /\ MaxFailures \in Nat

VARIABLES
    ledger,     \* the committed ledger transactions
    payouts,    \* the status of each payout, "none" before it is created
    lock,       \* who holds the FOR UPDATE lock on each wallet's PAYABLE account
    bank,       \* what the bank did with each payout's transfer
    pc,         \* where each request is
    path,       \* why it is undoing its payout: "tx", "rejected" or "error"
    seen,       \* history: how many ledger rows there were when it read the balance
    hook,       \* where each webhook delivery is, and what it carries
    call,       \* where each other call is, and what it reverses
    faults, crashes

requestVars == <<pc, path, seen>>
vars == <<ledger, keys, payouts, lock, bank, requestVars, hook, call, faults, crashes>>

Available(w) ==
    LET balance == Balance(ledger, Payable(w)) IN IF balance < 0 THEN -balance ELSE balance

NoDelivery == [at |-> "idle"]
NoCall == [at |-> "idle", original |-> NoOriginal, type |-> "none"]
Reversing(at, t, type) == [at |-> at, original |-> t, type |-> type]
Delivery(at, payout, status) == [at |-> at, payout |-> payout, status |-> status]

Outcomes == {"SETTLED", "FAILED", "RETURNED"}

Init ==
    /\ ledger = Opening
    /\ KeysInit
    /\ payouts = [r \in Requests |-> "none"]
    /\ lock = [w \in Wallets |-> Nobody]
    /\ bank = [r \in Requests |-> "none"]
    /\ pc = [r \in Requests |-> "idle"]
    /\ path = [r \in Requests |-> "none"]
    /\ seen = [r \in Requests |-> 0]
    /\ hook = [h \in Webhooks |-> NoDelivery]
    /\ call = [c \in Callers |-> NoCall]
    /\ faults = 0 /\ crashes = 0

Goto(r, label) == pc' = [pc EXCEPT ![r] = label]

CanFail == faults + crashes < MaxFailures

Ended(r) == pc[r] \in {"idle", "returned", "refused", "dead"}

-----------------------------------------------------------------------------
(***************************************************************************)
(* IdempotencyService.check                                                *)
(***************************************************************************)

\* Mutant: a key in progress is taken for a new one.
FindKeyOverlapping(r) ==
    /\ pc[r] = "idle"
    /\ \/ Completed(KeyOf[r]) /\ Goto(r, "returned")
       \/ InProgress(KeyOf[r]) /\ Goto(r, "begin")
       \/ ~Exists(KeyOf[r]) /\ Goto(r, "reserve")
    /\ UNCHANGED <<ledger, keys, payouts, lock, bank, path, seen, hook, call, faults, crashes>>

\* The read, and what it decides: a cached answer, a conflict, or a second
\* statement on the row.
FindKey(r) ==
    /\ pc[r] = "idle"
    /\ \/ Completed(KeyOf[r]) /\ Goto(r, "returned")
       \/ InProgress(KeyOf[r]) /\ Goto(r, "refused")
       \/ Stale(KeyOf[r]) /\ Goto(r, "drop")
       \/ ~Exists(KeyOf[r]) /\ Goto(r, "reserve")
    /\ UNCHANGED <<ledger, keys, payouts, lock, bank, path, seen, hook, call, faults, crashes>>

\* Mutant: the key is not written.
ReserveNothing(r) ==
    /\ pc[r] = "reserve"
    /\ Goto(r, "begin")
    /\ UNCHANGED <<ledger, keys, payouts, lock, bank, path, seen, hook, call, faults, crashes>>

\* The row is new, or another request made it first and create throws.
ReserveKey(r) ==
    /\ pc[r] = "reserve"
    /\ \/ Reserve(KeyOf[r]) /\ Goto(r, "begin")
       \/ Exists(KeyOf[r]) /\ Goto(r, "refused") /\ UNCHANGED keys
    /\ UNCHANGED <<ledger, payouts, lock, bank, path, seen, hook, call, faults, crashes>>

\* An expired row is deleted and no row takes its place: the request goes on
\* without one.  If another request deleted it first, delete throws.
DropKey(r) ==
    /\ pc[r] = "drop"
    /\ \/ DropExpired(KeyOf[r]) /\ Goto(r, "begin")
       \/ ~Exists(KeyOf[r]) /\ Goto(r, "refused") /\ UNCHANGED keys
    /\ UNCHANGED <<ledger, payouts, lock, bank, path, seen, hook, call, faults, crashes>>

-----------------------------------------------------------------------------
(***************************************************************************)
(* The database transaction of initiatePayout                              *)
(***************************************************************************)

\* Mutant: the row is selected without FOR UPDATE.
SelectPayable(r) ==
    /\ pc[r] = "begin"
    /\ Goto(r, "locked")
    /\ UNCHANGED <<ledger, keys, payouts, lock, bank, path, seen, hook, call, faults, crashes>>

\* SELECT ... FOR UPDATE waits while another transaction holds the row.
LockPayable(r) ==
    /\ pc[r] = "begin"
    /\ lock[WalletOf[r]] = Nobody
    /\ lock' = [lock EXCEPT ![WalletOf[r]] = r]
    /\ Goto(r, "locked")
    /\ UNCHANGED <<ledger, keys, payouts, bank, path, seen, hook, call, faults, crashes>>

\* Mutant: a refused payout leaves the transaction open.
ReadBalanceStuck(r) ==
    LET w == WalletOf[r] IN
    /\ pc[r] = "locked"
    /\ seen' = [seen EXCEPT ![r] = Len(ledger)]
    /\ \/ AmountOf[r] <= Available(w) /\ Goto(r, "hold") /\ UNCHANGED path
       \/ /\ AmountOf[r] > Available(w)
          /\ path' = [path EXCEPT ![r] = "tx"] /\ Goto(r, "removeKey")
    /\ UNCHANGED <<ledger, keys, payouts, lock, bank, hook, call, faults, crashes>>

\* The balance, and the refusal of a payout it does not cover.
ReadBalance(r) ==
    LET w == WalletOf[r] IN
    /\ pc[r] = "locked"
    /\ seen' = [seen EXCEPT ![r] = Len(ledger)]
    /\ \/ /\ AmountOf[r] <= Available(w)
          /\ Goto(r, "hold") /\ UNCHANGED <<lock, path>>
       \/ /\ AmountOf[r] > Available(w)
          /\ lock' = [lock EXCEPT ![w] = Nobody]
          /\ path' = [path EXCEPT ![r] = "tx"] /\ Goto(r, "removeKey")
    /\ UNCHANGED <<ledger, keys, payouts, bank, hook, call, faults, crashes>>

Touches(row, account) == \E i \in DOMAIN row.entries : row.entries[i].account = account

HoldRow(r) ==
    Transaction(r, "PAYOUT_INITIATED",
        <<Entry(Payable(WalletOf[r]), AmountOf[r]),
          Entry(Suspense(WalletOf[r]), -AmountOf[r])>>, NoOriginal)

\* The payout and its hold are written, the transaction commits, the lock goes.
CommitHold(r) ==
    /\ pc[r] = "hold"
    /\ Balanced(HoldRow(r).entries)
    /\ payouts' = [payouts EXCEPT ![r] = "PROCESSING"]
    /\ ledger' = Append(ledger, HoldRow(r))
    /\ lock' = [lock EXCEPT ![WalletOf[r]] = Nobody]
    /\ Goto(r, "bank")
    /\ UNCHANGED <<keys, bank, path, seen, hook, call, faults, crashes>>

-----------------------------------------------------------------------------
(***************************************************************************)
(* The bank call and what follows it, outside any transaction              *)
(***************************************************************************)

\* initiateACHTransfer answers 'submitted' or 'failed'.
SubmitToBank(r) ==
    /\ pc[r] = "bank"
    /\ \/ bank' = [bank EXCEPT ![r] = "accepted"] /\ Goto(r, "markSubmitted") /\ UNCHANGED path
       \/ /\ bank' = [bank EXCEPT ![r] = "rejected"] /\ Goto(r, "readHold")
          /\ path' = [path EXCEPT ![r] = "rejected"]
    /\ UNCHANGED <<ledger, keys, payouts, lock, seen, hook, call, faults, crashes>>

MarkSubmitted(r) ==
    /\ pc[r] = "markSubmitted"
    /\ payouts' = [payouts EXCEPT ![r] = "SUBMITTED"]
    /\ Goto(r, "complete")
    /\ UNCHANGED <<ledger, keys, lock, bank, path, seen, hook, call, faults, crashes>>

\* The answer is recorded under the key; without a row the update throws, and the
\* catch block takes that for a failure of the bank.
CompleteKey(r) ==
    /\ pc[r] = "complete"
    /\ \/ Complete(KeyOf[r], r) /\ Goto(r, "returned") /\ UNCHANGED path
       \/ /\ ~Exists(KeyOf[r]) /\ Goto(r, "readHold")
          /\ path' = [path EXCEPT ![r] = "error"] /\ UNCHANGED keys
    /\ UNCHANGED <<ledger, payouts, lock, bank, seen, hook, call, faults, crashes>>

-----------------------------------------------------------------------------
(***************************************************************************)
(* _handleBankRejection, on the 'failed' path and in the catch block       *)
(***************************************************************************)

HoldOf(r) == CHOOSE t \in PostedFor(ledger, r) : ledger[t].type = "PAYOUT_INITIATED"

\* Mutant: earlier reversals are not looked at.
ReadHoldOnly(r) ==
    /\ pc[r] = "readHold"
    /\ Goto(r, "reverse")
    /\ UNCHANGED <<ledger, keys, payouts, lock, bank, path, seen, hook, call, faults, crashes>>

\* The hold and its reversals are read.  A second reversal is refused with a
\* BadRequest, which both paths hand to the client as it is.
ReadHold(r) ==
    /\ pc[r] = "readHold"
    /\ \/ Reversible(ledger, HoldOf(r)) /\ Goto(r, "reverse")
       \/ ~Reversible(ledger, HoldOf(r)) /\ Goto(r, "refused")
    /\ UNCHANGED <<ledger, keys, payouts, lock, bank, path, seen, hook, call, faults, crashes>>

\* The entry on PAYABLE takes a key-share lock: it waits for a FOR UPDATE holder.
ReverseHold(r) ==
    /\ pc[r] = "reverse"
    /\ lock[WalletOf[r]] = Nobody
    /\ Balanced(ReversalOf(ledger, HoldOf(r), "ADJUSTMENT").entries)
    /\ ledger' = Append(ledger, ReversalOf(ledger, HoldOf(r), "ADJUSTMENT"))
    /\ Goto(r, "markFailed")
    /\ UNCHANGED <<keys, payouts, lock, bank, path, seen, hook, call, faults, crashes>>

\* The catch block marks the payout a second time.
MarkFailed(r) ==
    /\ pc[r] \in {"markFailed", "failAgain"}
    /\ payouts' = [payouts EXCEPT ![r] = "FAILED"]
    /\ Goto(r, IF pc[r] = "markFailed" /\ path[r] = "error" THEN "failAgain" ELSE "removeKey")
    /\ UNCHANGED <<ledger, keys, lock, bank, path, seen, hook, call, faults, crashes>>

\* Mutant: the key is kept.
RemoveNothing(r) ==
    /\ pc[r] = "removeKey"
    /\ Goto(r, "refused")
    /\ UNCHANGED <<ledger, keys, payouts, lock, bank, path, seen, hook, call, faults, crashes>>

\* The key is given up, so that the client may retry, and the error rethrown.
RemoveKey(r) ==
    /\ pc[r] = "removeKey"
    /\ Remove(KeyOf[r])
    /\ Goto(r, "refused")
    /\ UNCHANGED <<ledger, payouts, lock, bank, path, seen, hook, call, faults, crashes>>

-----------------------------------------------------------------------------
(***************************************************************************)
(* Database errors                                                         *)
(***************************************************************************)

InTransaction == {"begin", "locked", "hold"}

\* Mutant: the rollback forgets the lock.
RollbackKeepsLock(r) ==
    /\ pc[r] \in InTransaction /\ CanFail
    /\ faults' = faults + 1
    /\ path' = [path EXCEPT ![r] = "tx"] /\ Goto(r, "removeKey")
    /\ UNCHANGED <<ledger, keys, payouts, lock, bank, seen, hook, call, crashes>>

\* Mutant: the hold is posted outside the transaction and survives its rollback.
RollbackKeepsHold(r) ==
    /\ pc[r] \in InTransaction /\ CanFail
    /\ faults' = faults + 1
    /\ ledger' = IF pc[r] = "hold" THEN Append(ledger, HoldRow(r)) ELSE ledger
    /\ lock' = [w \in Wallets |-> IF lock[w] = r THEN Nobody ELSE lock[w]]
    /\ path' = [path EXCEPT ![r] = "tx"] /\ Goto(r, "removeKey")
    /\ UNCHANGED <<keys, payouts, bank, seen, hook, call, crashes>>

\* The transaction fails or times out while it waits for the lock: it rolls back.
TransactionFails(r) ==
    /\ pc[r] \in InTransaction /\ CanFail
    /\ faults' = faults + 1
    /\ lock' = [w \in Wallets |-> IF lock[w] = r THEN Nobody ELSE lock[w]]
    /\ path' = [path EXCEPT ![r] = "tx"] /\ Goto(r, "removeKey")
    /\ UNCHANGED <<ledger, keys, payouts, bank, seen, hook, call, crashes>>

\* A statement after the bank call fails inside the try block: the catch block runs
\* _handleBankRejection, again if that is where it failed.
CaughtFailure(r) ==
    /\ \/ pc[r] \in {"markSubmitted", "complete"}
       \/ path[r] = "rejected" /\ pc[r] \in {"readHold", "reverse", "markFailed", "removeKey"}
    /\ CanFail
    /\ faults' = faults + 1
    /\ path' = [path EXCEPT ![r] = "error"] /\ Goto(r, "readHold")
    /\ UNCHANGED <<ledger, keys, payouts, lock, bank, seen, hook, call, crashes>>

\* A statement outside any try block, or in a catch block, fails: the request ends.
UncaughtFailure(r) ==
    /\ \/ pc[r] \in {"reserve", "drop"}
       \/ path[r] \in {"tx", "error"}
            /\ pc[r] \in {"readHold", "reverse", "markFailed", "failAgain", "removeKey"}
    /\ CanFail
    /\ faults' = faults + 1
    /\ Goto(r, "refused")
    /\ UNCHANGED <<ledger, keys, payouts, lock, bank, path, seen, hook, call, crashes>>

-----------------------------------------------------------------------------
(***************************************************************************)
(* handleBankWebhook: read the payout, post the release, mark the payout,  *)
(* three statements in no common transaction                               *)
(***************************************************************************)

Underway(h) == hook[h].at \in {"post", "mark"}

\* Mutant: the payout's status is not looked at.
DeliverAlways(h, p) ==
    /\ hook[h].at = "idle" /\ bank[p] \in Outcomes
    /\ SerialDelivery => ~\E g \in Webhooks : Underway(g) /\ hook[g].payout = p
    /\ hook' = [hook EXCEPT ![h] = Delivery("post", p, bank[p])]
    /\ UNCHANGED <<ledger, keys, payouts, lock, bank, requestVars, call, faults, crashes>>

\* Mutant: the payout is marked and the release is left for later.
DeliverMarking(h, p) ==
    /\ hook[h].at = "idle" /\ bank[p] \in Outcomes
    /\ hook' = [hook EXCEPT ![h] =
          Delivery(IF payouts[p] = "SUBMITTED" THEN "mark" ELSE "done", p, bank[p])]
    /\ UNCHANGED <<ledger, keys, payouts, lock, bank, requestVars, call, faults, crashes>>

\* The payout must be SUBMITTED: any other delivery is acknowledged and dropped.
Deliver(h, p) ==
    /\ hook[h].at = "idle" /\ bank[p] \in Outcomes
    /\ SerialDelivery => ~\E g \in Webhooks : Underway(g) /\ hook[g].payout = p
    /\ hook' = [hook EXCEPT ![h] =
          Delivery(IF payouts[p] = "SUBMITTED" THEN "post" ELSE "done", p, bank[p])]
    /\ UNCHANGED <<ledger, keys, payouts, lock, bank, requestVars, call, faults, crashes>>

SettleRow(p) ==
    Transaction(p, "PAYOUT_SETTLED",
        <<Entry(Suspense(WalletOf[p]), AmountOf[p]),
          Entry(Cash(WalletOf[p]), -AmountOf[p])>>, NoOriginal)

ReturnRow(p) ==
    Transaction(p, "ADJUSTMENT",
        <<Entry(Suspense(WalletOf[p]), AmountOf[p]),
          Entry(Payable(WalletOf[p]), -AmountOf[p])>>, NoOriginal)

ReleaseRow(p, status) == IF status = "SETTLED" THEN SettleRow(p) ELSE ReturnRow(p)

\* A return has an entry on PAYABLE and waits for a FOR UPDATE holder.
PostRelease(h) ==
    LET p == hook[h].payout  row == ReleaseRow(p, hook[h].status) IN
    /\ hook[h].at = "post"
    /\ hook[h].status # "SETTLED" => lock[WalletOf[p]] = Nobody
    /\ Balanced(row.entries)
    /\ ledger' = Append(ledger, row)
    /\ hook' = [hook EXCEPT ![h].at = "mark"]
    /\ UNCHANGED <<keys, payouts, lock, bank, requestVars, call, faults, crashes>>

MarkOutcome(h) ==
    /\ hook[h].at = "mark"
    /\ payouts' = [payouts EXCEPT ![hook[h].payout] = hook[h].status]
    /\ hook' = [hook EXCEPT ![h].at = "done"]
    /\ UNCHANGED <<ledger, keys, lock, bank, requestVars, call, faults, crashes>>

\* The post or the update fails and the bank gets an error.
DeliveryFails(h) ==
    /\ Underway(h) /\ CanFail
    /\ faults' = faults + 1
    /\ hook' = [hook EXCEPT ![h].at = "done"]
    /\ UNCHANGED <<ledger, keys, payouts, lock, bank, requestVars, call, crashes>>

-----------------------------------------------------------------------------
(***************************************************************************)
(* What else posts to the accounts: payments, credit, refunds and          *)
(* charge-backs, and POST /ledger.  None of it looks at a balance.         *)
(***************************************************************************)

\* An entry on PAYABLE waits for a FOR UPDATE holder.
Unlocked(row) == \A w \in Wallets : Touches(row, Payable(w)) => lock[w] = Nobody

\* postTransaction, from ingestPayment, the credit engine or POST /ledger/transactions.
PostDraft(c, row) ==
    /\ call[c] = NoCall
    /\ Balanced(row.entries) /\ Unlocked(row)
    /\ ledger' = Append(ledger, row)
    /\ call' = [call EXCEPT ![c].at = "done"]
    /\ UNCHANGED <<keys, payouts, lock, bank, requestVars, hook, faults, crashes>>

\* refundPayment and handleChargeback reverse what booked a payment, whatever its wallet
\* has paid out by then; POST /ledger/reverse names any row, a payout's too, and any type.
MayReverse(c, t, type) ==
    \/ c \in Manual
    \/ /\ NotOfPayouts(ledger[t]) /\ ledger[t].type \in {"PAYMENT_RECEIVED", "PAYMENT_SPLIT"}
       /\ type \in {"REFUND", "CHARGEBACK"}

\* reverseTransaction reads the row and its reversals, and posts later.
ReadRow(c, t, type) ==
    /\ call[c] = NoCall
    /\ Reversible(ledger, t) /\ MayReverse(c, t, type)
    /\ call' = [call EXCEPT ![c] = Reversing("post", t, type)]
    /\ UNCHANGED <<ledger, keys, payouts, lock, bank, requestVars, hook, faults, crashes>>

PostReversal(c) ==
    LET row == ReversalOf(ledger, call[c].original, call[c].type) IN
    /\ call[c].at = "post"
    /\ Balanced(row.entries) /\ Unlocked(row)
    /\ ledger' = Append(ledger, row)
    /\ call' = [call EXCEPT ![c].at = "done"]
    /\ UNCHANGED <<keys, payouts, lock, bank, requestVars, hook, faults, crashes>>

ReversalFails(c) ==
    /\ call[c].at = "post" /\ CanFail
    /\ faults' = faults + 1
    /\ call' = [call EXCEPT ![c].at = "failed"]
    /\ UNCHANGED <<ledger, keys, payouts, lock, bank, requestVars, hook, crashes>>

-----------------------------------------------------------------------------
(***************************************************************************)
(* The environment                                                         *)
(***************************************************************************)

\* What becomes of a transfer the bank accepted.
BankDecides(p, outcome) ==
    /\ bank[p] = "accepted"
    /\ bank' = [bank EXCEPT ![p] = outcome]
    /\ UNCHANGED <<ledger, keys, payouts, lock, requestVars, hook, call, faults, crashes>>

\* A key outlives its 24 hours only after every request that used it has ended.
KeyExpires(k) ==
    /\ KeysExpire
    /\ \A r \in Requests : KeyOf[r] = k => Ended(r)
    /\ Expire(k)
    /\ UNCHANGED <<ledger, payouts, lock, bank, requestVars, hook, call, faults, crashes>>

\* The process dies: handlers are gone, open transactions roll back.
Crash ==
    /\ CanFail
    /\ crashes' = crashes + 1
    /\ pc' = [r \in Requests |-> IF Ended(r) THEN pc[r] ELSE "dead"]
    /\ lock' = [w \in Wallets |-> Nobody]
    /\ hook' = [h \in Webhooks |->
          IF Underway(h) THEN Delivery("done", hook[h].payout, hook[h].status) ELSE hook[h]]
    /\ call' = [c \in Callers |->
          IF call[c].at = "post" THEN [call[c] EXCEPT !.at = "failed"] ELSE call[c]]
    /\ UNCHANGED <<ledger, keys, payouts, bank, path, seen, faults>>

CheckKey(r) == FindKey(r) \/ ReserveKey(r) \/ DropKey(r)
HoldMoney(r) == LockPayable(r) \/ ReadBalance(r) \/ CommitHold(r)
FollowBank(r) == SubmitToBank(r) \/ MarkSubmitted(r) \/ CompleteKey(r)
UndoHold(r) == ReadHold(r) \/ ReverseHold(r) \/ MarkFailed(r) \/ RemoveKey(r)
StepFails(r) == TransactionFails(r) \/ CaughtFailure(r) \/ UncaughtFailure(r)
RequestStep(r) == CheckKey(r) \/ HoldMoney(r) \/ FollowBank(r) \/ UndoHold(r)
HandleDelivery(h) == PostRelease(h) \/ MarkOutcome(h)
CallerStep(c) ==
    \/ \E row \in Drafts : PostDraft(c, row)
    \/ \E t \in DOMAIN ledger, type \in ReversalTypes : ReadRow(c, t, type)
    \/ PostReversal(c) \/ ReversalFails(c)

Next ==
    \/ \E r \in Requests : RequestStep(r) \/ StepFails(r)
    \/ \E h \in Webhooks :
          \/ \E p \in Requests : Deliver(h, p)
          \/ HandleDelivery(h)
          \/ DeliveryFails(h)
    \/ \E p \in Requests, outcome \in Outcomes : BankDecides(p, outcome)
    \/ \E c \in Callers : CallerStep(c)
    \/ \E k \in Keys : KeyExpires(k)
    \/ Crash

Spec == Init /\ [][Next]_vars

\* A handler that can run its next statement does, in the end: Node's event loop
\* runs every callback, and PostgreSQL grants a lock that stays free.
FairSpec ==
    /\ Spec
    /\ \A r \in Requests : WF_vars(RequestStep(r) /\ pc[r] # "idle")
    /\ \A h \in Webhooks : WF_vars(HandleDelivery(h))

-----------------------------------------------------------------------------
Labels ==
    {"idle", "reserve", "drop", "begin", "locked", "hold", "bank", "markSubmitted",
     "complete", "readHold", "reverse", "markFailed", "failAgain", "removeKey",
     "returned", "refused", "dead"}

Statuses == {"none", "PROCESSING", "SUBMITTED", "FAILED"} \cup Outcomes

\* A row lock belongs to the request that is inside its transaction on that wallet,
\* and to no other.
LockOwned ==
    /\ lock \in [Wallets -> Requests \cup {Nobody}]
    /\ \A w \in Wallets, r \in Requests :
          lock[w] = r <=> pc[r] \in {"locked", "hold"} /\ WalletOf[r] = w

Deliveries == {NoDelivery} \cup
    [at : {"post", "mark", "done"}, payout : Requests, status : Outcomes]

Calls ==
    [at : {"idle", "post", "done", "failed"}, original : Nat, type : ReversalTypes \cup {"none"}]

\* The tables hold rows of their schema, every handler is at one of its statements,
\* and the row locks are owned.
TypeOK ==
    /\ ledger \in Seq(Row)
    /\ KeysTypeOK
    /\ payouts \in [Requests -> Statuses]
    /\ bank \in [Requests -> {"none", "accepted", "rejected"} \cup Outcomes]
    /\ pc \in [Requests -> Labels]
    /\ path \in [Requests -> {"none", "tx", "rejected", "error"}]
    /\ seen \in [Requests -> Nat]
    /\ hook \in [Webhooks -> Deliveries]
    /\ call \in [Callers -> Calls]
    /\ faults \in Nat /\ crashes \in Nat
    /\ LockOwned

\* "Compute balance AFTER acquiring lock (guaranteed to be current)": from the read
\* to the commit nothing is posted on the PAYABLE account of a request.
BalanceStaysCurrent ==
    \A r \in Requests : pc[r] = "hold" =>
        \A t \in DOMAIN ledger : seen[r] < t => ~Touches(ledger[t], Payable(WalletOf[r]))

IsHold(row) == row.type = "PAYOUT_INITIATED" /\ row.referenceId \in Requests

Holds(p) == {t \in PostedFor(ledger, p) : ledger[t].type = "PAYOUT_INITIATED"}
Releases(p) == PostedFor(ledger, p) \ Holds(p)

ReversedByHand(t) == \E c \in Manual : call[c].at = "done" /\ call[c].original = t

\* No hold is reversed twice by _handleBankRejection, though the catch block may run
\* it after the try block already did: a second reversal comes through POST /ledger/reverse.
HoldReversedOnce ==
    \A p \in Requests : \A t \in Holds(p) :
        \A q, r \in Reversals(ledger, t) : q = r \/ ReversedByHand(t)

FundsBefore(t, w) == -Balance(SubSeq(ledger, 1, t - 1), Payable(w))

\* A row that takes from a wallet without looking at its balance: a refund, a charge-back,
\* a reversal of a return, a repayment of credit, whatever POST /ledger was told to post.
TakesUnchecked(row, w) == ~IsHold(row) /\ NetOn(row, Payable(w)) > 0

\* A payout takes what its wallet has ("Insufficient balance"), whatever requests, returns,
\* faults and crashes interleave.  The one exception is a wallet that others have put in
\* debit: its debt, read as an absolute value, passes for funds ("PAYABLE balance is
\* negative (credit side) - the absolute value is available"), and only up to its amount.
HoldsAreCovered ==
    \A p \in Requests : \A t \in Holds(p) :
        LET funds == FundsBefore(t, WalletOf[p]) IN
        \/ AmountOf[p] <= funds
        \/ /\ AmountOf[p] <= -funds
           /\ \E c \in 1..(t - 1) : TakesUnchecked(ledger[c], WalletOf[p])

\* The payout row and its hold commit together: one hold for each payout there is.
HoldWithPayout ==
    \A p \in Requests :
        /\ payouts[p] = "none" <=> Holds(p) = {}
        /\ \A t, u \in Holds(p) : t = u

\* A payout in a final status has had its hold released first: no failure between the
\* ledger and the status leaves a finished payout with money in SUSPENSE.
FinalMeansReleased ==
    \A p \in Requests : payouts[p] \in {"SETTLED", "RETURNED", "FAILED"} => Releases(p) # {}

(***************************************************************************)
(* The inductive invariant behind the last four and the types: what the    *)
(* place of a request or of a delivery says of the tables and the ledger.  *)
(***************************************************************************)
BeforeHold == {"idle", "reserve", "drop", "begin", "locked", "hold"}
AfterHold ==
    {"bank", "markSubmitted", "complete", "readHold", "reverse", "markFailed", "failAgain"}

\* A request has no payout before its transaction commits and has one afterwards; the
\* bank and the webhooks only know payouts there are.
PayoutExists ==
    /\ \A r \in Requests :
          /\ pc[r] \in BeforeHold => payouts[r] = "none"
          /\ pc[r] \in AfterHold \/ path[r] \in {"rejected", "error"} => payouts[r] # "none"
          /\ bank[r] # "none" => payouts[r] # "none"
    /\ \A h \in Webhooks : hook[h].at # "idle" => payouts[hook[h].payout] # "none"

\* A payout's hold is the row that initiatePayout posts; a reversal is of an earlier row
\* and has its reference.
LedgerShape ==
    \A t \in DOMAIN ledger :
        /\ IsHold(ledger[t]) => ledger[t] = HoldRow(ledger[t].referenceId)
        /\ ledger[t].original # NoOriginal =>
              /\ ledger[t].original \in DOMAIN ledger
              /\ ledger[ledger[t].original].referenceId = ledger[t].referenceId

\* Another call that is about to post a reversal has found its row, and may reverse it.
CallsInOrder ==
    \A c \in Callers : call[c].at = "post" =>
        /\ call[c].original \in DOMAIN ledger
        /\ call[c].type \in ReversalTypes
        /\ MayReverse(c, call[c].original, call[c].type)

\* Between the check for reversals and the reversal there is still none, but by hand: a
\* request reverses no hold but its own.
StillReversible ==
    \A r \in Requests : pc[r] = "reverse" =>
        Reversals(ledger, HoldOf(r)) = {} \/ ReversedByHand(HoldOf(r))

\* A status that ends a payout is written after its release.
ReleasedFirst ==
    /\ \A r \in Requests : pc[r] \in {"markFailed", "failAgain"} => Releases(r) # {}
    /\ \A h \in Webhooks : hook[h].at = "mark" => Releases(hook[h].payout) # {}

IInv ==
    /\ TypeOK /\ PayoutExists /\ LedgerShape /\ HoldWithPayout /\ CallsInOrder
    /\ StillReversible /\ HoldReversedOnce
    /\ ReleasedFirst /\ FinalMeansReleased
    /\ BalanceStaysCurrent

-----------------------------------------------------------------------------
(***************************************************************************)
(* Behind HoldsAreCovered: what its check found is still so when the hold  *)
(* is written.                                                             *)
(***************************************************************************)

\* A request about to write its hold has the funds it found, or the debt.
StillCovered == \A r \in Requests : pc[r] = "hold" => AmountOf[r] <= Available(WalletOf[r])

\* Only a row that looks at no balance puts a wallet in debit.
DebitHasACause ==
    \A w \in Wallets : Balance(ledger, Payable(w)) > 0 =>
        \E c \in DOMAIN ledger : TakesUnchecked(ledger[c], w)

FundsInv == HoldsAreCovered /\ StillCovered /\ DebitHasACause

-----------------------------------------------------------------------------
\* While the bank has a transfer, or has paid it out, its hold has not been returned
\* to PAYABLE: _handleBankRejection is for transfers the bank rejects or fails.
AcceptedStaysHeld ==
    \A p \in Requests : bank[p] \in {"accepted", "SETTLED"} =>
        \A t \in Releases(p) : ledger[t].type # "ADJUSTMENT"

\* Retries of one order send it to the bank once: no two payouts of one key are accepted.
OneAcceptedPerKey ==
    \A q, r \in Requests :
        q # r /\ KeyOf[q] = KeyOf[r] => ~(bank[q] \in {"accepted"} \cup Outcomes
                                       /\ bank[r] \in {"accepted"} \cup Outcomes)

\* A key is in progress only while a request is: its client is never locked out.
KeysAreGivenBack ==
    \A k \in Keys : InProgress(k) => \E r \in Requests : KeyOf[r] = k /\ ~Ended(r)

(***************************************************************************)
(* Behind the last three: who has a key, when nothing fails and no key     *)
(* expires.                                                                *)
(***************************************************************************)
AcceptedByBank == {"accepted"} \cup Outcomes
Active ==
    {"begin", "locked", "hold", "bank", "markSubmitted", "complete", "readHold", "reverse",
     "markFailed", "removeKey"}

\* A key in progress has one request, which is between reserving it and settling it.
KeysHaveOwners ==
    /\ \A k \in Keys : Exists(k) => ~keys[k].expired
    /\ \A r \in Requests : pc[r] \in Active => InProgress(KeyOf[r])
    /\ \A q, r \in Requests : pc[q] \in Active /\ pc[r] \in Active /\ KeyOf[q] = KeyOf[r] => q = r
    /\ \A k \in Keys : InProgress(k) => \E r \in Requests : KeyOf[r] = k /\ pc[r] \in Active

\* The place of a request and what the bank said of its transfer go together: a hold is
\* undone for a rejected transfer, and an accepted one ends by completing its key.
FollowsTheBank ==
    \A r \in Requests :
        /\ path[r] # "error" /\ pc[r] \notin {"drop", "failAgain", "dead"}
        /\ pc[r] \in BeforeHold \cup {"bank"} => bank[r] = "none"
        /\ pc[r] \in {"readHold", "reverse", "markFailed"} => bank[r] = "rejected"
        /\ bank[r] \in AcceptedByBank =>
              \/ pc[r] \in {"markSubmitted", "complete"}
              \/ pc[r] = "returned" /\ keys[KeyOf[r]] = [response |-> r, expired |-> FALSE]

\* A hold is not released before the bank has answered, nor by anybody else while its
\* request is about to undo it.
NotYetReleased ==
    \A r \in Requests :
        bank[r] = "none" \/ pc[r] \in {"readHold", "reverse"} => Releases(r) = {}

\* A delivery carries what the bank decided, and decided for good.
CarriesOutcome ==
    \A h \in Webhooks : hook[h].at # "idle" => bank[hook[h].payout] = hook[h].status

ServedInv ==
    /\ KeysHaveOwners /\ FollowsTheBank /\ NotYetReleased /\ CarriesOutcome
    /\ AcceptedStaysHeld

-----------------------------------------------------------------------------
\* A hold is released once, to CASH or to PAYABLE: handleBankWebhook "moves funds from
\* SUSPENSE to final state".
HoldReleasedOnce == \A p \in Requests : \A t, u \in Releases(p) : t = u

\* A request that was sent gets an answer: it does not wait for the lock for ever.
EveryRequestEnds == \A r \in Requests : (pc[r] # "idle") ~> Ended(r)

\* What the clients of the wallet and of the bank see is PayoutPromise: the money of a
\* payout is where its last ledger row put it.
StageOf(p) ==
    IF \E t \in Releases(p) : ledger[t].type = "PAYOUT_SETTLED" THEN "paid"
    ELSE IF Releases(p) # {} THEN "returned"
    ELSE IF Holds(p) # {} THEN "held" ELSE "none"

Promise == INSTANCE PayoutPromise WITH
    Payouts <- Requests,
    InitialFunds <- [w \in Wallets |-> -Balance(Opening, Payable(w))],
    available <- [w \in Wallets |-> -Balance(ledger, Payable(w))],
    stage <- [p \in Requests |-> StageOf(p)]

\* Without faults, crashes, expired keys and overlapping deliveries, every step of
\* Payouts is a step of PayoutPromise or changes nothing it speaks of.
KeepsPromise == Promise!Spec

(***************************************************************************)
(* Behind the refinement, when deliveries do not overlap either and        *)
(* nobody else posts: whose money is still to be released.                 *)
(***************************************************************************)

\* A payout has one delivery underway at most, and it is for a submitted payout.
OneDelivery ==
    /\ \A g, h \in Webhooks :
          Underway(g) /\ Underway(h) /\ hook[g].payout = hook[h].payout => g = h
    /\ \A h \in Webhooks : Underway(h) => payouts[hook[h].payout] = "SUBMITTED"

\* A payout is held until a delivery posts its release, and submitted once.
ReleasedByOne ==
    /\ \A h \in Webhooks : hook[h].at = "post" => Releases(hook[h].payout) = {}
    /\ \A p \in Requests :
          \/ pc[p] = "markSubmitted"
          \/ payouts[p] = "SUBMITTED" /\ ~\E h \in Webhooks : Underway(h) /\ hook[h].payout = p
          => Releases(p) = {}
    /\ \A p \in Requests : pc[p] \in AfterHold \ {"complete"} => payouts[p] # "SUBMITTED"

NoDebt == \A w \in Wallets : Balance(ledger, Payable(w)) <= 0

PromiseInv == OneDelivery /\ ReleasedByOne /\ NoDebt

=============================================================================
