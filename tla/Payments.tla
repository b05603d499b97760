------------------------------ MODULE Payments ------------------------------
(***************************************************************************)
(* PaymentsService: POST /payments (ingestPayment), /payments/refund and   *)
(* /payments/chargeback on one database, with the idempotency keys, the    *)
(* ledger and the wallets' status.  One action per statement that reads or *)
(* writes something shared; the booking of a payment is one, because it is *)
(* one database transaction and waits for nobody but a booking of the same *)
(* external id.                                                            *)
(*                                                                         *)
(* A call of ingestPayment creates at most one payment: the call's name is *)
(* the payment's id.  Calls with one key are a client's retries.           *)
(***************************************************************************)
EXTENDS SplitOps, Idempotency

CONSTANTS
    Ingests,          \* calls of POST /payments
    Undos,            \* calls of POST /payments/refund and /payments/chargeback
    Undoable,         \* the payments they may name
    OrderOf,          \* what each call of ingestPayment asks for
    KeyOf,            \* its idempotency-key header, or NoKey
    ExternalOf,       \* its source and external id, or NoExternal
    NoKey, NoExternal,
    Expiring,         \* the keys that may outlive their time to live
    MaxFailures       \* bound on database errors and crashes of the process

Kinds == {"REFUND", "CHARGEBACK"}

ASSUME OrderAssumption == \A r \in Ingests : WellFormed(OrderOf[r])
ASSUME CallAssumption ==
    /\ KeyOf \in [Ingests -> Keys \cup {NoKey}]
    /\ NoKey \notin Keys
    /\ Responses = Ingests /\ NoResponse \notin Ingests
ASSUME RetryAssumption ==
    \A q, r \in Ingests : KeyOf[q] = KeyOf[r] /\ KeyOf[q] # NoKey =>
        OrderOf[q] = OrderOf[r] /\ ExternalOf[q] = ExternalOf[r]
ASSUME BoundAssumption ==
    Expiring \subseteq Keys /\ Undoable \subseteq Ingests /\ MaxFailures \in Nat

VARIABLES
    ledger,       \* the committed ledger transactions
    payments,     \* the status of each payment, "none" before it is booked
    suspended,    \* the wallets that are not ACTIVE
    pc,           \* where each call of ingestPayment is
    told,         \* what it announced: an answer, or PAYMENT_FAILED
    undo,         \* where each refund or chargeback is, and of what
    faults, crashes

vars == <<ledger, keys, payments, suspended, pc, told, undo, faults, crashes>>

NoUndo == [at |-> "idle"]
UndoEnded == [at |-> "ended"]
Undo(at, payment, kind) == [at |-> at, payment |-> payment, kind |-> kind]

Init ==
    /\ ledger = << >>
    /\ KeysInit
    /\ payments = [r \in Ingests |-> "none"]
    /\ suspended = {}
    /\ pc = [r \in Ingests |-> "idle"]
    /\ told = [r \in Ingests |-> "nothing"]
    /\ undo = [c \in Undos |-> NoUndo]
    /\ faults = 0 /\ crashes = 0

Goto(r, label) == pc' = [pc EXCEPT ![r] = label]
Tell(r, what) == told' = [told EXCEPT ![r] = what]

CanFail == faults + crashes < MaxFailures

Ended(r) == pc[r] \in {"idle", "returned", "refused", "dead"}

-----------------------------------------------------------------------------
(***************************************************************************)
(* ingestPayment before the transaction: the key, the duplicate, the       *)
(* wallet                                                                  *)
(***************************************************************************)

\* Without an external id there is no duplicate to look for.
FirstRead(r) == IF ExternalOf[r] = NoExternal THEN "wallet" ELSE "dedupe"

\* Mutant: a key in progress is taken for a new one.
FindKeyOverlapping(r) ==
    /\ pc[r] = "idle"
    /\ \/ KeyOf[r] \in Keys /\ Completed(KeyOf[r]) /\ Goto(r, "returned") /\ Tell(r, "settled")
       \/ KeyOf[r] \in Keys /\ InProgress(KeyOf[r]) /\ Goto(r, FirstRead(r)) /\ UNCHANGED told
       \/ KeyOf[r] \in Keys /\ ~Exists(KeyOf[r]) /\ Goto(r, "reserve") /\ UNCHANGED told
       \/ KeyOf[r] = NoKey /\ Goto(r, FirstRead(r)) /\ UNCHANGED told
    /\ UNCHANGED <<ledger, keys, payments, suspended, undo, faults, crashes>>

\* The read of the key, when there is one, and what it decides.
FindKey(r) ==
    /\ pc[r] = "idle"
    /\ \/ KeyOf[r] = NoKey /\ Goto(r, FirstRead(r)) /\ UNCHANGED told
       \/ /\ KeyOf[r] # NoKey
          /\ \/ Completed(KeyOf[r]) /\ Goto(r, "returned") /\ Tell(r, "settled")
             \/ InProgress(KeyOf[r]) /\ Goto(r, "refused") /\ UNCHANGED told
             \/ Stale(KeyOf[r]) /\ Goto(r, "drop") /\ UNCHANGED told
             \/ ~Exists(KeyOf[r]) /\ Goto(r, "reserve") /\ UNCHANGED told
    /\ UNCHANGED <<ledger, keys, payments, suspended, undo, faults, crashes>>

\* Mutant: the key is not written.
ReserveNothing(r) ==
    /\ pc[r] = "reserve"
    /\ Goto(r, FirstRead(r))
    /\ UNCHANGED <<ledger, keys, payments, suspended, told, undo, faults, crashes>>

ReserveKey(r) ==
    /\ pc[r] = "reserve"
    /\ \/ Reserve(KeyOf[r]) /\ Goto(r, FirstRead(r))
       \/ Exists(KeyOf[r]) /\ Goto(r, "refused") /\ UNCHANGED keys
    /\ UNCHANGED <<ledger, payments, suspended, told, undo, faults, crashes>>

DropKey(r) ==
    /\ pc[r] = "drop"
    /\ \/ DropExpired(KeyOf[r]) /\ Goto(r, FirstRead(r))
       \/ ~Exists(KeyOf[r]) /\ Goto(r, "refused") /\ UNCHANGED keys
    /\ UNCHANGED <<ledger, payments, suspended, told, undo, faults, crashes>>

Booked == {p \in Ingests : payments[p] # "none"}

\* The payments the unique index on source and external id sets against this one.
Twins(r) == {p \in Booked : ExternalOf[p] = ExternalOf[r] /\ ExternalOf[r] # NoExternal}

\* A payment with the same source and external id is handed out as the answer, and the
\* key stays as it is: in progress.
FindDuplicate(r) ==
    /\ pc[r] = "dedupe"
    /\ \/ Twins(r) # {} /\ Goto(r, "returned") /\ Tell(r, "duplicate")
       \/ Twins(r) = {} /\ Goto(r, "wallet") /\ UNCHANGED told
    /\ UNCHANGED <<ledger, keys, payments, suspended, undo, faults, crashes>>

\* A wallet that is not there or not ACTIVE.
ReadWallet(r) ==
    LET ok == OrderOf[r].payer \in Wallets \ suspended IN
    /\ pc[r] = "wallet"
    /\ Goto(r, IF ok THEN "book" ELSE "giveUp")
    /\ UNCHANGED <<ledger, keys, payments, suspended, told, undo, faults, crashes>>

RemoveOwnKey(r) == IF KeyOf[r] = NoKey THEN UNCHANGED keys ELSE Remove(KeyOf[r])

\* Mutant: the refusal keeps the key.
GiveUpKeepingKey(r) ==
    /\ pc[r] = "giveUp"
    /\ Goto(r, "refused")
    /\ UNCHANGED <<ledger, keys, payments, suspended, told, undo, faults, crashes>>

GiveUp(r) ==
    /\ pc[r] = "giveUp"
    /\ RemoveOwnKey(r)
    /\ Goto(r, "refused")
    /\ UNCHANGED <<ledger, payments, suspended, told, undo, faults, crashes>>

-----------------------------------------------------------------------------
(***************************************************************************)
(* The transaction, the record of its answer, and the catch block          *)
(***************************************************************************)

PaymentRow(r) ==
    Transaction(r, IF IsSplit(OrderOf[r]) THEN "PAYMENT_SPLIT" ELSE "PAYMENT_RECEIVED",
                PaymentEntries(OrderOf[r]), NoOriginal)

\* Mutant: the payment is not marked as settled.
BookUnsettled(r) ==
    /\ pc[r] = "book"
    /\ Bookable(OrderOf[r]) /\ Twins(r) = {}
    /\ payments' = [payments EXCEPT ![r] = "PROCESSING"]
    /\ ledger' = Append(ledger, PaymentRow(r))
    /\ Goto(r, "complete")
    /\ UNCHANGED <<keys, suspended, told, undo, faults, crashes>>

\* Mutant: the external id has no unique index.
BookTwins(r) ==
    /\ pc[r] = "book"
    /\ Bookable(OrderOf[r])
    /\ payments' = [payments EXCEPT ![r] = "SETTLED"]
    /\ ledger' = Append(ledger, PaymentRow(r))
    /\ Goto(r, "complete")
    /\ UNCHANGED <<keys, suspended, told, undo, faults, crashes>>

\* The payment, its ledger transaction and its splits commit together.
BookPayment(r) ==
    /\ pc[r] = "book"
    /\ Bookable(OrderOf[r]) /\ Twins(r) = {}
    /\ payments' = [payments EXCEPT ![r] = "SETTLED"]
    /\ ledger' = Append(ledger, PaymentRow(r))
    /\ Goto(r, "complete")
    /\ UNCHANGED <<keys, suspended, told, undo, faults, crashes>>

\* The split, the ledger or the unique index refuses: everything rolls back.
RefusePayment(r) ==
    /\ pc[r] = "book"
    /\ ~Bookable(OrderOf[r]) \/ Twins(r) # {}
    /\ Goto(r, "removeKey")
    /\ UNCHANGED <<ledger, keys, payments, suspended, told, undo, faults, crashes>>

\* The answer is recorded under the key.  Without a row the update throws, and the
\* catch block takes that for a failure of the transaction.
CompleteKey(r) ==
    /\ pc[r] = "complete"
    /\ \/ KeyOf[r] = NoKey /\ Goto(r, "returned") /\ Tell(r, "settled") /\ UNCHANGED keys
       \/ /\ KeyOf[r] # NoKey /\ Complete(KeyOf[r], r)
          /\ Goto(r, "returned") /\ Tell(r, "settled")
       \/ /\ KeyOf[r] # NoKey /\ ~Exists(KeyOf[r])
          /\ Goto(r, "removeKey") /\ UNCHANGED <<keys, told>>
    /\ UNCHANGED <<ledger, payments, suspended, undo, faults, crashes>>

\* The catch block gives up the key and announces PAYMENT_FAILED.
RemoveKey(r) ==
    /\ pc[r] = "removeKey"
    /\ RemoveOwnKey(r)
    /\ Goto(r, "refused") /\ Tell(r, "failed")
    /\ UNCHANGED <<ledger, payments, suspended, undo, faults, crashes>>

Labels ==
    {"idle", "reserve", "drop", "dedupe", "wallet", "giveUp", "book", "complete", "removeKey",
     "returned", "refused", "dead"}

InTry == {"book", "complete"}

\* A database error inside the try block.
CaughtFailure(r) ==
    /\ pc[r] \in InTry /\ CanFail
    /\ faults' = faults + 1
    /\ Goto(r, "removeKey")
    /\ UNCHANGED <<ledger, keys, payments, suspended, told, undo, crashes>>

\* A database error anywhere else: the call ends with it.
UncaughtFailure(r) ==
    /\ pc[r] \in {"reserve", "drop", "dedupe", "wallet", "giveUp", "removeKey"}
    /\ CanFail
    /\ faults' = faults + 1
    /\ Goto(r, "refused")
    /\ UNCHANGED <<ledger, keys, payments, suspended, told, undo, crashes>>

-----------------------------------------------------------------------------
(***************************************************************************)
(* refundPayment and handleChargeback: read the payment (a refund wants it *)
(* SETTLED), find its ledger row and check it for reversals, post the      *)
(* reversal, mark the payment.  The amount of a refund is only compared:   *)
(* whatever part it names, the whole row is reversed.                      *)
(***************************************************************************)

\* The status of the payment, and the comparison of the amount.
ReadPayment(c, p, kind) ==
    /\ undo[c].at = "idle"
    /\ p \in Booked
    /\ kind = "REFUND" => payments[p] = "SETTLED"
    /\ undo' = [undo EXCEPT ![c] = Undo("read", p, kind)]
    /\ UNCHANGED <<ledger, keys, payments, suspended, pc, told, faults, crashes>>

\* No such payment, not SETTLED, or too much asked back.
RefuseUndo(c, p, kind) ==
    /\ undo[c].at = "idle"
    /\ p \in Booked => kind = "REFUND"
    /\ undo' = [undo EXCEPT ![c] = UndoEnded]
    /\ UNCHANGED <<ledger, keys, payments, suspended, pc, told, faults, crashes>>

Originals(p) == {t \in PostedFor(ledger, p) : ledger[t].original = NoOriginal}
OriginalOf(p) == CHOOSE t \in Originals(p) : TRUE

\* Mutant: the error of a second reversal is swallowed.
AfterReadRowLenient(p, kind) ==
    IF Originals(p) # {} /\ Reversible(ledger, OriginalOf(p))
      THEN Undo("post", p, kind) ELSE Undo("mark", p, kind)

\* The row of the payment that is no reversal, and its reversals.  Without such a row a
\* refund is refused and a chargeback only marks.
AfterReadRow(p, kind) ==
    IF Originals(p) # {}
      THEN IF Reversible(ledger, OriginalOf(p)) THEN Undo("post", p, kind) ELSE UndoEnded
      ELSE IF kind = "REFUND" THEN UndoEnded ELSE Undo("mark", p, kind)

ReadRow(c) ==
    /\ undo[c].at = "read"
    /\ undo' = [undo EXCEPT ![c] = AfterReadRow(undo[c].payment, undo[c].kind)]
    /\ UNCHANGED <<ledger, keys, payments, suspended, pc, told, faults, crashes>>

PostUndo(c) ==
    LET row == ReversalOf(ledger, OriginalOf(undo[c].payment), undo[c].kind) IN
    /\ undo[c].at = "post"
    /\ Balanced(row.entries)
    /\ ledger' = Append(ledger, row)
    /\ undo' = [undo EXCEPT ![c].at = "mark"]
    /\ UNCHANGED <<keys, payments, suspended, pc, told, faults, crashes>>

StatusAfter(kind) == IF kind = "REFUND" THEN "REFUNDED" ELSE "CHARGEBACKED"

MarkUndone(c) ==
    /\ undo[c].at = "mark"
    /\ payments' = [payments EXCEPT ![undo[c].payment] = StatusAfter(undo[c].kind)]
    /\ undo' = [undo EXCEPT ![c] = UndoEnded]
    /\ UNCHANGED <<ledger, keys, suspended, pc, told, faults, crashes>>

Undoing(c) == undo[c].at \in {"read", "post", "mark"}

\* A statement fails: the call ends with it.
UndoFails(c) ==
    /\ Undoing(c) /\ CanFail
    /\ faults' = faults + 1
    /\ undo' = [undo EXCEPT ![c] = UndoEnded]
    /\ UNCHANGED <<ledger, keys, payments, suspended, pc, told, crashes>>

-----------------------------------------------------------------------------
(***************************************************************************)
(* The environment                                                         *)
(***************************************************************************)

\* suspendWallet, by another request.
SuspendWallet(w) ==
    /\ suspended' = suspended \cup {w}
    /\ UNCHANGED <<ledger, keys, payments, pc, told, undo, faults, crashes>>

\* A key outlives its 24 hours only after every call that used it has ended.
KeyExpires(k) ==
    /\ k \in Expiring
    /\ \A r \in Ingests : KeyOf[r] = k => Ended(r)
    /\ Expire(k)
    /\ UNCHANGED <<ledger, payments, suspended, pc, told, undo, faults, crashes>>

Crash ==
    /\ CanFail
    /\ crashes' = crashes + 1
    /\ pc' = [r \in Ingests |-> IF Ended(r) THEN pc[r] ELSE "dead"]
    /\ undo' = [c \in Undos |-> IF Undoing(c) THEN UndoEnded ELSE undo[c]]
    /\ UNCHANGED <<ledger, keys, payments, suspended, told, faults>>

CheckCall(r) == FindKey(r) \/ ReserveKey(r) \/ DropKey(r) \/ FindDuplicate(r) \/ ReadWallet(r)
Book(r) == BookPayment(r) \/ RefusePayment(r) \/ CompleteKey(r) \/ RemoveKey(r) \/ GiveUp(r)
IngestStep(r) == CheckCall(r) \/ Book(r)
UndoStep(c) == ReadRow(c) \/ PostUndo(c) \/ MarkUndone(c)

Next ==
    \/ \E r \in Ingests : IngestStep(r) \/ CaughtFailure(r) \/ UncaughtFailure(r)
    \/ \E c \in Undos :
          \/ \E p \in Undoable, kind \in Kinds : ReadPayment(c, p, kind) \/ RefuseUndo(c, p, kind)
          \/ UndoStep(c)
          \/ UndoFails(c)
    \/ \E w \in Wallets : SuspendWallet(w)
    \/ \E k \in Keys : KeyExpires(k)
    \/ Crash

Spec == Init /\ [][Next]_vars

-----------------------------------------------------------------------------
Statuses == {"none", "SETTLED", "REFUNDED", "CHARGEBACKED"}

Row ==
    [referenceId : Ingests, type : {"PAYMENT_RECEIVED", "PAYMENT_SPLIT"} \cup Kinds,
     status : {"POSTED"}, original : Nat,
     entries : Seq([account : Wallets \X {"CASH", "PAYABLE", "FEE"}, amount : Int])]

\* The tables hold rows of their schema, on accounts that exist, and every call is at one
\* of its statements.
TypeOK ==
    /\ ledger \in Seq(Row)
    /\ KeysTypeOK
    /\ payments \in [Ingests -> Statuses]
    /\ suspended \subseteq Wallets
    /\ pc \in [Ingests -> Labels]
    /\ told \in [Ingests -> {"nothing", "settled", "duplicate", "failed"}]
    /\ undo \in [Undos -> {NoUndo, UndoEnded} \cup
          [at : {"read", "post", "mark"}, payment : Ingests, kind : Kinds]]
    /\ faults \in Nat /\ crashes \in Nat

\* Calls for one source and external id book one payment, whatever interleaves between
\* the read that looks for a duplicate and the transaction.
OncePerExternalId ==
    \A p, q \in Booked : ExternalOf[p] = ExternalOf[q] /\ ExternalOf[p] # NoExternal => p = q

\* A payment's status names a reversal that is in the ledger: REFUNDED a refund's,
\* CHARGEBACKED a chargeback's, whichever of two overlapping calls came last.
StatusHasItsReversal ==
    \A p \in Ingests, kind \in Kinds : payments[p] = StatusAfter(kind) =>
        \E t \in Reversals(ledger, OriginalOf(p)) : ledger[t].type = kind

\* What entries debit in all.
Debits(entries) ==
    SumFunction([i \in DOMAIN entries |-> IF entries[i].amount > 0 THEN entries[i].amount ELSE 0])

\* Every booking, refund and chargeback of a payment is in its report: reconcilePayment
\* matches a payment, once booked, as long as nothing of it was reversed.
ReportedDebits(p) ==
    SumFunction([t \in DOMAIN ledger |->
        IF t \in PostedFor(ledger, p) THEN Debits(ledger[t].entries) ELSE 0])

Matched(p) ==
    /\ \A t \in PostedFor(ledger, p) : SumOf(ledger[t].entries) = 0
    /\ ReportedDebits(p) = RoundTo(OrderOf[p].amount, Scale)

MatchedUntilReversed ==
    \A p \in Booked : Matched(p) <=> Reversals(ledger, OriginalOf(p)) = {}

\* What a call announced is what it did, as long as the database does not fail and its
\* key does not expire: PAYMENT_FAILED only for what was rolled back.
AnnouncesTruly ==
    faults = 0 => \A r \in Ingests :
        told[r] = "failed" /\ KeyOf[r] \notin Expiring => payments[r] = "none"

\* Retries of one order book it once, as long as the database does not fail and their
\* key does not expire.
OneBookingPerKey ==
    faults = 0 => \A p, q \in Booked :
        KeyOf[p] = KeyOf[q] /\ KeyOf[p] \in Keys \ Expiring => p = q

\* A client is locked out of its key only by a crash, a database error, or a payment that
\* another call had booked under the same external id.
LockedOutByDuplicate ==
    \A k \in Keys : InProgress(k) =>
        \/ faults > 0 \/ crashes > 0
        \/ \E r \in Ingests : KeyOf[r] = k /\ (~Ended(r) \/ told[r] = "duplicate")

-----------------------------------------------------------------------------
(***************************************************************************)
(* The inductive invariant                                                 *)
(***************************************************************************)

\* A row is what booked its payment, or reverses the row that did.
OfBooking(t) ==
    LET p == ledger[t].referenceId
        original == ledger[t].original
    IN  IF original = NoOriginal
          THEN p \in Booked /\ Bookable(OrderOf[p])
               /\ ledger[t].entries = PaymentEntries(OrderOf[p])
          ELSE original \in Originals(p)
               /\ ledger[t].entries = NegatedEntries(ledger[original].entries)

LedgerOfBookings ==
    /\ \A p \in Booked : Originals(p) # {}
    /\ \A p \in Ingests : \A s, t \in Originals(p) : s = t
    /\ \A t \in DOMAIN ledger : OfBooking(t)

\* A refund or chargeback is of a payment that is booked, and marks it after its reversal.
UndosInOrder ==
    \A c \in Undos : Undoing(c) =>
        /\ undo[c].payment \in Booked
        /\ undo[c].at = "mark" =>
              \E t \in Reversals(ledger, OriginalOf(undo[c].payment)) :
                  ledger[t].type = undo[c].kind

\* What is not booked yet.
NothingBookedBefore ==
    \A r \in Ingests :
        /\ pc[r] \in {"idle", "reserve", "drop", "dedupe", "wallet", "giveUp", "book"}
             => payments[r] = "none"
        /\ pc[r] = "removeKey" /\ faults = 0 /\ KeyOf[r] \notin Expiring => payments[r] = "none"

\* The places between the statement that took the key and the one that gives it up.
PastTheKey == {"dedupe", "wallet", "giveUp", "book", "complete", "removeKey"}
Holds(r, k) == KeyOf[r] = k /\ pc[r] \in PastTheKey

\* A key that does not expire is held by one call at a time, and after a booking by the
\* call that booked.
HeldByOne(k) ==
    /\ Exists(k) => ~keys[k].expired
    /\ \A r \in Ingests : Holds(r, k) =>
          InProgress(k) /\ \A q \in Ingests : Holds(q, k) => q = r
    /\ faults = 0 => \A p \in Booked : KeyOf[p] = k =>
          Exists(k) /\ \A r \in Ingests : Holds(r, k) => r = p

KeysAreHeld ==
    /\ \A r \in Ingests : pc[r] \in {"reserve", "drop"} => KeyOf[r] \in Keys
    /\ \A r \in Ingests : pc[r] = "drop" => KeyOf[r] \in Expiring
    /\ \A k \in Keys \ Expiring : HeldByOne(k)

\* A key in progress has its holder, or a call that handed out a duplicate.
KeysInProgress ==
    \A k \in Keys : InProgress(k) =>
        \/ faults > 0 \/ crashes > 0
        \/ \E r \in Ingests : Holds(r, k) \/ (KeyOf[r] = k /\ told[r] = "duplicate")

\* A call announces something only as it ends.
ToldLast == \A r \in Ingests : pc[r] \notin {"returned", "refused"} => told[r] = "nothing"

IInv ==
    /\ TypeOK /\ LedgerOfBookings /\ UndosInOrder
    /\ NothingBookedBefore /\ KeysAreHeld /\ KeysInProgress /\ ToldLast
    /\ OncePerExternalId /\ AnnouncesTruly /\ OneBookingPerKey /\ StatusHasItsReversal

=============================================================================
