---------------------------- MODULE Provisioning ----------------------------
(***************************************************************************)
(* How wallets come to be: POST /auth/register (AuthService.register),     *)
(* POST /wallets (WalletService.createWallet, LedgerService.               *)
(* createAccountsForWallet) and the mapping of external accounts           *)
(* (WalletService.mapExternalAccount), on one database and one pool of     *)
(* connections.                                                            *)
(*                                                                         *)
(* A registration opens an interactive transaction, which keeps a          *)
(* connection, and inside it calls createWallet, whose statements run on   *)
(* connections of their own and commit one by one.                         *)
(*                                                                         *)
(* A call creates at most one wallet: the call's name is the wallet's id.  *)
(***************************************************************************)
EXTENDS Naturals, Sequences, FiniteSets

CONSTANTS
    Registrations,     \* calls of POST /auth/register
    Creations,         \* calls of POST /wallets
    Mappings,          \* calls that map an external account
    Emails, EmailOf,   \* the email each registration names
    ExternalIds, ExternalOf,   \* the provider and external id each mapping names
    AccountTypes,      \* the standard accounts of a wallet, in the order they are made
    Nobody,            \* no wallet
    PoolSize,          \* connections of the pool
    MaxFailures        \* bound on database errors, lost transactions and crashes

Calls == Registrations \cup Creations \cup Mappings
Creators == Registrations \cup Creations

ASSUME CallAssumption ==
    /\ Registrations \cap Creations = {} /\ Creators \cap Mappings = {}
    /\ Nobody \notin Calls
    /\ EmailOf \in [Registrations -> Emails]
    /\ ExternalOf \in [Mappings -> ExternalIds]
ASSUME AccountAssumption == AccountTypes \in Seq(STRING) /\ Len(AccountTypes) > 0
ASSUME BoundAssumption == PoolSize \in Nat /\ MaxFailures \in Nat

VARIABLES
    wallets,      \* the wallets there are
    accounts,     \* how many of the standard accounts each wallet has, in their order
    users,        \* the wallet of the user with each email
    mapping,      \* the wallet each external account is mapped to
    pc,           \* where each call is
    open,         \* the registrations whose transaction is open and keeps a connection
    asked,        \* the wallet each mapping names
    late,         \* history: registrations that began when their email had a user
    failures

vars == <<wallets, accounts, users, mapping, pc, open, asked, late, failures>>

Init ==
    /\ wallets = {}
    /\ accounts = [c \in Creators |-> 0]
    /\ users = [e \in Emails |-> Nobody]
    /\ mapping = [x \in ExternalIds |-> Nobody]
    /\ pc = [c \in Calls |-> "idle"]
    /\ open = {}
    /\ asked = [m \in Mappings |-> Nobody]
    /\ late = {}
    /\ failures = 0

Goto(c, label) == pc' = [pc EXCEPT ![c] = label]

Ended(c) == pc[c] \in {"idle", "done", "refused", "failed"}

\* A statement outside the caller's transaction needs a connection of its own.
ConnectionFree == Cardinality(open) < PoolSize

-----------------------------------------------------------------------------
(***************************************************************************)
(* AuthService.register                                                    *)
(***************************************************************************)

\* Mutant: the email is not looked up.
FindNobody(r) ==
    /\ pc[r] = "idle" /\ ConnectionFree
    /\ late' = IF users[EmailOf[r]] = Nobody THEN late ELSE late \cup {r}
    /\ Goto(r, "begin")
    /\ UNCHANGED <<wallets, accounts, users, mapping, open, asked, failures>>

FindUser(r) ==
    /\ pc[r] = "idle" /\ ConnectionFree
    /\ \/ users[EmailOf[r]] = Nobody /\ Goto(r, "begin") /\ UNCHANGED late
       \/ /\ users[EmailOf[r]] # Nobody
          /\ Goto(r, "refused") /\ late' = late \cup {r}
    /\ UNCHANGED <<wallets, accounts, users, mapping, open, asked, failures>>

BeginTransaction(r) ==
    /\ pc[r] = "begin" /\ ConnectionFree
    /\ open' = open \cup {r}
    /\ Goto(r, "wallet")
    /\ UNCHANGED <<wallets, accounts, users, mapping, asked, late, failures>>

\* The user and the commit, on the transaction's connection.  The unique index on the
\* email refuses a second user; a transaction that timed out refuses everything.
CreateUser(r) ==
    /\ pc[r] = "user"
    /\ \/ /\ r \in open /\ users[EmailOf[r]] = Nobody
          /\ users' = [users EXCEPT ![EmailOf[r]] = r] /\ Goto(r, "done")
       \/ /\ r \in open /\ users[EmailOf[r]] # Nobody
          /\ Goto(r, "refused") /\ UNCHANGED users
       \/ r \notin open /\ Goto(r, "failed") /\ UNCHANGED users
    /\ open' = open \ {r}
    /\ UNCHANGED <<wallets, accounts, mapping, asked, late, failures>>

-----------------------------------------------------------------------------
(***************************************************************************)
(* WalletService.createWallet, called by a registration or by POST         *)
(* /wallets: no statement of it is in a transaction                        *)
(***************************************************************************)

CreateWallet(c) ==
    /\ pc[c] = IF c \in Registrations THEN "wallet" ELSE "idle"
    /\ ConnectionFree
    /\ wallets' = wallets \cup {c}
    /\ Goto(c, "accounts")
    /\ UNCHANGED <<accounts, users, mapping, open, asked, late, failures>>

AfterAccounts(c) == IF c \in Registrations THEN "user" ELSE "done"

\* Mutant: createWallet does not wait for the accounts.
CreateAccountUnawaited(c) ==
    /\ pc[c] = "accounts" /\ ConnectionFree
    /\ accounts' = [accounts EXCEPT ![c] = @ + 1]
    /\ Goto(c, AfterAccounts(c))
    /\ UNCHANGED <<wallets, users, mapping, open, asked, late, failures>>

\* The next standard account: nobody else makes accounts for a new wallet, so the look
\* for an existing one finds none.
CreateAccount(c) ==
    /\ pc[c] = "accounts" /\ ConnectionFree
    /\ accounts' = [accounts EXCEPT ![c] = @ + 1]
    /\ Goto(c, IF accounts[c] + 1 = Len(AccountTypes) THEN AfterAccounts(c) ELSE "accounts")
    /\ UNCHANGED <<wallets, users, mapping, open, asked, late, failures>>

-----------------------------------------------------------------------------
(***************************************************************************)
(* WalletService.mapExternalAccount                                        *)
(***************************************************************************)

FindWallet(m, w) ==
    /\ pc[m] = "idle" /\ ConnectionFree
    /\ asked' = [asked EXCEPT ![m] = w]
    /\ Goto(m, IF w \in wallets THEN "existing" ELSE "refused")
    /\ UNCHANGED <<wallets, accounts, users, mapping, open, late, failures>>

\* A mapping to the same wallet is the answer, one to another a conflict.
FindMapping(m) ==
    LET existing == mapping[ExternalOf[m]] IN
    /\ pc[m] = "existing" /\ ConnectionFree
    /\ \/ existing = Nobody /\ Goto(m, "map")
       \/ existing # Nobody /\ existing = asked[m] /\ Goto(m, "done")
       \/ existing # Nobody /\ existing # asked[m] /\ Goto(m, "refused")
    /\ UNCHANGED <<wallets, accounts, users, mapping, open, asked, late, failures>>

\* Mutant: the mapping is written whatever is there.
UpsertMapping(m) ==
    /\ pc[m] = "map" /\ ConnectionFree
    /\ mapping' = [mapping EXCEPT ![ExternalOf[m]] = asked[m]] /\ Goto(m, "done")
    /\ UNCHANGED <<wallets, accounts, users, open, asked, late, failures>>

\* The unique index refuses a mapping another call made first, to whatever wallet.
CreateMapping(m) ==
    /\ pc[m] = "map" /\ ConnectionFree
    /\ \/ /\ mapping[ExternalOf[m]] = Nobody
          /\ mapping' = [mapping EXCEPT ![ExternalOf[m]] = asked[m]] /\ Goto(m, "done")
       \/ mapping[ExternalOf[m]] # Nobody /\ Goto(m, "refused") /\ UNCHANGED mapping
    /\ UNCHANGED <<wallets, accounts, users, open, asked, late, failures>>

-----------------------------------------------------------------------------
(***************************************************************************)
(* Failures                                                                *)
(***************************************************************************)

NeedsConnection(c) == pc[c] \in {"begin", "wallet", "accounts", "existing", "map"}

\* Mutant: only the wait for a transaction has a limit.
BeginTimesOut(c) ==
    /\ pc[c] = "begin" /\ ~ConnectionFree
    /\ Goto(c, "failed")
    /\ UNCHANGED <<wallets, accounts, users, mapping, open, asked, late, failures>>

\* The pool gives no connection within connectionTimeoutMillis: the statement throws, and
\* a transaction around it rolls back.
ConnectionTimesOut(c) ==
    /\ NeedsConnection(c) /\ ~ConnectionFree
    /\ Goto(c, "failed")
    /\ open' = open \ {c}
    /\ UNCHANGED <<wallets, accounts, users, mapping, asked, late, failures>>

\* Mutant: the transaction around a failed statement stays open.
StatementFailsInside(c) ==
    /\ ~Ended(c) /\ failures < MaxFailures
    /\ failures' = failures + 1
    /\ Goto(c, "failed")
    /\ UNCHANGED <<wallets, accounts, users, mapping, open, asked, late>>

\* A statement fails: the call ends, and a transaction around it rolls back.
StatementFails(c) ==
    /\ ~Ended(c) /\ failures < MaxFailures
    /\ failures' = failures + 1
    /\ Goto(c, "failed")
    /\ open' = open \ {c}
    /\ UNCHANGED <<wallets, accounts, users, mapping, asked, late>>

\* The transaction's own time is up while createWallet still works: it rolls back, and the
\* handler learns of it at its next statement.
TransactionTimesOut(r) ==
    /\ r \in open /\ failures < MaxFailures
    /\ failures' = failures + 1
    /\ open' = open \ {r}
    /\ UNCHANGED <<wallets, accounts, users, mapping, pc, asked, late>>

\* The process dies, and PostgreSQL rolls back what was open.
Crash ==
    /\ failures < MaxFailures
    /\ failures' = failures + 1
    /\ pc' = [c \in Calls |-> IF Ended(c) THEN pc[c] ELSE "failed"]
    /\ open' = {}
    /\ UNCHANGED <<wallets, accounts, users, mapping, asked, late>>

Register(r) == FindUser(r) \/ BeginTransaction(r) \/ CreateUser(r)
Provision(c) == CreateWallet(c) \/ CreateAccount(c)
MapExternal(m) == FindMapping(m) \/ CreateMapping(m)

Next ==
    \/ \E r \in Registrations : Register(r) \/ TransactionTimesOut(r)
    \/ \E c \in Creators : Provision(c)
    \/ \E m \in Mappings : MapExternal(m) \/ \E w \in Creators : FindWallet(m, w)
    \/ \E c \in Calls : ConnectionTimesOut(c) \/ StatementFails(c)
    \/ Crash

Spec == Init /\ [][Next]_vars

\* A call that was sent either gets the connection it waits for or its time is up.
Proceed(c) ==
    /\ pc[c] # "idle"
    /\ \/ c \in Registrations /\ Register(c)
       \/ c \in Creators /\ Provision(c)
       \/ c \in Mappings /\ MapExternal(c)
       \/ ConnectionTimesOut(c)

FairSpec == Spec /\ \A c \in Calls : WF_vars(Proceed(c))

-----------------------------------------------------------------------------
Labels ==
    {"idle", "begin", "wallet", "accounts", "user", "existing", "map",
     "done", "refused", "failed"}

\* The tables hold rows of their schema, and only registrations at work keep connections.
TypeOK ==
    /\ wallets \subseteq Creators
    /\ accounts \in [Creators -> 0 .. Len(AccountTypes)]
    /\ users \in [Emails -> Registrations \cup {Nobody}]
    /\ mapping \in [ExternalIds -> Creators \cup {Nobody}]
    /\ pc \in [Calls -> Labels]
    /\ open \subseteq {r \in Registrations : pc[r] \in {"wallet", "accounts", "user"}}
    /\ asked \in [Mappings -> Creators \cup {Nobody}]
    /\ late \subseteq Registrations
    /\ failures \in Nat

Provisioned(w) == w \in wallets /\ accounts[w] = Len(AccountTypes)

\* "Every wallet gets: CASH, PAYABLE, RECEIVABLE, CREDIT, FEE, SUSPENSE accounts": whoever
\* may use a wallet, a user or a client that was answered, has all its accounts.
UsableMeansProvisioned ==
    /\ \A e \in Emails : users[e] # Nobody => Provisioned(users[e])
    /\ \A c \in Creators : pc[c] = "done" => Provisioned(c)

\* A registration leaves a wallet that no user has only when something failed, or when
\* another registration of its email overtook it: one that begins after its email is
\* taken leaves nothing.
LeftoverHasACause ==
    \A r \in Registrations : r \in wallets /\ Ended(r) /\ users[EmailOf[r]] # r =>
        \/ pc[r] = "failed"
        \/ users[EmailOf[r]] # Nobody /\ r \notin late

\* What mapExternalAccount answered stays true: the external account resolves to the
\* wallet it was mapped to.
AnswersStayTrue ==
    \A m \in Mappings : pc[m] = "done" =>
        mapping[ExternalOf[m]] = asked[m] /\ asked[m] \in wallets

(***************************************************************************)
(* The inductive invariant behind these: what the place of a call says of  *)
(* its wallet, of its email's user and of its external account.            *)
(***************************************************************************)

\* A wallet gets its accounts one by one, and its creator goes on when it has them all.
ProvisionedFirst ==
    \A c \in Creators :
        /\ pc[c] \in {"idle", "begin", "wallet"} => accounts[c] = 0
        /\ pc[c] = "accounts" => c \in wallets /\ accounts[c] < Len(AccountTypes)
        /\ pc[c] \in {"user", "done"} => Provisioned(c)

\* A user has the wallet of the registration that made it.
UsersAreRegistered ==
    /\ \A e \in Emails : users[e] # Nobody => EmailOf[users[e]] = e /\ pc[users[e]] = "done"
    /\ \A r \in Registrations :
          /\ pc[r] = "done" => users[EmailOf[r]] = r
          /\ pc[r] = "refused" => users[EmailOf[r]] # Nobody

\* A wallet is not there before its registration makes it, and a late registration makes none.
LateLeavesNothing ==
    \A r \in Registrations :
        /\ r \in wallets => pc[r] \notin {"idle", "begin", "wallet"}
        /\ r \in late => r \notin wallets /\ pc[r] = "refused"

\* A mapping is written for a wallet that was found.
MappedWalletsExist ==
    \A m \in Mappings : pc[m] \in {"existing", "map"} => asked[m] \in wallets

IInv ==
    /\ TypeOK /\ ProvisionedFirst /\ UsersAreRegistered /\ LateLeavesNothing
    /\ MappedWalletsExist /\ AnswersStayTrue

\* Registrations that keep every connection and each wait for one more do not wait for
\* ever: every call that was sent ends.
EveryCallEnds == \A c \in Calls : (pc[c] # "idle") ~> Ended(c)

=============================================================================
