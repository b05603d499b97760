------------------------- MODULE ProvisioningProofs -------------------------
(***************************************************************************)
(* The invariants of Provisioning, for any registrations, creations and    *)
(* mappings, any list of standard accounts, any size of the pool and any   *)
(* number of failures.                                                     *)
(***************************************************************************)
EXTENDS Provisioning, TLAPS

\* The steps a call takes, failures included, apart from the death of the process.
CallStep(c) ==
    \/ c \in Registrations /\ (FindUser(c) \/ BeginTransaction(c) \/ CreateUser(c)
                                 \/ TransactionTimesOut(c))
    \/ c \in Creators /\ (CreateWallet(c) \/ CreateAccount(c))
    \/ c \in Mappings /\ (FindMapping(c) \/ CreateMapping(c) \/ \E w \in Creators : FindWallet(c, w))
    \/ ConnectionTimesOut(c) \/ StatementFails(c)

LEMMA NextIsCallStep ==
    ASSUME Next
    PROVE  (\E c \in Calls : CallStep(c)) \/ Crash
    BY DEF Next, CallStep, Register, Provision, MapExternal, Calls, Creators

\* A call moves only itself.
LEMMA OthersStay ==
    ASSUME TypeOK, NEW c \in Calls, CallStep(c), NEW d \in Calls, d # c
    PROVE  pc'[d] = pc[d]
    BY DEF TypeOK, CallStep, FindUser, BeginTransaction, CreateUser, TransactionTimesOut,
           CreateWallet, CreateAccount, FindMapping, CreateMapping, FindWallet,
           ConnectionTimesOut, StatementFails, Goto

-----------------------------------------------------------------------------
(***************************************************************************)
(* Type correctness                                                        *)
(***************************************************************************)

LEMMA TypeInit == Init => TypeOK
    BY CallAssumption, AccountAssumption
       DEF Init, TypeOK, Labels

LEMMA TypeStep ==
    ASSUME TypeOK, ProvisionedFirst, [Next]_vars
    PROVE  TypeOK'
<1> USE CallAssumption, AccountAssumption
<1>1. ASSUME NEW c \in Calls, CallStep(c) PROVE TypeOK'
    <2> USE <1>1
    <2>1. CASE c \in Registrations /\ FindUser(c)
        BY <2>1 DEF TypeOK, FindUser, Goto, Labels, Calls, Creators
    <2>2. CASE c \in Registrations /\ BeginTransaction(c)
        BY <2>2 DEF TypeOK, BeginTransaction, Goto, Labels, Calls, Creators
    <2>3. CASE c \in Registrations /\ CreateUser(c)
        <3>1. pc' \in [Calls -> Labels] /\ pc'[c] \in {"done", "refused", "failed"}
            BY <2>3 DEF TypeOK, CreateUser, Goto, Labels, Calls, Creators
        <3>2. open' \subseteq {r \in Registrations : pc'[r] \in {"wallet", "accounts", "user"}}
            BY <2>3 DEF TypeOK, CreateUser, Goto, Calls, Creators
        <3>3. users' \in [Emails -> Registrations \cup {Nobody}]
            BY <2>3 DEF TypeOK, CreateUser
        <3> QED
            BY <2>3, <3>1, <3>2, <3>3 DEF TypeOK, CreateUser
    <2>4. CASE c \in Registrations /\ TransactionTimesOut(c)
        BY <2>4 DEF TypeOK, TransactionTimesOut
    <2>5. CASE c \in Creators /\ CreateWallet(c)
        BY <2>5 DEF TypeOK, CreateWallet, Goto, Labels, Calls, Creators
    <2>6. CASE c \in Creators /\ CreateAccount(c)
        <3>1. accounts[c] + 1 \in 0 .. Len(AccountTypes)
            BY <2>6 DEF TypeOK, ProvisionedFirst, CreateAccount
        <3>2. accounts' \in [Creators -> 0 .. Len(AccountTypes)]
            BY <2>6, <3>1 DEF TypeOK, CreateAccount
        <3>3. /\ pc' \in [Calls -> Labels]
              /\ open' \subseteq {r \in Registrations : pc'[r] \in {"wallet", "accounts", "user"}}
            BY <2>6 DEF TypeOK, CreateAccount, Goto, Labels, Calls, Creators, AfterAccounts
        <3> QED
            BY <2>6, <3>2, <3>3 DEF TypeOK, CreateAccount
    <2>7. CASE c \in Mappings /\ FindMapping(c)
        BY <2>7 DEF TypeOK, FindMapping, Goto, Labels, Calls, Creators
    <2>8. CASE c \in Mappings /\ CreateMapping(c)
        BY <2>8 DEF TypeOK, CreateMapping, Goto, Labels, Calls, Creators
    <2>9. ASSUME c \in Mappings, NEW w \in Creators, FindWallet(c, w) PROVE TypeOK'
        BY <2>9 DEF TypeOK, FindWallet, Goto, Labels, Calls, Creators
    <2>10. CASE ConnectionTimesOut(c)
        BY <2>10 DEF TypeOK, ConnectionTimesOut, Goto, Labels, Calls, Creators
    <2>11. CASE StatementFails(c)
        BY <2>11 DEF TypeOK, StatementFails, Goto, Labels, Calls, Creators
    <2> QED
        BY <2>1, <2>2, <2>3, <2>4, <2>5, <2>6, <2>7, <2>8, <2>9, <2>10, <2>11 DEF CallStep
<1>2. CASE Crash
    BY <1>2 DEF TypeOK, Crash, Labels, Ended
<1>3. CASE UNCHANGED vars
    BY <1>3 DEF TypeOK, vars
<1> QED
    BY <1>1, <1>2, <1>3, NextIsCallStep

-----------------------------------------------------------------------------
(***************************************************************************)
(* Wallets and their accounts                                              *)
(***************************************************************************)

\* Wallets and accounts are never taken away, and only their creator adds to them.
LEMMA WalletsGrow ==
    ASSUME TypeOK, ProvisionedFirst, [Next]_vars
    PROVE  \A w \in Creators : Provisioned(w) => Provisioned(w)'
<1> SUFFICES ASSUME NEW w \in Creators, Provisioned(w) PROVE Provisioned(w)'
    OBVIOUS
<1>1. w \in wallets'
    BY DEF Next, Register, FindUser, BeginTransaction, CreateUser, TransactionTimesOut,
           Provision, CreateWallet, CreateAccount, MapExternal, FindMapping, CreateMapping,
           FindWallet, ConnectionTimesOut, StatementFails, Crash, vars, Provisioned
<1>2. CASE accounts' = accounts
    BY <1>1, <1>2 DEF Provisioned
<1>3. ASSUME NEW c \in Creators, CreateAccount(c) PROVE Provisioned(w)'
    <2>1. c # w
        BY <1>3, AccountAssumption DEF CreateAccount, ProvisionedFirst, Provisioned, TypeOK
    <2> QED
        BY <1>1, <1>3, <2>1 DEF CreateAccount, Provisioned, TypeOK
<1>4. accounts' = accounts \/ \E c \in Creators : CreateAccount(c)
    BY DEF Next, Register, FindUser, BeginTransaction, CreateUser, TransactionTimesOut,
           Provision, CreateWallet, MapExternal, FindMapping, CreateMapping,
           FindWallet, ConnectionTimesOut, StatementFails, Crash, vars
<1> QED
    BY <1>2, <1>3, <1>4

LEMMA ProvisionedFirstStep ==
    ASSUME TypeOK, ProvisionedFirst, [Next]_vars
    PROVE  ProvisionedFirst'
<1> USE CallAssumption, AccountAssumption
<1> SUFFICES ASSUME NEW d \in Creators
             PROVE  /\ pc'[d] \in {"idle", "begin", "wallet"} => accounts'[d] = 0
                    /\ pc'[d] = "accounts" => d \in wallets' /\ accounts'[d] < Len(AccountTypes)
                    /\ pc'[d] \in {"user", "done"} => Provisioned(d)'
    BY DEF ProvisionedFirst
<1>1. ASSUME NEW c \in Calls, CallStep(c)
      PROVE  /\ pc'[d] \in {"idle", "begin", "wallet"} => accounts'[d] = 0
             /\ pc'[d] = "accounts" => d \in wallets' /\ accounts'[d] < Len(AccountTypes)
             /\ pc'[d] \in {"user", "done"} => Provisioned(d)'
    <2>1. CASE c = d
        <3>1. CASE d \in Registrations /\ FindUser(d)
            BY <3>1 DEF TypeOK, FindUser, Goto, Calls, Creators, ProvisionedFirst
        <3>2. CASE d \in Registrations /\ BeginTransaction(d)
            BY <3>2 DEF TypeOK, BeginTransaction, Goto, Calls, Creators, ProvisionedFirst
        <3>3. CASE d \in Registrations /\ CreateUser(d)
            BY <3>3, WalletsGrow DEF TypeOK, CreateUser, Goto, Calls, Creators, ProvisionedFirst
        <3>4. CASE d \in Registrations /\ TransactionTimesOut(d)
            BY <3>4 DEF TransactionTimesOut, ProvisionedFirst, Provisioned
        <3>5. CASE CreateWallet(d)
            <4>1. accounts[d] = 0
                BY <3>5 DEF CreateWallet, ProvisionedFirst
            <4> QED
                BY <3>5, <4>1 DEF TypeOK, CreateWallet, Goto, Calls, Creators
        <3>6. CASE CreateAccount(d)
            <4>1. accounts[d] \in Nat /\ accounts[d] < Len(AccountTypes) /\ d \in wallets
                BY <3>6 DEF CreateAccount, ProvisionedFirst, TypeOK
            <4>2. d \in wallets' /\ accounts'[d] = accounts[d] + 1
                BY <3>6, <4>1 DEF CreateAccount, TypeOK
            <4>3. pc'[d] = IF accounts[d] + 1 = Len(AccountTypes) THEN AfterAccounts(d)
                                                                 ELSE "accounts"
                BY <3>6 DEF CreateAccount, Goto, TypeOK, Calls, Creators
            <4>4. AfterAccounts(d) \in {"user", "done"}
                BY DEF AfterAccounts
            <4>5. Len(AccountTypes) \in Nat
                OBVIOUS
            <4> QED
                BY <4>1, <4>2, <4>3, <4>4, <4>5 DEF Provisioned
        <3>7. CASE ConnectionTimesOut(d) \/ StatementFails(d)
            BY <3>7 DEF TypeOK, ConnectionTimesOut, StatementFails, Goto, Calls, Creators
        <3> QED
            BY <1>1, <2>1, <3>1, <3>2, <3>3, <3>4, <3>5, <3>6, <3>7 DEF CallStep
    <2>2. CASE c # d
        <3>1. pc'[d] = pc[d]
            BY <1>1, <2>2, OthersStay DEF Calls, Creators
        <3>2. accounts'[d] = accounts[d] /\ (d \in wallets => d \in wallets')
            BY <1>1, <2>2 DEF CallStep, TypeOK, FindUser, BeginTransaction, CreateUser,
               TransactionTimesOut, CreateWallet, CreateAccount, FindMapping, CreateMapping,
               FindWallet, ConnectionTimesOut, StatementFails
        <3> QED
            BY <3>1, <3>2 DEF ProvisionedFirst, Provisioned
    <2> QED
        BY <2>1, <2>2
<1>2. CASE Crash
    BY <1>2 DEF Crash, ProvisionedFirst, Provisioned, Ended, TypeOK, Calls, Creators
<1>3. CASE UNCHANGED vars
    BY <1>3 DEF ProvisionedFirst, Provisioned, vars
<1> QED
    BY <1>1, <1>2, <1>3, NextIsCallStep

-----------------------------------------------------------------------------
(***************************************************************************)
(* Users and their registrations                                           *)
(***************************************************************************)

\* Only CreateUser writes users, and only for its own registration's email.
LEMMA UsersStay ==
    ASSUME TypeOK, NEW c \in Calls, CallStep(c)
    PROVE  \/ users' = users
           \/ /\ c \in Registrations /\ pc'[c] = "done" /\ users[EmailOf[c]] = Nobody
              /\ users' = [users EXCEPT ![EmailOf[c]] = c]
<1>1. CASE c \in Registrations /\ CreateUser(c)
    BY <1>1, CallAssumption DEF CreateUser, Goto, TypeOK, Calls
<1>2. CASE ~(c \in Registrations /\ CreateUser(c))
    BY <1>2 DEF CallStep, FindUser, BeginTransaction, TransactionTimesOut, CreateWallet,
       CreateAccount, FindMapping, CreateMapping, FindWallet, ConnectionTimesOut, StatementFails
<1> QED
    BY <1>1, <1>2

\* What a registration's last step says of its email.
LEMMA RegistrationEnds ==
    ASSUME TypeOK, UsersAreRegistered, NEW r \in Registrations, CallStep(r)
    PROVE  /\ pc'[r] = "done" => users'[EmailOf[r]] = r
           /\ pc'[r] = "refused" => users'[EmailOf[r]] # Nobody
           /\ pc[r] # "done"
<1> USE CallAssumption
<1>1. CASE FindUser(r)
    BY <1>1 DEF FindUser, Goto, TypeOK, Calls, Creators
<1>2. CASE BeginTransaction(r)
    BY <1>2 DEF BeginTransaction, Goto, TypeOK, Calls, Creators
<1>3. CASE CreateUser(r)
    BY <1>3 DEF CreateUser, Goto, TypeOK, Calls, Creators
<1>4. CASE TransactionTimesOut(r)
    BY <1>4 DEF TransactionTimesOut, TypeOK
<1>5. CASE CreateWallet(r) \/ CreateAccount(r)
    BY <1>5 DEF CreateWallet, CreateAccount, AfterAccounts, Goto, TypeOK, Calls, Creators
<1>6. CASE ConnectionTimesOut(r) \/ StatementFails(r)
    BY <1>6 DEF ConnectionTimesOut, NeedsConnection, StatementFails, Ended, Goto, TypeOK,
       Calls, Creators
<1> QED
    BY <1>1, <1>2, <1>3, <1>4, <1>5, <1>6 DEF CallStep, Creators

LEMMA UsersStep ==
    ASSUME TypeOK, UsersAreRegistered, [Next]_vars
    PROVE  UsersAreRegistered'
<1> USE CallAssumption
<1>1. ASSUME NEW c \in Calls, CallStep(c) PROVE UsersAreRegistered'
    <2>1. ASSUME NEW e \in Emails, users'[e] # Nobody
          PROVE  EmailOf[users'[e]] = e /\ pc'[users'[e]] = "done"
        <3>1. CASE users'[e] = users[e]
            <4>1. users[e] \in Registrations /\ EmailOf[users[e]] = e /\ pc[users[e]] = "done"
                BY <2>1, <3>1 DEF TypeOK, UsersAreRegistered
            <4>2. c # users[e]
                BY <1>1, <4>1, RegistrationEnds
            <4> QED
                BY <1>1, <3>1, <4>1, <4>2, OthersStay DEF Calls
        <3>2. CASE users'[e] # users[e]
            BY <1>1, <3>2, UsersStay DEF TypeOK
        <3> QED
            BY <3>1, <3>2
    <2>2. ASSUME NEW r \in Registrations
          PROVE  /\ pc'[r] = "done" => users'[EmailOf[r]] = r
                 /\ pc'[r] = "refused" => users'[EmailOf[r]] # Nobody
        <3>1. CASE c = r
            BY <1>1, <3>1, RegistrationEnds
        <3>2. CASE c # r
            <4>1. pc'[r] = pc[r]
                BY <1>1, <3>2, OthersStay DEF Calls
            <4>2. users[EmailOf[r]] # Nobody => users'[EmailOf[r]] = users[EmailOf[r]]
                BY <1>1, UsersStay DEF TypeOK
            <4> QED
                BY <4>1, <4>2 DEF UsersAreRegistered, Calls, Creators
        <3> QED
            BY <3>1, <3>2
    <2> QED
        BY <2>1, <2>2 DEF UsersAreRegistered
<1>2. CASE Crash
    <2>1. \A r \in Registrations : pc'[r] \in {"done", "refused"} <=> pc[r] \in {"done", "refused"}
        BY <1>2 DEF Crash, Ended, Calls, Creators
    <2>2. \A r \in Registrations : pc[r] \in {"done", "refused"} => pc'[r] = pc[r]
        BY <1>2 DEF Crash, Ended, Calls, Creators
    <2> QED
        BY <1>2, <2>1, <2>2 DEF Crash, UsersAreRegistered, TypeOK
<1>3. CASE UNCHANGED vars
    BY <1>3 DEF UsersAreRegistered, vars
<1> QED
    BY <1>1, <1>2, <1>3, NextIsCallStep

-----------------------------------------------------------------------------
(***************************************************************************)
(* Registrations that leave a wallet behind                                *)
(***************************************************************************)

LEMMA LateStep ==
    ASSUME TypeOK, LateLeavesNothing, [Next]_vars
    PROVE  LateLeavesNothing'
<1> USE CallAssumption
<1> SUFFICES ASSUME NEW r \in Registrations
             PROVE  /\ r \in wallets' => pc'[r] \notin {"idle", "begin", "wallet"}
                    /\ r \in late' => r \notin wallets' /\ pc'[r] = "refused"
    BY DEF LateLeavesNothing
<1>1. ASSUME NEW c \in Calls, CallStep(c)
      PROVE  /\ r \in wallets' => pc'[r] \notin {"idle", "begin", "wallet"}
             /\ r \in late' => r \notin wallets' /\ pc'[r] = "refused"
    <2>1. CASE c = r
        <3>1. CASE FindUser(r)
            BY <3>1 DEF FindUser, Goto, TypeOK, Calls, Creators, LateLeavesNothing
        <3>2. CASE BeginTransaction(r) \/ CreateUser(r)
            BY <3>2 DEF BeginTransaction, CreateUser, Goto, TypeOK, Calls, Creators,
               LateLeavesNothing
        <3>3. CASE TransactionTimesOut(r)
            BY <3>3 DEF TransactionTimesOut, LateLeavesNothing
        <3>4. CASE CreateWallet(r) \/ CreateAccount(r)
            BY <3>4 DEF CreateWallet, CreateAccount, AfterAccounts, Goto, TypeOK, Calls, Creators,
               LateLeavesNothing
        <3>5. CASE ConnectionTimesOut(r) \/ StatementFails(r)
            BY <3>5 DEF ConnectionTimesOut, NeedsConnection, StatementFails, Ended, Goto, TypeOK,
               Calls, Creators, LateLeavesNothing
        <3> QED
            BY <1>1, <2>1, <3>1, <3>2, <3>3, <3>4, <3>5 DEF CallStep, Creators
    <2>2. CASE c # r
        <3>1. pc'[r] = pc[r]
            BY <1>1, <2>2, OthersStay DEF Calls
        <3>2. (r \in wallets <=> r \in wallets') /\ (r \in late <=> r \in late')
            BY <1>1, <2>2 DEF CallStep, FindUser, BeginTransaction, CreateUser,
               TransactionTimesOut, CreateWallet, CreateAccount, FindMapping, CreateMapping,
               FindWallet, ConnectionTimesOut, StatementFails
        <3> QED
            BY <3>1, <3>2 DEF LateLeavesNothing
    <2> QED
        BY <2>1, <2>2
<1>2. CASE Crash
    BY <1>2 DEF Crash, Ended, LateLeavesNothing, Calls, Creators
<1>3. CASE UNCHANGED vars
    BY <1>3 DEF LateLeavesNothing, vars
<1> QED
    BY <1>1, <1>2, <1>3, NextIsCallStep

-----------------------------------------------------------------------------
(***************************************************************************)
(* External accounts                                                       *)
(***************************************************************************)

\* A mapping that was made is never changed, and one is made only by CreateMapping.
LEMMA MappingStays ==
    ASSUME TypeOK, [Next]_vars, NEW x \in ExternalIds, mapping[x] # Nobody
    PROVE  mapping'[x] = mapping[x]
<1>1. ASSUME NEW c \in Calls, CallStep(c) PROVE mapping'[x] = mapping[x]
    BY <1>1 DEF CallStep, TypeOK, FindUser, BeginTransaction, CreateUser,
       TransactionTimesOut, CreateWallet, CreateAccount, FindMapping, CreateMapping,
       FindWallet, ConnectionTimesOut, StatementFails
<1>2. CASE Crash \/ UNCHANGED vars
    BY <1>2 DEF Crash, vars
<1> QED
    BY <1>1, <1>2, NextIsCallStep

LEMMA MappingsStep ==
    ASSUME TypeOK, MappedWalletsExist, AnswersStayTrue, [Next]_vars
    PROVE  MappedWalletsExist' /\ AnswersStayTrue'
<1> USE CallAssumption
<1>w. wallets \subseteq wallets'
    BY DEF Next, Register, FindUser, BeginTransaction, CreateUser, TransactionTimesOut,
           Provision, CreateWallet, CreateAccount, MapExternal, FindMapping, CreateMapping,
           FindWallet, ConnectionTimesOut, StatementFails, Crash, vars
<1> SUFFICES ASSUME NEW m \in Mappings
             PROVE  /\ pc'[m] \in {"existing", "map"} => asked'[m] \in wallets'
                    /\ pc'[m] = "done" => /\ mapping'[ExternalOf[m]] = asked'[m]
                                          /\ asked'[m] \in wallets'
    BY DEF MappedWalletsExist, AnswersStayTrue
<1>n. Nobody \notin wallets
    BY DEF TypeOK, Calls, Creators
<1>s. ASSUME pc'[m] = pc[m], asked'[m] = asked[m]
      PROVE  /\ pc'[m] \in {"existing", "map"} => asked'[m] \in wallets'
             /\ pc'[m] = "done" => /\ mapping'[ExternalOf[m]] = asked'[m]
                                   /\ asked'[m] \in wallets'
    BY <1>s, <1>w, <1>n, MappingStays DEF MappedWalletsExist, AnswersStayTrue
<1>1. ASSUME NEW c \in Calls, CallStep(c)
      PROVE  /\ pc'[m] \in {"existing", "map"} => asked'[m] \in wallets'
             /\ pc'[m] = "done" => /\ mapping'[ExternalOf[m]] = asked'[m]
                                   /\ asked'[m] \in wallets'
    <2>1. CASE c = m
        <3>1. ASSUME NEW w \in Creators, FindWallet(m, w)
              PROVE  pc'[m] \in {"existing", "refused"} /\ (pc'[m] = "existing" => asked'[m] \in wallets')
            BY <3>1 DEF FindWallet, Goto, TypeOK, Calls
        <3>2. CASE FindMapping(m)
            BY <3>2, <1>n DEF FindMapping, Goto, TypeOK, Calls, MappedWalletsExist
        <3>3. CASE CreateMapping(m)
            BY <3>3 DEF CreateMapping, Goto, TypeOK, Calls, MappedWalletsExist
        <3>4. CASE ConnectionTimesOut(m) \/ StatementFails(m)
            BY <3>4 DEF ConnectionTimesOut, StatementFails, Goto, TypeOK, Calls
        <3> QED
            BY <1>1, <2>1, <3>1, <3>2, <3>3, <3>4 DEF CallStep, Creators
    <2>2. CASE c # m
        <3>1. pc'[m] = pc[m]
            BY <1>1, <2>2, OthersStay DEF Calls
        <3>2. asked'[m] = asked[m]
            BY <1>1, <2>2 DEF CallStep, TypeOK, FindUser, BeginTransaction, CreateUser,
               TransactionTimesOut, CreateWallet, CreateAccount, FindMapping, CreateMapping,
               FindWallet, ConnectionTimesOut, StatementFails
        <3> QED
            BY <1>s, <3>1, <3>2
    <2> QED
        BY <2>1, <2>2
<1>2. CASE Crash
    <2>1. pc'[m] = pc[m] \/ pc'[m] = "failed"
        BY <1>2 DEF Crash, Calls
    <2> QED
        BY <1>2, <1>s, <2>1 DEF Crash
<1>3. CASE UNCHANGED vars
    BY <1>3, <1>s DEF vars
<1> QED
    BY <1>1, <1>2, <1>3, NextIsCallStep

-----------------------------------------------------------------------------
(***************************************************************************)
(* The theorems                                                            *)
(***************************************************************************)

LEMMA InvariantInit == Init => IInv
<1> SUFFICES ASSUME Init PROVE IInv
    OBVIOUS
<1>1. TypeOK
    BY TypeInit
<1>2. ProvisionedFirst /\ UsersAreRegistered /\ LateLeavesNothing
    BY CallAssumption
       DEF Init, ProvisionedFirst, UsersAreRegistered, LateLeavesNothing, Calls, Creators
<1>3. MappedWalletsExist /\ AnswersStayTrue
    BY DEF Init, MappedWalletsExist, AnswersStayTrue, Calls
<1> QED
    BY <1>1, <1>2, <1>3 DEF IInv

LEMMA InvariantStep == IInv /\ [Next]_vars => IInv'
    BY TypeStep, ProvisionedFirstStep, UsersStep, LateStep, MappingsStep DEF IInv

\* The invariant is inductive.
LEMMA Inductive == Spec => []IInv
    BY InvariantInit, InvariantStep, PTL DEF Spec

\* The tables hold rows of their schema, and only registrations at work keep connections
\* of the pool.
THEOREM TypeCorrect == Spec => []TypeOK
<1>1. IInv => TypeOK
    BY DEF IInv
<1> QED
    BY <1>1, Inductive, PTL

\* A user's wallet, and a wallet a client was given, has all its standard accounts,
\* whatever failed while others were made.
THEOREM UsableIsProvisioned == Spec => []UsableMeansProvisioned
<1>1. IInv => UsableMeansProvisioned
    <2> SUFFICES ASSUME IInv PROVE UsableMeansProvisioned
        OBVIOUS
    <2>1. ASSUME NEW e \in Emails, users[e] # Nobody PROVE Provisioned(users[e])
        BY <2>1 DEF IInv, TypeOK, UsersAreRegistered, ProvisionedFirst, Creators
    <2>2. ASSUME NEW c \in Creators, pc[c] = "done" PROVE Provisioned(c)
        BY <2>2 DEF IInv, ProvisionedFirst
    <2> QED
        BY <2>1, <2>2 DEF UsableMeansProvisioned
<1> QED
    BY <1>1, Inductive, PTL

\* A registration leaves a wallet without a user only by a failure, or when another
\* registration of its email that it could not see overtook it.
THEOREM LeftoversExplained == Spec => []LeftoverHasACause
<1>1. IInv => LeftoverHasACause
    <2> SUFFICES ASSUME IInv, NEW r \in Registrations,
                        r \in wallets, Ended(r), users[EmailOf[r]] # r
                 PROVE  pc[r] = "failed" \/ (users[EmailOf[r]] # Nobody /\ r \notin late)
        BY DEF LeftoverHasACause
    <2>1. pc[r] \in {"refused", "failed"}
        BY DEF IInv, Ended, LateLeavesNothing, UsersAreRegistered
    <2> QED
        BY <2>1 DEF IInv, UsersAreRegistered, LateLeavesNothing
<1> QED
    BY <1>1, Inductive, PTL

\* An external account resolves for ever to the wallet that mapExternalAccount answered.
THEOREM AnswersAreStable == Spec => []AnswersStayTrue
<1>1. IInv => AnswersStayTrue
    BY DEF IInv
<1> QED
    BY <1>1, Inductive, PTL

=============================================================================
