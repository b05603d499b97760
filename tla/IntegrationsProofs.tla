------------------------- MODULE IntegrationsProofs -------------------------
(***************************************************************************)
(* The invariants of Integrations, for any calls, companies and events,    *)
(* any size of the set of processed events and any number of restarts.     *)
(***************************************************************************)
EXTENDS Integrations, SequenceTheorems, TLAPS

JobRecord == [at : Places, grant : Calls, realm : Realms \cup {NoRealm}]

-----------------------------------------------------------------------------
(***************************************************************************)
(* Type correctness                                                        *)
(***************************************************************************)

\* A call that has begun and not ended carries a grant and a realm.
LEMMA JobTypes ==
    ASSUME TypeOK, NEW c \in Calls
    PROVE  /\ job[c] = Idle \/ job[c] = Ended \/ job[c] \in JobRecord
           /\ job[c].at \notin {"idle", "ended"} => job[c] \in JobRecord
           /\ job[c].at \in Places \cup {"idle", "ended"}
    BY DEF TypeOK, JobRecord, Idle, Ended

\* What is in the file is a token of its section, or none.
LEMMA TokenTypes ==
    ASSUME TypeOK
    PROVE  /\ DOMAIN store = Sections /\ "quickbooks" \in Sections /\ "plaid" \in Sections
           /\ Connected("quickbooks") =>
                 /\ store["quickbooks"] \in QboTokens
                 /\ store["quickbooks"].grant \in Calls
                 /\ store["quickbooks"].realm \in Realms \cup {NoRealm}
           /\ Connected("plaid") =>
                 store["plaid"] \in PlaidTokens /\ store["plaid"].grant \in Calls \cup {Mock}
    BY TokenAssumption DEF TypeOK, StoreTypeOK, Sections, Connected

\* A move of one call to a place of its kind.
LEMMA MoveType ==
    ASSUME TypeOK, NEW c \in Calls, NEW next \in {Idle, Ended} \cup JobRecord, Goto(c, next)
    PROVE  /\ job' \in [Calls -> {Idle, Ended} \cup JobRecord]
           /\ job'[c] = next /\ \A d \in Calls \ {c} : job'[d] = job[d]
    BY DEF TypeOK, Goto, JobRecord

\* The set after an event: its members, the new one, and the oldest gone when there were
\* as many as it holds.
LEMMA Remembered ==
    ASSUME TypeOK, NEW event \in Events
    PROVE  /\ Remember(event) \in Seq(Events)
           /\ Len(processed) \in Nat /\ Len(processed) <= MaxProcessed
           /\ Len(processed) < MaxProcessed =>
                 /\ Len(Remember(event)) = Len(processed) + 1
                 /\ \A i \in 1..Len(processed) : Remember(event)[i] = processed[i]
                 /\ Remember(event)[Len(processed) + 1] = event
           /\ Len(processed) = MaxProcessed =>
                 /\ Len(Remember(event)) = MaxProcessed
                 /\ \A i \in 1..(MaxProcessed - 1) : Remember(event)[i] = processed[i + 1]
                 /\ Remember(event)[MaxProcessed] = event
<1> DEFINE added == Append(processed, event)
<1>1. processed \in Seq(Events) /\ Len(processed) \in Nat /\ Len(processed) <= MaxProcessed
    BY LenProperties DEF TypeOK
<1>2. /\ added \in Seq(Events) /\ Len(added) = Len(processed) + 1
      /\ \A i \in 1..Len(processed) : added[i] = processed[i]
      /\ added[Len(processed) + 1] = event
    BY <1>1, AppendProperties
<1>3. CASE Len(processed) < MaxProcessed
    BY <1>1, <1>2, <1>3, BoundAssumption DEF Remember
<1>4. CASE Len(processed) = MaxProcessed
    <2>1. added # << >> /\ Remember(event) = Tail(added)
        BY <1>1, <1>2, <1>4, BoundAssumption DEF Remember
    <2>2. /\ Tail(added) \in Seq(Events) /\ Len(Tail(added)) = MaxProcessed
          /\ \A i \in 1..MaxProcessed : Tail(added)[i] = added[i + 1]
        BY <1>1, <1>2, <1>4, <2>1, HeadTailProperties, BoundAssumption
    <2> HIDE DEF added
    <2> QED
        BY <1>1, <1>2, <1>4, <2>1, <2>2, BoundAssumption
<1> QED
    BY <1>1, <1>3, <1>4, BoundAssumption

\* Every step keeps the types.
LEMMA TypeStep ==
    ASSUME TypeOK, [Next]_vars
    PROVE  TypeOK'
<1> USE CallAssumption, BoundAssumption
<1>1. ASSUME NEW c \in Calls, NEW realm \in Realms \cup {NoRealm}, StartExchange(c, realm)
      PROVE  TypeOK'
    <2> USE <1>1
    <2>1. job' \in [Calls -> {Idle, Ended} \cup JobRecord]
        BY JobTypes, MoveType DEF StartExchange, Job, JobRecord, Places
    <2> QED
        BY <2>1 DEF StartExchange, TypeOK, StoreTypeOK, history, JobRecord
<1>2. ASSUME NEW c \in Calls, FinishExchange(c) PROVE TypeOK'
    <2> USE <1>2
    <2>1. job' \in [Calls -> {Idle, Ended} \cup JobRecord]
        BY JobTypes, MoveType DEF FinishExchange, JobRecord
    <2>2. QboToken(c, job[c].realm) \in QboTokens
        BY JobTypes, TokenAssumption DEF FinishExchange, JobRecord, QboToken
    <2>3. StoreTypeOK'
        BY <2>2, TokenTypes DEF FinishExchange, TypeOK, StoreTypeOK, SaveToken, Sections
    <2> QED
        BY <2>1, <2>3, JobTypes DEF FinishExchange, TypeOK, Settle, Refreshing, JobRecord
<1>3. ASSUME NEW c \in Calls, AskCompany(c) PROVE TypeOK'
    <2> USE <1>3
    <2>1. job' \in [Calls -> {Idle, Ended} \cup JobRecord]
        BY JobTypes, TokenTypes, MoveType DEF AskCompany, Job, JobRecord, Places
    <2> QED
        BY <2>1 DEF AskCompany, TypeOK, StoreTypeOK, history, JobRecord
<1>4. ASSUME NEW c \in Calls, Refresh(c) PROVE TypeOK'
    <2> USE <1>4
    <2>1. job' \in [Calls -> {Idle, Ended} \cup JobRecord]
        BY JobTypes, MoveType DEF Refresh, JobRecord, Places
    <2> QED
        BY <2>1 DEF Refresh, TypeOK, StoreTypeOK, history, JobRecord
<1>5. ASSUME NEW c \in Calls, SaveRefreshed(c) PROVE TypeOK'
    <2> USE <1>5
    <2>1. job' \in [Calls -> {Idle, Ended} \cup JobRecord]
        BY JobTypes, MoveType DEF SaveRefreshed, JobRecord, Places
    <2>2. QboToken(job[c].grant, job[c].realm) \in QboTokens
        BY JobTypes, TokenAssumption DEF SaveRefreshed, JobRecord, QboToken
    <2>3. StoreTypeOK'
        BY <2>2, TokenTypes DEF SaveRefreshed, TypeOK, StoreTypeOK, SaveToken, Sections
    <2> QED
        BY <2>1, <2>3 DEF SaveRefreshed, TypeOK, history, JobRecord
<1>6. ASSUME NEW c \in Calls, Query(c) PROVE TypeOK'
    <2> USE <1>6
    <2>1. job' \in [Calls -> {Idle, Ended} \cup JobRecord]
        BY JobTypes, MoveType DEF Query, JobRecord
    <2> QED
        BY <2>1 DEF Query, TypeOK, StoreTypeOK, history, JobRecord
<1>7. ASSUME NEW c \in Calls, StartDisconnect(c) PROVE TypeOK'
    <2> USE <1>7
    <2>1. job' \in [Calls -> {Idle, Ended} \cup JobRecord]
        BY JobTypes, TokenTypes, MoveType DEF StartDisconnect, Job, JobRecord, Places
    <2>2. StoreTypeOK'
        BY TokenTypes DEF StartDisconnect, TypeOK, StoreTypeOK, ClearToken, Sections
    <2> QED
        BY <2>1, <2>2 DEF StartDisconnect, TypeOK, Settle, Refreshing, JobRecord
<1>8. ASSUME NEW c \in Calls, Revoke(c) PROVE TypeOK'
    <2> USE <1>8
    <2>1. job' \in [Calls -> {Idle, Ended} \cup JobRecord]
        BY JobTypes, MoveType DEF Revoke, JobRecord, Places
    <2> QED
        BY <2>1, JobTypes DEF Revoke, TypeOK, StoreTypeOK, history, JobRecord
<1>9. ASSUME NEW c \in Calls, FinishDisconnect(c) PROVE TypeOK'
    <2> USE <1>9
    <2>1. job' \in [Calls -> {Idle, Ended} \cup JobRecord]
        BY JobTypes, MoveType DEF FinishDisconnect, JobRecord
    <2>2. StoreTypeOK'
        BY TokenTypes DEF FinishDisconnect, TypeOK, StoreTypeOK, ClearToken, Sections
    <2> QED
        BY <2>1, <2>2 DEF FinishDisconnect, TypeOK, Settle, Refreshing, JobRecord
<1>10. ASSUME NEW c \in Calls, NEW event \in Events, ReceiveEvent(c, event) PROVE TypeOK'
    <2> USE <1>10
    <2>1. job' \in [Calls -> {Idle, Ended} \cup JobRecord]
        BY JobTypes, MoveType DEF ReceiveEvent, JobRecord
    <2>2. processed' \in Seq(Events) /\ Len(processed') <= MaxProcessed
        BY Remembered DEF ReceiveEvent, TypeOK
    <2>3. heard' \in Seq(Events)
        <3>1. heard \in Seq(Events) /\ heard' \in {heard, Append(heard, event)}
            BY DEF ReceiveEvent, TypeOK
        <3> QED
            BY <3>1, AppendProperties
    <2> QED
        BY <2>1, <2>2, <2>3 DEF ReceiveEvent, TypeOK, StoreTypeOK, JobRecord
<1>11. ASSUME NEW c \in Calls, StartPlaidExchange(c) PROVE TypeOK'
    <2> USE <1>11
    <2>1. job' \in [Calls -> {Idle, Ended} \cup JobRecord]
        BY JobTypes, MoveType DEF StartPlaidExchange, Job, JobRecord, Places
    <2>2. StoreTypeOK'
        BY TokenTypes, TokenAssumption
           DEF StartPlaidExchange, TypeOK, StoreTypeOK, SaveToken, PlaidToken, Sections
    <2> QED
        BY <2>1, <2>2 DEF StartPlaidExchange, TypeOK, history, JobRecord
<1>12. ASSUME NEW c \in Calls, FinishPlaidExchange(c) PROVE TypeOK'
    <2> USE <1>12
    <2>1. job' \in [Calls -> {Idle, Ended} \cup JobRecord]
        BY JobTypes, MoveType DEF FinishPlaidExchange, JobRecord
    <2>2. StoreTypeOK'
        BY TokenTypes, TokenAssumption
           DEF FinishPlaidExchange, TypeOK, StoreTypeOK, SaveToken, PlaidToken, Sections
    <2> QED
        BY <2>1, <2>2 DEF FinishPlaidExchange, TypeOK, history, JobRecord
<1>13. ASSUME NEW c \in Calls, StartPlaidDisconnect(c) PROVE TypeOK'
    <2> USE <1>13
    <2>1. job' \in [Calls -> {Idle, Ended} \cup JobRecord]
        BY JobTypes, TokenTypes, MoveType DEF StartPlaidDisconnect, Job, JobRecord, Places
    <2>2. StoreTypeOK'
        BY TokenTypes DEF StartPlaidDisconnect, TypeOK, StoreTypeOK, ClearToken, Sections
    <2> QED
        BY <2>1, <2>2 DEF StartPlaidDisconnect, TypeOK, history, JobRecord
<1>14. ASSUME NEW c \in Calls, FinishPlaidDisconnect(c) PROVE TypeOK'
    <2> USE <1>14
    <2>1. job' \in [Calls -> {Idle, Ended} \cup JobRecord]
        BY JobTypes, MoveType DEF FinishPlaidDisconnect, JobRecord
    <2>2. StoreTypeOK'
        BY TokenTypes DEF FinishPlaidDisconnect, TypeOK, StoreTypeOK, ClearToken, Sections
    <2> QED
        BY <2>1, <2>2, JobTypes DEF FinishPlaidDisconnect, TypeOK, history, JobRecord
<1>15. ASSUME TokenExpires PROVE TypeOK'
    <2> USE <1>15
    <2>1. store["quickbooks"] \in QboTokens
        BY TokenTypes DEF TokenExpires
    <2>2. [store["quickbooks"] EXCEPT !.valid = FALSE] \in QboTokens
        BY <2>1, TokenAssumption
    <2>3. /\ store'["quickbooks"] = [store["quickbooks"] EXCEPT !.valid = FALSE]
          /\ store'["plaid"] = store["plaid"] /\ DOMAIN store' = Sections
        BY TokenTypes DEF TokenExpires, Sections
    <2>4. StoreTypeOK'
        BY <2>2, <2>3 DEF TypeOK, StoreTypeOK
    <2> QED
        BY <2>4 DEF TokenExpires, TypeOK, history
<1>16. ASSUME Restart PROVE TypeOK'
    <2> USE <1>16
    <2>1. job' \in [Calls -> {Idle, Ended} \cup JobRecord]
        BY DEF Restart
    <2>2. StoreTypeOK'
        BY DEF Restart, TypeOK, StoreTypeOK, Tear, EmptyStore, Sections
    <2>3. processed' \in Seq(Events) /\ Len(processed') <= MaxProcessed /\ heard' \in Seq(Events)
        BY DEF Restart
    <2> QED
        BY <2>1, <2>2, <2>3 DEF Restart, TypeOK, JobRecord
<1>17. CASE UNCHANGED vars
    BY <1>17 DEF vars, history, TypeOK, StoreTypeOK
<1> QED
    BY <1>1, <1>2, <1>3, <1>4, <1>5, <1>6, <1>7, <1>8, <1>9, <1>10, <1>11, <1>12,
       <1>13, <1>14, <1>15, <1>16, <1>17
       DEF Next, QuickBooks, Plaid

-----------------------------------------------------------------------------
(***************************************************************************)
(* The connection: which grant the file holds, and for which company       *)
(***************************************************************************)

ConnectionInv ==
    /\ GrantsAreFresh /\ ExchangesOwnGrant /\ TokenNamesItsCompany
    /\ RefreshesAreKnown /\ ConnectionIsLatest

Asking == {"refresh", "refreshed", "query"}

\* Where a call may get without writing the token of QuickBooks: to its end, into an
\* exchange of its own, on with the token it has read, or in with the one in the file.
MovesOn(d) ==
    \/ job'[d].at \in {"ended", "remove"}
    \/ job'[d].at = "idle" /\ job[d].at = "idle"
    \/ /\ job'[d].at \in {"exchange", "plaidExchange"} /\ job'[d].grant = d
       /\ job[d].at = "idle" \/ job'[d] = job[d]
    \/ /\ job'[d].at \in Holding /\ job[d].at \in Holding
       /\ job'[d].grant = job[d].grant /\ job'[d].realm = job[d].realm
       /\ job'[d].at \in Asking => job[d].at \in Asking
       /\ job'[d].at \in {"refresh", "refreshed"} => job[d].at \in {"refresh", "refreshed"}
    \/ /\ job'[d].at \in Holding /\ Connected("quickbooks")
       /\ job'[d].grant = store["quickbooks"].grant
       /\ job'[d].realm = store["quickbooks"].realm

\* The file names the same grant and company as before, or no grant as before.
SameConnection ==
    \/ ~Connected("quickbooks") /\ ~Connected("quickbooks")'
    \/ /\ Connected("quickbooks") /\ Connected("quickbooks")'
       /\ store'["quickbooks"].grant = store["quickbooks"].grant
       /\ store'["quickbooks"].realm = store["quickbooks"].realm

\* Steps that do not write the token of QuickBooks keep what is known of it.
LEMMA QuietKeeps ==
    ASSUME TypeOK, ConnectionInv, SameConnection, \A d \in Calls : MovesOn(d),
           UNCHANGED <<realmOf, latest, before, outlived>>
    PROVE  ConnectionInv'
<1> USE DEF ConnectionInv
<1>1. GrantIn(store["quickbooks"])' = GrantIn(store["quickbooks"])
    BY DEF SameConnection, Connected, GrantIn
<1>2. Connected("quickbooks") => GrantIn(store["quickbooks"]) = store["quickbooks"].grant
    BY DEF Connected, GrantIn
<1>3. GrantsAreFresh'
    <2> SUFFICES ASSUME NEW c \in Calls, job'[c].at \in {"idle", "exchange"}
                 PROVE  /\ GrantIn(store["quickbooks"])' # c
                        /\ \A d \in Calls : job'[d].at \in Holding => job'[d].grant # c
        BY DEF GrantsAreFresh
    <2>1. job[c].at \in {"idle", "exchange"}
        BY DEF MovesOn, Holding
    <2> QED
        BY <2>1, <1>1, <1>2 DEF GrantsAreFresh, MovesOn, Holding
<1>4. ExchangesOwnGrant'
    BY DEF ExchangesOwnGrant, MovesOn, Holding
<1>5. TokenNamesItsCompany'
    BY DEF TokenNamesItsCompany, SameConnection, MovesOn, Holding, Asking
<1>6. RefreshesAreKnown'
    <2> SUFFICES ASSUME NEW c \in Calls, job'[c].at \in {"refresh", "refreshed"}
                 PROVE  job'[c].grant = latest \/ c \in before \/ outlived
        BY DEF RefreshesAreKnown, Refreshing
    <2>1. CASE job[c].at \in {"refresh", "refreshed"} /\ job'[c].grant = job[c].grant
        BY <2>1 DEF RefreshesAreKnown, Refreshing
    <2>2. CASE Connected("quickbooks") /\ job'[c].grant = store["quickbooks"].grant
        BY <2>2, <1>2 DEF ConnectionIsLatest
    <2> QED
        BY <2>1, <2>2 DEF MovesOn
<1>7. ConnectionIsLatest'
    BY <1>1 DEF ConnectionIsLatest
<1> QED
    BY <1>3, <1>4, <1>5, <1>6, <1>7

\* A connect or a disconnect that ends: it is the latest, and the file holds what it left.
LEMMA SettleKeeps ==
    ASSUME TypeOK, ConnectionInv, NEW c \in Calls, NEW grant \in {c, Nobody}, Settle(grant),
           job[c].at \in {"idle", "exchange", "clear"}, Goto(c, Ended),
           grant = c => /\ job[c].at = "exchange"
                        /\ SaveToken("quickbooks", QboToken(c, job[c].realm))
                        /\ realmOf' = [realmOf EXCEPT ![c] = job[c].realm],
           grant = Nobody => ClearToken("quickbooks") /\ UNCHANGED realmOf
    PROVE  ConnectionInv'
<1> USE DEF ConnectionInv
<1>1. /\ job'[c] = Ended /\ \A d \in Calls \ {c} : job'[d] = job[d]
      /\ Refreshing' = Refreshing
    BY DEF TypeOK, Goto, Refreshing, Ended
<1>2. /\ GrantIn(store["quickbooks"])' = grant
      /\ grant = Nobody => ~Connected("quickbooks")'
      /\ grant = c => store'["quickbooks"].realm = job[c].realm
    <2>1. CASE grant = c
        <3>1. store'["quickbooks"] = QboToken(c, job[c].realm)
            BY <2>1, TokenTypes DEF SaveToken
        <3>2. QboToken(c, job[c].realm) \in QboTokens
            BY <2>1, JobTypes, TokenAssumption DEF QboToken, JobRecord
        <3>3. QboToken(c, job[c].realm) # NoToken
            BY <3>2, TokenAssumption
        <3> QED
            BY <2>1, <3>1, <3>3, CallAssumption DEF GrantIn, QboToken
    <2>2. CASE grant = Nobody
        BY <2>2, TokenTypes, CallAssumption DEF ClearToken, GrantIn, Connected
    <2> QED
        BY <2>1, <2>2
<1>3. \A d \in Calls : /\ job'[d].at \in Holding => job[d].at \in Holding /\ job'[d] = job[d]
                       /\ job'[d].at \in {"idle", "exchange"} => d # c /\ job'[d] = job[d]
    BY <1>1 DEF Holding, Ended
<1>4. GrantsAreFresh'
    BY <1>2, <1>3, CallAssumption DEF GrantsAreFresh
<1>5. ExchangesOwnGrant'
    BY <1>1 DEF ExchangesOwnGrant, Ended
<1>6. TokenNamesItsCompany'
    <2>1. Connected("quickbooks")' =>
              store'["quickbooks"].realm = realmOf'[store'["quickbooks"].grant]
        BY <1>2, CallAssumption DEF GrantIn, Connected, TypeOK
    <2>2. ASSUME NEW d \in Calls, job'[d].at \in Asking
          PROVE  job'[d].realm = realmOf'[job'[d].grant]
        <3>1. job[d].at \in Holding /\ job'[d] = job[d] /\ job[d].at \in Asking
            BY <2>2, <1>3 DEF Asking, Holding
        <3>2. job[c].at = "exchange" => job[d].grant # c
            BY <3>1 DEF GrantsAreFresh
        <3>3. realmOf'[job[d].grant] = realmOf[job[d].grant]
            <4>1. job[d].grant \in Calls /\ realmOf \in [Calls -> Realms \cup {NoRealm}]
                BY <3>1, JobTypes DEF TypeOK, Asking, JobRecord
            <4>2. CASE grant = c
                BY <3>2, <4>1, <4>2
            <4>3. CASE grant = Nobody
                BY <4>3
            <4> QED
                BY <4>2, <4>3
        <3> QED
            BY <3>1, <3>3 DEF TokenNamesItsCompany, Asking
    <2> QED
        BY <2>1, <2>2 DEF TokenNamesItsCompany, Asking
<1>7. RefreshesAreKnown'
    BY <1>1 DEF RefreshesAreKnown, Settle
<1>8. ConnectionIsLatest'
    BY <1>2 DEF ConnectionIsLatest, Settle
<1> QED
    BY <1>4, <1>5, <1>6, <1>7, <1>8

\* A refresh that ends writes the grant and the company it had read.
LEMMA RefreshKeeps ==
    ASSUME TypeOK, ConnectionInv, NEW c \in Calls, SaveRefreshed(c)
    PROVE  ConnectionInv'
<1> USE DEF ConnectionInv
<1>1. /\ job[c].at = "refreshed" /\ job[c] \in JobRecord
      /\ job'[c].at = "query" /\ job'[c].grant = job[c].grant /\ job'[c].realm = job[c].realm
      /\ \A d \in Calls \ {c} : job'[d] = job[d]
      /\ outlived' = (outlived \/ c \in before)
      /\ UNCHANGED <<realmOf, latest, before>>
    BY JobTypes DEF SaveRefreshed, Goto, TypeOK, JobRecord
<1>2. /\ GrantIn(store["quickbooks"])' = job[c].grant
      /\ store'["quickbooks"].grant = job[c].grant /\ store'["quickbooks"].realm = job[c].realm
    <2>1. store'["quickbooks"] = QboToken(job[c].grant, job[c].realm)
        BY TokenTypes DEF SaveRefreshed, SaveToken
    <2>2. QboToken(job[c].grant, job[c].realm) \in QboTokens
        BY <1>1, TokenAssumption DEF QboToken, JobRecord
    <2>3. QboToken(job[c].grant, job[c].realm) # NoToken
        BY <2>2, TokenAssumption
    <2> QED
        BY <2>1, <2>3 DEF GrantIn, QboToken
<1>3. GrantsAreFresh'
    BY <1>1, <1>2 DEF GrantsAreFresh, Holding
<1>4. ExchangesOwnGrant'
    BY <1>1 DEF ExchangesOwnGrant
<1>5. TokenNamesItsCompany'
    BY <1>1, <1>2 DEF TokenNamesItsCompany
<1>6. RefreshesAreKnown'
    BY <1>1 DEF RefreshesAreKnown, Refreshing
<1>7. ConnectionIsLatest'
    BY <1>1, <1>2 DEF ConnectionIsLatest, RefreshesAreKnown, Refreshing
<1> QED
    BY <1>3, <1>4, <1>5, <1>6, <1>7

\* A call that does not move is where it may get.
LEMMA Stays ==
    ASSUME TypeOK, ExchangesOwnGrant, UNCHANGED job
    PROVE  \A d \in Calls : MovesOn(d)
    BY JobTypes DEF MovesOn, ExchangesOwnGrant, Holding, Asking, Places

\* When one call moves, the others are where they may get.
LEMMA OneMoves ==
    ASSUME TypeOK, ExchangesOwnGrant, NEW c \in Calls, NEW next, Goto(c, next)
    PROVE  /\ job'[c] = next
           /\ MovesOn(c) => \A d \in Calls : MovesOn(d)
<1>1. job'[c] = next /\ \A d \in Calls \ {c} : job'[d] = job[d]
    BY DEF TypeOK, Goto
<1>2. ASSUME NEW d \in Calls \ {c} PROVE MovesOn(d)
    BY <1>1, JobTypes DEF MovesOn, ExchangesOwnGrant, Holding, Asking, Places
<1> QED
    BY <1>1, <1>2

\* Every step keeps what is known of the connection.
LEMMA ConnectionStep ==
    ASSUME TypeOK, ConnectionInv, [Next]_vars
    PROVE  ConnectionInv'
<1> USE DEF ConnectionInv
<1>1. ASSUME NEW c \in Calls, NEW realm \in Realms \cup {NoRealm}, StartExchange(c, realm)
      PROVE  ConnectionInv'
    <2> USE <1>1
    <2>1. SameConnection
        BY DEF StartExchange, SameConnection, Connected, history
    <2>2. \A d \in Calls : MovesOn(d)
        BY OneMoves DEF StartExchange, MovesOn, Job, Ended
    <2> QED
        BY <2>1, <2>2, QuietKeeps DEF StartExchange, history
<1>2. ASSUME NEW c \in Calls, FinishExchange(c) PROVE ConnectionInv'
    <2> USE <1>2
    <2>1. CASE /\ SaveToken("quickbooks", QboToken(c, job[c].realm))
               /\ realmOf' = [realmOf EXCEPT ![c] = job[c].realm] /\ Settle(c)
        BY <2>1, SettleKeeps, CallAssumption DEF FinishExchange
    <2>2. CASE UNCHANGED <<store, realmOf, latest, before, outlived>>
        <3>1. SameConnection
            BY <2>2 DEF FinishExchange, SameConnection, Connected
        <3>2. \A d \in Calls : MovesOn(d)
            BY <2>2, OneMoves DEF FinishExchange, MovesOn, Ended
        <3> QED
            BY <2>2, <3>1, <3>2, QuietKeeps DEF FinishExchange
    <2> QED
        BY <2>1, <2>2 DEF FinishExchange
<1>3. ASSUME NEW c \in Calls, AskCompany(c) PROVE ConnectionInv'
    <2> USE <1>3
    <2>1. SameConnection
        BY DEF AskCompany, SameConnection, Connected, history
    <2>2. \A d \in Calls : MovesOn(d)
        BY OneMoves DEF AskCompany, MovesOn, Job, Ended, Holding
    <2> QED
        BY <2>1, <2>2, QuietKeeps DEF AskCompany, history
<1>4. ASSUME NEW c \in Calls, Refresh(c) PROVE ConnectionInv'
    <2> USE <1>4
    <2>1. SameConnection
        BY DEF Refresh, SameConnection, Connected, history
    <2>2. \A d \in Calls : MovesOn(d)
        <3>1. job[c] \in JobRecord
            BY JobTypes DEF Refresh
        <3>2. ExchangesOwnGrant /\ MovesOn(c)
            BY <3>1, OneMoves DEF Refresh, MovesOn, Ended, Holding, Asking, JobRecord
        <3> QED
            BY <3>2, OneMoves DEF Refresh
    <2> QED
        BY <2>1, <2>2, QuietKeeps DEF Refresh, history
<1>5. ASSUME NEW c \in Calls, SaveRefreshed(c) PROVE ConnectionInv'
    BY <1>5, RefreshKeeps
<1>6. ASSUME NEW c \in Calls, Query(c) PROVE ConnectionInv'
    <2> USE <1>6
    <2>1. SameConnection
        BY DEF Query, SameConnection, Connected, history
    <2>2. \A d \in Calls : MovesOn(d)
        BY OneMoves DEF Query, MovesOn, Ended
    <2> QED
        BY <2>1, <2>2, QuietKeeps DEF Query, history
<1>7. ASSUME NEW c \in Calls, StartDisconnect(c) PROVE ConnectionInv'
    <2> USE <1>7
    <2>1. CASE ~Connected("quickbooks")
        BY <2>1, SettleKeeps, CallAssumption DEF StartDisconnect
    <2>2. CASE Connected("quickbooks")
        <3>1. SameConnection
            BY <2>2 DEF StartDisconnect, SameConnection, Connected
        <3>2. \A d \in Calls : MovesOn(d)
            BY <2>2, OneMoves DEF StartDisconnect, MovesOn, Job, Ended, Holding
        <3> QED
            BY <2>2, <3>1, <3>2, QuietKeeps DEF StartDisconnect
    <2> QED
        BY <2>1, <2>2 DEF StartDisconnect
<1>8. ASSUME NEW c \in Calls, Revoke(c) PROVE ConnectionInv'
    <2> USE <1>8
    <2>1. SameConnection
        BY DEF Revoke, SameConnection, Connected, history
    <2>2. \A d \in Calls : MovesOn(d)
        <3>1. job[c] \in JobRecord
            BY JobTypes DEF Revoke
        <3>2. ExchangesOwnGrant /\ MovesOn(c)
            BY <3>1, OneMoves DEF Revoke, MovesOn, Ended, Holding, Asking, JobRecord
        <3> QED
            BY <3>2, OneMoves DEF Revoke
    <2> QED
        BY <2>1, <2>2, QuietKeeps DEF Revoke, history
<1>9. ASSUME NEW c \in Calls, FinishDisconnect(c) PROVE ConnectionInv'
    <2>1. /\ Nobody \in {c, Nobody} /\ Nobody # c
          /\ job[c].at = "clear" /\ Goto(c, Ended) /\ Settle(Nobody)
          /\ ClearToken("quickbooks") /\ UNCHANGED realmOf
        BY <1>9, CallAssumption DEF FinishDisconnect
    <2> QED
        BY <2>1, SettleKeeps
<1>10. ASSUME NEW c \in Calls, NEW event \in Events, ReceiveEvent(c, event) PROVE ConnectionInv'
    <2> USE <1>10
    <2>1. SameConnection
        BY DEF ReceiveEvent, SameConnection, Connected, history
    <2>2. \A d \in Calls : MovesOn(d)
        BY OneMoves DEF ReceiveEvent, MovesOn, Ended
    <2> QED
        BY <2>1, <2>2, QuietKeeps DEF ReceiveEvent, history
<1>11. ASSUME NEW c \in Calls, StartPlaidExchange(c) PROVE ConnectionInv'
    <2> USE <1>11
    <2>1. SameConnection
        BY TokenTypes DEF StartPlaidExchange, SaveToken, SameConnection, Connected
    <2>2. \A d \in Calls : MovesOn(d)
        BY OneMoves DEF StartPlaidExchange, MovesOn, Job, Ended
    <2> QED
        BY <2>1, <2>2, QuietKeeps DEF StartPlaidExchange, history
<1>12. ASSUME NEW c \in Calls, FinishPlaidExchange(c) PROVE ConnectionInv'
    <2> USE <1>12
    <2>1. SameConnection
        BY TokenTypes DEF FinishPlaidExchange, SaveToken, SameConnection, Connected
    <2>2. \A d \in Calls : MovesOn(d)
        BY OneMoves DEF FinishPlaidExchange, MovesOn, Ended
    <2> QED
        BY <2>1, <2>2, QuietKeeps DEF FinishPlaidExchange, history
<1>13. ASSUME NEW c \in Calls, StartPlaidDisconnect(c) PROVE ConnectionInv'
    <2> USE <1>13
    <2>1. SameConnection
        BY TokenTypes DEF StartPlaidDisconnect, ClearToken, SameConnection, Connected
    <2>2. \A d \in Calls : MovesOn(d)
        BY OneMoves DEF StartPlaidDisconnect, MovesOn, Job, Ended
    <2> QED
        BY <2>1, <2>2, QuietKeeps DEF StartPlaidDisconnect, history
<1>14. ASSUME NEW c \in Calls, FinishPlaidDisconnect(c) PROVE ConnectionInv'
    <2> USE <1>14
    <2>1. SameConnection
        BY TokenTypes DEF FinishPlaidDisconnect, ClearToken, SameConnection, Connected
    <2>2. \A d \in Calls : MovesOn(d)
        BY OneMoves DEF FinishPlaidDisconnect, MovesOn, Ended
    <2> QED
        BY <2>1, <2>2, QuietKeeps DEF FinishPlaidDisconnect, history
<1>15. ASSUME TokenExpires PROVE ConnectionInv'
    <2>1. /\ Connected("quickbooks")
          /\ store'["quickbooks"] = [store["quickbooks"] EXCEPT !.valid = FALSE]
        BY <1>15, TokenTypes DEF TokenExpires
    <2>2. store["quickbooks"] \in QboTokens /\ store'["quickbooks"] \in QboTokens
        BY <2>1, TokenTypes, TokenAssumption
    <2>3. SameConnection
        BY <2>1, <2>2, TokenAssumption DEF SameConnection, Connected
    <2>4. \A d \in Calls : MovesOn(d)
        BY <1>15, Stays DEF TokenExpires
    <2> QED
        BY <1>15, <2>3, <2>4, QuietKeeps DEF TokenExpires, history
<1>16. ASSUME Restart PROVE ConnectionInv'
    <2> USE <1>16
    <2>1. \A d \in Calls : job'[d] = Ended \/ (job'[d] = Idle /\ job[d].at = "idle")
        BY DEF Restart
    <2>2. CASE UNCHANGED <<store, latest>>
        <3>1. SameConnection /\ \A d \in Calls : MovesOn(d)
            BY <2>1, <2>2 DEF SameConnection, Connected, MovesOn, Idle, Ended
        <3> QED
            BY <2>2, <3>1, QuietKeeps DEF Restart
    <2>3. CASE Tear /\ latest' = Nobody
        <3>1. ~Connected("quickbooks")' /\ GrantIn(store["quickbooks"])' = Nobody
            BY <2>3, TokenTypes DEF Tear, EmptyStore, Connected, GrantIn
        <3> QED
            BY <2>1, <2>3, <3>1, CallAssumption
               DEF ConnectionInv, GrantsAreFresh, ExchangesOwnGrant, TokenNamesItsCompany,
                   RefreshesAreKnown, Refreshing, ConnectionIsLatest, Holding, Idle, Ended
    <2> QED
        BY <2>2, <2>3 DEF Restart
<1>17. CASE UNCHANGED vars
    <2>1. SameConnection /\ \A d \in Calls : MovesOn(d)
        BY <1>17, Stays DEF vars, SameConnection, Connected
    <2> QED
        BY <1>17, <2>1, QuietKeeps DEF vars, history
<1> QED
    BY <1>1, <1>2, <1>3, <1>4, <1>5, <1>6, <1>7, <1>8, <1>9, <1>10, <1>11, <1>12,
       <1>13, <1>14, <1>15, <1>16, <1>17
       DEF Next, QuickBooks, Plaid

-----------------------------------------------------------------------------
(***************************************************************************)
(* The processed events, and the two sections                              *)
(***************************************************************************)

EventsInv == RemembersTheLast /\ RepeatsAreFarApart

\* An event that is taken for new is not among the last of those heard.
LEMMA NewEventKeeps ==
    ASSUME TypeOK, EventsInv, NEW event \in Events, ~Contains(processed, event),
           processed' = Remember(event), heard' = Append(heard, event)
    PROVE  EventsInv'
<1> DEFINE m == Len(processed)
           n == Len(heard)
<1>1. /\ processed \in Seq(Events) /\ heard \in Seq(Events)
      /\ m \in Nat /\ n \in Nat /\ m <= MaxProcessed /\ m <= n
      /\ DOMAIN processed = 1..m /\ DOMAIN heard = 1..n
      /\ n > m => m = MaxProcessed
      /\ \A i \in 1..m : processed[i] = heard[n - m + i]
    BY LenProperties DEF TypeOK, EventsInv, RemembersTheLast
<1>2. /\ Len(heard') = n + 1 /\ DOMAIN heard' = 1..(n + 1)
      /\ \A i \in 1..n : heard'[i] = heard[i]
      /\ heard'[n + 1] = event
    BY <1>1, AppendProperties
<1>3. MaxProcessed \in Nat
    BY BoundAssumption
<1> HIDE DEF m, n
<1>4. \A i \in 1..n : heard[i] = event => n + 1 - i > MaxProcessed
    <2> SUFFICES ASSUME NEW i \in 1..n, heard[i] = event, n + 1 - i <= MaxProcessed PROVE FALSE
        BY <1>1, <1>3
    <2>1. i > n - m
        BY <1>1, <1>3
    <2>2. i - (n - m) \in 1..m /\ processed[i - (n - m)] = heard[i]
        BY <1>1, <2>1
    <2> QED
        BY <1>1, <2>2 DEF Contains
<1>5. RepeatsAreFarApart'
    BY <1>1, <1>2, <1>4 DEF EventsInv, RepeatsAreFarApart
<1>6. RemembersTheLast'
    <2>1. CASE m < MaxProcessed
        <3>1. n = m
            BY <1>1, <2>1
        <3>2. /\ processed' \in Seq(Events) /\ Len(processed') = m + 1
              /\ \A i \in 1..m : processed'[i] = processed[i]
              /\ processed'[m + 1] = event
            BY <2>1, Remembered DEF m
        <3>3. DOMAIN processed' = 1..(m + 1)
            BY <3>2, LenProperties
        <3> QED
            BY <1>1, <1>2, <3>1, <3>2, <3>3 DEF RemembersTheLast
    <2>2. CASE m = MaxProcessed
        <3>1. /\ processed' \in Seq(Events) /\ Len(processed') = MaxProcessed
              /\ \A i \in 1..(MaxProcessed - 1) : processed'[i] = processed[i + 1]
              /\ processed'[MaxProcessed] = event
            BY <2>2, Remembered DEF m
        <3>2. DOMAIN processed' = 1..MaxProcessed
            BY <3>1, LenProperties
        <3> QED
            BY <1>1, <1>2, <2>2, <3>1, <3>2 DEF RemembersTheLast
    <2> QED
        BY <1>1, <1>3, <2>1, <2>2
<1> QED
    BY <1>5, <1>6 DEF EventsInv

\* Only the webhook and a restart change what was heard.
LEMMA EventsStep ==
    ASSUME TypeOK, EventsInv, [Next]_vars
    PROVE  EventsInv'
<1>1. CASE UNCHANGED <<processed, heard>>
    BY <1>1 DEF EventsInv, RemembersTheLast, RepeatsAreFarApart
<1>2. ASSUME NEW c \in Calls, NEW event \in Events, ReceiveEvent(c, event) PROVE EventsInv'
    BY <1>1, <1>2, NewEventKeeps DEF ReceiveEvent
<1>3. ASSUME Restart PROVE EventsInv'
    BY <1>3, BoundAssumption DEF Restart, EventsInv, RemembersTheLast, RepeatsAreFarApart
<1>4. UNCHANGED <<processed, heard>> \/ Restart
      \/ \E c \in Calls, event \in Events : ReceiveEvent(c, event)
    BY DEF Next, QuickBooks, Plaid, StartExchange, FinishExchange, AskCompany, Refresh,
           SaveRefreshed, Query, StartDisconnect, Revoke, FinishDisconnect, StartPlaidExchange,
           FinishPlaidExchange, StartPlaidDisconnect, FinishPlaidDisconnect, TokenExpires,
           history, vars
<1> QED
    BY <1>1, <1>2, <1>3, <1>4

\* What a step may do to the file: a QuickBooks call leaves Plaid's section alone, a Plaid
\* call QuickBooks', and a restart keeps the file or tears it.
LEMMA SectionsStep ==
    ASSUME TypeOK, [Next]_vars
    PROVE  /\ store'["plaid"] # store["plaid"] => (\E c \in Calls : Plaid(c)) \/ Torn
           /\ store'["quickbooks"] # store["quickbooks"] =>
                 (\E c \in Calls : QuickBooks(c)) \/ TokenExpires \/ Torn
<1>1. ASSUME NEW c \in Calls, QuickBooks(c) PROVE store'["plaid"] = store["plaid"]
    <2>1. ASSUME NEW token, SaveToken("quickbooks", token) \/ ClearToken("quickbooks")
          PROVE  store'["plaid"] = store["plaid"]
        BY <2>1, TokenTypes DEF SaveToken, ClearToken
    <2> QED
        BY <1>1, <2>1
           DEF QuickBooks, StartExchange, FinishExchange, AskCompany, Refresh, SaveRefreshed,
               Query, StartDisconnect, Revoke, FinishDisconnect, ReceiveEvent
<1>2. ASSUME NEW c \in Calls, Plaid(c) PROVE store'["quickbooks"] = store["quickbooks"]
    <2>1. ASSUME NEW token, SaveToken("plaid", token) \/ ClearToken("plaid")
          PROVE  store'["quickbooks"] = store["quickbooks"]
        BY <2>1, TokenTypes DEF SaveToken, ClearToken
    <2> QED
        BY <1>2, <2>1
           DEF Plaid, StartPlaidExchange, FinishPlaidExchange, StartPlaidDisconnect,
               FinishPlaidDisconnect
<1>3. ASSUME TokenExpires PROVE store'["plaid"] = store["plaid"]
    BY <1>3, TokenTypes DEF TokenExpires
<1>4. ASSUME Restart PROVE UNCHANGED store \/ Torn
    <2>1. CASE UNCHANGED store
        BY <2>1
    <2>2. CASE (\E c \in Calls : Writing(c) /\ job'[c] = Ended) /\ Tear
        BY <1>4, <2>2 DEF Torn, Tear
    <2> QED
        BY <1>4, <2>1, <2>2 DEF Restart
<1>5. CASE UNCHANGED vars
    BY <1>5 DEF vars
<1> QED
    BY <1>1, <1>2, <1>3, <1>4, <1>5 DEF Next

-----------------------------------------------------------------------------
(***************************************************************************)
(* The theorems                                                            *)
(***************************************************************************)

\* A fresh process with an empty file.
LEMMA Initial == Init => IInv
<1> SUFFICES ASSUME Init PROVE IInv
    OBVIOUS
<1>1. StoreTypeOK
    BY DEF Init, StoreTypeOK, EmptyStore, Sections
<1>2. GrantIn(store["quickbooks"]) = Nobody /\ ~Connected("quickbooks")
    BY DEF Init, EmptyStore, Sections, GrantIn, Connected
<1>3. \A c \in Calls : job[c].at = "idle"
    BY DEF Init, Idle
<1>4. GrantsAreFresh /\ ExchangesOwnGrant /\ TokenNamesItsCompany /\ RefreshesAreKnown
    BY <1>2, <1>3, CallAssumption
       DEF GrantsAreFresh, ExchangesOwnGrant, TokenNamesItsCompany, RefreshesAreKnown,
           Refreshing, Holding
<1>5. TypeOK
    <2>1. processed \in Seq(Events) /\ Len(processed) <= MaxProcessed /\ heard \in Seq(Events)
        BY BoundAssumption DEF Init
    <2>2. restarts \in Nat /\ configured \subseteq Sections /\ revoked \subseteq Calls
        BY DEF Init
    <2> QED
        BY <1>1, <2>1, <2>2 DEF Init, TypeOK
<1>6. ConnectionIsLatest /\ RemembersTheLast /\ RepeatsAreFarApart
    BY <1>2 DEF Init, ConnectionIsLatest, RemembersTheLast, RepeatsAreFarApart
<1> QED
    BY <1>1, <1>4, <1>5, <1>6 DEF IInv

\* The parts of the invariant keep one another.
LEMMA Inductive == IInv /\ [Next]_vars => IInv'
    BY TypeStep, ConnectionStep, EventsStep DEF IInv, ConnectionInv, EventsInv

\* Every reachable state satisfies the inductive invariant (IInv).
THEOREM Invariant == Spec => []IInv
<1>1. Init => IInv
    BY Initial
<1>2. IInv /\ [Next]_vars => IInv'
    BY Inductive
<1> QED
    BY <1>1, <1>2, PTL DEF Spec

\* The variables keep their types: the file holds tokens of its sections only, and the set
\* of processed events never grows past its bound.
THEOREM TypeCorrect == Spec => []TypeOK
<1>1. IInv => TypeOK
    BY DEF IInv
<1> QED
    BY <1>1, Invariant, PTL

\* The file names the last connection made or undone, unless a refresh that had begun
\* before that wrote its own back (ConnectionIsLatest).
THEOREM ConnectionLatest == Spec => []ConnectionIsLatest
<1>1. IInv => ConnectionIsLatest
    BY DEF IInv
<1> QED
    BY <1>1, Invariant, PTL

\* A token is used with, and stored beside, the company it was granted for
\* (TokenNamesItsCompany), for any number of calls and companies.
THEOREM CompanyOfToken == Spec => []TokenNamesItsCompany
<1>1. IInv => TokenNamesItsCompany
    BY DEF IInv
<1> QED
    BY <1>1, Invariant, PTL

\* An event announced twice by one process has had as many others between as the set
\* holds (RepeatsAreFarApart).
THEOREM RepeatsApart == Spec => []RepeatsAreFarApart
<1>1. IInv => RepeatsAreFarApart
    BY DEF IInv
<1> QED
    BY <1>1, Invariant, PTL

\* A QuickBooks call never changes Plaid's section, nor a Plaid call QuickBooks', though each
\* writes the whole file; only a write that the process does not survive takes both
\* (SectionsKeptApart).
THEOREM SectionsApart == Spec => SectionsKeptApart
<1>1. IInv /\ [Next]_vars =>
          [/\ store'["plaid"] # store["plaid"] => (\E c \in Calls : Plaid(c)) \/ Torn
           /\ store'["quickbooks"] # store["quickbooks"] =>
                 (\E c \in Calls : QuickBooks(c)) \/ TokenExpires \/ Torn]_vars
    BY SectionsStep DEF IInv
<1> QED
    BY <1>1, Invariant, PTL DEF Spec, SectionsKeptApart

=============================================================================
