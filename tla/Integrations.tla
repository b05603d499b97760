---------------------------- MODULE Integrations ----------------------------
(***************************************************************************)
(* QuickBooksService and PlaidService on one token file: connecting,       *)
(* disconnecting and asking the vendor, by any number of concurrent calls, *)
(* and the webhook of QuickBooks with its set of processed events.         *)
(*                                                                         *)
(* A handler reads the token, awaits the vendor, and then writes the file: *)
(* every await is a place where another handler may run.  What a vendor    *)
(* answers, and when, is its own choice.                                   *)
(*                                                                         *)
(* A call that connects obtains a grant from the vendor: the call's name   *)
(* is the grant's name.                                                    *)
(***************************************************************************)
EXTENDS TokenStore, Naturals, Sequences, SequencesExt

CONSTANTS
    Calls,               \* calls of either service
    Realms, NoRealm,     \* companies of QuickBooks; the callback may name none
    Mock,                \* the grant of the mock token
    Nobody,              \* no grant
    Events,              \* changes that QuickBooks notifies of
    MaxProcessed,        \* how many events are remembered
    MaxRestarts          \* bound on restarts of the process

ASSUME CallAssumption ==
    /\ Mock \notin Calls /\ Nobody \notin Calls \cup {Mock}
    /\ NoRealm \notin Realms
ASSUME TokenAssumption ==
    /\ QboTokens = [grant : Calls, realm : Realms \cup {NoRealm}, valid : BOOLEAN]
    /\ PlaidTokens = [grant : Calls \cup {Mock}]
    /\ NoToken \notin QboTokens \cup PlaidTokens
ASSUME BoundAssumption == MaxProcessed \in Nat \ {0} /\ MaxRestarts \in Nat

VARIABLES
    configured,    \* the integrations whose client id and secret are set
    job,           \* where each call is, and what it has read
    revoked,       \* the grants the vendor no longer honours
    processed,     \* the set of processed events, in the order of their insertion
    restarts,
    realmOf,       \* history: the realm each grant was connected with
    latest,        \* history: the grant of the last connect to end, unless a disconnect did
    before,        \* history: the refreshes under way when it ended
    outlived,      \* history: one of them has ended since
    heard          \* history: the events taken for new since the process started

history == <<realmOf, latest, before, outlived, heard>>
vars == <<store, configured, job, revoked, processed, restarts, history>>

Idle == [at |-> "idle"]
Ended == [at |-> "ended"]
Job(at, grant, realm) == [at |-> at, grant |-> grant, realm |-> realm]

QboToken(grant, realm) == [grant |-> grant, realm |-> realm, valid |-> TRUE]
PlaidToken(grant) == [grant |-> grant]

Init ==
    /\ store = EmptyStore
    /\ configured \in SUBSET Sections
    /\ job = [c \in Calls |-> Idle]
    /\ revoked = {}
    /\ processed = << >>
    /\ restarts = 0
    /\ realmOf = [c \in Calls |-> NoRealm]
    /\ latest = Nobody
    /\ before = {}
    /\ outlived = FALSE
    /\ heard = << >>

Goto(c, next) == job' = [job EXCEPT ![c] = next]

Refreshing == {c \in Calls : job[c].at \in {"refresh", "refreshed"}}

\* A connect or a disconnect has ended, and this is what it leaves.
Settle(grant) == latest' = grant /\ before' = Refreshing /\ outlived' = FALSE

-----------------------------------------------------------------------------
(***************************************************************************)
(* QuickBooksService: connect                                              *)
(***************************************************************************)

\* exchangeOAuthCode: the callback may or may not name the company.
StartExchange(c, realm) ==
    /\ job[c].at = "idle"
    /\ Goto(c, IF "quickbooks" \in configured THEN Job("exchange", c, realm) ELSE Ended)
    /\ UNCHANGED <<store, configured, revoked, processed, restarts, history>>

\* The vendor grants and the token is saved, or the exchange fails and nothing is.
FinishExchange(c) ==
    /\ job[c].at = "exchange"
    /\ Goto(c, Ended)
    /\ \/ /\ SaveToken("quickbooks", QboToken(c, job[c].realm))
          /\ realmOf' = [realmOf EXCEPT ![c] = job[c].realm]
          /\ Settle(c)
       \/ UNCHANGED <<store, realmOf, latest, before, outlived>>
    /\ UNCHANGED <<configured, revoked, processed, restarts, heard>>

-----------------------------------------------------------------------------
(***************************************************************************)
(* QuickBooksService: getInvoices, getPayouts, getVendors, getCompanyInfo, *)
(* which differ in what they ask and answer and not in what they do        *)
(***************************************************************************)

\* The token, and getAuthenticatedClient: a token that has expired is refreshed first.
\* Without a token, or a configuration, there is nothing to ask.
AskCompany(c) ==
    LET token == store["quickbooks"] IN
    /\ job[c].at = "idle"
    /\ Goto(c, IF ~Connected("quickbooks") \/ "quickbooks" \notin configured THEN Ended
               ELSE Job(IF token.valid THEN "query" ELSE "refresh", token.grant, token.realm))
    /\ UNCHANGED <<store, configured, revoked, processed, restarts, history>>

\* The vendor refreshes what it has not revoked; or the request fails, and the handler
\* answers with mock data or nothing.
Refresh(c) ==
    /\ job[c].at = "refresh"
    /\ \/ job[c].grant \notin revoked /\ Goto(c, [job[c] EXCEPT !.at = "refreshed"])
       \/ Goto(c, Ended)
    /\ UNCHANGED <<store, configured, revoked, processed, restarts, history>>

\* Mutant: the realm is read from the file again.
SaveRefreshedRereading(c) ==
    LET token == store["quickbooks"] IN
    /\ job[c].at = "refreshed"
    /\ SaveToken("quickbooks", QboToken(job[c].grant,
          IF Connected("quickbooks") THEN token.realm ELSE job[c].realm))
    /\ Goto(c, [job[c] EXCEPT !.at = "query"])
    /\ outlived' = (outlived \/ c \in before)
    /\ UNCHANGED <<configured, revoked, processed, restarts, realmOf, latest, before, heard>>

\* The new token is saved with the realm of the token that was read, whatever the file
\* holds by now.
SaveRefreshed(c) ==
    /\ job[c].at = "refreshed"
    /\ SaveToken("quickbooks", QboToken(job[c].grant, job[c].realm))
    /\ Goto(c, [job[c] EXCEPT !.at = "query"])
    /\ outlived' = (outlived \/ c \in before)
    /\ UNCHANGED <<configured, revoked, processed, restarts, realmOf, latest, before, heard>>

\* The query, when a realm is known, and its answer: neither writes anything.
Query(c) ==
    /\ job[c].at = "query"
    /\ Goto(c, Ended)
    /\ UNCHANGED <<store, configured, revoked, processed, restarts, history>>

-----------------------------------------------------------------------------
(***************************************************************************)
(* QuickBooksService: disconnect                                           *)
(***************************************************************************)

\* Without a token there is nothing to revoke, and the file is written at once.
StartDisconnect(c) ==
    /\ job[c].at = "idle"
    /\ \/ /\ Connected("quickbooks")
          /\ Goto(c, Job("revoke", store["quickbooks"].grant, store["quickbooks"].realm))
          /\ UNCHANGED <<store, latest, before, outlived>>
       \/ /\ ~Connected("quickbooks")
          /\ ClearToken("quickbooks") /\ Settle(Nobody) /\ Goto(c, Ended)
    /\ UNCHANGED <<configured, revoked, processed, restarts, realmOf, heard>>

\* The vendor revokes the grant, or the request fails, which is swallowed.
Revoke(c) ==
    /\ job[c].at = "revoke"
    /\ revoked' \in {revoked, revoked \cup {job[c].grant}}
    /\ Goto(c, [job[c] EXCEPT !.at = "clear"])
    /\ UNCHANGED <<store, configured, processed, restarts, history>>

\* Mutant: a token that is not the one that was revoked is left.
FinishOwnDisconnect(c) ==
    /\ job[c].at = "clear"
    /\ IF store["quickbooks"] # NoToken /\ store["quickbooks"].grant # job[c].grant
         THEN UNCHANGED store ELSE ClearToken("quickbooks")
    /\ Settle(Nobody)
    /\ Goto(c, Ended)
    /\ UNCHANGED <<configured, revoked, processed, restarts, realmOf, heard>>

\* Whatever token is in the file by now is cleared.
FinishDisconnect(c) ==
    /\ job[c].at = "clear"
    /\ ClearToken("quickbooks") /\ Settle(Nobody)
    /\ Goto(c, Ended)
    /\ UNCHANGED <<configured, revoked, processed, restarts, realmOf, heard>>

-----------------------------------------------------------------------------
(***************************************************************************)
(* PlaidService                                                            *)
(***************************************************************************)

\* exchangeToken: without a configuration, or for a mock public token, the mock token is
\* saved at once.
StartPlaidExchange(c) ==
    /\ job[c].at = "idle"
    /\ \/ /\ SaveToken("plaid", PlaidToken(Mock))
          /\ Goto(c, Ended)
       \/ /\ "plaid" \in configured
          /\ Goto(c, Job("plaidExchange", c, NoRealm)) /\ UNCHANGED store
    /\ UNCHANGED <<configured, revoked, processed, restarts, history>>

\* The vendor's token is saved, or, when the exchange fails, the mock one: over whatever
\* token was there.
FinishPlaidExchange(c) ==
    /\ job[c].at = "plaidExchange"
    /\ SaveToken("plaid", PlaidToken(c)) \/ SaveToken("plaid", PlaidToken(Mock))
    /\ Goto(c, Ended)
    /\ UNCHANGED <<configured, revoked, processed, restarts, history>>

\* disconnect: a real token is removed at the vendor first.
StartPlaidDisconnect(c) ==
    LET token == store["plaid"]
        real == Connected("plaid") /\ "plaid" \in configured /\ token.grant # Mock IN
    /\ job[c].at = "idle"
    /\ \/ real /\ Goto(c, Job("remove", token.grant, NoRealm)) /\ UNCHANGED store
       \/ ~real /\ ClearToken("plaid") /\ Goto(c, Ended)
    /\ UNCHANGED <<configured, revoked, processed, restarts, history>>

\* The item is removed, or the error swallowed; the file is cleared.
FinishPlaidDisconnect(c) ==
    /\ job[c].at = "remove"
    /\ ClearToken("plaid")
    /\ revoked' \in {revoked, revoked \cup {job[c].grant}}
    /\ Goto(c, Ended)
    /\ UNCHANGED <<configured, processed, restarts, history>>

-----------------------------------------------------------------------------
(***************************************************************************)
(* QuickBooksService: handleWebhook                                        *)
(***************************************************************************)

\* Mutant: the set never drops a member.
RememberAll(event) == Append(processed, event)

\* Mutant: the set drops a member when it is full, not when it is too full.
RememberLess(event) ==
    LET added == Append(processed, event) IN
    IF Len(added) >= MaxProcessed THEN Tail(added) ELSE added

\* A set remembers insertions in order: the oldest member is the first.
Remember(event) ==
    LET added == Append(processed, event) IN
    IF Len(added) > MaxProcessed THEN Tail(added) ELSE added

\* One entity of a notification, without an await: known, or taken for new, and then
\* announced if it is an invoice's.
ReceiveEvent(c, event) ==
    /\ job[c].at = "idle"
    /\ \/ Contains(processed, event) /\ UNCHANGED <<processed, heard>>
       \/ /\ ~Contains(processed, event)
          /\ processed' = Remember(event)
          /\ heard' = Append(heard, event)
    /\ Goto(c, Ended)
    /\ UNCHANGED <<store, configured, revoked, restarts, realmOf, latest, before, outlived>>

-----------------------------------------------------------------------------
(***************************************************************************)
(* The environment                                                         *)
(***************************************************************************)

\* The time to live of the access token ends.
TokenExpires ==
    /\ Connected("quickbooks") /\ store["quickbooks"].valid
    /\ store' = [store EXCEPT !["quickbooks"].valid = FALSE]
    /\ UNCHANGED <<configured, job, revoked, processed, restarts, history>>

\* The next thing the call does may be to write the file.
Writing(c) ==
    job[c].at \in {"idle", "exchange", "refreshed", "clear", "plaidExchange", "remove"}

\* The process stops, with its handlers and the set of processed events, and starts again,
\* perhaps with another configuration.  A handler may be in the middle of its write.
Restart ==
    /\ restarts < MaxRestarts
    /\ restarts' = restarts + 1
    /\ job' \in {[c \in Calls |-> IF job[c].at = "idle" /\ c \notin dying THEN Idle ELSE Ended] :
                    dying \in SUBSET Calls}
    /\ processed' = << >> /\ heard' = << >>
    /\ configured' \in SUBSET Sections
    /\ \/ UNCHANGED <<store, latest>>
       \/ (\E c \in Calls : Writing(c) /\ job'[c] = Ended) /\ Tear /\ latest' = Nobody
    /\ UNCHANGED <<revoked, realmOf, before, outlived>>

QuickBooks(c) ==
    \/ \E realm \in Realms \cup {NoRealm} : StartExchange(c, realm)
    \/ FinishExchange(c)
    \/ AskCompany(c) \/ Refresh(c) \/ SaveRefreshed(c) \/ Query(c)
    \/ StartDisconnect(c) \/ Revoke(c) \/ FinishDisconnect(c)
    \/ \E event \in Events : ReceiveEvent(c, event)

Plaid(c) ==
    \/ StartPlaidExchange(c) \/ FinishPlaidExchange(c)
    \/ StartPlaidDisconnect(c) \/ FinishPlaidDisconnect(c)

Next ==
    \/ \E c \in Calls : QuickBooks(c) \/ Plaid(c)
    \/ TokenExpires
    \/ Restart

Spec == Init /\ [][Next]_vars

-----------------------------------------------------------------------------
Places ==
    {"exchange", "refresh", "refreshed", "query", "revoke", "clear", "plaidExchange", "remove"}

TypeOK ==
    /\ StoreTypeOK
    /\ configured \subseteq Sections
    /\ job \in [Calls -> {Idle, Ended} \cup
          [at : Places, grant : Calls, realm : Realms \cup {NoRealm}]]
    /\ revoked \subseteq Calls
    /\ processed \in Seq(Events) /\ Len(processed) <= MaxProcessed
    /\ restarts \in Nat
    /\ realmOf \in [Calls -> Realms \cup {NoRealm}]
    /\ latest \in Calls \cup {Nobody}
    /\ before \subseteq Calls
    /\ outlived \in BOOLEAN
    /\ heard \in Seq(Events)

GrantIn(token) == IF token = NoToken THEN Nobody ELSE token.grant

\* The file holds what the last connect or disconnect to end left there, unless a refresh
\* that had begun before it ended after it and wrote its own token back.
ConnectionIsLatest == GrantIn(store["quickbooks"]) = latest \/ outlived

\* The realm that is asked with a token, or stored beside it, is the one its grant was
\* connected with, however refreshes and connects of other companies overlap.
TokenNamesItsCompany ==
    /\ Connected("quickbooks") =>
          store["quickbooks"].realm = realmOf[store["quickbooks"].grant]
    /\ \A c \in Calls : job[c].at \in {"refresh", "refreshed", "query"} =>
          job[c].realm = realmOf[job[c].grant]

\* The process dies inside the write of one of its calls, and both sections are gone.
Torn == Restart /\ (\E c \in Calls : Writing(c) /\ job'[c] = Ended) /\ store' = EmptyStore

\* Every save writes the whole file, and yet a QuickBooks call leaves Plaid's section as it
\* is, and a Plaid call QuickBooks': a section changes by its own integration's calls (a
\* QuickBooks token also by growing old), or is lost in a write that the process, writing
\* for whichever of them, does not survive.
SectionsKeptApart ==
    [][/\ store'["plaid"] # store["plaid"] => (\E c \in Calls : Plaid(c)) \/ Torn
       /\ store'["quickbooks"] # store["quickbooks"] =>
             (\E c \in Calls : QuickBooks(c)) \/ TokenExpires \/ Torn]_vars

\* In the life of a process an event is taken for new again, and its invoice announced
\* again, only after as many other events as the set remembers.
RepeatsAreFarApart ==
    \A i, j \in DOMAIN heard : i < j /\ heard[i] = heard[j] => j - i > MaxProcessed

(***************************************************************************)
(* The inductive invariant behind these: what the place of a call says of  *)
(* the token it has read, and the set of processed events as the end of    *)
(* what was heard.                                                         *)
(***************************************************************************)
Holding == {"refresh", "refreshed", "query", "revoke", "clear"}

\* A grant is known to the file and to other calls only once its connect has ended.
GrantsAreFresh ==
    \A c \in Calls : job[c].at \in {"idle", "exchange"} =>
        /\ GrantIn(store["quickbooks"]) # c
        /\ \A d \in Calls : job[d].at \in Holding => job[d].grant # c

\* A call that connects does so in its own name.
ExchangesOwnGrant == \A c \in Calls : job[c].at \in {"exchange", "plaidExchange"} => job[c].grant = c

\* A refresh that would write back another grant than the latest is known to.
RefreshesAreKnown ==
    \A c \in Refreshing : job[c].grant = latest \/ c \in before \/ outlived

\* The set holds the last events heard, and fewer than it may only while it is every one.
RemembersTheLast ==
    /\ Len(processed) <= Len(heard)
    /\ \A i \in DOMAIN processed : processed[i] = heard[Len(heard) - Len(processed) + i]
    /\ Len(heard) > Len(processed) => Len(processed) = MaxProcessed

IInv ==
    /\ TypeOK
    /\ GrantsAreFresh /\ ExchangesOwnGrant /\ TokenNamesItsCompany
    /\ RefreshesAreKnown /\ ConnectionIsLatest
    /\ RemembersTheLast /\ RepeatsAreFarApart

=============================================================================
