----------------------------- MODULE TokenStore -----------------------------
(***************************************************************************)
(* TokenStorageService: one file, data/integrations.json, with a section   *)
(* for each integration.  Every operation reads the whole file and, to     *)
(* change a section, writes the whole file back, synchronously: each is    *)
(* one step of the process.                                                *)
(*                                                                         *)
(* A file that cannot be parsed, or a token that cannot be decrypted,      *)
(* reads as no token at all.                                               *)
(***************************************************************************)
CONSTANTS
    QboTokens, PlaidTokens,    \* the tokens of each section
    NoToken

VARIABLE store     \* the file, as its readers see it

Sections == {"quickbooks", "plaid"}

EmptyStore == [s \in Sections |-> NoToken]

Connected(section) == store[section] # NoToken

\* Mutant: a token of QuickBooks is written without the file's other section.
SaveAlone(section, token) ==
    store' = [IF section = "quickbooks" THEN EmptyStore ELSE store EXCEPT ![section] = token]

SaveToken(section, token) == store' = [store EXCEPT ![section] = token]

ClearToken(section) == store' = [store EXCEPT ![section] = NoToken]

\* The process dies while the file is truncated and not yet written again.
Tear == store' = EmptyStore

StoreTypeOK ==
    /\ DOMAIN store = Sections
    /\ store["quickbooks"] \in QboTokens \cup {NoToken}
    /\ store["plaid"] \in PlaidTokens \cup {NoToken}

=============================================================================
