---------------------------- MODULE Idempotency ----------------------------
(***************************************************************************)
(* IdempotencyService: the table of idempotency keys and the statements it *)
(* runs on it.  check() is a read followed by another statement, so a      *)
(* module that uses it takes the read as one step (the predicates on the   *)
(* row found) and DropExpired or Reserve as the next.  Each statement is   *)
(* an action on keys alone, enabled when the statement succeeds; "row      *)
(* gone" and "row there" are what makes delete, update and create throw.   *)
(***************************************************************************)
CONSTANTS
    Keys,        \* the keys clients send
    Responses    \* what a completed operation may have answered

VARIABLE keys    \* the idempotency_keys table

NoRow == [row |-> "none"]
NoResponse == [response |-> "none"]

Rows == [response : Responses \cup {NoResponse}, expired : BOOLEAN]

KeysInit == keys = [k \in Keys |-> NoRow]

KeysTypeOK == keys \in [Keys -> Rows \cup {NoRow}]

Exists(k) == keys[k] # NoRow
Stale(k) == Exists(k) /\ keys[k].expired
Completed(k) == Exists(k) /\ ~keys[k].expired /\ keys[k].response # NoResponse
InProgress(k) == Exists(k) /\ ~keys[k].expired /\ keys[k].response = NoResponse

\* create: the unique key refuses a second row.
Reserve(k) ==
    /\ ~Exists(k)
    /\ keys' = [keys EXCEPT ![k] = [response |-> NoResponse, expired |-> FALSE]]

\* delete of the row that was found expired: it may be gone, or be another by now.
DropExpired(k) ==
    /\ Exists(k)
    /\ keys' = [keys EXCEPT ![k] = NoRow]

\* update: throws when the row is gone.
Complete(k, response) ==
    /\ Exists(k)
    /\ keys' = [keys EXCEPT ![k].response = response]

\* deleteMany: finds one row or none.
Remove(k) == keys' = [keys EXCEPT ![k] = NoRow]

\* The row's time to live (24 hours by default) runs out.
Expire(k) ==
    /\ Exists(k) /\ ~keys[k].expired
    /\ keys' = [keys EXCEPT ![k].expired = TRUE]

=============================================================================
