--------------------------- MODULE MCProvisioning ---------------------------
(***************************************************************************)
(* A small instance of Provisioning: the registrations ask for one email,  *)
(* the mappings name one external account.  Two accounts stand for the six *)
(* of createAccountsForWallet: a wallet has none, some or all of them.     *)
(***************************************************************************)
EXTENDS Provisioning

MCEmailOf == [r \in Registrations |-> "e"]
MCAccountTypes == <<"CASH", "PAYABLE">>
MCExternalOf == [m \in Mappings |-> "x"]

=============================================================================
