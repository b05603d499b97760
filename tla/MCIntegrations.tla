--------------------------- MODULE MCIntegrations ---------------------------
(***************************************************************************)
(* A small instance of Integrations.                                       *)
(***************************************************************************)
EXTENDS Integrations

MCQboTokens == [grant : Calls, realm : Realms \cup {NoRealm}, valid : BOOLEAN]
MCPlaidTokens == [grant : Calls \cup {Mock}]

Symmetric == Permutations(Calls) \cup Permutations(Realms)

=============================================================================
