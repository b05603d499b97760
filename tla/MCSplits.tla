----------------------------- MODULE MCSplits -----------------------------
(***************************************************************************)
(* Small splits: amounts up to MaxAmount in halves of a unit, ratios in    *)
(* tenths, two or three participants, with and without a platform fee, and *)
(* orders the engine must refuse.                                          *)
(***************************************************************************)
EXTENDS Splits

CONSTANTS MaxAmount

Ratios ==
    {<<10>>, <<7, 3>>, <<3, 7>>, <<5, 5>>, <<0, 10>>, <<4, 3, 3>>, <<3, 3, 4>>, <<1, 8, 1>>,
     <<6, 3>>, <<3, 3, 3>>, <<1, 5, 2>>, <<2, 2, 3>>, <<0, 0>>}

People == <<"a", "b", "a">>
Names == <<"a", "b", "c">>

Team(names, ratios) == [i \in DOMAIN ratios |-> Participant(names[i], ratios[i])]

MCOrders ==
    {Order("p", amount, Team(names, ratios), fee, platform) :
        amount \in 1..MaxAmount, names \in {Names, People}, ratios \in Ratios,
        fee \in {0, 1, 2, 3, 10}, platform \in {"f", "gone", NoWallet}}
    \cup {Order("gone", 3, Team(Names, <<7, 3>>), 0, NoWallet),
          Order("p", 3, <<Participant("gone", 10)>>, 0, NoWallet)}

=============================================================================
