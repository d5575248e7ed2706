----------------------------- MODULE MCBilling -----------------------------
(* Instances of Billing: a subscription and two gifts.                      *)
EXTENDS Billing, TLC

CONSTANTS alice, s1, g1, g2, r1, r2

MCOneUser == {alice}
MCMonths == (g1 :> 1) @@ (g2 :> 2)
Symmetry == Permutations({r1, r2})
=============================================================================
