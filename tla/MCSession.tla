----------------------------- MODULE MCSession -----------------------------
(* Instances of Session for one tab and the accounts of two people.        *)
EXTENDS Session, TLC

CONSTANTS alice, bob

MCOne == {alice}
MCTwo == {alice, bob}
MCSymmetry == Permutations(MCTwo)
=============================================================================
