------------------------------- MODULE MCCall -------------------------------
(* Instances of Call: three tabs, two calls.                               *)
EXTENDS Call, TLC
CONSTANTS A, B, C, a1, b1, b2, c1, call1, call2
TwoOwners == a1 :> A @@ b1 :> B @@ b2 :> B
ThreeOwners == a1 :> A @@ b1 :> B @@ c1 :> C
PairOwners == a1 :> A @@ b1 :> B
\* The two accounts with their tabs are alike, and so are the calls.
Same == a1 :> a1 @@ b1 :> b1 @@ A :> A @@ B :> B
Swap == a1 :> b1 @@ b1 :> a1 @@ A :> B @@ B :> A
MCSymmetry == {p @@ c : p \in {Same, Swap}, c \in Permutations({call1, call2})}
=============================================================================
