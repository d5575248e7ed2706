------------------------------ MODULE MCBlobs ------------------------------
(* Instances of BlobStore: two uploads of two chunks and a small one.       *)
EXTENDS BlobStore, TLC

CONSTANTS b1, b2, b3, r1, r2

MCSize == (b1 :> 3) @@ (b2 :> 3) @@ (b3 :> 1)
MCTwoSizes == (b1 :> 3) @@ (b2 :> 3)
Symmetry == Permutations({r1, r2})
=============================================================================
