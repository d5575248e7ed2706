------------------------------ MODULE MCKeyring ------------------------------
(* Instances of Keyring.                                                    *)
EXTENDS Keyring, TLC
CONSTANTS c1, c2, bob, k1, k2, w1, u1, f1, f2
=============================================================================
