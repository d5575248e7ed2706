----------------------------- MODULE MCAccounts -----------------------------
(* Two names, one of them with a row of the old generation and a verified   *)
(* address, and two requests at a time.                                     *)
EXTENDS Accounts, TLC

CONSTANTS Old, New, Home

MCAccount == {Old, New}
MCRegistered == {Old}
MCAttached == [u \in MCAccount |-> IF u = Old THEN Home ELSE None]
MCRoutes == AllRoutes
MCSymmetry == Permutations(Request) \cup Permutations(Token)
=============================================================================
