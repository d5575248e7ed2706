---------------------------- MODULE MCRelayGroup ----------------------------
(* Instances of Relay for a group channel of alice, bob and carol; bob has  *)
(* two tabs.                                                                *)
EXTENDS Relay

CONSTANTS alice, bob, carol, a1, b1, b2, c1, m1, m2

MCUser == {alice, bob, carol}
MCSocket == {a1, b1, b2, c1}
MCOwner == [s \in MCSocket |-> IF s = a1 THEN alice ELSE IF s = c1 THEN carol ELSE bob]
MCMsg == {m1, m2}
MCFrom == [m \in MCMsg |-> IF m = m1 THEN alice ELSE carol]
MCOneMsg == {m1}
MCFromOne == [m \in MCOneMsg |-> alice]
MCBobBlocksAlice == {<<bob, alice>>}
MCNoPairs == {}
MCNoRows == {}
=============================================================================
