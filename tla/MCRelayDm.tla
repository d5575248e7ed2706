----------------------------- MODULE MCRelayDm -----------------------------
(* Instances of Relay for a direct message between alice and bob.           *)
EXTENDS Relay

CONSTANTS alice, bob, a1, b1, m1, m2

MCUser == {alice, bob}
MCSocket == {a1, b1}
MCOwner == [s \in MCSocket |-> IF s = a1 THEN alice ELSE bob]
MCOneMsg == {m1}
MCFromOne == [m \in MCOneMsg |-> alice]
MCTwoMsgs == {m1, m2}
MCFromAlice == [m \in MCTwoMsgs |-> alice]
MCBobBlocksAlice == {<<bob, alice>>}
MCNoPairs == {}
MCNoRows == {}
MCOldRow == {<<m2, bob>>}
=============================================================================
