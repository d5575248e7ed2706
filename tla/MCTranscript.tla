---------------------------- MODULE MCTranscript ----------------------------
(* Instances of Transcript: what bob writes, as it reaches alice, and what   *)
(* alice writes herself.                                                     *)
EXTENDS Transcript

CONSTANTS t1, t2, m1, m2, alice, bob

MCFrom == [m \in {m1, m2} |-> IF m = m1 THEN bob ELSE alice]

Says(kind, m, u) == [kind |-> kind, of |-> m, by |-> u]
\* bob writes, edits and deletes m1 while alice writes m2.
MCFeed == << Says("message", m1, bob), Says("edit", m1, bob), Says("message", m2, alice),
             Says("delete", m1, bob) >>
MCOwn == {3}
\* A burn message alone.
MCBurnFeed == << Says("message", m1, bob) >>
MCNoFrames == {}
=============================================================================
