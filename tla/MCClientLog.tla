----------------------------- MODULE MCClientLog -----------------------------
(* Two access points, the first with two radios, the second names none.       *)
EXTENDS ClientLog

CONSTANTS r2, r5

MCPlaces == {<<1, r2>>, <<1, r5>>, <<2, Unknown>>}
\* One handler for each access point, two for the first.
MCOwner == [h \in {1, 2} |-> h]
MCOwner3 == [h \in {1, 2, 3} |-> IF h = 2 THEN 2 ELSE 1]
=============================================================================
