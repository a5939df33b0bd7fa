-------------------------------- MODULE MCPin --------------------------------
(* A port of four pins, two contexts and two overlapping groups with gaps.   *)
EXTENDS Pin

CONSTANTS c1, c2

MCPins   == {0, 1, 3, 6}
MCPinsOf == [c \in {c1, c2} |-> IF c = c1 THEN {0, 1} ELSE {3}]
MCGroups == {[pins |-> {1, 3, 6}, inversions |-> {3}],
             [pins |-> {0, 6}, inversions |-> {}]}
MCValues == SUBSET (0..3)

=============================================================================
