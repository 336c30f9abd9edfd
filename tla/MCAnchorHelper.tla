--------------------------- MODULE MCAnchorHelper ---------------------------
(* Instances of AnchorHelper for TLC. *)
EXTENDS AnchorHelper, TLC

CONSTANTS a1, a2, x, y, g

\* a1 is found at x and the others at y; g is only ever typed.
MCOwnAddr == [a \in Anchor |-> IF a = a1 THEN x ELSE y]

\* The threads of a pool, the connections, and the anchors found at y are interchangeable.
MCSymmetry == Permutations(Job) \cup Permutations(Conn) \cup Permutations(Scanner)
                \cup Permutations(Anchor \ {a1})
=============================================================================
