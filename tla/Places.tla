-------------------------------- MODULE Places ---------------------------------
(***************************************************************************)
(* Where a place in a text is, by counting: the reference of the line and  *)
(* column Scanner keeps. Indices count from 1.                             *)
(***************************************************************************)
EXTENDS Scanner, FiniteSets

\* Where lines end: CR before LF is not an end, LF is.
Ends(s) == {i \in DOMAIN s : /\ IsLineTerminator(s[i])
                             /\ ~(s[i] = 13 /\ i < Len(s) /\ s[i + 1] = 10)}

\* The line and column of the character at an index, a leading BOM not counted.
Place(s, i) ==
    LET before == {e \in Ends(s) : e < i}
        bom == IF s # <<>> /\ s[1] = Bom THEN 1 ELSE 0
        last == IF before = {} THEN bom ELSE CHOOSE e \in before : \A f \in before : e >= f
    IN  [line |-> 1 + Cardinality(before), col |-> i - last]

Index(p) == p.pos + 1

\* The line and column kept are at every moment those of the character at the
\* cursor, whichever of the loops and fast paths brought it there.
PositionCounts ==
    LET place == Place(text, Index(at)) IN at.line = place.line /\ at.col = place.col
=============================================================================
