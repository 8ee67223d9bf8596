------------------------------ MODULE MCCache ------------------------------
(* Instances of Cache for TLC: a bitmap block m and blocks a, b, c.  In the  *)
(* first a shares the row of the bitmap, which stays in the cache, b and c   *)
(* share a row that can be cut; in the second a, b and c share one.         *)
EXTENDS Cache

CONSTANTS m, a, b, c

MCBlock   == {m, a, b, c}
MCBitmaps == <<m>>
MCMixed   == [x \in MCBlock |-> IF x \in {b, c} THEN 1 ELSE 0]
MCApart   == [x \in MCBlock |-> IF x = m THEN 1 ELSE 0]

\* A run is followed up to the first row that is cut.
Uncut == ~cut
=============================================================================
