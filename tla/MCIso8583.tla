----------------------------- MODULE MCIso8583 -----------------------------
(* Instances of Iso8583 for TLC.  Each bit set mixes fixed and variable     *)
(* fields of both bitmaps with field 6, which is not in the table.          *)
EXTENDS Iso8583

\* F2, F3, F11, F12, F18, F54 and, behind the secondary bitmap, F102.
MCBitSets == {B \in SUBSET {1, 2, 3, 6, 11, 12, 18, 54, 102} :
                102 \in B => 1 \in B}

\* Around the shortest message, the two headers and the first fields, and room
\* for an F54 of more than its maximum.
MCSizes == {11, 12, 13, 14, 15, 18, 20, 21, 23, 26, 36, 150}

\* Signed, empty, short, odd, at and above the maxima of F2, F54 and F102, and
\* above 999.
MCNumbers == {-9, -1, 0, 1, 2, 5, 6, 19, 20, 28, 29, 120, 121, 1000}
=============================================================================
