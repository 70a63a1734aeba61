----------------------------- MODULE MCTSPacker -----------------------------
(* Sizes of units for TLC: around what one, two and three packets hold,    *)
(* and the largest ones whose length the PES header can and cannot give.   *)
EXTENDS TSPacker

Boundaries == {0, 1, 167, 168, 169, 170, 171, 352, 353, 354, 355, 538, 539,
               65525, 65526, 65527, 65528}
=============================================================================
