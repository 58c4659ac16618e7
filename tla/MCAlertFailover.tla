--------------------------- MODULE MCAlertFailover ----------------------------
(* Instance of AlertFailover for TLC: two colors, which start and behave     *)
(* alike.                                                                    *)
EXTENDS AlertFailover, TLC

CONSTANTS blue, green

Interchangeable == Permutations({blue, green})
===============================================================================
