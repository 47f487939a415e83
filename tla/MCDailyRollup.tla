--------------------------- MODULE MCDailyRollup ---------------------------
(***************************************************************************)
(* Two jobs over two days, one line sold on each.                          *)
(***************************************************************************)
EXTENDS DailyRollup

CONSTANTS l1, l2, p, q

MCDayOf == [l \in Line |-> IF l = l1 THEN 1 ELSE LastDay]
=============================================================================
