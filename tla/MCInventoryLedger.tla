-------------------------- MODULE MCInventoryLedger --------------------------
(***************************************************************************)
(* Small instances of InventoryLedger: a bundle line on two SKUs, a second *)
(* order that lists the same SKUs in the opposite order, their             *)
(* cancellations, adjustments in both directions and a stocktake.          *)
(***************************************************************************)
EXTENDS InventoryLedger, TLC

CONSTANTS a, b, l1, l2, p1, p2

MCSku == {a, b}
MCLine == {l1, l2}
MCSession == {p1, p2}

C(kind, s, l, q) == [kind |-> kind, sku |-> s, line |-> l, qty |-> q]

MCWork == {
    <<C("consume", a, l1, 1), C("consume", b, l1, 2)>>,
    <<C("return", a, l1, 1), C("return", b, l1, 2)>>,
    <<C("consume", b, l2, 1), C("consume", a, l2, 1)>>,
    <<C("adjust", a, NoLine, 1)>>,
    <<C("adjust", a, NoLine, -1)>>,
    <<C("count", b, NoLine, 1)>> }

Sessions == Permutations(MCSession)
=============================================================================
