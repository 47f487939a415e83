-------------------------- MODULE MCSnapshotRepair --------------------------
(***************************************************************************)
(* Small instances of SnapshotRepair: repairs of one SKU or of both next   *)
(* to an order on both SKUs, and to counts of both that are approved in    *)
(* the opposite order.                                                     *)
(***************************************************************************)
EXTENDS SnapshotRepair, TLC

CONSTANTS a, b, l1, p1, p2

MCSku == {a, b}
MCLine == {l1}
MCSession == {p1, p2}

C(kind, s, l, q) == [kind |-> kind, sku |-> s, line |-> l, qty |-> q]

MCWork == {
    <<C("consume", a, l1, 1), C("consume", b, l1, 2)>>,
    <<C("count", b, NoLine, 1), C("count", a, NoLine, 2)>> }

MCTargets == {<<a>>, <<b, a>>}

Sessions == Permutations(MCSession)
=============================================================================
