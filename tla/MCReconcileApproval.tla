------------------------- MODULE MCReconcileApproval -------------------------
(***************************************************************************)
(* Small instances of ReconcileApproval, Worksheets and ChannelCalls.      *)
(* They share no state, so a behaviour is one of them; `part` says which.  *)
(*                                                                         *)
(* Approvals: one run of either kind with two diffs, handled by its screen *)
(* and by the admin script.                                                *)
(*                                                                         *)
(* Sheets: two masters, one without a stock row, two channel keys that     *)
(* name one master on CROSS MALL and one each on Shopify; sheets with a    *)
(* SKU counted twice, alias keys, an unknown code, empty cells and         *)
(* unreadable ones.                                                        *)
(*                                                                         *)
(* Calls: the reads and writes of the adapters, two at a time.  A shop of  *)
(* four variants on two pages, of which one is listed twice at a time, one *)
(* is not, one is not stocked and one is only made; orders with a          *)
(* cancelled one, one without lines and lines without an SKU; pushes of a  *)
(* pair that does not exist, the same pair twice, a negative quantity and  *)
(* a missing key.                                                          *)
(***************************************************************************)
EXTENDS ReconcileApproval, AdapterCalls, CountSheets, TLC

CONSTANTS r1, d1, d2, s1, s2, p1, p2

OneRun == [d \in Diff |-> r1]
TwoSkus == [d \in Diff |-> IF d = d1 THEN s1 ELSE s2]

Ask(by, op, r, ds) == [by |-> by, op |-> op, run |-> r, diffs |-> ds]

Close(by, r) == {Ask(by, op, r, <<>>) : op \in {"finalize", "cancel"}}

Single(by, r) == {Ask(by, op, r, <<d>>) : op \in {"approve", "skip"}, d \in {d1, d2}}

\* The bulk buttons of the stocktake screen take any selection of diffs.
Bulk(r) ==
    {Ask("stocktake", op, r, ds) : op \in {"approve", "skip"},
                                   ds \in {<<d1>>, <<d2>>, <<d1, d2>>, <<d2, d1>>}}

\* Everything the two screens and the admin script may ask of one run.
AllRequests ==
    Single("reconcile", r1) \cup Close("reconcile", r1)
        \cup Single("script", r1)
        \cup Bulk(r1) \cup Close("stocktake", r1)

-----------------------------------------------------------------------------
Cell(k, mark, q) == [key |-> k, mark |-> mark, qty |-> q]
Figure(k, q) == Cell(k, "figure", q)

Sheets ==
    ("stocktake" :> {<<Figure("A", 2), Figure("A", 1), Cell("B", "junk", 0)>>,
                     <<Cell("A", "blank", 0), Figure("B", 0), Figure("no master", 1)>>}) @@
    ("crossmall" :> {<<Figure("k1", 1), Figure("k2", 1), Figure("k1", 0)>>,
                     <<Figure("k1", 2), Cell("k2", "blank", 0)>>,
                     <<Cell("k1", "blank", 0), Cell("k2", "junk", 0)>>}) @@
    ("shopify" :> {<<Figure("k1", 2), Cell("k2", "untracked", 0)>>})

Aliases == ("crossmall" :> (("k1" :> "A") @@ ("k2" :> "A"))) @@
           ("shopify" :> (("k1" :> "A") @@ ("k2" :> "B")))

Variant(sku, listed, n) == [sku |-> sku, listed |-> listed, onHand |-> n]
Shop == << Variant("A", TRUE, 1), Variant("B", FALSE, 0), Variant("C", TRUE, None),
           Variant(None, FALSE, None) >>
ShopEdits == {<<4, Variant("A", TRUE, 0)>>, <<1, Variant(None, FALSE, None)>>,
              <<2, Variant("", TRUE, 0)>>}

OrderLine(id, sku, variant, q) == [id |-> id, sku |-> sku, variant |-> variant, qty |-> q]
OrderNode(cancelled, fulfilment, lines) ==
    [cancelled |-> cancelled, fulfilment |-> fulfilment, lines |-> lines]
Nodes ==
    << OrderNode(FALSE, "PARTIALLY_FULFILLED", <<OrderLine(1, "A", 1, 0)>>),
       OrderNode(FALSE, "FULFILLED",
                 <<OrderLine(1, "A", 1, 1), OrderLine(2, "", 2, 2), OrderLine(3, "B", 2, 1)>>),
       OrderNode(TRUE, "UNFULFILLED", <<OrderLine(1, "", None, 1)>>),
       OrderNode(FALSE, "IN_PROGRESS", <<OrderLine(1, "A", None, 1)>>),
       OrderNode(FALSE, "UNFULFILLED", <<>>) >>
OrderDays == <<1, 2, 2, 2, 1>>

Burst == [ch \in Endpoint |-> IF ch = "shopify" THEN 2 ELSE 1]
OnePerStep == [ch \in Endpoint |-> 1]

Call(what) ==
    [kind |-> what, rows |-> <<>>, sku |-> None, qty |-> 0, most |-> 0, since |-> 0]
SetCall(sku, q) == [Call("set") EXCEPT !.sku = sku, !.qty = q]
Upserts(rows) == [Call("upsert") EXCEPT !.rows = rows]
PairRow(pair, q) == [variant |-> pair, qty |-> q]

\* A read, a set or an upsert beside a write of the same channel; the other calls alone.
CallPlans ==
    {<<c, SetCall("B", 3)>> : c \in {Call("levels"), SetCall("A", 2), SetCall("A", -1)}}
    \cup {<<Upserts(<<PairRow("p", 1), PairRow("q", 2), PairRow("orphan", 1)>>),
            Upserts(<<PairRow("p", 3)>>)>>}
    \cup {<<c, None>> :
            c \in {Call("catalogue"), Call("variants"), [Call("variants") EXCEPT !.most = 3],
                   [Call("orders") EXCEPT !.since = 2],
                   Upserts(<<PairRow("p", 1), PairRow("q", 1), PairRow("p", -1)>>),
                   Upserts(<<PairRow(None, 1)>>),
                   [Call("backfill") EXCEPT !.rows = <<{1}, {2}>>]}}

VARIABLES part, desk, changes, edits, cached

Sheet == INSTANCE Worksheets WITH
    ChannelKey <- {"k1", "k2"}, File <- Sheets, Stocked <- "A" :> 1,
    Mappings <- Aliases, MaxQty <- 2, MaxRuns <- 2, MaxChanges <- 3

sheetVars == <<stock, mapping, flags, desk, runs, standing, changes>>

Calls == INSTANCE ChannelCalls WITH
    FirstShop <- Shop, Edits <- ShopEdits, FirstOrders <- 1..4, MaxAttempts <- 2, MaxEdits <- 1

callVars == <<shop, updated, displayed, edits, cached, bucket, call>>

CountsInit ==
    /\ part \in {"approvals", "sheets", "calls"}
    /\ Init /\ Sheet!Init /\ Calls!Init
    \* The parts that stay as they start do so in one way.
    /\ part # "calls" => [t \in Task |-> call[t].op] = CHOOSE p \in Plans : TRUE

CountsNext ==
    /\ UNCHANGED part
    /\ \/ part = "approvals" /\ Next /\ UNCHANGED <<sheetVars, callVars>>
       \/ part = "sheets" /\ Sheet!Next /\ UNCHANGED <<vars, callVars>>
       \/ part = "calls" /\ Calls!Next /\ UNCHANGED <<vars, sheetVars>>

CountsSpec == CountsInit /\ [][CountsNext]_<<part, vars, sheetVars, callVars>>
=============================================================================
