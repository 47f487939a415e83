---------------------------- MODULE SalesFigures ----------------------------
(***************************************************************************)
(* The sales figures of the analytics screens: the order lines, the tables *)
(* the daily rollup derives from them (services/analytics_rollup.py), the  *)
(* queries that read those tables over a period                            *)
(* (services/analytics_query.py), the audit that computes the same numbers *)
(* from the orders (services/analytics_audit.py), and the category tree    *)
(* the sales are broken down by (services/categories.py).                  *)
(*                                                                         *)
(* Abstractions.  A rebuild of a day is one step: how the rebuilds run is  *)
(* DailyRollup's subject.  An order has its day, channel and lines from    *)
(* the start.  The stock figures are StockScreens's subject.               *)
(***************************************************************************)
EXTENDS Integers, FiniteSetsExt

CONSTANTS
    Order, Line, Item, Channel, Master, Category,
    LastDay,    \* days of sale are 1..LastDay
    DayOf,      \* [Order -> Day]: the JST day of ordered_at
    ChannelOf,  \* [Order -> Channel]
    OrderOf,    \* [Line -> Order]
    ItemOf,     \* [Line -> Item]: channel_sku
    Quantity,   \* [Line -> Nat \ {0}]: ck_order_items_qty_positive
    Price,      \* [Line -> Nat]: unit_price
    FirstTree,  \* the category tree to begin with
    FirstCategory, \* [Master -> Category or NULL] to begin with
    Sheets,     \* SKU assignment sheets: sequences of <<SKU, category code or NULL>>
    Week,       \* days per bucket
    MaxEdits,   \* bound: writes to orders and categories
    NULL

Day == 1..LastDay

ASSUME ShapeAssumption ==
    /\ LastDay \in Nat \ {0} /\ Week \in Nat \ {0} /\ MaxEdits \in Nat
    /\ DayOf \in [Order -> Day] /\ ChannelOf \in [Order -> Channel]
    /\ OrderOf \in [Line -> Order] /\ ItemOf \in [Line -> Item]
    /\ Quantity \in [Line -> Nat \ {0}] /\ Price \in [Line -> Nat]
ASSUME NullAssumption == NULL \notin Master \cup Category \cup Channel
\* assert_valid_parent: what is under a category is a top category, and there.
ASSUME TreeAssumption ==
    /\ {"absent", "root", "any"} \cap (Category \cup {NULL}) = {}
    /\ FirstTree \in [Category -> Category \cup {"absent", "root"}]
    /\ \A k \in Category : FirstTree[k] \in Category => FirstTree[FirstTree[k]] = "root"
    /\ FirstCategory \in [Master -> {k \in Category : FirstTree[k] # "absent"} \cup {NULL}]

VARIABLES
    status,     \* [Order -> "absent" or its status]
    master,     \* [Line -> the SKU it is attributed to, or NULL]
    tree,       \* [Category -> "absent", "root", or its parent]
    active,     \* the categories that are not disabled
    category,   \* [Master -> Category or NULL]
    sales,      \* sku_daily_sales
    unmapped,   \* daily_unmapped_sales
    kpis,       \* daily_kpi_snapshots: a function of the days that have a row
    touched,    \* history: days written to since they were rebuilt
    edits

orders == <<status, master>>
taxonomy == <<tree, active, category>>
rollup == <<sales, unmapped, kpis>>
salesVars == <<orders, taxonomy, rollup, touched, edits>>

Cancelled == {"cancelled", "returned"}

Sum(f(_), S) == MapThenSumSet(f, S)

LinesOf(o) == {l \in Line : OrderOf[l] = o}
Live(o) == status[o] \notin Cancelled \cup {"absent"}
Amount(l) == Quantity[l] * Price[l]
Count(l) == Quantity[l]

-----------------------------------------------------------------------------
(* One day of the rollup *)

LinesOn(d) == {l \in Line : status[OrderOf[l]] # "absent" /\ DayOf[OrderOf[l]] = d}

\* _build_sales: a row per channel and SKU, live and cancelled lines apart.
SalesRow(d, c, m) ==
    LET here == {l \in LinesOn(d) : ChannelOf[OrderOf[l]] = c /\ master[l] = m}
        live == {l \in here : Live(OrderOf[l])}
    IN  [day |-> d, channel |-> c, master |-> m, category |-> category[m],
         orders |-> Cardinality({OrderOf[l] : l \in here}),
         quantity |-> Sum(Count, live), gross |-> Sum(Amount, live),
         cancelledQuantity |-> Sum(Count, here \ live), cancelledGross |-> Sum(Amount, here \ live)]

BuildSales(d) ==
    {SalesRow(d, ChannelOf[OrderOf[l]], master[l]) : l \in {x \in LinesOn(d) : master[x] # NULL}}

\* _build_unmapped: the lines of live orders that never found a SKU.
UnmappedRow(d, c, i) ==
    LET here == {l \in LinesOn(d) : /\ ChannelOf[OrderOf[l]] = c /\ ItemOf[l] = i
                                    /\ master[l] = NULL /\ Live(OrderOf[l])}
    IN  [day |-> d, channel |-> c, item |-> i, orders |-> Cardinality({OrderOf[l] : l \in here}),
         quantity |-> Sum(Count, here), gross |-> Sum(Amount, here)]

BuildUnmapped(d) ==
    {UnmappedRow(d, ChannelOf[OrderOf[l]], ItemOf[l]) :
        l \in {x \in LinesOn(d) : master[x] = NULL /\ Live(OrderOf[x])}}

Gross(r) == r.gross
Units(r) == r.quantity
Orders(r) == r.orders

\* Faulty variant: the orders of each SKU added up.
BuildKpiPerSku(d, rows, others) ==
    [orders |-> Sum(Orders, rows), quantity |-> Sum(Units, rows),
     gross |-> Sum(Gross, rows), unmapped |-> Sum(Gross, others)]

\* _build_kpi: money from the rows just built, orders from the orders themselves.
BuildKpi(d, rows, others) ==
    [orders |-> Cardinality({o \in Order : Live(o) /\ DayOf[o] = d}),
     quantity |-> Sum(Units, rows), gross |-> Sum(Gross, rows), unmapped |-> Sum(Gross, others)]

-----------------------------------------------------------------------------
(* The queries.  A period is a set of consecutive days. *)

Periods == {first..last : first, last \in Day} \ {{}}

NoData == [orders |-> 0, quantity |-> 0, gross |-> 0, unmapped |-> 0]
KpiOf(d) == IF d \in DOMAIN kpis THEN kpis[d] ELSE NoData

\* period_kpis, the flows.
PeriodKpis(p) ==
    [orders |-> Sum(LAMBDA d : KpiOf(d).orders, p), quantity |-> Sum(LAMBDA d : KpiOf(d).quantity, p),
     gross |-> Sum(LAMBDA d : KpiOf(d).gross, p), unmapped |-> Sum(LAMBDA d : KpiOf(d).unmapped, p),
     daysWithData |-> Cardinality(p \cap DOMAIN kpis)]

\* SalesFilter: by channel or not; by category, by having none, or not at all.
AnyCategory == "any"
Narrow(where, c, k) == where.channel \in {NULL, c} /\ where.category \in {AnyCategory, k}
Filters == [channel : Channel \cup {NULL}, category : Category \cup {NULL, AnyCategory}]
Everything == [channel |-> NULL, category |-> AnyCategory]

SalesRows(p, where) == {r \in sales : r.day \in p /\ Narrow(where, r.channel, r.category)}

\* channel_share, the unmapped sales a channel of their own (NULL).
ChannelShare(p) ==
    [c \in {r.channel : r \in SalesRows(p, Everything)} \cup {NULL} |->
        Sum(Gross, IF c = NULL THEN {r \in unmapped : r.day \in p}
                               ELSE SalesRows(p, [Everything EXCEPT !.channel = c]))]

\* Faulty variant: the category is the one the SKU of a line has now.
OrderCountByToday(d, where) ==
    Cardinality({o \in Order :
        /\ Live(o) /\ DayOf[o] = d /\ where.channel \in {NULL, ChannelOf[o]}
        /\ \/ where.category = AnyCategory
           \/ \E l \in LinesOf(o) : master[l] # NULL /\ category[master[l]] = where.category})

\* daily_order_count_stmt: live orders as they are now; a category is the one the
\* rollup has filed the SKU of a line under on that day.
OrderCount(d, where) ==
    Cardinality({o \in Order :
        /\ Live(o) /\ DayOf[o] = d /\ where.channel \in {NULL, ChannelOf[o]}
        /\ \/ where.category = AnyCategory
           \/ \E l \in LinesOf(o), r \in sales :
                /\ r.day = d /\ r.channel = ChannelOf[o] /\ r.master = master[l]
                /\ r.category = where.category})

Bucket(d, days) == d - ((d - 1) % days)

\* bucketed_sales, in buckets of so many days.
BucketedSales(p, where, days) ==
    LET row(b) == LET within == {d \in p : Bucket(d, days) = b} IN
                  [quantity |-> Sum(Units, SalesRows(within, where)), gross |-> Sum(Gross, SalesRows(within, where)),
                   orders |-> Sum(LAMBDA d : OrderCount(d, where), within)]
    IN  [b \in {Bucket(d, days) : d \in p} |-> row(b)]

\* top_skus without its limit: the rows of a SKU, by the name of their category.
SkuSales(p, where) ==
    [key \in {<<r.master, r.category>> : r \in SalesRows(p, where)} |->
        Sum(Gross, {r \in SalesRows(p, where) : r.master = key[1] /\ r.category = key[2]})]

\* category_sales: a category that sold nothing is there to hold those under it.
CategoryTotals(p, where) ==
    LET own(k) == Sum(Gross, {r \in SalesRows(p, where) : r.category = k})
        sold == {k \in Category : tree[k] # "absent" /\ \E r \in SalesRows(p, where) : r.category = k}
        node == sold \cup {tree[k] : k \in {x \in sold : tree[x] \in Category}}
        roots == {k \in node : k \notin sold \/ tree[k] \notin node}
    IN  [k \in roots \cup {NULL} |-> own(k) + Sum(own, {c \in sold : tree[c] = k})]

\* pct_change, on sales with the unmapped ones.
PctChange(now, base) ==
    ((now.gross + now.unmapped - base.gross - base.unmapped) * 100) \div (base.gross + base.unmapped)

\* Period.previous: as many days, just before.
Previous(p) == {d - Cardinality(p) : d \in p}

\* overview_deltas shows a change over a whole baseline only; nor is there one from zero.
ShowsChange(before) ==
    LET base == PeriodKpis(before) IN
    base.daysWithData = Cardinality(before) /\ base.gross + base.unmapped > 0

\* load_overview: the SKUs of each top category with those under it, and the others.
SkuCounts ==
    LET own(k) == Cardinality({m \in Master : category[m] = k}) IN
    [k \in {x \in Category : tree[x] = "root"} \cup {NULL} |->
        own(k) + Sum(own, {c \in Category : tree[c] = k})]

-----------------------------------------------------------------------------
(* The audit *)

\* recompute_from_orders touches no rollup table.
FromOrders(p) ==
    LET lines == {l \in Line : Live(OrderOf[l]) /\ DayOf[OrderOf[l]] \in p}
        known == {l \in lines : master[l] # NULL}
    IN  [orders |-> Cardinality({o \in Order : Live(o) /\ DayOf[o] \in p}),
         quantity |-> Sum(Count, known), gross |-> Sum(Amount, known),
         unmapped |-> Sum(Amount, lines \ known)]

\* missing_rollup_days.
MissingDays(p) == p \ DOMAIN kpis

\* reconcile_period: the measures that differ.
Disagreements(p) ==
    {measure \in {"orders", "quantity", "gross", "unmapped"} :
        PeriodKpis(p)[measure] # FromOrders(p)[measure]}

\* daily_rows of verify_analytics_totals: each day a period; unmapped is not compared.
DayAgrees(d) == Disagreements({d}) \subseteq {"unmapped"}

-----------------------------------------------------------------------------
(* Steps *)

SalesInit ==
    /\ status = [o \in Order |-> "absent"]
    /\ master = [l \in Line |-> NULL]
    /\ tree = FirstTree
    /\ active = {k \in Category : tree[k] # "absent"}
    /\ category = FirstCategory
    /\ sales = {}
    /\ unmapped = {}
    /\ kpis = <<>>
    /\ touched = {}
    /\ edits = 0

Edit == edits < MaxEdits /\ edits' = edits + 1

\* An order arrives, each item of it mapped to some SKU or to none.
Place(o) ==
    /\ status[o] = "absent" /\ Edit
    /\ status' = [status EXCEPT ![o] = "new"]
    /\ \E found \in [{ItemOf[l] : l \in LinesOf(o)} -> Master \cup {NULL}] :
        master' = [l \in Line |-> IF OrderOf[l] = o THEN found[ItemOf[l]] ELSE master[l]]
    /\ touched' = touched \cup {DayOf[o]}
    /\ UNCHANGED <<taxonomy, rollup>>

Cancel(o) ==
    /\ Live(o) /\ Edit
    /\ \E why \in Cancelled : status' = [status EXCEPT ![o] = why]
    /\ touched' = touched \cup {DayOf[o]}
    /\ UNCHANGED <<master, taxonomy, rollup>>

\* A mapping is saved for the item: its lines that have none get the SKU.
Attribute(i, m) ==
    LET open == {l \in Line : ItemOf[l] = i /\ master[l] = NULL /\ status[OrderOf[l]] # "absent"} IN
    /\ open # {} /\ Edit
    /\ master' = [l \in Line |-> IF l \in open THEN m ELSE master[l]]
    /\ touched' = touched \cup {DayOf[OrderOf[l]] : l \in open}
    /\ UNCHANGED <<status, taxonomy, rollup>>

\* rebuild_day: the rows of the day are deleted and built anew.
Rebuild(d) ==
    LET rows == BuildSales(d)
        others == BuildUnmapped(d)
    IN  /\ sales' = {r \in sales : r.day # d} \cup rows
        /\ unmapped' = {r \in unmapped : r.day # d} \cup others
        /\ kpis' = [x \in DOMAIN kpis \cup {d} |->
                        IF x = d THEN BuildKpi(d, rows, others) ELSE kpis[x]]
        /\ touched' = touched \ {d}
        /\ UNCHANGED <<orders, taxonomy, edits>>

\* category_create; the form offers the top categories, disabled ones too.
Create(k) ==
    /\ tree[k] = "absent" /\ Edit
    /\ \E parent \in {"root"} \cup {x \in Category : tree[x] = "root"} :
        tree' = [tree EXCEPT ![k] = parent]
    /\ active' = active \cup {k}
    /\ UNCHANGED <<orders, category, rollup, touched>>

\* category_toggle: assert_can_deactivate looks at the children.
Toggle(k) ==
    /\ tree[k] # "absent" /\ Edit
    /\ \/ k \in active /\ (\A c \in active : tree[c] # k) /\ active' = active \ {k}
       \/ k \notin active /\ active' = active \cup {k}
    /\ UNCHANGED <<orders, tree, category, rollup, touched>>

\* Faulty variant: the sales rows keep the category that is no more.
DeleteLeavingRows(k) ==
    /\ tree[k] # "absent" /\ Edit
    /\ \A m \in Master : category[m] # k
    /\ \A c \in Category : tree[c] # k
    /\ tree' = [tree EXCEPT ![k] = "absent"]
    /\ active' = active \ {k}
    /\ UNCHANGED <<orders, category, rollup, touched>>

\* category_delete: refused while a SKU or a category is under it; the sales rows
\* filed under it are set to NULL by their foreign key (models/analytics.py:109).
Delete(k) ==
    /\ tree[k] # "absent" /\ Edit
    /\ \A m \in Master : category[m] # k
    /\ \A c \in Category : tree[c] # k
    /\ tree' = [tree EXCEPT ![k] = "absent"]
    /\ active' = active \ {k}
    /\ sales' = {[r EXCEPT !.category = IF @ = k THEN NULL ELSE @] : r \in sales}
    /\ UNCHANGED <<orders, category, unmapped, kpis, touched>>

\* The categories a sheet may name, disabled ones too; an empty cell clears the SKU.
Known == {k \in Category : tree[k] # "absent"} \cup {NULL}

ValidRows(sheet) == {i \in DOMAIN sheet : sheet[i][1] \in Master /\ sheet[i][2] \in Known}

\* Per SKU the target, a later row replacing an earlier one.
Targets(sheet) ==
    LET last(m) == Max({i \in ValidRows(sheet) : sheet[i][1] = m}) IN
    [m \in {sheet[i][1] : i \in ValidRows(sheet)} |-> sheet[last(m)][2]]

ByCategory(sheet) ==
    LET target == Targets(sheet)
        changed == {m \in DOMAIN target : target[m] # category[m]}
    IN  [k \in {target[m] : m \in changed} |-> {m \in changed : target[m] = k}]

\* upload_apply and import_categories: one UPDATE per target category.
Upload(sheet) ==
    LET plan == ByCategory(sheet) IN
    /\ plan # <<>> /\ Edit
    /\ category' = [m \in Master |-> IF \E k \in DOMAIN plan : m \in plan[k]
                                     THEN CHOOSE k \in DOMAIN plan : m \in plan[k]
                                     ELSE category[m]]
    /\ UNCHANGED <<orders, tree, active, rollup, touched>>

SalesNext ==
    \/ \E o \in Order : Place(o) \/ Cancel(o)
    \/ \E i \in Item, m \in Master : Attribute(i, m)
    \/ \E d \in Day : Rebuild(d)
    \/ \E k \in Category : Create(k) \/ Toggle(k) \/ Delete(k)
    \/ \E sheet \in Sheets : Upload(sheet)

SalesSpec == SalesInit /\ [][SalesNext]_salesVars

-----------------------------------------------------------------------------
(* Properties *)

UpToDate(p) == p \subseteq DOMAIN kpis \ touched

Total(f) == Sum(LAMBDA x : f[x], DOMAIN f)

\* On a day that is up to date the orders counted beside the sales are those sales'
\* orders, in each slice: there are none exactly if nothing was sold, the channels'
\* counts add up to the headline's, and no category counts more than the day had
\* (analytics_query.py:325-341).
CountsDescribeSales ==
    \A d \in Day : UpToDate({d}) =>
        /\ OrderCount(d, Everything) = kpis[d].orders
        /\ Sum(LAMBDA c : OrderCount(d, [Everything EXCEPT !.channel = c]), Channel) = kpis[d].orders
        /\ \A where \in Filters : where.category # AnyCategory =>
            LET orderCount == OrderCount(d, where)
                soldUnits == Sum(Units, SalesRows({d}, where))
            IN  /\ (orderCount = 0) = (soldUnits = 0)
                /\ orderCount <= soldUnits /\ orderCount <= kpis[d].orders

\* What the parts of a screen add up to is what its headline says, whatever has been
\* re-filed, deleted or not yet rebuilt: channels with the unmapped sales, SKUs,
\* categories with the unclassified sales, buckets of any size; and so do the SKUs
\* counted on the category screen, and the orders beside the sales (analytics_query.py:
\* 24-27, 690-696, categories.py:count_unclassified).
PartsSumToTotals ==
    /\ \A p \in Periods :
        LET kpi == PeriodKpis(p) IN
        /\ Total(ChannelShare(p)) = kpi.gross + kpi.unmapped
        /\ Total(SkuSales(p, Everything)) = kpi.gross
        /\ \A c \in Channel \cup {NULL} :
            LET where == [Everything EXCEPT !.channel = c]
                gross == Sum(Gross, SalesRows(p, where))
            IN  /\ Total(CategoryTotals(p, where)) = gross
                /\ \A days \in {1, Week} :
                    LET series == BucketedSales(p, where, days) IN
                    Sum(LAMBDA b : series[b].gross, DOMAIN series) = gross
    /\ Total(SkuCounts) = Cardinality(Master)
    /\ CountsDescribeSales

\* The audit disagrees with the screens only over days that were written to since
\* they were rebuilt or have no rows, and it names the latter; and a change shown
\* between two periods that are up to date is the one in the orders
\* (analytics_audit.py:153-190, ui/routes/analytics.py overview_deltas).
AuditFindsOnlyStaleDays ==
    \A p \in Periods :
        /\ Disagreements(p) # {} => \E d \in p : d \in touched \cup MissingDays(p)
        /\ LET before == Previous(p) IN
           before \subseteq Day /\ ShowsChange(before) /\ UpToDate(p \cup before) =>
               PctChange(PeriodKpis(p), PeriodKpis(before)) = PctChange(FromOrders(p), FromOrders(before))
=============================================================================
