---------------------------- MODULE AdapterCalls ----------------------------
(***************************************************************************)
(* What the adapters promise of the calls they make: adapters/shopify.py,  *)
(* adapters/rakuten.py, adapters/rakuten_bulk_upsert.py, and the walk of   *)
(* cli/backfill_rakuten_orders.  ChannelCalls says how a call goes on from *)
(* request to request.                                                     *)
(***************************************************************************)
EXTENDS RateLimit, SequencesExt

CONSTANTS
    NULL, Blank,   \* no value; an empty SKU
    Task,          \* coroutines that share the adapters
    Plans,         \* the [Task -> call, or NULL] of a behaviour
    Item,          \* Shopify variants, numbered in the order of a listing
    Order,         \* orders of either channel, numbered
    Node,          \* [Order -> how Shopify has it]
    DayOf,         \* [Order -> the day it was placed on]
    Pair,          \* Rakuten SKUs that exist: 商品管理番号 with SKU管理番号
    PageSize, PageLimit, BatchSize, LineLimit \* of one request

VARIABLES
    shop,       \* [Item -> Variant]: sku (NULL: no such variant), listed, onHand (NULL: not stocked)
    updated,    \* [Order -> its place in the order of updates, 0 while it is not placed]
    displayed,  \* Rakuten: [Pair -> the quantity displayed]
    call        \* [Task -> the call it makes]

\* The words of Shopify for how far an order has been sent, by poll and by webhook.
HookWord == [FULFILLED |-> "fulfilled", PARTIALLY_FULFILLED |-> "partial",
             IN_PROGRESS |-> "in_progress", UNFULFILLED |-> "null"]

IsSeq(s) == s \in Seq(ToSet(s))

\* The calls are asked for lists and figures; an update is never the zeroth.
ASSUME CallsAssumption ==
    /\ {PageSize, PageLimit, BatchSize, LineLimit} \subseteq Nat \ {0}
    /\ IsFiniteSet(Item) /\ Item = 1..Cardinality(Item)
    /\ IsFiniteSet(Order) /\ Order = 1..Cardinality(Order)
    /\ \A o \in Order : IsSeq(Node[o].lines) /\ Node[o].fulfilment \in DOMAIN HookWord
    /\ \A plan \in Plans : \A t \in {u \in Task : plan[u] # NULL} :
        /\ plan[t].kind = "set" => plan[t].qty # NULL
        /\ plan[t].kind \in {"upsert", "backfill"} => IsSeq(plan[t].rows)
        /\ plan[t].kind = "orders" => plan[t].since \in Nat \ {0}
        /\ plan[t].kind = "variants" => plan[t].most \in Nat

-----------------------------------------------------------------------------
(* Shopify: variants *)

\* The listings of variants.
Lists == {"levels", "catalogue", "variants"}

\* Whether a call keeps a row.  A variant without an SKU cannot be matched; one that is not
\* stocked here is left out rather than reported as zero; a draft is not for sale.
Keeps(c, n) ==
    CASE c.op.kind = "levels" -> shop[n].sku # Blank /\ shop[n].onHand # NULL
      [] c.op.kind = "catalogue" -> shop[n].sku # Blank /\ shop[n].listed
      [] OTHER -> TRUE

-----------------------------------------------------------------------------
(* Shopify: one order, by poll and by webhook *)

\* An id, global (gid://shopify/Type/5) or plain (5); a variant that may be missing is a
\* set of at most one.
StripGid(id) == [id EXCEPT !.global = FALSE]
Gid(n) == [global |-> TRUE, number |-> n]
Plain(n) == [global |-> FALSE, number |-> n]
Present(n) == {n} \ {NULL}

\* channel_sku_for: the variant stands in for an SKU that is not set.
ChannelSkuFor(sku, variants) ==
    IF sku # Blank THEN [real |-> sku] ELSE [variant |-> {StripGid(v) : v \in variants}]

\* Each feed has its own words for how far an order has been sent.
PollStatus(node) ==
    IF node.cancelled THEN "cancelled"
    ELSE IF node.fulfilment = "FULFILLED" THEN "shipped" ELSE "confirmed"
HookStatus(payload) ==
    IF payload.cancelled THEN "cancelled"
    ELSE IF payload.fulfilment = "fulfilled" THEN "shipped" ELSE "confirmed"

\* _to_normalized: of the query's nodes, with its first lines.
PolledLine(l) ==
    LET variants == {Gid(n) : n \in Present(l.variant)} IN
    [id |-> StripGid(Gid(l.id)), sku |-> ChannelSkuFor(l.sku, variants),
     product |-> {StripGid(v) : v \in variants}, qty |-> l.qty]
FromPoll(o) ==
    LET first == Least(LineLimit, Len(Node[o].lines)) IN
    [id |-> StripGid(Gid(o)), status |-> PollStatus(Node[o]),
     lines |-> [i \in 1..first |-> PolledLine(Node[o].lines[i])]]

\* normalize_webhook_order: of the posted order, with all its lines.
HookedLine(l) ==
    LET variants == {Plain(n) : n \in Present(l.variant)} IN
    [id |-> Plain(l.id), sku |-> ChannelSkuFor(l.sku, variants),
     product |-> variants, qty |-> l.qty]
FromHook(o) ==
    LET payload == [cancelled |-> Node[o].cancelled, fulfilment |-> HookWord[Node[o].fulfilment]] IN
    [id |-> Plain(o), status |-> HookStatus(payload),
     lines |-> [i \in 1..Len(Node[o].lines) |-> HookedLine(Node[o].lines[i])]]

-----------------------------------------------------------------------------
(* Rakuten *)

\* The rows that reach a SKU.  A row for one that does not exist is answered like any other.
Real(rows) == {r \in ToSet(rows) : r.variant \in Pair}

Upserting == {t \in Task : call[t].status # "idle" /\ call[t].op.kind = "upsert"}

\* The quantities that were taken for a SKU, from any call.
Taken(p) == {r.qty : r \in {s \in UNION {call[t].took : t \in Upserting} : s.variant = p}}

-----------------------------------------------------------------------------
(* Properties *)

Times(n, got) == Cardinality({k \in DOMAIN got : got[k] = n})

\* A listing that ended has every variant that stayed as it is, once.
ListsAll(c) ==
    /\ c.op.kind \in {"levels", "catalogue"} \/ (c.op.kind = "variants" /\ c.op.most = 0) =>
        \A i \in Item \ c.moved :
            shop[i].sku # NULL => Times(i, c.got) = IF Keeps(c, i) THEN 1 ELSE 0
    /\ c.op.kind = "variants" /\ c.op.most > 0 => Len(c.got) <= c.op.most

\* A poll that ended has every order of its window, those changed while it read too, and
\* has each as the webhook of the order would have it, up to the lines it asked for.
PollsAll(c) ==
    c.op.kind = "orders" =>
        /\ \A o \in Order : c.start[o] >= c.op.since => o \in ToSet(c.got)
        /\ \A o \in ToSet(c.got) :
            /\ FromPoll(o).id = FromHook(o).id /\ FromPoll(o).status = FromHook(o).status
            /\ IsPrefix(FromPoll(o).lines, FromHook(o).lines)

\* A backfill that ended has every order of its period, or names the days that may miss
\* some, unless orders were placed between the two searches of a chunk.
BackfillsAll(c) ==
    c.op.kind = "backfill" =>
        \A days \in ToSet(c.op.rows) : \A o \in Order :
            c.start[o] > 0 /\ DayOf[o] \in days =>
                \/ o \in ToSet(c.got)
                \/ days \subseteq c.named
                \/ \E p \in c.took : DayOf[p] \in days

\* A read that ends without an error missed nothing, whatever was edited between its
\* pages, lost or asked for again (shopify.py:285-303, 386-541, backfill_rakuten_orders.py:
\* 9-22).
ReadsMissNothing ==
    \A t \in Task : call[t].status = "ok" =>
        ListsAll(call[t]) /\ PollsAll(call[t]) /\ BackfillsAll(call[t])

\* What a write changed is known from how it ended: it set the one item that bore its SKU
\* when it looked; the SKU of a row that was acknowledged shows the number of that row or
\* of another that was taken for it; and after an answer that was not an acknowledgement
\* any other row that was taken is named for reading back (shopify.py:362-384,
\* rakuten_bulk_upsert.py:227-245).
WritesAreKnown ==
    \A t \in Task :
        LET c == call[t] IN
        /\ c.status # "idle" /\ c.op.kind = "set" => c.took = {} \/ c.took = c.named
        /\ t \in Upserting =>
            /\ \A r \in Real(c.got) : displayed[r.variant] \in Taken(r.variant)
            /\ c.status = "ok" => c.took = Real(c.op.rows)
            /\ c.status \in {"failed", "rejected"} => c.took \subseteq ToSet(c.got) \cup c.named
=============================================================================
