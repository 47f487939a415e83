---------------------------- MODULE ChannelCalls ----------------------------
(***************************************************************************)
(* The calls of the adapters, request by request (AdapterCalls says what   *)
(* they promise), each request through RateLimit.                          *)
(*                                                                         *)
(* A call is a chain of requests: a paged read of a shop that changes      *)
(* between two pages, a write to the item that a lookup found a moment     *)
(* before, a write in several batches.  Every request waits for a token;   *)
(* one that fails in transport is sent again, and may have taken effect.   *)
(*                                                                         *)
(* Abstractions.  The pause between two attempts is left out.  A request   *)
(* takes effect before it is answered or given up.  The rows of one page   *)
(* come in some order.                                                     *)
(***************************************************************************)
EXTENDS AdapterCalls

CONSTANTS
    FirstShop,          \* [Item -> Variant] at the start
    Edits,              \* the <<item, variant>> that the shop may come to show
    FirstOrders,        \* the orders placed at the start
    MaxAttempts,        \* stop_after_attempt
    MaxEdits            \* bound: changes of the shop and of the orders

VARIABLES
    edits,    \* changes so far
    cached    \* the Shopify adapter has its location

outside == <<shop, updated, displayed, edits>>
vars == <<outside, cached, bucket, call>>

Tick == TimePasses /\ UNCHANGED <<outside, cached, call>>

-----------------------------------------------------------------------------
(* Calls *)

Shopify == {"levels", "catalogue", "variants", "orders", "set"}
ChannelOf(op) == IF op.kind \in Shopify THEN "shopify" ELSE "rakuten"

\* step is the request in hand; got what the call has read, or written and seen
\* acknowledged; named what it reports as uncertain, or found to bear its SKU.
\* Histories: start, the orders at its start; moved, what was edited since, or since the
\* first search of a chunk; took, what its writes changed, or what was placed between
\* the two searches of a chunk.
Idle == [op |-> NULL, status |-> "idle", step |-> NULL, tries |-> 0, cursor |-> <<0, 0>>,
         got |-> <<>>, todo |-> <<>>, item |-> NULL, took |-> {}, named |-> {},
         start |-> NULL, moved |-> {}]

Init ==
    /\ shop = [i \in Item |-> FirstShop[i]]
    /\ updated = [o \in Order |-> IF o \in FirstOrders THEN o ELSE 0]
    /\ displayed = [p \in Pair |-> 0]
    /\ edits = 0
    /\ cached = FALSE
    /\ AllFull
    /\ call \in {[t \in Task |-> [Idle EXCEPT !.op = plan[t]]] : plan \in Plans}

\* The next request of a call waits for its token.
Queue(t, c) ==
    /\ call' = [call EXCEPT ![t] = [c EXCEPT !.status = "queued"]]
    /\ Join(ChannelOf(c.op), t)

Await(t, c, step) == Queue(t, [c EXCEPT !.step = step, !.tries = 0])

End(t, c, status) ==
    /\ call' = [call EXCEPT ![t] = [c EXCEPT !.status = status]]
    /\ UNCHANGED bucket

\* The rows of one request, and whether Rakuten would take each of them.
Batch(c) == SubSeq(c.todo, 1, Least(BatchSize, Len(c.todo)))
Valid(rows) == \A r \in ToSet(rows) : r.qty >= 0 /\ r.variant # NULL

\* push_inventory_batch goes on to its next batch, which is refused as a whole, before
\* any request, for a single row that Rakuten would refuse.
NextBatch(t, c) ==
    IF c.todo = <<>> THEN End(t, c, "ok")
    ELSE IF Valid(Batch(c)) THEN Await(t, c, "upsert")
    ELSE End(t, c, "failed")

\* backfill: the days that are left, cut into chunks.  A chunk is searched, and if
\* there is anything, searched again by fetch_orders.
NextChunk(t, c) ==
    IF c.todo = <<>> THEN End(t, c, "ok") ELSE Await(t, c, "count")

Start(t) ==
    LET op == call[t].op
        c == [call[t] EXCEPT !.start = updated, !.todo = op.rows]
    IN
    /\ call[t].status = "idle" /\ op # NULL
    /\ CASE op.kind = "set" /\ op.qty < 0 -> End(t, c, "failed")
         [] op.kind \in {"set", "levels"} /\ ~cached -> Await(t, c, "locate")
         [] op.kind = "set" -> Await(t, c, "lookup")
         [] op.kind = "upsert" -> NextBatch(t, c)
         [] op.kind = "backfill" -> NextChunk(t, c)
         [] OTHER -> Await(t, c, "page")
    /\ UNCHANGED <<outside, cached>>

Send(t) ==
    /\ call[t].status = "queued"
    /\ Acquire(ChannelOf(call[t].op), t)
    /\ call' = [call EXCEPT ![t].status = "sent"]
    /\ UNCHANGED <<outside, cached>>

InHand(t, step) == call[t].status = "sent" /\ call[t].step = step

\* An HTTP error, of any status on Shopify and in the order API of Rakuten, 5xx and 429
\* in its inventory API: after the last attempt it is raised.
Again(t, c) ==
    IF c.tries + 1 < MaxAttempts THEN Queue(t, [c EXCEPT !.tries = @ + 1])
    ELSE End(t, c, "unanswered")

NoAnswer(t) ==
    /\ call[t].status = "sent"
    /\ Again(t, call[t])
    /\ UNCHANGED <<outside, cached>>

\* GraphQL answers with errors; that is not asked again.
GraphQLErrors(t) ==
    /\ call[t].status = "sent" /\ ChannelOf(call[t].op) = "shopify"
    /\ End(t, call[t], "failed")
    /\ UNCHANGED <<outside, cached>>

-----------------------------------------------------------------------------
(* Shopify: one item *)

Locate(t) ==
    /\ InHand(t, "locate")
    /\ cached' = TRUE
    /\ Await(t, call[t], IF call[t].op.kind = "set" THEN "lookup" ELSE "page")
    /\ UNCHANGED outside

Bearers(sku) == {i \in Item : shop[i].sku = sku}

\* _lookup_inventory_item_id: one item, or nothing.
Found(sku) == {i \in Bearers(sku) : Bearers(sku) = {i}}

Lookup(t) ==
    LET c == call[t] IN
    /\ InHand(t, "lookup")
    /\ IF Found(c.op.sku) = {} THEN End(t, c, "failed")
       ELSE \E i \in Found(c.op.sku) :
                Await(t, [c EXCEPT !.item = i, !.named = Bearers(c.op.sku)], "write")
    /\ UNCHANGED <<outside, cached>>

\* inventorySetOnHandQuantities takes an absolute number, whatever SKU the item bears by
\* now.  It has userErrors for an item that is gone or not stocked here.
Missing(v) == v.sku = NULL \/ v.onHand = NULL

Write(t) ==
    LET c == call[t]
        done == [c EXCEPT !.took = {c.item}]
    IN
    /\ InHand(t, "write")
    /\ IF Missing(shop[c.item])
       THEN End(t, c, "failed") /\ UNCHANGED shop
       ELSE /\ shop' = [shop EXCEPT ![c.item] = [sku |-> @.sku, listed |-> @.listed,
                                                onHand |-> c.op.qty]]
            /\ End(t, done, "ok") \/ Again(t, done)
    /\ UNCHANGED <<updated, displayed, edits, cached>>

-----------------------------------------------------------------------------
(* Shopify: pages *)

\* What is listed, in the order of the listing: variants by number, orders updated since
\* op.since by their last update.
Key(c, n) == IF c.op.kind = "orders" THEN updated[n] ELSE n
Listed(c) ==
    IF c.op.kind = "orders" THEN {o \in Order : updated[o] >= c.op.since}
    ELSE {i \in Item : shop[i].sku # NULL}
Before(c, n, S) == {m \in S : Key(c, m) < Key(c, n)}

\* Faulty variant: pages are counted instead of following the cursor.
AfterByCount(c) == {n \in Listed(c) : Cardinality(Before(c, n, Listed(c))) >= c.cursor[2]}

After(c) == {n \in Listed(c) : Key(c, n) > c.cursor[1]}

\* The first page of what is left of a listing.
FirstPage(c, rest) == {n \in rest : Cardinality(Before(c, n, rest)) < PageSize}

\* A line counts at least one piece: NormalizedOrderLine refuses the whole read.
Readable(c, page) ==
    c.op.kind = "orders" =>
        \A n \in page : \A i \in 1..Least(LineLimit, Len(Node[n].lines)) :
            Node[n].lines[i].qty > 0

\* list_variant_skus may stop within a page, after op.most rows.
Page(t) ==
    LET c == call[t]
        rest == After(c)
        page == FirstPage(c, rest)
        got == c.got \o SetToSeq({n \in page : Keeps(c, n)})
        more == [c EXCEPT !.got = got,
                          !.cursor = <<Max({Key(c, n) : n \in page}), @[2] + Cardinality(page)>>]
    IN
    /\ InHand(t, "page")
    /\ CASE ~Readable(c, page) -> End(t, c, "failed")
         [] c.op.kind = "variants" /\ c.op.most > 0 /\ Len(got) >= c.op.most ->
                End(t, [c EXCEPT !.got = SubSeq(got, 1, c.op.most)], "ok")
         [] rest # page -> Await(t, more, "page")
         [] OTHER -> End(t, [c EXCEPT !.got = got], "ok")
    /\ UNCHANGED <<outside, cached>>

-----------------------------------------------------------------------------
(* Rakuten: quantities *)

Accepts(rows, some) ==
    displayed' = [p \in Pair |->
        IF \E r \in ToSet(rows) : r.variant = p /\ r \in some
        THEN (CHOOSE r \in ToSet(rows) : r.variant = p /\ r \in some).qty
        ELSE displayed[p]]

\* 204: every row was taken.
Upserted(t) ==
    LET c == call[t]
        rows == Batch(c)
    IN
    /\ InHand(t, "upsert")
    /\ Accepts(rows, Real(rows))
    /\ NextBatch(t, [c EXCEPT !.todo = SubSeq(@, Len(rows) + 1, Len(@)), !.got = @ \o rows,
                              !.took = @ \cup Real(rows)])
    /\ UNCHANGED <<shop, updated, edits, cached>>

\* Faulty variant: what was refused did nothing.
NothingToReread(rows) == {}

\* rows_to_reread: an answer that is not 204 says nothing of any row of its request.
RowsToReread(rows) == ToSet(rows)

\* Any other answer, and no answer: some of the rows may have been taken.
NotUpserted(t) ==
    LET c == call[t]
        rows == Batch(c)
    IN
    /\ InHand(t, "upsert")
    /\ \E some \in SUBSET Real(rows) :
        LET partly == [c EXCEPT !.took = @ \cup some] IN
        /\ Accepts(rows, some)
        /\ \/ End(t, [partly EXCEPT !.named = RowsToReread(rows)], "rejected")
           \/ Again(t, partly)
    /\ UNCHANGED <<shop, updated, edits, cached>>

-----------------------------------------------------------------------------
(* Rakuten: orders of a past period *)

Chunk(c) == Head(c.todo)

\* searchOrder: the first page of the orders of these days, and no other page is asked for.
Search(days) ==
    {page \in SUBSET {o \in Order : updated[o] > 0 /\ DayOf[o] \in days} :
        Cardinality(page) =
            Least(PageLimit, Cardinality({o \in Order : updated[o] > 0 /\ DayOf[o] \in days}))}

Suspect(found) == found >= PageLimit

\* The chunk is named as one that may miss orders if its page is full, and read if it
\* holds any order.
Count(t) ==
    LET c == call[t] IN
    /\ InHand(t, "count")
    /\ \E page \in Search(Chunk(c)) :
        LET found == Cardinality(page)
            next == [c EXCEPT !.named = IF Suspect(found) THEN @ \cup Chunk(c) ELSE @,
                              !.moved = {}]
        IN  IF found = 0 THEN NextChunk(t, [next EXCEPT !.todo = Tail(@)])
            ELSE Await(t, next, "search")
    /\ UNCHANGED <<outside, cached>>

\* fetch_orders searches again, then reads the orders it found, BatchSize at a time; the
\* chunk is ingested in a transaction of its own.
SearchAgain(t) ==
    LET c == call[t] IN
    /\ InHand(t, "search")
    /\ \E page \in Search(Chunk(c)) :
        Await(t, [c EXCEPT !.item = SetToSeq(page),
                           !.took = @ \cup {o \in c.moved : DayOf[o] \in Chunk(c)}], "get")
    /\ UNCHANGED <<outside, cached>>

Get(t) ==
    LET c == call[t]
        some == SubSeq(c.item, 1, Least(BatchSize, Len(c.item)))
        rest == SubSeq(c.item, Len(some) + 1, Len(c.item))
        next == [c EXCEPT !.got = @ \o some, !.item = rest]
    IN
    /\ InHand(t, "get")
    /\ IF rest # <<>> THEN Await(t, next, "get")
       ELSE NextChunk(t, [next EXCEPT !.todo = Tail(@), !.item = NULL])
    /\ UNCHANGED <<outside, cached>>

-----------------------------------------------------------------------------
(* The rest of the world *)

\* What moved, to the calls of some kinds that have begun.
Noted(n, kinds) ==
    [t \in Task |-> IF call[t].status # "idle" /\ call[t].op.kind \in kinds
                    THEN [call[t] EXCEPT !.moved = @ \cup {n}] ELSE call[t]]

\* Somebody edits a variant, makes one or deletes it.
EditShop ==
    /\ edits < MaxEdits
    /\ edits' = edits + 1
    /\ \E e \in Edits :
        /\ shop[e[1]] # e[2]
        /\ shop' = [shop EXCEPT ![e[1]] = e[2]]
        /\ call' = Noted(e[1], Lists)
    /\ UNCHANGED <<updated, displayed, cached, bucket>>

\* An order is placed or changed: it becomes the last one updated.
EditOrder ==
    /\ edits < MaxEdits
    /\ edits' = edits + 1
    /\ \E o \in Order :
        /\ updated' = [updated EXCEPT ![o] = 1 + Cardinality(Order) + edits]
        /\ call' = Noted(o, {"backfill"})
    /\ UNCHANGED <<shop, displayed, cached, bucket>>

Step(t) ==
    \/ Send(t) \/ NoAnswer(t) \/ GraphQLErrors(t)
    \/ Locate(t) \/ Lookup(t) \/ Write(t) \/ Page(t)
    \/ Upserted(t) \/ NotUpserted(t)
    \/ Count(t) \/ SearchAgain(t) \/ Get(t)

Next ==
    \/ Tick \/ EditShop \/ EditOrder
    \/ \E t \in Task : Start(t) \/ Step(t)

Spec == Init /\ [][Next]_vars
=============================================================================
