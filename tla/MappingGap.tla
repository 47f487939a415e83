----------------------------- MODULE MappingGap -----------------------------
(***************************************************************************)
(* The gap between what is sold and what is mapped: order lines without a  *)
(* master, mapping rows, alerts, and what MappingRound promises of them.   *)
(*                                                                         *)
(* An order is a line (OrderLifecycle has the parking of orders); there is *)
(* one marketplace and no row of a variant (those are in RakutenVariants). *)
(***************************************************************************)

CONSTANTS
    None, Blank,
    Channel, Line,
    MasterSku,         \* master_skus rows
    ChannelOf, SkuOf,  \* [Line -> its channel; the SKU it was sold under, Blank if it has none]
    VariantSold,       \* [Line -> the key of the variant its payload names, or Blank]
    TrueMaster,        \* [Line -> the master it is]
    OldCode,           \* [MasterSku -> the master it was before the cutover, or None]
    History            \* lines stored when a line without an SKU still had a blank key

\* A key of a channel names one product, and no real SKU looks like a derived key: "The
\* prefix keeps it from ever colliding with a real SKU" (adapters/shopify.py:43-45).
ASSUME KeyAssumption ==
    /\ ChannelOf \in [Line -> Channel] /\ History \subseteq Line
    /\ Blank # None
    /\ \A k, l \in Line :
        /\ SkuOf[l] # None /\ VariantSold[l] # None
        /\ VariantSold[l] # Blank => VariantSold[l] # SkuOf[k]
        /\ SkuOf[l] # Blank /\ SkuOf[k] = SkuOf[l] /\ ChannelOf[k] = ChannelOf[l] =>
              TrueMaster[k] = TrueMaster[l]
        /\ VariantSold[l] # Blank /\ VariantSold[k] = VariantSold[l] =>
              ChannelOf[k] = ChannelOf[l] /\ TrueMaster[k] = TrueMaster[l]

ASSUME ProductAssumption ==
    /\ TrueMaster \in [Line -> MasterSku]
    /\ OldCode \in [MasterSku -> MasterSku \cup {None}]
    /\ None \notin MasterSku /\ Blank \notin MasterSku /\ "out of scope" \notin MasterSku

VARIABLES
    keyOf,      \* order_items.channel_sku of a line, None before it arrives
    masterOf,   \* order_items.master_sku_id, or None
    mapping,    \* [channel and key -> master, active], the mapping rows there are
    alerts,     \* [channel and key -> status], the mapping alerts there are
    retired,    \* masters out of operation
    confirmed,  \* history: keys whose row an operator wrote last
    unseen      \* history: masters archived between the check of an answer and its import

\* channel_sku_for: of a line without an SKU, its variant behind a prefix.
KeyNow(l) == IF SkuOf[l] = Blank THEN VariantSold[l] ELSE SkuOf[l]

PairOf(l) == <<ChannelOf[l], keyOf[l]>>
Active(pair) == pair \in DOMAIN mapping /\ mapping[pair].active
Unresolved == {l \in Line : keyOf[l] # None /\ masterOf[l] = None}

\* What the lines of a key are; those of a blank key may be anything.
ProductsUnder(pair) ==
    {TrueMaster[l] : l \in {l \in Line : ChannelOf[l] = pair[1] /\ pair[2] \in {KeyNow(l), keyOf[l]}}}

\* The masters a person who knows the product may name: it may have had an old code.
NamesOf(products) == products \cup ({OldCode[m] : m \in products} \ {None})

\* The rows say of every line with a key what it is.
RowsAreRight ==
    \A l \in Line : KeyNow(l) # Blank =>
        LET pair == <<ChannelOf[l], KeyNow(l)>> IN
        pair \in DOMAIN mapping => mapping[pair].master \in NamesOf({TrueMaster[l]})

\* collect_rows: a key is left out if any channel has an active row of that spelling.
Hidden(l) == \E c \in Channel : Active(<<c, keyOf[l]>>)

Asked == {l \in Unresolved : ~Hidden(l)}

-----------------------------------------------------------------------------
(* Properties *)

\* A sold line whose product is unknown can always be settled: its alert waits, or a mapping
\* that the bulk pass will use, or the next worksheet asks for it.  Dismissing the blank
\* alert loses nothing, whatever arrives, is unmapped or loses its row around it; but once a
\* worksheet has brought in a row of the blank key, which the alert screen refuses, blank
\* lines are asked for no more (backfill_blank_channel_sku.py:88-112, mapping.py:116-125).
LinesAreReachable ==
    \A l \in Unresolved :
        \/ PairOf(l) \in DOMAIN alerts /\ alerts[PairOf(l)] = "open"
        \/ keyOf[l] # Blank /\ Active(PairOf(l))
        \/ l \in Asked
        \/ keyOf[l] = Blank /\ Hidden(l)

\* What an operator decided stands against a worksheet that was out meanwhile; no other row
\* brings a retired master back, unless it was retired after the answer was checked; and a
\* line with a key is nothing but its product, under whichever code
\* (validate_mapping_worksheet.py:181-222, mappings.py:176-201).
RowsAreTrusted ==
    /\ \A p \in DOMAIN mapping :
        /\ p \in confirmed => mapping[p].master \in ProductsUnder(p)
        /\ p \notin confirmed /\ mapping[p].active => mapping[p].master \notin retired \ unseen
    /\ \A l \in Line :
        masterOf[l] # None /\ keyOf[l] # Blank => masterOf[l] \in NamesOf({TrueMaster[l]})

\* Neither the worksheet nor the tools around it lose a line or undo a decision.
RoundIsSound == LinesAreReachable /\ RowsAreTrusted
=============================================================================
