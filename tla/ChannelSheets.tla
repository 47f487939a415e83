--------------------------- MODULE ChannelSheets ---------------------------
(***************************************************************************)
(* How the exports of CROSS MALL, Rakuten and Shopify become mapping rows: *)
(* cli/build_channel_mapping.py finds the live Shopify SKU and the Rakuten *)
(* SKU of every CROSS MALL variant and sorts them into a sheet of          *)
(* confirmed rows and one of questions, cli/import_variant_mappings.py     *)
(* makes masters, mappings and sets of these, and cli/import_mappings.py   *)
(* matches whole products.                                                 *)
(*                                                                         *)
(* Abstractions.  A text is the sequence of those of its words that the    *)
(* extraction looks for.  Files are read whole; CSV and its encoding, and  *)
(* the counts that are printed, are left out.                              *)
(***************************************************************************)
EXTENDS Integers, SequencesExt

CONSTANTS
    NULL, Blank,  \* no value; the empty text
    WordsIn,      \* [SKU, code or key -> its words]
    Namesakes,    \* [Rakuten page -> the codes it may be spelled as, in the order tried]
    Inputs        \* the sets of files that may be given

VARIABLES
    files,    \* what is read: shop, rakuten, products (sequences), stock, scope, bundleTokens,
              \* shared, sets (rows of the two group files), manual
    sheets,   \* the rows of the two sheets, or NULL
    plan,     \* what the import would write, or NULL
    pages     \* [Rakuten page -> product], of the import of whole products, or NULL

vars == <<files, sheets, plan, pages>>

-----------------------------------------------------------------------------
(* Texts *)

Of(text, sort) == SelectSeq(text, LAMBDA w : w.sort = sort)

\* The last word that is a 商品番号.
ExtractToken(text) ==
    LET tokens == Of(text, "token") IN IF tokens = <<>> THEN NULL ELSE Last(tokens).value

\* None, one, or both of a two-tone variant.
ExtractColor(text) == {w.value : w \in ToSet(Of(text, "colour"))}

\* The first of a US size, a length, a letter, or the type of a product sold as several.
ExtractSize(text) ==
    LET sorts == SelectSeq(<<"us", "cm", "letter", "anklet", "bracelet", "necklace">>,
                           LAMBDA s : Of(text, s) # <<>>)
    IN  IF sorts = <<>> THEN Blank ELSE Head(Of(text, Head(sorts))).value

\* The first of each, in order.
Distinct(s) == FoldLeft(LAMBDA seen, x : IF Contains(seen, x) THEN seen ELSE Append(seen, x), <<>>, s)

-----------------------------------------------------------------------------
(* Shopify *)

Live == files.shop
Items(sku) == {r.item : r \in {x \in ToSet(Live) : x.sku = sku /\ x.item # NULL}}
Ambiguous(sku) == sku # Blank /\ Cardinality(Items(sku)) > 1
ColorAt(r) == ExtractColor(r.variant \o WordsIn[r.sku])
SizeAt(r) == ExtractSize(r.variant \o WordsIn[r.sku])

\* The variants of a token that have an SKU.
Candidates(token) ==
    SelectSeq(Live, LAMBDA r : r.sku # Blank /\ ExtractToken(r.title) = token)

\* Faulty variant: the only candidate is taken, whatever its colour.
ResolveRawLone(token, color, size) ==
    LET all == Candidates(token)
        alike(s) == SelectSeq(all, LAMBDA r : ColorAt(r) = color /\ SizeAt(r) = s)
    IN  IF alike(size) # <<>> THEN Head(alike(size)).sku
        ELSE IF Len(all) = 1 THEN all[1].sku ELSE Blank

\* _resolve_shopify_raw: colour and size; the colour without a size; the only one of the
\* colour; the only one at all, if the colours do not contradict.  (The one of the colour
\* and the size among several is found by the first.)
ResolveRaw(token, color, size) ==
    LET all == Candidates(token)
        same == SelectSeq(all, LAMBDA r : ColorAt(r) = color)
        alike(s) == SelectSeq(same, LAMBDA r : SizeAt(r) = s)
    IN  CASE alike(size) # <<>> -> Head(alike(size)).sku
          [] alike(size) = <<>> /\ color # {} /\ alike(Blank) # <<>> -> Head(alike(Blank)).sku
          [] alike(size) = <<>> /\ color # {} /\ alike(Blank) = <<>> /\ Len(same) = 1 -> same[1].sku
          [] OTHER -> IF /\ Len(all) = 1
                         /\ color = {} \/ ColorAt(all[1]) = {} \/ ColorAt(all[1]) = color
                      THEN all[1].sku ELSE Blank

\* resolve_shop_target: the SKU code itself if one live item has it, else the one found
\* unless several products have it.
ShopTarget(token, color, size, code) ==
    IF Cardinality(Items(code)) = 1 THEN [sku |-> code, reason |-> NULL]
    ELSE LET raw == ResolveRaw(token, color, size) IN
         IF raw = Blank THEN [sku |-> Blank, reason |-> "none"]
         ELSE IF Ambiguous(raw) THEN [sku |-> Blank, reason |-> "duplicated"]
         ELSE [sku |-> raw, reason |-> NULL]

-----------------------------------------------------------------------------
(* Rakuten *)

Parents == SelectSeq(files.rakuten, LAMBDA r : r.key = Blank /\ r.name # <<>>)
Children(page) == SelectSeq(files.rakuten, LAMBDA r : r.page = page /\ r.key # Blank)
Pages == {r.page : r \in ToSet(files.rakuten)}

\* The token of a page is that of its last row with a name, the page of a token the first.
TokenOfPage(page) ==
    LET named == SelectSeq(Parents, LAMBDA r : r.page = page /\ ExtractToken(r.name) # NULL)
    IN  IF named = <<>> THEN NULL ELSE ExtractToken(Last(named).name)
PageOfToken(token) ==
    LET named == SelectSeq(Parents, LAMBDA r : ExtractToken(r.name) = token)
    IN  IF named = <<>> THEN NULL ELSE Head(named).page

\* resolve_rakuten: the only SKU of the colour, the size deciding between several.
ResolveRakuten(page, color, size) ==
    LET same == SelectSeq(Children(page), LAMBDA r : ExtractColor(r.choices) = color)
        sized == SelectSeq(same, LAMBDA r : ExtractSize(r.choices) = size)
        left == IF size # Blank /\ Len(same) > 1 /\ sized # <<>> THEN sized ELSE same
    IN  IF page # NULL /\ Len(left) = 1 THEN left[1].key ELSE Blank

-----------------------------------------------------------------------------
(* The two sheets *)

Decision(code) == IF code \in DOMAIN files.scope THEN files.scope[code] ELSE "none"

\* product_token: of its Rakuten page, of its name unless it only mentions the product it is
\* an extra for, or its own code.
ProductToken(p) ==
    IF TokenOfPage(p.code) # NULL THEN TokenOfPage(p.code)
    ELSE IF p.addOn THEN NULL
    ELSE IF ExtractToken(p.name) # NULL THEN ExtractToken(p.name)
    ELSE ExtractToken(WordsIn[p.code])

\* Products with variants that are neither excluded nor sets.
InScope ==
    SelectSeq(files.products, LAMBDA p :
        /\ p.variants # <<>>
        /\ Decision(p.code) \notin {"exclude", "bundle"}
        /\ ProductToken(p) \notin files.bundleTokens)

Members(token) == SelectSeq(InScope, LAMBDA p : ProductToken(p) = token)

\* What the members of a token list of a colour and a size, in order.
Listed(token) ==
    FlattenSeq([i \in DOMAIN Members(token) |->
        LET p == Members(token)[i] IN
        [k \in DOMAIN p.variants |->
            [code |-> p.code, sku |-> p.variants[k].sku,
             color |-> ExtractColor(p.variants[k].text), size |-> ExtractSize(p.variants[k].text)]]])

\* One row for each colour and size: of the first product that lists it, with the last
\* quantity any of them has.
Row(token, color, size) ==
    LET listed == SelectSeq(Listed(token), LAMBDA v : v.color = color /\ v.size = size)
        stocked == SelectSeq(listed, LAMBDA v : <<v.code, color, size>> \in DOMAIN files.stock)
        src == Head(listed).code
        direct == SelectSeq(Members(token), LAMBDA p : p.code \in Pages)
        page == IF direct # <<>> THEN Head(direct).code ELSE PageOfToken(token)
        target == ShopTarget(token, color, size, Head(listed).sku)
        key == ResolveRakuten(page, color, size)
        qty == IF stocked = <<>> THEN NULL
               ELSE files.stock[<<Last(stocked).code, color, size>>]
    IN  [token |-> token, src |-> src, color |-> color, size |-> size, qty |-> qty,
         shop |-> target.sku, key |-> key,
         reasons |->
            (IF Decision(src) # "rakuten_only" /\ target.sku = Blank THEN {target.reason} ELSE {})
            \cup (IF Decision(src) # "shopify_only" /\ key = Blank THEN {"no Rakuten SKU"} ELSE {})
            \cup (IF qty # NULL /\ qty < 0 THEN {"negative"} ELSE {})]

RowsOf(token) ==
    LET keys == Distinct([i \in DOMAIN Listed(token) |->
                            <<Listed(token)[i].color, Listed(token)[i].size>>])
    IN  [i \in DOMAIN keys |-> Row(token, keys[i][1], keys[i][2])]

Tokens == Distinct([i \in DOMAIN InScope |-> ProductToken(InScope[i])])

\* A product without a token is one question.
NoToken(p) == [token |-> NULL, src |-> p.code, color |-> {}, size |-> Blank, qty |-> NULL,
               shop |-> Blank, key |-> Blank, reasons |-> {"no token"}]

\* build_mapping: the confirmed rows are those without a question.
Build ==
    LET tokens == SelectSeq(Tokens, LAMBDA t : t # NULL)
        rows == FlattenSeq([i \in DOMAIN tokens |-> RowsOf(tokens[i])])
        without == Members(NULL)
    IN
    /\ sheets = NULL
    /\ sheets' = [mapping |-> SelectSeq(rows, LAMBDA r : r.reasons = {}),
                  confirm |-> SelectSeq(rows, LAMBDA r : r.reasons # {})
                                \o [i \in DOMAIN without |-> NoToken(without[i])]]
    /\ UNCHANGED <<files, plan, pages>>

-----------------------------------------------------------------------------
(* Masters, mappings and sets *)

\* A master is named by its Shopify SKU, else by its Rakuten SKU.
Canonical(shopSku, key) == IF shopSku # Blank THEN shopSku ELSE key

Entry(token, color, size, shopSku, key, bundle) ==
    [sku |-> Canonical(shopSku, key), token |-> token, color |-> color, size |-> size,
     shopify |-> shopSku, rakuten |-> key, bundle |-> bundle]

\* Rows of both sheets, questions too, if they have an SKU on a channel.
Sellable ==
    LET rows == sheets.mapping \o sheets.confirm IN
    SelectSeq([i \in DOMAIN rows |->
                    Entry(rows[i].token, rows[i].color, rows[i].size, rows[i].shop, rows[i].key, FALSE)],
              LAMBDA e : e.sku # Blank)

\* An anklet holds the stock of the bracelet of its colour.
Sharing == SelectSeq(files.shared, LAMBDA r : r.anklet # Blank /\ r.bracelet # Blank)
Anklets == [i \in DOMAIN Sharing |->
    Entry(Sharing[i].token, Sharing[i].color, "anklet", Sharing[i].anklet, Blank, FALSE)]
Bracelets == [i \in DOMAIN Sharing |->
    Entry(Sharing[i].token, Sharing[i].color, "bracelet", Sharing[i].bracelet, Blank, TRUE)]
SetParents ==
    LET named == SelectSeq(files.sets, LAMBDA r : r.parent # Blank) IN
    [i \in DOMAIN named |-> Entry(named[i].token, named[i].color, Blank, named[i].parent, Blank, TRUE)]

Entries == Sellable \o FlattenSeq(Interleave(Anklets, Bracelets)) \o SetParents

\* add_master: what the first entry says, and a bundle if any does.
Masters ==
    LET skus == Distinct([i \in DOMAIN Entries |-> Entries[i].sku])
        named(s) == SelectSeq(Entries, LAMBDA e : e.sku = s)
    IN  [i \in DOMAIN skus |->
            [Head(named(skus[i])) EXCEPT !.bundle = \E e \in ToSet(named(skus[i])) : e.bundle]]

\* The component of a set: what first has its token and the colour of the set.
Component(token, color) ==
    LET found == SelectSeq(Sellable \o Anklets, LAMBDA e : e.token = token /\ e.color = color)
    IN  IF found = <<>> THEN Blank ELSE Head(found).sku

Links ==
    {<<Sharing[i].bracelet, Sharing[i].anklet>> : i \in DOMAIN Sharing}
    \cup UNION {{<<r.parent, Component(t, r.color)>> :
                    t \in {t \in r.parts : Component(t, r.color) # Blank}} :
                    r \in {r \in ToSet(files.sets) : r.parent # Blank}}

\* add_mapping: each entry with its SKU on either channel.  The key of CROSS MALL adds the
\* colour and the size to the code.
SkuKey(sku) == <<sku, {}, Blank>>
Mapping(channel, key, sku) == [channel |-> channel, key |-> key, sku |-> sku]
ChannelMappings ==
    SelectSeq(FlattenSeq([i \in DOMAIN Entries |->
                    <<Mapping("shopify", SkuKey(Entries[i].shopify), Entries[i].sku),
                      Mapping("rakuten", SkuKey(Entries[i].rakuten), Entries[i].sku)>>]),
              LAMBDA m : m.key # SkuKey(Blank))

\* Faulty variant: sets too.
ReconciledAlsoSets(e) == TRUE

\* The stock of a set is derived and not reconciled.
Reconciled(e) == ~e.bundle

\* build_crossmall_mappings: each variant of each code, aliases too, by its token, colour
\* and size.
CrossmallMappings ==
    LET masters == SelectSeq(Masters, Reconciled)
        of(p, v) == SelectSeq(masters, LAMBDA e :
            /\ e.token = ProductToken(p)
            /\ e.color = ExtractColor(v.text) /\ e.size = ExtractSize(v.text))
        key(p, v) == <<p.code, ExtractColor(v.text), ExtractSize(v.text)>>
        mapped(p) == SelectSeq(p.variants, LAMBDA v : ProductToken(p) # NULL /\ of(p, v) # <<>>)
    IN  FlattenSeq([i \in DOMAIN files.products |->
            LET p == files.products[i] IN
            [k \in DOMAIN mapped(p) |->
                Mapping("crossmall", key(p, mapped(p)[k]), Head(of(p, mapped(p)[k])).sku)]])

\* dedupe_mapping_rows: the last row of a key, and the keys that had several masters.
Kept(mappings, m) ==
    Last(SelectSeq(mappings, LAMBDA n : n.channel = m.channel /\ n.key = m.key))
Deduped(mappings) == {Kept(mappings, m) : m \in ToSet(mappings)}
Conflicts(mappings) ==
    {[channel |-> m.channel, key |-> m.key] :
        m \in {m \in ToSet(mappings) : \E n \in ToSet(mappings) :
                    n.channel = m.channel /\ n.key = m.key /\ n.sku # m.sku}}

\* run, apply_plan.  Nothing of it is kept: the upsert of the mapping rows names a
\* constraint on three columns, where the table has one on four, and its error undoes the
\* masters that were written before it.
Plan ==
    LET mappings == ChannelMappings \o CrossmallMappings IN
    /\ sheets # NULL /\ plan = NULL
    /\ plan' = [masters |-> ToSet(Masters), links |-> Links, rows |-> Deduped(mappings),
                conflicts |-> Conflicts(mappings)]
    /\ UNCHANGED <<files, sheets, pages>>

-----------------------------------------------------------------------------
(* Whole products *)

ProductCodes == {p.code : p \in ToSet(files.products)}

\* The product of a variant's SKU: the last that lists it.
ProductOf(sku) ==
    LET listing == SelectSeq(files.products, LAMBDA p : \E v \in ToSet(p.variants) : v.sku = sku)
    IN  IF listing = <<>> THEN {} ELSE {Last(listing).code}

\* What may tell the product of a Rakuten page, the surest first: the operator; the SKUs its
\* lines are numbered or linked by; codes within these numbers; its own name, spelled
\* differently; codes in its title.
Hints(page) ==
    LET lines == {r \in ToSet(files.rakuten) : r.page = page}
        own(n) == {n} \cap ProductCodes
        title == SelectSeq(files.rakuten, LAMBDA r : r.page = page /\ r.name # <<>>)
    IN  << {m[2] : m \in {m \in files.manual : m[1] = page}},
           UNION {ProductOf(r.key) \cup ProductOf(r.link) : r \in lines},
           UNION {{w.value : w \in ToSet(Of(WordsIn[r.key], "code"))} :
                     r \in ToSet(Children(page))}
              \cap ProductCodes >>
        \o [i \in DOMAIN Namesakes[page] |-> own(Namesakes[page][i])]
        \o << IF title = <<>> THEN {}
              ELSE {w.value : w \in ToSet(Of(Head(title).name, "code"))} \cap ProductCodes >>

\* Faulty variant: any of what the first hint names.
SureAny(hint) == hint # {}

\* A hint that names several products says nothing.
Sure(hint) == Cardinality(hint) = 1

\* build_mappings of import_mappings: what the operator names is taken although it is on no
\* file, if it is a product's.  Its upsert fails like the other.
ImportProducts ==
    LET named == {m[1] : m \in {m \in files.manual : m[2] \in ProductCodes}}
        sure(page) == SelectSeq(Hints(page), Sure)
    IN
    /\ pages = NULL
    /\ pages' = [page \in {page \in Pages \cup named : sure(page) # <<>>} |->
                    CHOOSE code \in Head(sure(page)) : TRUE]
    /\ UNCHANGED <<files, sheets, plan>>

-----------------------------------------------------------------------------
Init ==
    /\ files \in Inputs
    /\ sheets = NULL /\ plan = NULL /\ pages = NULL

Next == Build \/ Plan \/ ImportProducts

Spec == Init /\ [][Next]_vars

-----------------------------------------------------------------------------
(* Properties *)

AllRows == IF sheets = NULL THEN <<>> ELSE sheets.mapping \o sheets.confirm

\* A confirmed row can be pushed and pulled as it is: its Shopify SKU names at most one live
\* item and no other colour, or is what CROSS MALL calls it; its Rakuten SKU has its
\* colour; and it has the channels it needs and no shortage (build_channel_mapping.py:
\* 118-122, 176-179, 347-349).
ConfirmedIsSafe(r) ==
    LET sold == SelectSeq(Live, LAMBDA x : x.sku = r.shop)
        spelled == {v.sku : v \in UNION {ToSet(p.variants) : p \in ToSet(files.products)}}
    IN  /\ r.shop = Blank => Decision(r.src) = "rakuten_only"
        /\ r.key = Blank => Decision(r.src) = "shopify_only"
        /\ r.qty # NULL => r.qty >= 0
        /\ r.shop # Blank =>
            /\ Cardinality(Items(r.shop)) <= 1
            /\ \/ r.shop \in spelled
               \/ \E x \in ToSet(sold) : ExtractToken(x.title) = r.token
                                        /\ (ColorAt(x) = r.color \/ {} \in {ColorAt(x), r.color})
        /\ r.key # Blank =>
            \E c \in ToSet(files.rakuten) : c.key = r.key /\ ExtractColor(c.choices) = r.color

\* Each variant in scope is on one sheet, once, whichever products of its token list it, and
\* each product without a token is asked about; nothing excluded and no set is on either.
EveryVariantIsPlaced ==
    sheets # NULL =>
        /\ \A i, k \in DOMAIN AllRows : i # k =>
            LET r == AllRows[i]
                q == AllRows[k]
            IN  <<r.token, r.color, r.size>> = <<q.token, q.color, q.size>> =>
                    r.token = NULL /\ r.src # q.src
        /\ \A p \in ToSet(files.products) :
            LET out == p.variants = <<>> \/ Decision(p.code) \in {"exclude", "bundle"}
                       \/ ProductToken(p) \in files.bundleTokens
            IN  /\ out => \A r \in ToSet(AllRows) : r.src # p.code
                /\ ~out => \A v \in ToSet(p.variants) : \E r \in ToSet(AllRows) :
                        IF ProductToken(p) = NULL THEN r.src = p.code
                        ELSE <<r.token, r.color, r.size>> =
                                <<ProductToken(p), ExtractColor(v.text), ExtractSize(v.text)>>

\* The plan sends every sale and every count where it belongs: a key has one master, and a
\* key two rows disagreed about is reported; a key of the stock file names a master with its
\* colour and size that holds stock itself; every set has a master, and its components too.
\* A page of Rakuten gets no product that nothing names alone
\* (import_variant_mappings.py:187-237, import_mappings.py:133-166).
PlanIsSound ==
    /\ plan # NULL =>
        /\ \A m, n \in plan.rows :
            <<m.channel, m.key>> = <<n.channel, n.key>> => m = n
        /\ \A m \in plan.rows : \E e \in plan.masters :
            /\ e.sku = m.sku
            /\ m.channel = "crossmall" => ~e.bundle /\ <<e.color, e.size>> = <<m.key[2], m.key[3]>>
        /\ \A l \in plan.links : \E e, f \in plan.masters :
            e.sku = l[1] /\ e.bundle /\ f.sku = l[2]
        /\ \A e \in plan.masters : \E m \in plan.rows :
            \/ m.sku = e.sku
            \/ m.key = SkuKey(e.sku) /\ [channel |-> m.channel, key |-> m.key] \in plan.conflicts
    /\ pages # NULL =>
        \A page \in DOMAIN pages :
            /\ {pages[page]} \in ToSet(Hints(page))
            /\ \A m \in files.manual : m[1] = page => pages[page] = m[2]

\* The sheets and what is imported from them lose no variant, confirm nothing that is in
\* doubt and send no sale to another product.
SheetsAreSound ==
    /\ sheets # NULL => \A r \in ToSet(sheets.mapping) : ConfirmedIsSafe(r)
    /\ EveryVariantIsPlaced
    /\ PlanIsSound
=============================================================================
