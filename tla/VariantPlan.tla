---------------------------- MODULE VariantPlan ----------------------------
(***************************************************************************)
(* What a run of create_rakuten_variant_masters reads and what it decides: *)
(* the Rakuten export is folded into physical variants with the client's   *)
(* pair table, each variant is given a master from what is known, and a    *)
(* plan says which masters and mapping rows are missing                    *)
(* (services/rakuten_catalogue.py, cli/create_rakuten_variant_masters.py). *)
(* RakutenVariants has the runs and what changes between them.             *)
(*                                                                         *)
(* A code is [stem, attrs, order, form]: B66-gold-M and B66goldM differ in *)
(* form only, B66Mgold in the order of its attributes; capitals do not     *)
(* count.  A 選択肢 is a set of choices, and is read in two ways: with the  *)
(* text in brackets stripped, and with it kept.  What a choice is in a     *)
(* code is its token, and no two choices of one SKU have the same.         *)
(***************************************************************************)
EXTENDS Sequences, FiniteSetsExt

CONSTANTS
    Export,       \* lines of the RMS export [page, key, strip, kept, merchant]
    Placeholder,  \* SKU管理番号 that RMS numbered itself (r-sku...)
    Long,         \* keys longer than Rakuten accepts
    ReadsAs,      \* the SKU管理番号 that can be read as a master code
    PageNames,    \* the pages, in the order of their names
    PairLines,    \* lines the client may add to the pair table
    TokenOf,      \* choice -> its letters and digits, NULL for none
    CodeOf,       \* <<group, choices>> -> the code made of them; two may have one
    RankOf,       \* <<group, choices>> -> their place in the order of names
    NULL          \* no key, no token, no category

ASSUME ExportAssumption ==
    /\ Export \in Seq(Range(Export))
    /\ \A line \in Range(Export) : {"page", "key", "strip", "kept", "merchant"} \subseteq DOMAIN line

VARIABLES
    table,      \* the pairs the pair table holds, refused lines left out
    decisions,  \* (group, choices) -> the code a person chose
    excluded,   \* pages that must not become products
    category,   \* category_id of each master; its domain are the masters
    archived,   \* masters with archived_at
    made,       \* masters whose attributes say source = rakuten_variant
    rows,       \* SKU -> master: mapping rows with a channel_variant_key
    legacy,     \* channel_sku -> master: active rows without one
    proven,     \* SKU -> master: the majority of its resolved order lines
    stage,      \* of the run: "idle", "assigned", "planned"
    answer,     \* the masters each variant may have, from assign_masters
    target      \* the master build_plan gives it, {} for none

\* What the properties compare with, and no operation reads.
VARIABLE
    wrote       \* rows written by runs since anything but rows changed

Masters == DOMAIN category

\* Several answers to a question that has one.
Several(S) == \E x, y \in S : x # y

-----------------------------------------------------------------------------
(* The catalogue: read_catalogue, read_pair_table, group_variants *)

\* The SKUs of the export, by line: lines without a SKU管理番号 (the product's
\* own line) or without a page are skipped, and so is a repeated pair.
Skus == {i \in DOMAIN Export :
            /\ Export[i].key # NULL /\ Export[i].page # NULL
            /\ \A j \in 1..(i - 1) :
                  <<Export[j].page, Export[j].key>> # <<Export[i].page, Export[i].key>>}

Page(i) == Export[i].page
Key(i) == Export[i].key
Pages == {Page(i) : i \in Skus}

\* A line that uses a page of an earlier accepted line again is refused.
Accept(pairs, line) ==
    IF \E q \in pairs : {line[1], line[2]} \cap {q[1], q[2]} # {} THEN pairs ELSE pairs \cup {line}

\* The group of a page: the men's page of its pair, or the page itself.
Group(pairs, page) ==
    IF \E q \in pairs : page \in {q[1], q[2]}
    THEN (CHOOSE q \in pairs : page \in {q[1], q[2]})[1] ELSE page

\* group_variants: a product's SKUs with one identity are one variant.  Brackets
\* are kept for a product when stripping them makes one page list a variant twice.
Folded(pairs) ==
    LET group == [i \in Skus |-> Group(pairs, Page(i))]
        strips(g) == \A i, j \in {k \in Skus : group[k] = g} :
                        i # j /\ Page(i) = Page(j) => Export[i].strip # Export[j].strip
        identity == [i \in Skus |-> IF strips(group[i]) THEN Export[i].strip ELSE Export[i].kept]
    IN {[group |-> group[i], choices |-> identity[i],
         skus |-> {j \in Skus : group[j] = group[i] /\ identity[j] = identity[i]}] : i \in Skus}

\* By pair table, as a set, for TLC to evaluate it once.
Foldings == {<<pairs, Folded(pairs)>> : pairs \in SUBSET PairLines}
Variants == (CHOOSE f \in Foldings : f[1] = table)[2]
VariantOf(i) == CHOOSE v \in Variants : i \in v.skus

DuplicatedPages(v) == \E i, j \in v.skus : i # j /\ Page(i) = Page(j)

-----------------------------------------------------------------------------
(* Which master a variant has: assign_masters, apply_decisions *)

Codeish(code) == [stem |-> code.stem, attrs |-> code.attrs, order |-> code.order]

\* links_from_legacy_mappings: a page-level row that in truth names a SKU.
\* A placeholder names nothing, and what is also a page was filed as a page.
LegacyLinks(v) ==
    {legacy[Key(i)] : i \in {j \in v.skus : /\ Key(j) \in DOMAIN legacy
                                            /\ Key(j) \notin Placeholder \cup Pages}}

ProvenLinks(v) == {proven[i] : i \in v.skus \cap DOMAIN proven}

\* codeish_index: the master of a code, unless retired or one of two.
Spells(code) ==
    LET same == {c \in Masters \ archived : Codeish(c) = code} IN
    IF Several(same) THEN {} ELSE same

\* What a SKU's system-linking number spells, else its SKU管理番号 unless RMS
\* made that up.
Spelt(i) ==
    IF Spells(Export[i].merchant) # {} THEN Spells(Export[i].merchant)
    ELSE IF Key(i) \in DOMAIN ReadsAs \ Placeholder THEN Spells(ReadsAs[Key(i)]) ELSE {}

\* The first SKU that spells a code answers for the variant.
ByCode(v) ==
    LET hits == {i \in v.skus : Spelt(i) # {}} IN
    IF hits = {} THEN {} ELSE Spelt(Min(hits))

\* The masters the best source names.  Two of them are a conflict, unless a
\* person has chosen one of the two.
Named(v) ==
    IF LegacyLinks(v) # {} THEN LegacyLinks(v)
    ELSE IF ProvenLinks(v) # {} THEN ProvenLinks(v)
    ELSE ByCode(v)

Decided(v) == {d \in decisions : d.group = v.group /\ d.choices = v.choices /\ d.code \in Masters}

Assigned(v) ==
    LET named == Named(v)
        decided == {d.code : d \in Decided(v)}
    IN IF Several(named) /\ decided \cap named # {} THEN decided ELSE named

-----------------------------------------------------------------------------
(* The plan: build_plan *)

IsExcluded(v) == v.group \in excluded \/ \E i \in v.skus : Page(i) \in excluded
Conflicting(v) == Several(answer[v])

\* Every SKU of it has its row.
IsSkipped(v) == v.skus \subseteq DOMAIN rows

\* Faulty variant: a variant that is mapped already claims nothing any more.
SharedByUnmapped(m) ==
    Several({v \in Variants : ~IsExcluded(v) /\ ~IsSkipped(v) /\ answer[v] = {m}})

\* masters_claimed_twice, by variants that are not excluded.
Shared(m) == Several({v \in Variants : ~IsExcluded(v) /\ answer[v] = {m}})

Tokens(v) == {TokenOf[c] : c \in v.choices} \ {NULL}

\* split_candidates of a variant whose master m is claimed twice: masters
\* (retired ones too) whose code is the claimed code and exactly its tokens.
Candidates(v, m) ==
    {c \in Masters :
        /\ Tokens(v) # {}
        /\ c.stem = m.stem /\ m.attrs \subseteq c.attrs /\ c.attrs \ m.attrs = Tokens(v)
        /\ \A d \in Masters : Codeish(d) = Codeish(c) => d = c}

Splits(v) == UNION {Candidates(v, m) : m \in {n \in answer[v] : ~Conflicting(v) /\ Shared(n)}}

Blocked(v) ==
    \/ Conflicting(v)
    \/ DuplicatedPages(v)
    \/ \E i \in v.skus : {Page(i), Key(i)} \cap Long # {}

\* variant_sku_code drops what does not belong in a code, a/b and ab are one, and
\* joins the rest, page A-x without a choice is page A with x.
VariantCode(v) == CodeOf[<<v.group, v.choices>>]

Rank(v) == RankOf[<<v.group, v.choices>>]

\* The variants that get this far: without rows, with nothing against them, and with
\* no master that represents them alone.
Unplaced ==
    {v \in Variants : /\ ~IsExcluded(v) /\ ~IsSkipped(v) /\ ~Blocked(v)
                      /\ Splits(v) = {} /\ \A m \in answer[v] : Shared(m)}

\* The one that takes a code, the first of those it is the code of; the others
\* find it taken.
FirstOf(code) ==
    LET alike == {v \in Unplaced : VariantCode(v) = code}
    IN  CHOOSE v \in alike : \A w \in alike : Rank(v) <= Rank(w)

MakesNew(v) == v \in Unplaced /\ v = FirstOf(VariantCode(v))

\* Faulty variant: a name that is taken is taken, whoever made it.
OwnUnlessTaken(v) == {m \in {VariantCode(v)} \ Masters : MakesNew(v)}

\* A master of the variant's own: the one this tool has made of that code, for
\* whatever variant, or a new one.
Own(v) ==
    {m \in {VariantCode(v)} : IF m \in Masters THEN m \in made ELSE MakesNew(v)}

\* _existing_master: the split candidate, or the master nobody else claims.
\* Several candidates are refused.
Target(v) ==
    IF IsExcluded(v) \/ Blocked(v) THEN {}
    ELSE LET splits == Splits(v)
             alone == {m \in answer[v] : ~Shared(m)}
         IN IF Several(splits) THEN {}
            ELSE IF splits # {} THEN splits
            ELSE IF alone # {} THEN alone ELSE Own(v)

\* The variants the run writes rows for.
Written == {v \in Variants : ~IsSkipped(v) /\ target[v] # {}}
TheTarget(v) == CHOOSE m \in target[v] : TRUE

\* _direct_category: of the variant's master, else of its first page with one.
DirectCategory(v) ==
    LET own == {category[m] : m \in {n \in answer[v] : ~Conflicting(v)}} \ {NULL}
        placed == {n \in DOMAIN PageNames :
                      /\ \E i \in v.skus : Page(i) = PageNames[n]
                      /\ PageNames[n] \in DOMAIN legacy
                      /\ category[legacy[PageNames[n]]] # NULL}
    IN IF own # {} THEN own
       ELSE {category[legacy[PageNames[n]]] : n \in {k \in placed : \A j \in placed : k <= j}}

\* category_by_group, _category_for: else what its siblings agree on, if they do.
CategoryFor(v) ==
    LET direct == DirectCategory(v)
        agreed == UNION {DirectCategory(w) :
                            w \in {x \in Variants : x.group = v.group /\ ~IsExcluded(x)}}
    IN IF direct # {} THEN CHOOSE c \in direct : TRUE
       ELSE IF agreed = {} \/ Several(agreed) THEN NULL ELSE CHOOSE c \in agreed : TRUE

-----------------------------------------------------------------------------
(* Properties *)

\* The master the tool made for v is what w's number spells, or what w's rows or
\* orders name: then w is given it as well, for only what a name is made from
\* keeps the tool's masters apart.
Usurps(w, v) == VariantCode(v) \in made \cap answer[w]

\* v and w have one code, and the master of that code is there: the run that made it
\* for one of them held the other back, as lines 31-33 say, and this one takes it for
\* the other's too (lines 394-405).
OneName(v, w) == VariantCode(v) = VariantCode(w) /\ VariantCode(v) \in made

\* No plan gives two variants, which are two things on a shelf, one master, so
\* that one quantity is pushed to both pages.  What it does not see is a split,
\* whose candidate may be split off for another variant too, or claimed by one;
\* a master of its own that something else names; and, in a later run than the
\* one that made it, whose the master of a code is.
VariantsShareNoMaster ==
    stage = "planned" => \A v, w \in Variants :
        v # w /\ target[v] \cap target[w] # {} =>
            \/ Splits(v) \cup Splits(w) # {}
            \/ Usurps(v, w) \/ Usurps(w, v) \/ OneName(v, w)

\* What the lines of the export spell.
Numbers == {Export[i].merchant : i \in Skus} \cup
           {ReadsAs[Key(i)] : i \in {j \in Skus : Key(j) \in DOMAIN ReadsAs \ Placeholder}}

\* Nothing but the variant it was made for leads to a master of the tool: no
\* line spells it, no other code reads the same, and if it splits off, then for
\* the only variant of its name.
StandApart ==
    \A m \in made :
        /\ Codeish(m) \notin Numbers
        /\ \A d \in Masters : Codeish(d) = Codeish(m) => d = m
        /\ \A v \in Variants : m \in Splits(v) => \A w \in Variants : VariantCode(w) = m <=> w = v

\* When rows that a run wrote are deleted and nothing else has changed, another
\* run brings every variant back to its master: no second master is made, and no
\* variant moves although the masters made meanwhile may be candidates now.  The
\* tool does not check that its masters stand apart, and a variant that one of
\* them can be mistaken for does move.
RepairRestoresMaster ==
    stage = "planned" /\ StandApart => \A v \in Variants :
        \A i \in v.skus \cap DOMAIN wrote : target[v] = {wrote[i]}
=============================================================================
