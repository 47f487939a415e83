-------------------------- MODULE RakutenVariants --------------------------
(***************************************************************************)
(* create_rakuten_variant_masters, run again and again while rows are      *)
(* deleted by hand, the pair table and the decision files grow, masters    *)
(* are imported or retired and orders come in; VariantPlan has what a run  *)
(* reads and decides.                                                      *)
(*                                                                         *)
(* A run assigns, plans and writes in three steps of one transaction;      *)
(* people change what it reads between the runs.                           *)
(***************************************************************************)
EXTENDS VariantPlan, Naturals

CONSTANTS
    Codes,        \* sku_code of masters that may be imported
    Starts,       \* the sets of them there may be at the start
    CategoryOf,   \* their category_id
    OldRows,      \* page-level mapping rows there may be at the start: <<channel_sku, code>>
    MaxEdits      \* bound: steps other than runs

VARIABLE
    edits       \* steps other than runs so far

vars == <<table, decisions, excluded, category, archived, made, rows, legacy, proven, edits,
          stage, answer, target, wrote>>
world == <<table, decisions, excluded, archived, legacy, proven, edits>>
run == <<stage, answer, target>>

\* f, and what only g has.
Also(f, g) == [x \in DOMAIN f \cup DOMAIN g |-> IF x \in DOMAIN f THEN f[x] ELSE g[x]]

-----------------------------------------------------------------------------
Init ==
    /\ table \in {{}} \cup {{line} : line \in PairLines}
    /\ decisions = {} /\ excluded = {}
    /\ \E M \in Starts : category = [m \in M |-> CategoryOf[m]]
    /\ archived = {} /\ made = {} /\ rows = <<>> /\ proven = <<>>
    /\ \E old \in SUBSET OldRows :
          /\ \A x, y \in old : x[1] = y[1] => x = y
          /\ \A x \in old : x[2] \in Masters
          /\ legacy = [k \in {x[1] : x \in old} |-> (CHOOSE x \in old : x[1] = k)[2]]
    /\ stage = "idle" /\ answer = <<>> /\ target = <<>>
    /\ edits = 0 /\ wrote = <<>>

Assign ==
    /\ stage = "idle" /\ table # {}
    /\ stage' = "assigned"
    /\ answer' = [v \in Variants |-> Assigned(v)]
    /\ UNCHANGED <<world, category, made, rows, target, wrote>>

Plan ==
    /\ stage = "assigned"
    /\ stage' = "planned"
    /\ target' = [v \in Variants |-> Target(v)]
    /\ UNCHANGED <<world, category, made, rows, answer, wrote>>

Done == stage = "planned" /\ stage' = "idle" /\ answer' = <<>> /\ target' = <<>>

\* apply_plan and the commit.  The unique key on rows refuses one that is there
\* already, and with it everything.
Apply ==
    LET new == [i \in UNION {v.skus : v \in Written} |-> TheTarget(VariantOf(i))]
        created == {v \in Written : target[v] \cap Masters = {}}
    IN
    /\ Done
    /\ DOMAIN new \cap DOMAIN rows = {}
    /\ category' = Also(category, [m \in {TheTarget(v) : v \in created} |->
                                      CategoryFor(CHOOSE v \in created : TheTarget(v) = m)])
    /\ made' = made \cup {TheTarget(v) : v \in created}
    /\ rows' = Also(rows, new)
    /\ wrote' = Also(wrote, new)
    /\ UNCHANGED world

\* Without --apply, or refused.
Leave == Done /\ UNCHANGED <<world, category, made, rows, wrote>>

EditRow ==
    /\ stage = "idle" /\ edits < MaxEdits
    /\ edits' = edits + 1
    /\ UNCHANGED run

Edit == EditRow /\ wrote' = <<>>

\* The client's pair table gets a line.
Pair(line) ==
    /\ Accept(table, line) # table /\ Edit
    /\ table' = Accept(table, line)
    /\ UNCHANGED <<decisions, excluded, category, archived, made, rows, legacy, proven>>

\* A person writes down which of the masters a conflicting variant is; a
\* second judgement of one variant is refused.
Decide(v, m) ==
    /\ Edit
    /\ m \in Named(v) /\ Several(Named(v))
    /\ \A d \in decisions : <<d.group, d.choices>> # <<v.group, v.choices>>
    /\ decisions' = decisions \cup {[group |-> v.group, choices |-> v.choices, code |-> m]}
    /\ UNCHANGED <<table, excluded, category, archived, made, rows, legacy, proven>>

Exclude(page) ==
    /\ page \notin excluded /\ Edit
    /\ excluded' = excluded \cup {page}
    /\ UNCHANGED <<table, decisions, category, archived, made, rows, legacy, proven>>

\* mappings_delete on one row, the repair of a bad mapping.
DeleteRow(i) ==
    /\ i \in DOMAIN rows /\ EditRow /\ UNCHANGED wrote
    /\ rows' = [j \in DOMAIN rows \ {i} |-> rows[j]]
    /\ UNCHANGED <<table, decisions, excluded, category, archived, made, legacy, proven>>

DeleteLegacy(k) ==
    /\ k \in DOMAIN legacy /\ Edit
    /\ legacy' = [j \in DOMAIN legacy \ {k} |-> legacy[j]]
    /\ UNCHANGED <<table, decisions, excluded, category, archived, made, rows, proven>>

\* A master no row points at is retired.
Retire(m) ==
    /\ m \in Masters \ (archived \cup Range(rows) \cup Range(legacy)) /\ Edit
    /\ archived' = archived \cup {m}
    /\ UNCHANGED <<table, decisions, excluded, category, made, rows, legacy, proven>>

\* The Shopify import adds a master.
Import(m) ==
    /\ m \notin Masters /\ Edit
    /\ category' = Also(category, [c \in {m} |-> CategoryOf[c]])
    /\ UNCHANGED <<table, decisions, excluded, archived, made, rows, legacy, proven>>

\* links_from_orders: an order line is resolved by its SKU's row, else by its
\* page's; the master of most of a SKU's lines is its link.
Sell(i) ==
    /\ i \in DOMAIN rows \/ Page(i) \in DOMAIN legacy
    /\ LET m == IF i \in DOMAIN rows THEN rows[i] ELSE legacy[Page(i)] IN
          /\ proven' = [j \in DOMAIN proven \cup {i} |-> IF j = i THEN m ELSE proven[j]]
          /\ proven' # proven
    /\ Edit
    /\ UNCHANGED <<table, decisions, excluded, category, archived, made, rows, legacy>>

Next ==
    \/ Assign \/ Plan \/ Apply \/ Leave
    \/ \E line \in PairLines : Pair(line)
    \/ \E v \in Variants, m \in Masters : Decide(v, m)
    \/ \E page \in Pages : Exclude(page)
    \/ \E i \in Skus : DeleteRow(i) \/ Sell(i)
    \/ \E k \in DOMAIN legacy : DeleteLegacy(k)
    \/ \E m \in Masters : Retire(m)
    \/ \E m \in Codes : Import(m)

Spec == Init /\ [][Next]_vars
=============================================================================
