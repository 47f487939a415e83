---------------------------- MODULE MappingRound ----------------------------
(***************************************************************************)
(* The round that closes the gap between what is sold and what is mapped:  *)
(* cli/export_unmapped_worksheet.py asks the client which product each     *)
(* channel SKU without a mapping is, cli/validate_mapping_worksheet.py     *)
(* judges the answers and ui/routes/mappings.py takes in those that pass,  *)
(* while orders arrive, operators map and unmap keys, and                  *)
(* cli/backfill_blank_channel_sku.py gives lines without an SKU the key of *)
(* their variant.                                                          *)
(*                                                                         *)
(* Each transaction is one step.                                           *)
(***************************************************************************)
EXTENDS MappingGap, Naturals, FiniteSets

CONSTANTS
    Unmanaged, Parent,     \* masters that hold no stock; masters of sets
    MaxRounds, MaxChanges  \* bounds: worksheets; what operators and tools do to alerts and rows

VARIABLES
    sheet,      \* [channel and key -> waiting lines], the worksheet the client has, or None
    checked,    \* [channel and key -> master], the rows that passed, or None
    rounds, changes

tables == <<keyOf, masterOf, mapping, alerts, retired, confirmed, unseen>>
vars == <<tables, sheet, checked, rounds, changes>>

-----------------------------------------------------------------------------
Row(m) == [master |-> m, active |-> TRUE]
With(f, pair, value) == [p \in DOMAIN f \cup {pair} |-> IF p = pair THEN value ELSE f[p]]
Without(f, pair) == [p \in DOMAIN f \ {pair} |-> f[p]]

-----------------------------------------------------------------------------
(* Orders and operators *)

\* _lookup_mapping and _record_alert of the ingestion: the key is looked up as it is, a blank
\* one too; an alert that was resolved opens again, one that was dismissed does not.
Arrive(l) ==
    LET pair == <<ChannelOf[l], KeyNow(l)>>
        dismissed == pair \in DOMAIN alerts /\ alerts[pair] # "resolved"
    IN
    /\ keyOf[l] = None
    /\ keyOf' = [keyOf EXCEPT ![l] = KeyNow(l)]
    /\ IF Active(pair)
       THEN masterOf' = [masterOf EXCEPT ![l] = mapping[pair].master] /\ alerts' = alerts
       ELSE masterOf' = masterOf /\ alerts' = IF dismissed THEN alerts ELSE With(alerts, pair, "open")
    /\ UNCHANGED <<mapping, retired, sheet, checked, rounds, changes, confirmed, unseen>>

Change == changes < MaxChanges /\ changes' = changes + 1

\* alerts_resolve: the row is written over, and the waiting lines filled.
ResolveAlert(pair, m) ==
    /\ pair[2] # Blank
    /\ mapping' = With(mapping, pair, Row(m))
    /\ alerts' = IF alerts[pair] = "open" THEN With(alerts, pair, "resolved") ELSE alerts
    /\ masterOf' = [l \in Line |-> IF l \in Unresolved /\ PairOf(l) = pair THEN m ELSE masterOf[l]]
    /\ confirmed' = confirmed \cup {pair}
    /\ Change
    /\ UNCHANGED <<keyOf, retired, sheet, checked, rounds, unseen>>

\* mappings_new_submit: a key that has a row, active or not, keeps it.
AddRow(pair, m) ==
    /\ pair \notin DOMAIN mapping
    /\ mapping' = With(mapping, pair, Row(m))
    /\ confirmed' = confirmed \cup {pair}
    /\ Change
    /\ UNCHANGED <<keyOf, masterOf, alerts, retired, sheet, checked, rounds, unseen>>

\* mappings_delete
DeleteRow(pair) ==
    /\ mapping' = Without(mapping, pair)
    /\ confirmed' = confirmed \ {pair}
    /\ Change
    /\ UNCHANGED <<keyOf, masterOf, alerts, retired, sheet, checked, rounds, unseen>>

\* deactivate_legacy_mappings: the rows of all masters that have a successor.
DeactivateLegacy ==
    LET old == {p \in DOMAIN mapping : \E m \in MasterSku : OldCode[m] = mapping[p].master}
    IN
    /\ \E p \in old : mapping[p].active
    /\ mapping' = [p \in DOMAIN mapping |->
                    IF p \in old THEN [mapping[p] EXCEPT !.active = FALSE] ELSE mapping[p]]
    /\ Change
    /\ UNCHANGED <<keyOf, masterOf, alerts, retired, sheet, checked, rounds, confirmed, unseen>>

\* A master without an active row is archived (Catalogue has its races).
Archive(m) ==
    /\ m \notin retired /\ \A p \in DOMAIN mapping : mapping[p].master = m => ~mapping[p].active
    /\ retired' = retired \cup {m}
    /\ unseen' = IF checked # None /\ m \in {checked[p] : p \in DOMAIN checked}
                 THEN unseen \cup {m} ELSE unseen
    /\ Change
    /\ UNCHANGED <<keyOf, masterOf, mapping, alerts, sheet, checked, rounds, confirmed>>

\* reresolve_unmapped_lines: blank keys are skipped.
Reresolve ==
    LET found == {l \in Unresolved : keyOf[l] # Blank /\ Active(PairOf(l))}
    IN
    /\ found # {}
    /\ masterOf' = [l \in Line |-> IF l \in found THEN mapping[PairOf(l)].master ELSE masterOf[l]]
    /\ UNCHANGED <<keyOf, mapping, alerts, retired, sheet, checked, rounds, changes, confirmed, unseen>>

\* rekey, _close_blank_alerts: the blank alerts are dismissed as soon as one line got a key,
\* and the new keys get no alert.
Rekey ==
    LET found == {l \in Unresolved : keyOf[l] = Blank /\ VariantSold[l] # Blank}
    IN
    /\ found # {}
    /\ keyOf' = [l \in Line |-> IF l \in found THEN VariantSold[l] ELSE keyOf[l]]
    /\ alerts' = [p \in DOMAIN alerts |->
                    IF p[2] = Blank /\ alerts[p] = "open" THEN "ignored" ELSE alerts[p]]
    /\ UNCHANGED <<masterOf, mapping, retired, sheet, checked, rounds, changes, confirmed, unseen>>

-----------------------------------------------------------------------------
(* The worksheet *)

\* Each key once, with how many lines wait for it.
MakeSheet ==
    /\ sheet = None /\ rounds < MaxRounds /\ Asked # {}
    /\ sheet' = [p \in {PairOf(l) : l \in Asked} |->
                    Cardinality({l \in Asked : PairOf(l) = p})]
    /\ rounds' = rounds + 1
    /\ UNCHANGED <<tables, checked, changes>>

\* The client names the product, or says that it is not sold any more, or nothing.
Answers(pair) == NamesOf(ProductsUnder(pair)) \cup {"out of scope", Blank}

\* validate: of a known master that sells and holds stock itself.
Sound(m) == m \in MasterSku \ (retired \cup Unmanaged \cup Parent)

\* validate, write_import_csv: of what the client answered, the keys still without an active
\* row whose master is sound.
Validate ==
    /\ sheet # None /\ checked = None
    /\ \E given \in [DOMAIN sheet -> MasterSku \cup {"out of scope", Blank}] :
        /\ \A p \in DOMAIN sheet : given[p] \in Answers(p)
        /\ checked' = [p \in {p \in DOMAIN sheet : ~Active(p) /\ Sound(given[p])} |-> given[p]]
    /\ UNCHANGED <<tables, sheet, rounds, changes>>

\* Faulty variant: as the other imports do.
TakenOver(answers) ==
    [p \in DOMAIN mapping \cup DOMAIN answers |->
        IF p \in DOMAIN answers THEN Row(answers[p]) ELSE mapping[p]]

\* mappings_import: a key that has a row keeps it; nothing is looked at again.
Taken(answers) ==
    [p \in DOMAIN mapping \cup DOMAIN answers |->
        IF p \in DOMAIN mapping THEN mapping[p] ELSE Row(answers[p])]

Import ==
    /\ checked # None
    /\ mapping' = Taken(checked)
    /\ sheet' = None /\ checked' = None
    /\ UNCHANGED <<keyOf, masterOf, alerts, retired, rounds, changes, confirmed, unseen>>

-----------------------------------------------------------------------------
Init ==
    /\ keyOf = [l \in Line |-> IF l \in History THEN SkuOf[l] ELSE None]
    /\ masterOf = [l \in Line |-> None]
    /\ \/ mapping = <<>>
       \/ \E l \in Line, c \in Channel : \E m \in NamesOf({TrueMaster[l]}) :
            /\ KeyNow(l) # Blank /\ (SkuOf[l] = Blank => c = ChannelOf[l])
            /\ mapping = [p \in {<<c, KeyNow(l)>>} |-> Row(m)]
            /\ RowsAreRight
    /\ alerts = [p \in {<<ChannelOf[l], SkuOf[l]>> : l \in History} |-> "open"]
    /\ retired = {} /\ sheet = None /\ checked = None /\ rounds = 0 /\ changes = 0
    /\ confirmed = {} /\ unseen = {}

Next ==
    \/ \E l \in Line : Arrive(l)
    \/ \E p \in DOMAIN alerts : \E m \in ProductsUnder(p) : ResolveAlert(p, m)
    \/ \E l \in Line : keyOf[l] \notin {None, Blank} /\ AddRow(PairOf(l), TrueMaster[l])
    \/ \E p \in DOMAIN mapping : DeleteRow(p)
    \/ DeactivateLegacy
    \/ \E m \in MasterSku : Archive(m)
    \/ Reresolve \/ Rekey \/ MakeSheet \/ Validate \/ Import

Spec == Init /\ [][Next]_vars
=============================================================================
