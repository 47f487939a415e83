----------------------------- MODULE MCCatalogue -----------------------------
(***************************************************************************)
(* Small instances of Catalogue and RakutenVariants.  The mapping rows and *)
(* masters of the one are not those of the other, so a behaviour is one of *)
(* either; `part` says which.                                              *)
(*                                                                         *)
(* Catalogue: three masters, sb a pool for sa, and it may itself be made a *)
(* share of sc.  One order; two sessions, so that every read can be        *)
(* overtaken by a commit of another session.                               *)
(*                                                                         *)
(* Rakuten: a men's page A and a women's page B that may each be paired    *)
(* with Ac, and a page D. The export has A's own line, a key RMS numbered  *)
(* itself, keys that two pages share, a line listed twice, two SKUs of B   *)
(* that only their bracketed sizes tell apart, two choices of D that make  *)
(* one code, and a number of D that spells what the tool would name the    *)
(* variant of A. The codes spell the product of B with and without its     *)
(* choices, two of them the same in another order, and that variant of A,  *)
(* joined and as the tool spells it.                                       *)
(***************************************************************************)
EXTENDS VariantPlan, SkuRoles, TLC

CONSTANTS sa, sb, sc, s1, s2

PoolAndShare == {<<sb, sa>>, <<sc, sb>>}

Sessions == Permutations({s1, s2})

-----------------------------------------------------------------------------
ExportLine(page, key, strip, kept, merchant) ==
    [page |-> page, key |-> key, strip |-> strip, kept |-> kept, merchant |-> merchant]
Code(stem, attrs, order, form) == [stem |-> stem, attrs |-> attrs, order |-> order, form |-> form]
Spelling(stem, attrs) == [stem |-> stem, attrs |-> attrs, order |-> 1]

Lines == << ExportLine("A", NULL, {}, {}, NULL),
            ExportLine("A", "k1", {"gold"}, {"gold"}, NULL),
            ExportLine("A", "r-sku1", {"silver"}, {"silver"}, Spelling("B", {"silver"})),
            ExportLine("Ac", "k2", {"gold"}, {"gold"}, NULL),
            ExportLine("B", "k1", {"gold"}, {"gold", "3mm"}, NULL),
            ExportLine("B", "k3", {"gold"}, {"gold", "5mm"}, NULL),
            ExportLine("B", "k3", {"gold"}, {"gold"}, NULL),
            ExportLine("D", "k4", {"gold"}, {"gold"}, Spelling("A", {"gold"})),
            ExportLine("D", "k5", {"go/ld"}, {"go/ld"}, NULL) >>

BWhole == Code("B", {}, 1, 0)
BGold == Code("B", {"gold"}, 1, 0)
BSilver == Code("B", {"silver"}, 1, 0)
BGold3mm == Code("B", {"gold", "3mm"}, 1, 0)
B3mmGold == Code("B", {"gold", "3mm"}, 2, 0)
AGoldJoined == Code("A", {"gold"}, 1, 0)
AGold == Code("A", {"gold"}, 1, 1)

AllCodes == {BWhole, BGold, BSilver, BGold3mm, B3mmGold, AGoldJoined, AGold}
FirstCodes == {{BWhole, BGold, BSilver}, {BWhole, AGold}, {BWhole, BGold3mm, B3mmGold, AGoldJoined}}
KeyReadsAs == [k \in {"k2"} |-> Spelling("B", {"gold"})]
Categories == [x \in AllCodes |-> IF x.stem = "B" THEN 1 ELSE IF x.attrs = {"gold"} THEN 2 ELSE NULL]
PageRows == {<<"k1", BWhole>>, <<"k2", BGold>>, <<"D", BWhole>>, <<"k4", BGold>>}
PagesByName == <<"A", "Ac", "B", "D">>

\* Choices in the order of their names: `/` is before a letter.
ChoicesByName == <<{}, {"3mm", "gold"}, {"5mm", "gold"}, {"go/ld"}, {"gold"}, {"silver"}>>
Names == Range(PagesByName) \X Range(ChoicesByName)
Tokens4 == [c \in {"gold", "go/ld", "silver", "3mm", "5mm"} |-> IF c = "go/ld" THEN "gold" ELSE c]
CodesMade == [x \in Names |-> Code(x[1], {Tokens4[c] : c \in x[2]}, 1, 1)]
PlaceIn(s, x) == CHOOSE n \in DOMAIN s : s[n] = x
RanksOfNames == [x \in Names |-> 10 * PlaceIn(PagesByName, x[1]) + PlaceIn(ChoicesByName, x[2])]

Pairs == {<<"A", "Ac">>, <<"B", "Ac">>}

-----------------------------------------------------------------------------
CONSTANTS Codes, Starts, CategoryOf, OldRows, MaxEdits

VARIABLES part, edits, zeroed, cleaned, sold, tx

Tool == INSTANCE RakutenVariants

Roles == INSTANCE Catalogue WITH
    Session <- {s1, s2}, Legacy <- {sa},
    Links <- PoolAndShare, Marked <- {sa}, Counted <- {sa}, MaxCount <- 1

rolesVars == <<parts, managed, isArchived, row, onHand, zeroed, cleaned,
               status, sold, taken, returned, tx, recast, overtaken, hand, late>>

toolVars == <<table, decisions, excluded, category, archived, made, rows, legacy, proven, edits,
              stage, answer, target, wrote>>

\* What is not the part of a behaviour stays as it starts, in one way.
BothInit ==
    /\ Tool!Init /\ Roles!Init
    /\ part # "rakuten" => table = {} /\ legacy = <<>> /\ Masters = {BWhole, AGold}

BothNext ==
    \/ part = "roles" /\ Roles!Next /\ UNCHANGED toolVars
    \/ part = "rakuten" /\ Tool!Next /\ UNCHANGED rolesVars
=============================================================================
