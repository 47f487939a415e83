----------------------------- MODULE MCMappings -----------------------------
(***************************************************************************)
(* The catalogue beside small instances of ChannelSheets and MappingRound, *)
(* the sheets from which mappings are made and the worksheet by which they *)
(* are completed.  A behaviour is one of them; `part` says which.          *)
(*                                                                         *)
(* Sheets: products that share a token, an extra, a product without one, a *)
(* set; a live shop of seven variants, of which any selection of a list is *)
(* there, with an SKU on two items, a blank one and codes of CROSS MALL;   *)
(* pages that are product codes and a page that is not; with and without   *)
(* stock, scope, set tokens, group files and an override.                  *)
(*                                                                         *)
(* Round: two stored lines with a blank key of different variants, one     *)
(* without a variant, a line of Rakuten; one master that was renamed.      *)
(***************************************************************************)
EXTENDS MCCatalogue, MappingGap, Integers, Sequences

Word(sort, value) == [sort |-> sort, value |-> value]
N23 == Word("token", "N23")
B09 == Word("token", "B09")
Gold == Word("colour", "gold")
Silver == Word("colour", "silver")
Us7 == Word("us", "7")
Us9 == Word("us", "9")
Anklet == Word("anklet", "anklet")
Code006 == Word("code", "006c")
CodeB9 == Word("code", "b9")

Texts ==
    [t \in {"", "N23", "006c", "box", "b9", "k2"} |-> <<>>] @@
    ("N23gold7" :> <<Gold, Us7>>) @@ ("N23gold" :> <<Gold>>) @@ ("B09silver" :> <<Silver>>) @@
    ("xm1" :> <<Gold, Us7>>) @@ ("N23c" :> <<N23>>) @@
    ("k1" :> <<Code006>>) @@ ("k3" :> <<Code006, CodeB9>>)

Listing(sku, title, variant, item) ==
    [sku |-> sku, title |-> title, variant |-> variant, item |-> item]
LiveShop ==
    << Listing("N23gold7", <<N23>>, <<>>, 1), Listing("N23gold", <<N23>>, <<>>, 2),
       Listing("N23gold", <<B09>>, <<Silver>>, 3), Listing("", <<N23>>, <<Silver>>, 4),
       Listing("N23", <<N23>>, <<>>, 5), Listing("xm1", <<>>, <<>>, 6),
       Listing("B09silver", <<B09>>, <<Silver, Anklet>>, 7) >>
Selections == {{}, {1, 2, 3}, {2, 4, 5}, 1..7, {3, 6, 7}, {6}, {5}, {1, 5, 6}, {2, 4}, {2, 6}}
Selected(K) == LET Picked(i) == IF i \in K THEN <<LiveShop[i]>> ELSE <<>> IN
    Picked(1) \o Picked(2) \o Picked(3) \o Picked(4) \o Picked(5) \o Picked(6) \o Picked(7)

PageLine(page, name, key, link, choices) ==
    [page |-> page, name |-> name, key |-> key, link |-> link, choices |-> choices]
PageFiles ==
    { << PageLine("006c", <<N23>>, "", "xm5", <<>>), PageLine("006c", <<>>, "k1", "", <<Gold, Us7>>),
         PageLine("006c", <<>>, "k2", "xm3", <<Gold, Us9>>),
         PageLine("b9", <<B09, CodeB9>>, "", "", <<>>),
         PageLine("b9", <<>>, "k3", "", <<Silver>>) >>,
      << PageLine("p1", <<N23, Code006>>, "", "", <<>>),
         PageLine("p1", <<>>, "k1", "xm1", <<Gold>>), PageLine("p1", <<>>, "k2", "", <<Silver, Us7>>),
         PageLine("p1", <<>>, "k3", "", <<Silver>>) >> }
SpeltAs == [page \in {"006c", "b9", "p1"} |-> <<page>>] @@ ("p1" :> <<"p1", "006c">>)

Variant(sku, text) == [sku |-> sku, text |-> text]
ProductRow(code, name, addOn, variants) ==
    [code |-> code, name |-> name, addOn |-> addOn, variants |-> variants]
ProductFiles ==
    { << ProductRow("006c", <<>>, FALSE, <<Variant("xm1", <<Gold, Us7>>), Variant("xm2", <<Gold, Us9>>)>>),
         ProductRow("N23c", <<>>, FALSE, <<Variant("xm3", <<Gold, Us7>>), Variant("xm4", <<Silver>>)>>),
         ProductRow("box", <<>>, FALSE, <<Variant("xm5", <<>>)>>),
         ProductRow("b9", <<B09>>, FALSE, <<Variant("k3", <<Silver, Anklet>>)>>) >>,
      << ProductRow("box", <<N23>>, TRUE, <<Variant("xm5", <<Gold>>)>>),
         ProductRow("006c", <<N23>>, FALSE, <<Variant("xm1", <<>>)>>),
         ProductRow("b9", <<B09>>, FALSE, <<>>) >> }

Counts == (<<"006c", {"gold"}, "7">> :> 2) @@ (<<"N23c", {"gold"}, "7">> :> -1) @@
    (<<"b9", {"silver"}, "anklet">> :> 0)
Sundry == ("006c" :> "exclude") @@ ("box" :> "bundle")
OneShop == ("b9" :> "shopify_only") @@ ("N23c" :> "shopify_only")
ScopeFiles ==
    { [stock |-> <<>>, scope |-> <<>>], [stock |-> Counts, scope |-> <<>>],
      [stock |-> Counts, scope |-> Sundry], [stock |-> <<>>, scope |-> "006c" :> "rakuten_only"],
      [stock |-> Counts, scope |-> OneShop] }

SharedRow(token, color, anklet, bracelet) ==
    [token |-> token, color |-> color, anklet |-> anklet, bracelet |-> bracelet]
SetRow(token, color, parent, members) ==
    [token |-> token, color |-> color, parent |-> parent, parts |-> members]
GroupFiles ==
    { [shared |-> <<>>, sets |-> <<>>, tokens |-> {}, manual |-> {}],
      [shared |-> <<>>, sets |-> <<>>, tokens |-> {"B09"}, manual |-> {<<"b9", "006c">>}],
      [shared |-> << SharedRow("B09", {"silver"}, "B09silver", "B09silverB"),
                     SharedRow("B09", {"gold"}, "", "x") >>,
       sets |-> << SetRow("N61", {"gold"}, "N61gold", {"N23", "B09"}),
                   SetRow("N62", {"silver"}, "B09silver", {"N23", "N62"}) >>,
       tokens |-> {"B09"}, manual |-> {}] }

SheetInputs ==
    {[shop |-> Selected(K), rakuten |-> r, products |-> p, stock |-> f.stock, scope |-> f.scope,
      bundleTokens |-> g.tokens, shared |-> g.shared, sets |-> g.sets, manual |-> g.manual] :
        K \in Selections, r \in PageFiles, p \in ProductFiles, f \in ScopeFiles, g \in GroupFiles}

-----------------------------------------------------------------------------
Lines4 == {"l1", "l2", "l3", "l4"}
SoldOn == [l \in Lines4 |-> IF l = "l4" THEN "rakuten" ELSE "shopify"]
SoldAs == [l \in Lines4 |-> IF l = "l4" THEN "K" ELSE ""]
SoldVariant == [l \in Lines4 |-> CASE l = "l1" -> "v1" [] l = "l2" -> "v2" [] OTHER -> ""]
SoldMaster == [l \in Lines4 |-> IF l \in {"l1", "l4"} THEN "a" ELSE "b"]
FirstCode == [m \in {"a", "b", "old"} |-> IF m = "a" THEN "old" ELSE None]

-----------------------------------------------------------------------------
VARIABLES files, sheets, plan, pages, sheet, checked, rounds, changes

Sheets == INSTANCE ChannelSheets WITH
    Blank <- "", WordsIn <- Texts, Namesakes <- SpeltAs, Inputs <- SheetInputs

Round == INSTANCE MappingRound WITH
    Unmanaged <- {"b"}, Parent <- {}, MaxRounds <- 1, MaxChanges <- 2

sheetsVars == <<files, sheets, plan, pages>>
roundVars == <<keyOf, masterOf, mapping, alerts, retired, confirmed, unseen,
               sheet, checked, rounds, changes>>

\* The parts that stay as they start do so in one way.
PartsInit ==
    /\ part \in {"roles", "rakuten", "sheets", "round"}
    /\ BothInit /\ Round!Init
    /\ part # "round" => mapping = <<>>
    /\ IF part = "sheets" THEN Sheets!Init
       ELSE files = {} /\ sheets = NULL /\ plan = NULL /\ pages = NULL

PartsNext ==
    /\ UNCHANGED part
    /\ \/ BothNext /\ UNCHANGED <<sheetsVars, roundVars>>
       \/ part = "sheets" /\ Sheets!Next /\ UNCHANGED <<toolVars, rolesVars, roundVars>>
       \/ part = "round" /\ Round!Next /\ UNCHANGED <<toolVars, rolesVars, sheetsVars>>

PartsSpec == PartsInit /\ [][PartsNext]_<<part, toolVars, rolesVars, sheetsVars, roundVars>>

\* The property of ChannelSheets, under the name it has there; in the other behaviours its
\* state stays as it starts.
SheetsAreSound == part = "sheets" => Sheets!SheetsAreSound
=============================================================================
