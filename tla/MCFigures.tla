------------------------------ MODULE MCFigures ------------------------------
(***************************************************************************)
(* Small instances of SalesFigures and StockFigures.  They share no state, *)
(* so a behaviour is one of either; `part` says which.                     *)
(*                                                                         *)
(* Sales: two days and two channels, an order of two lines and two of one, *)
(* a sheet that names a SKU twice, one that clears it and has codes nobody *)
(* knows.  Stock: two SKUs, three days, a window and a repair of two days, *)
(* three events.                                                           *)
(***************************************************************************)
EXTENDS SalesFigures, StockScreens, TLC

Days == (1 :> 1) @@ (2 :> 1) @@ (3 :> 2)
Channels == (1 :> "shopify") @@ (2 :> "rakuten") @@ (3 :> "shopify")
OrderOfDef == (11 :> 1) @@ (12 :> 1) @@ (21 :> 2) @@ (31 :> 3)
ItemOfDef == (11 :> "i") @@ (12 :> "j") @@ (21 :> "i") @@ (31 :> "j")
QuantityDef == (11 :> 1) @@ (12 :> 2) @@ (21 :> 1) @@ (31 :> 1)
PriceDef == (11 :> 10) @@ (12 :> 3) @@ (21 :> 7) @@ (31 :> 5)
TreeDef == ("A" :> "root") @@ ("B" :> "A")
CategoryDef == ("m" :> "B") @@ ("n" :> "NULL")
SheetsDef == {<< <<"m", "A">>, <<"n", "B">>, <<"m", "B">>, <<"m", "zz">> >>,
              << <<"m", "NULL">>, <<"x", "A">>, <<"n", "A">> >>}

VARIABLES part, moves

Stock == INSTANCE StockFigures WITH
    Sku <- {"a", "b"}, LastDay <- 3, RepairDays <- 2, Counts <- {2},
    First <- ("a" :> 1) @@ ("b" :> 3), MaxMoves <- 3

stockVars ==
    <<today, moved, population, changed, grid, kpi, velocity, passed, shadow, moves>>

FiguresInit == part \in {"sales", "stock"} /\ SalesInit /\ Stock!Init

FiguresNext ==
    /\ UNCHANGED part
    /\ \/ part = "sales" /\ SalesNext /\ UNCHANGED stockVars
       \/ part = "stock" /\ Stock!Next /\ UNCHANGED salesVars

FiguresSpec == FiguresInit /\ [][FiguresNext]_<<part, salesVars, stockVars>>
=============================================================================
