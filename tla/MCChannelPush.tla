--------------------------- MODULE MCChannelPush ---------------------------
(***************************************************************************)
(* A set of two of a shared component and one of a SKU that is flagged a   *)
(* bundle and has no components of its own.                                *)
(***************************************************************************)
EXTENDS ChannelPush

CONSTANTS set, alone, shared

MCSku == {set, alone, shared}
MCBundle == {set, alone}
MCPer ==
    [b \in MCBundle |->
        [c \in MCSku |-> IF b = alone \/ c = set THEN 0
                         ELSE IF c = shared THEN 2 ELSE 1]]

MCQuantity == {-1, 1, 3}
=============================================================================
