------------------------------ MODULE SkuRoles ------------------------------
(***************************************************************************)
(* The roles of a master SKU (models/master_sku.py,                        *)
(* models/bundle_component.py, models/channel_sku_mapping.py), what they   *)
(* mean to an order and to an archiving (InventoryService.                 *)
(* resolve_consumption, services/sku_scope.py), and what they promise of   *)
(* stock and orders.                                                       *)
(*                                                                         *)
(* Every order is for one unit, every component has quantity_per 1 (the    *)
(* only value link_shared_stock writes).  is_bundle is not kept apart from *)
(* bundle_components: the CLI writes both in one transaction.  A master    *)
(* has one channel SKU here.                                               *)
(***************************************************************************)
EXTENDS Integers

CONSTANTS
    Master,     \* master_skus rows
    Order       \* orders of one line and one unit

VARIABLES
    parts,      \* bundle_components of each master; a set is a bundle parent
    managed,    \* is_stock_managed
    isArchived, \* archived_at IS NOT NULL
    row,        \* the master's mapping row: "none", "off" (inactive), "on"
    onHand,     \* inventory_snapshots.on_hand_qty
    status,     \* orders.status
    taken,      \* masters the order's consume events are on
    returned    \* masters its return events are on

\* What the properties compare with, and no operation reads.
VARIABLES
    recast,     \* orders whose expansion has changed since it was evaluated
    overtaken,  \* shares whose stock moved past the link's check, or were sold or
                \* credited by an expansion older than the link
    hand,       \* sets whose own stock was counted
    late        \* masters that came into use since they were found free to archive

IsBundle(m) == parts[m] # {}

\* resolve_consumption: nothing for an unmanaged master, the components of a
\* set, else the master itself.  Only the ordered master's flag is looked at.
Targets(m) ==
    IF ~managed[m] THEN {} ELSE IF IsBundle(m) THEN parts[m] ELSE {m}

\* archive_blockers: why a master must not be archived.
Reasons(m) ==
    {r \in {"stock", "mapping", "component"} :
        \/ r = "stock" /\ onHand[m] # 0
        \/ r = "mapping" /\ row[m] = "on"
        \/ r = "component" /\ \E b \in Master : m \in parts[b] /\ ~isArchived[b]}

-----------------------------------------------------------------------------
(* Properties *)

\* A cancellation never credits what the order did not take, and gives back all
\* it took unless the expansion changed in between (a component added, a flag
\* set): then the difference stays with the cancelled order for good.
CancelMirrorsConsumption ==
    \A o \in Order :
        /\ returned[o] \subseteq taken[o]
        /\ status[o] = "cancelled" /\ o \notin recast => returned[o] = taken[o]

\* Nothing consults a share's own snapshot, so stock there is out of sight: a
\* share has none unless it was sold or booked past the link's check, counted
\* by hand, or is a pool that was made a share itself (which nothing refuses).
SharesHoldNothing ==
    \A m \in Master : IsBundle(m) /\ onHand[m] # 0 =>
        \/ m \in overtaken \cup hand
        \/ \E b \in Master : m \in parts[b]

\* An archived master, which the screens and figures leave out, is one nothing uses:
\* if it has stock, a mapping or a live set now, that came after the blockers were
\* read, by another session before the archiving or by anyone since.
ArchivedWasFree == \A m \in Master : isArchived[m] /\ Reasons(m) # {} => m \in late
=============================================================================
