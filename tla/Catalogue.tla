------------------------------ MODULE Catalogue ------------------------------
(***************************************************************************)
(* The roles of a master SKU and what they do to stock: shared pools       *)
(* (cli/link_shared_stock.py), 在庫管理対象外 (cli/mark_non_inventory.py,    *)
(* ui/routes/inventory.py), archiving (services/sku_scope.py,              *)
(* cli/archive_legacy_skus.py), the variant cutover                        *)
(* (cli/deactivate_legacy_mappings.py, cli/zero_legacy_stock.py) and the   *)
(* mapping rows (ui/routes/mappings.py, cli/sync_shopify_masters.py),      *)
(* together with the orders that are expanded by these roles               *)
(* (InventoryService.resolve_consumption).                                 *)
(*                                                                         *)
(* A session reads in one step and commits in a later one, under READ      *)
(* COMMITTED and without a lock on what it read; operations that lock the  *)
(* row they decide on are one step.                                        *)
(***************************************************************************)
EXTENDS SkuRoles

CONSTANTS
    Session,    \* concurrent database sessions
    Legacy,     \* legacy_master_ids: product-level masters with a migrated code
    Links,      \* (pool, share) arguments of link_shared_stock
    Marked,     \* rows of the non_inventory CSV
    Counted,    \* masters an operator counts or adjusts
    MaxCount,   \* bound: a count finds at most this many
    NULL

VARIABLES
    zeroed,     \* masters with the fixed source key of zero_legacy_stock
    cleaned,    \* masters with the fixed source key of mark_non_inventory
    sold,       \* the master of the order's line
    tx          \* what each session has read and not yet committed

roles == <<parts, managed, isArchived, row>>
stock == <<onHand, zeroed, cleaned>>
orders == <<status, sold, taken, returned>>
vars == <<parts, managed, isArchived, row, onHand, zeroed, cleaned,
          status, sold, taken, returned, tx, recast, overtaken, hand, late>>

Idle == [job |-> "idle"]

Init ==
    /\ parts = [m \in Master |-> {}]
    /\ managed = [m \in Master |-> TRUE]
    /\ isArchived = [m \in Master |-> FALSE]
    /\ row = [m \in Master |-> "on"]
    /\ onHand = [m \in Master |-> 0]
    /\ zeroed = {} /\ cleaned = {}
    /\ status = [o \in Order |-> "none"]
    /\ sold = [o \in Order |-> NULL]
    /\ taken = [o \in Order |-> {}]
    /\ returned = [o \in Order |-> {}]
    /\ tx = [p \in Session |-> Idle]
    /\ recast = {} /\ overtaken = {} /\ hand = {} /\ late = {}

Begin(p, work) == tx[p] = Idle /\ tx' = [tx EXCEPT ![p] = work]
End(p) == tx' = [tx EXCEPT ![p] = Idle]

\* Stock of every master of M moves by d, in the log and in the snapshot.
Move(M, d) ==
    /\ onHand' = [m \in Master |-> IF m \in M THEN onHand[m] + d ELSE onHand[m]]
    /\ UNCHANGED <<zeroed, cleaned>>

-----------------------------------------------------------------------------
(* Orders *)

\* _ingest_new resolves the line and evaluates its expansion.
Expand(p, o, s) ==
    /\ status[o] = "none" /\ row[s] = "on"
    /\ Begin(p, [job |-> "consume", order |-> o, want |-> Targets(s)])
    /\ status' = [status EXCEPT ![o] = "arriving"]
    /\ sold' = [sold EXCEPT ![o] = s]
    /\ UNCHANGED <<roles, stock, taken, returned, overtaken, hand>>

\* consume_order_line books what the expansion said, and the order commits.
Consume(p) ==
    /\ tx[p].job = "consume"
    /\ Move(tx[p].want, -1)
    /\ status' = [status EXCEPT ![tx[p].order] = "confirmed"]
    /\ taken' = [taken EXCEPT ![tx[p].order] = tx[p].want]
    /\ overtaken' = overtaken \cup {m \in tx[p].want : IsBundle(m)}
    /\ End(p)
    /\ UNCHANGED <<roles, sold, returned, hand>>

\* Faulty variant: a return that credits whatever the expansion says now.
ReturnUnseen(p, o) ==
    /\ status[o] = "confirmed"
    /\ Begin(p, [job |-> "return", order |-> o, want |-> Targets(sold[o])])
    /\ UNCHANGED <<roles, stock, orders, overtaken, hand>>

\* return_order_line evaluates the expansion again, and keeps the components
\* whose consumption is on record (_was_consumed).
ExpandReturn(p, o) ==
    /\ status[o] = "confirmed"
    /\ Begin(p, [job |-> "return", order |-> o, want |-> Targets(sold[o]) \cap taken[o]])
    /\ UNCHANGED <<roles, stock, orders, overtaken, hand>>

\* Two cancellations of one order may both have read it as confirmed: what the other has
\* credited meanwhile is skipped by the unique key of the event.
Return(p) ==
    LET o == tx[p].order
        new == tx[p].want \ returned[o]
    IN
    /\ tx[p].job = "return"
    /\ Move(new, 1)
    /\ status' = [status EXCEPT ![o] = "cancelled"]
    /\ returned' = [returned EXCEPT ![o] = @ \cup new]
    /\ overtaken' = overtaken \cup {m \in new : IsBundle(m)}
    /\ End(p)
    /\ UNCHANGED <<roles, sold, taken, hand>>

\* A stocktake or an adjustment sets what is on the shelf (the snapshot row is
\* locked); the screens offer set parents too.
Count(m, q) ==
    /\ onHand' = [onHand EXCEPT ![m] = q]
    /\ hand' = IF IsBundle(m) THEN hand \cup {m} ELSE hand
    /\ UNCHANGED <<roles, zeroed, cleaned, orders, tx, overtaken>>

-----------------------------------------------------------------------------
(* Shared pools: link_shared_stock --pool --share --apply *)

\* Faulty variant: a link that does not look at the share's own stock.
LinkHoldingStock(p, pool, share) ==
    /\ ~IsBundle(pool)
    /\ pool # share
    /\ parts[share] = {}
    /\ Begin(p, [job |-> "link", pool |-> pool, share |-> share, had |-> onHand[share]])
    /\ UNCHANGED <<roles, stock, orders, overtaken, hand>>

\* plan: the pool must not be a share, the share must not draw on another pool
\* and must hold no stock of its own.  (A share already on this pool is done.)
LinkPlan(p, pool, share) ==
    /\ ~IsBundle(pool)
    /\ pool # share
    /\ parts[share] = {}
    /\ onHand[share] = 0
    /\ Begin(p, [job |-> "link", pool |-> pool, share |-> share, had |-> onHand[share]])
    /\ UNCHANGED <<roles, stock, orders, overtaken, hand>>

\* apply and commit.
LinkApply(p) ==
    /\ tx[p].job = "link"
    /\ tx[p].pool \notin parts[tx[p].share]
    /\ parts' = [parts EXCEPT ![tx[p].share] = @ \cup {tx[p].pool}]
    /\ overtaken' = IF onHand[tx[p].share] = tx[p].had THEN overtaken
                    ELSE overtaken \cup {tx[p].share}
    /\ End(p)
    /\ UNCHANGED <<managed, isArchived, row, stock, orders, hand>>

\* The unique key (bundle, component) refuses a link made meanwhile.
LinkConflict(p) ==
    /\ tx[p].job = "link"
    /\ tx[p].pool \in parts[tx[p].share]
    /\ End(p)
    /\ UNCHANGED <<roles, stock, orders, overtaken, hand>>

-----------------------------------------------------------------------------
(* 在庫管理対象外 *)

\* mark_non_inventory: the flag, and the snapshot brought to 0 under its lock
\* by an event whose source key is the same on every run.
Mark(m) ==
    /\ managed[m]
    /\ managed' = [managed EXCEPT ![m] = FALSE]
    /\ IF onHand[m] = 0 \/ m \in cleaned
       THEN UNCHANGED stock
       ELSE /\ onHand' = [onHand EXCEPT ![m] = 0]
            /\ cleaned' = cleaned \cup {m}
            /\ UNCHANGED zeroed
    /\ UNCHANGED <<parts, isArchived, row, orders, tx, overtaken, hand>>

\* --unmark: the flag only.
Unmark(m) ==
    /\ ~managed[m]
    /\ managed' = [managed EXCEPT ![m] = TRUE]
    /\ UNCHANGED <<parts, isArchived, row, stock, orders, tx, overtaken, hand>>

\* toggle_stock_managed: flips the flag, and leaves the stock as it is.
ToggleManaged(m) ==
    /\ managed' = [managed EXCEPT ![m] = ~@]
    /\ UNCHANGED <<parts, isArchived, row, stock, orders, tx, overtaken, hand>>

-----------------------------------------------------------------------------
(* Archiving *)

\* Faulty variant: an archiving that does not look at the mappings.
ArchiveMapped(p, M) ==
    /\ Begin(p, [job |-> "archive", free |-> {m \in M : ~isArchived[m] /\ Reasons(m) \subseteq {"mapping"}}])
    /\ tx'[p].free # {}
    /\ UNCHANGED <<roles, stock, orders, overtaken, hand>>

\* archive_blockers for the masters of M, by the row toggle or the bulk run.
ArchiveRead(p, M) ==
    /\ Begin(p, [job |-> "archive", free |-> {m \in M : ~isArchived[m] /\ Reasons(m) = {}}])
    /\ tx'[p].free # {}
    /\ UNCHANGED <<roles, stock, orders, overtaken, hand>>

Archive(p) ==
    /\ tx[p].job = "archive"
    /\ isArchived' = [m \in Master |-> isArchived[m] \/ m \in tx[p].free]
    /\ End(p)
    /\ UNCHANGED <<parts, managed, row, stock, orders, overtaken, hand>>

\* The toggle on an archived master, and archive_legacy_skus --unarchive.
Unarchive(M) ==
    /\ \E m \in M : isArchived[m]
    /\ isArchived' = [m \in Master |-> isArchived[m] /\ m \notin M]
    /\ UNCHANGED <<parts, managed, row, stock, orders, tx, overtaken, hand>>

-----------------------------------------------------------------------------
(* Mapping rows, and the variant cutover *)

\* resolve_alert's _upsert_mapping takes over or revives a row; the mapping
\* screens, the CSV upload and sync_shopify_masters only add a missing one.
MapSku(m, revive) ==
    /\ row[m] = "none" \/ (revive /\ row[m] = "off")
    /\ row' = [row EXCEPT ![m] = "on"]
    /\ UNCHANGED <<parts, managed, isArchived, stock, orders, tx, overtaken, hand>>

\* mappings_delete.
UnmapSku(m) ==
    /\ row[m] # "none"
    /\ row' = [row EXCEPT ![m] = "none"]
    /\ UNCHANGED <<parts, managed, isArchived, stock, orders, tx, overtaken, hand>>

\* deactivate_legacy_mappings.
DeactivateLegacy ==
    /\ \E m \in Legacy : row[m] = "on"
    /\ row' = [m \in Master |-> IF m \in Legacy /\ row[m] = "on" THEN "off" ELSE row[m]]
    /\ UNCHANGED <<parts, managed, isArchived, stock, orders, tx, overtaken, hand>>

\* zero_legacy_stock selects the snapshots to clear, without a lock: those of
\* the legacy masters, or with --all-negative every negative one.
ZeroRead(p, allNegative) ==
    LET scope == IF allNegative THEN {m \in Master : onHand[m] < 0}
                 ELSE {m \in Legacy : onHand[m] # 0} IN
    /\ scope # {}
    /\ Begin(p, [job |-> "zero", scope |-> scope])
    /\ UNCHANGED <<roles, stock, orders, overtaken, hand>>

\* It books the quantity it read, then locks the row and sets it to 0 (so the log
\* is wrong if that quantity was stale; the log is not kept here).  A master with the
\* run's fixed source key is skipped.
Zero(p) ==
    LET done == tx[p].scope \ zeroed IN
    /\ tx[p].job = "zero"
    /\ onHand' = [m \in Master |-> IF m \in done THEN 0 ELSE onHand[m]]
    /\ zeroed' = zeroed \cup done
    /\ End(p)
    /\ UNCHANGED <<roles, cleaned, orders, overtaken, hand>>

-----------------------------------------------------------------------------
Step ==
    \/ \E p \in Session :
        \/ \E o \in Order :
            \/ \E s \in Master : Expand(p, o, s)
            \/ ExpandReturn(p, o)
        \/ Consume(p) \/ Return(p)
        \/ \E l \in Links : LinkPlan(p, l[1], l[2])
        \/ LinkApply(p) \/ LinkConflict(p)
        \/ \E M \in {Legacy} \cup {{m} : m \in Counted} : ArchiveRead(p, M)
        \/ Archive(p)
        \/ \E allNegative \in BOOLEAN : ZeroRead(p, allNegative)
        \/ Zero(p)
    \/ \E m \in Counted, q \in 0..MaxCount : Count(m, q)
    \/ \E m \in Marked : Mark(m) \/ Unmark(m) \/ ToggleManaged(m)
    \/ \E M \in {Legacy} \cup {{m} : m \in Counted} : Unarchive(M)
    \/ \E m \in Legacy, revive \in BOOLEAN : MapSku(m, revive)
    \/ \E m \in Legacy : UnmapSku(m)
    \/ DeactivateLegacy

\* A session has found m free and is about to archive it.
Archiving(m) == \E p \in Session : tx[p] # Idle /\ tx[p].job = "archive" /\ m \in tx[p].free

\* The history variables, after whatever the step did.
Recorded ==
    /\ recast' = recast \cup {o \in Order :
                    status[o] # "none" /\ Targets(sold[o])' # Targets(sold[o])}
    /\ late' = {m \in Master :
                   /\ isArchived'[m] \/ Archiving(m)'
                   /\ m \in late \/ (Reasons(m) = {} /\ Reasons(m)' # {})}

Next == Step /\ Recorded

Spec == Init /\ [][Next]_vars
=============================================================================
