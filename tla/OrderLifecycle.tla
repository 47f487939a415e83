--------------------------- MODULE OrderLifecycle ---------------------------
(***************************************************************************)
(* The life of an order in the database: app/services/ingest.py,           *)
(* app/services/mapping.py and the callers that wrap them in transactions  *)
(* (webhook handler, poll, alert screen, reprocess and re-resolve CLIs).   *)
(*                                                                         *)
(* A session runs one transaction: it reads rows with plain SELECTs (READ  *)
(* COMMITTED, no row lock on orders or order_items), works on the objects  *)
(* it loaded, and Commit writes what changed on them.  Two transactions    *)
(* that write the same row do so in commit order, and the later one        *)
(* overwrites: nothing re-reads a row before writing it.                   *)
(*                                                                         *)
(* The channel is the environment: it moves an order along and redelivers  *)
(* what it reported.  Stock quantities are the business of InventoryLedger *)
(* and appear here as the inventory_events an order line has left, which   *)
(* the unique index keeps a set.  Quantities, prices, marketplaces and     *)
(* bundle expansion are left out.                                          *)
(***************************************************************************)
EXTENDS Naturals, FiniteSets

CONSTANTS
    Order,          \* channel orders: (channel, channel_order_id)
    Line,           \* order lines
    Key,            \* channel SKUs
    Master,         \* master SKUs
    Session,        \* concurrent database sessions
    OrderOf,        \* the order of each line
    KeyOf,          \* the channel SKU of each line
    BlankKey,       \* the channel SKUs that are blank strings
    Choice,         \* the masters an operator may pick for a channel SKU
    LateDelivery,   \* may a payload older than the channel's state arrive?
    Unmap,          \* may an operator delete a mapping?
    HistoryPass,    \* may the re-resolve CLI run (apply_stock = False)?
    NULL            \* no master

ASSUME LineAssumption == OrderOf \in [Line -> Order] /\ KeyOf \in [Line -> Key]
ASSUME KeyAssumption == BlankKey \subseteq Key /\ Choice \in [Key -> SUBSET Master]
ASSUME NullAssumption == NULL \notin Master \cup Key \cup Order
ASSUME FlagAssumption ==
    LateDelivery \in BOOLEAN /\ Unmap \in BOOLEAN /\ HistoryPass \in BOOLEAN

ChannelStatus == {"confirmed", "shipped", "cancelled"}
CancelStatus == {"cancelled", "returned"}
Status == ChannelStatus \cup {"pending_mapping"}
AlertStatus == {"none", "open", "in_progress", "resolved"}
Outstanding == {"open", "in_progress"}

LinesOf(o) == {l \in Line : OrderOf[l] = o}

\* An inventory event of an order line: its type, line and component master.
Event == [type : {"order_consumed", "cancellation_returned"}, line : Line, master : Master]

Consumed(l, m) == [type |-> "order_consumed", line |-> l, master |-> m]
Returned(l, m) == [type |-> "cancellation_returned", line |-> l, master |-> m]

VARIABLES
    channel,    \* the channel's own status of each order ("none": not placed)
    reported,   \* the statuses it has reported of each order
    status,     \* orders.status ("none": no row)
    master,     \* order_items.master_sku_id (NULL also when there is no row)
    mapping,    \* the active channel_sku_mappings row of each channel SKU
    alert,      \* mapping_alerts.status of each channel SKU ("none": no row)
    events,     \* the committed inventory_events of order lines
    settled,    \* history: lines filled by a pass that leaves stock alone
    late,       \* history: orders that a payload reached out of date
    tx          \* the open transaction of each session

vars == <<channel, reported, status, master, mapping, alert, events, settled, late, tx>>
tables == <<status, master, mapping, alert, events, settled, late>>

NoItems == [l \in Line |-> NULL]

(***************************************************************************)
(* An open transaction.  order and status are its payload, stale whether   *)
(* the channel had moved on by then, key and pick the operator's choice,   *)
(* stock the apply_stock argument; was holds the order statuses it loaded, *)
(* lines the lines it still has to visit, items the master of each line a  *)
(* cancellation loaded, want the event whose snapshot row it is about to   *)
(* lock; put, fills, parked, reopened and events are what Commit will      *)
(* write.                                                                  *)
(***************************************************************************)
NoTx == [job |-> "none", at |-> "idle", order |-> NULL, status |-> "none",
         stale |-> FALSE, key |-> NULL, pick |-> NULL, stock |-> FALSE,
         was |-> [o \in Order |-> "none"], lines |-> {}, items |-> NoItems,
         put |-> [o \in Order |-> "none"], fills |-> NoItems,
         parked |-> {}, reopened |-> {}, want |-> {}, events |-> {}]

Init ==
    /\ channel = [o \in Order |-> "none"]
    /\ reported = [o \in Order |-> {}]
    /\ status = [o \in Order |-> "none"]
    /\ master = NoItems
    /\ mapping = [k \in Key |-> NULL]
    /\ alert = [k \in Key |-> "none"]
    /\ events = {}
    /\ settled = {}
    /\ late = {}
    /\ tx = [p \in Session |-> NoTx]

-----------------------------------------------------------------------------
(* The channel *)

Reports(o, st) ==
    /\ channel' = [channel EXCEPT ![o] = st]
    /\ reported' = [reported EXCEPT ![o] = @ \cup {st}]
    /\ UNCHANGED <<tables, tx>>

Place(o) == channel[o] = "none" /\ Reports(o, "confirmed")
Ship(o) == channel[o] = "confirmed" /\ Reports(o, "shipped")
CancelOrder(o) == channel[o] \in {"confirmed", "shipped"} /\ Reports(o, "cancelled")

-----------------------------------------------------------------------------
(* Ingestion *)

\* The session changes its own transaction and no table.
Local(p, t) ==
    /\ tx' = [tx EXCEPT ![p] = t]
    /\ UNCHANGED <<channel, reported, tables>>

Rollback(p) == Local(p, NoTx)

\* The session has an order or item to work on, and no call under way.
Ready(p, at) == tx[p].at = at /\ tx[p].want = {}

\* consume_for_order_line and cancel_order_line: the event is appended once the
\* snapshot row of its master is locked, and the lock lasts to the end of the
\* transaction.
LockAndAppend(p) ==
    /\ tx[p].want # {}
    /\ \A q \in Session \ {p} : \A d \in tx[q].events : \A e \in tx[p].want :
          d.master # e.master
    /\ Local(p, [tx[p] EXCEPT !.events = @ \cup tx[p].want, !.want = {}])

\* ingest / _find_order: a webhook or a poll hands over a payload, and a plain
\* SELECT decides between the new-order and the update path.
FindOrder(p, o, st) ==
    /\ tx[p].at = "idle"
    /\ st \in reported[o]
    /\ LateDelivery \/ st = channel[o]
    /\ Local(p, [NoTx EXCEPT !.job = "ingest", !.order = o, !.status = st,
                             !.stale = st # channel[o],
                             !.at = IF status[o] = "none" THEN "insert" ELSE "update",
                             !.was[o] = status[o]])

\* Another session has inserted this order and not committed yet.
Inserting(q, o) ==
    /\ tx[q].job = "ingest"
    /\ tx[q].order = o
    /\ tx[q].was[o] = "none"
    /\ tx[q].at \in {"lines", "commit"}

\* _ingest_new: INSERT of the order row, which waits for another session's
\* uncommitted insert of the same order.
InsertOrder(p) ==
    /\ tx[p].at = "insert"
    /\ status[tx[p].order] = "none"
    /\ \A q \in Session \ {p} : ~Inserting(q, tx[p].order)
    /\ Local(p, [tx[p] EXCEPT !.at = "lines", !.lines = LinesOf(tx[p].order)])

\* The other session committed the order first: IntegrityError, which aborts
\* the transaction (and with it the rest of a poll batch).
InsertConflict(p) ==
    /\ tx[p].at = "insert"
    /\ status[tx[p].order] # "none"
    /\ Rollback(p)

\* Faulty variant: an unmapped line raises no alert.
RecordNothing(t, k) == t

\* _record_alert: open an alert for the channel SKU, or reopen a resolved one.
RecordAlert(t, k) ==
    [t EXCEPT !.parked = @ \cup {k},
              !.reopened = IF alert[k] = "resolved" THEN @ \cup {k} ELSE @]

\* Faulty variant: nothing is consumed.
ConsumeNothing(l, m) == {}

\* consume_for_order_line, the event it is to append.
Consume(l, m) == {Consumed(l, m)}

\* One line of a new order: resolve the channel SKU now; park it behind an
\* alert (reopening a resolved one) or consume its stock, unless the order
\* arrived cancelled.
IngestLine(p) ==
    /\ tx[p].job = "ingest"
    /\ Ready(p, "lines")
    /\ \E l \in tx[p].lines :
        LET m == mapping[KeyOf[l]]
            t == [tx[p] EXCEPT !.lines = @ \ {l}, !.fills[l] = m]
        IN  Local(p,
              IF m = NULL
              THEN RecordAlert(t, KeyOf[l])
              ELSE IF tx[p].status \in CancelStatus
              THEN t
              ELSE [t EXCEPT !.want = Consume(l, m)])

\* The order is parked if a line is unmapped and it is live.
NewStatus(p) ==
    IF tx[p].parked # {} /\ tx[p].status \notin CancelStatus
    THEN "pending_mapping" ELSE tx[p].status

\* All lines done.
FinishNew(p) ==
    /\ tx[p].job = "ingest"
    /\ Ready(p, "lines")
    /\ tx[p].lines = {}
    /\ Local(p, [tx[p] EXCEPT !.at = "commit", !.put[tx[p].order] = NewStatus(p)])

\* The lines _compensate_lines loads.
MappedLines(o) == {l \in LinesOf(o) : master[l] # NULL}

\* _ingest_update: a transition into cancellation loads the mapped lines to
\* compensate them; then, whatever the payload, order.status = payload.status
\* (the ORM writes the column only if that differs from the loaded value).
IngestUpdate(p) ==
    /\ tx[p].at = "update"
    /\ LET o == tx[p].order
           cancels == tx[p].status \in CancelStatus /\ tx[p].was[o] \notin CancelStatus
       IN  Local(p, [tx[p] EXCEPT
              !.at = IF cancels THEN "credit" ELSE "commit",
              !.lines = IF cancels THEN MappedLines(o) ELSE {},
              !.items = IF cancels THEN master ELSE NoItems,
              !.put[o] = IF tx[p].status = tx[p].was[o] THEN "none" ELSE tx[p].status])

\* _compensate_lines, one line: return_order_line credits it only if its
\* consumption is on record when the line is reached.
CreditLine(p) ==
    /\ Ready(p, "credit")
    /\ \E l \in tx[p].lines :
        Local(p, [tx[p] EXCEPT
              !.lines = @ \ {l},
              !.want = IF Consumed(l, tx[p].items[l]) \in events
                       THEN {Returned(l, tx[p].items[l])} ELSE {}])

FinishCredit(p) ==
    /\ Ready(p, "credit")
    /\ tx[p].lines = {}
    /\ Local(p, [tx[p] EXCEPT !.at = "commit", !.items = NoItems])

-----------------------------------------------------------------------------
(* Mapping an unmapped channel SKU *)

\* The session has closed the alert of k, or inserted its mapping, and holds
\* that row until it ends.
Resolving(q, k) == tx[q].job = "resolve" /\ tx[q].key = k

\* resolve_alert: map the key, close its alert (an UPDATE that locks the row)
\* and load the parked lines, those of orders that are pending_mapping NOW.
ResolveAlert(p, k, m) ==
    /\ tx[p].at = "idle"
    /\ k \notin BlankKey
    /\ alert[k] # "none"
    /\ alert[k] \in Outstanding \/ mapping[k] = NULL =>
          \A q \in Session \ {p} : ~Resolving(q, k)
    /\ LET found == {l \in Line : /\ KeyOf[l] = k
                                  /\ master[l] = NULL
                                  /\ status[OrderOf[l]] = "pending_mapping"}
       IN  Local(p, [NoTx EXCEPT
              !.job = "resolve", !.key = k, !.pick = m,
              !.at = IF found = {} THEN "commit" ELSE "lines", !.lines = found,
              !.was = [o \in Order |-> IF \E l \in found : OrderOf[l] = o
                                       THEN status[o] ELSE "none"]])

\* Faulty variant: the stock moves and the line stays unmapped.
ReplayUnfilled(p) ==
    /\ tx[p].job = "resolve"
    /\ Ready(p, "lines")
    /\ \E l \in tx[p].lines :
        Local(p, [tx[p] EXCEPT !.lines = @ \ {l}, !.want = Consume(l, tx[p].pick)])

\* _replay_pending_lines, one line: fill it and consume its stock.
ReplayLine(p) ==
    /\ tx[p].job = "resolve"
    /\ Ready(p, "lines")
    /\ \E l \in tx[p].lines :
        Local(p, [tx[p] EXCEPT !.lines = @ \ {l}, !.fills[l] = tx[p].pick,
                               !.want = Consume(l, tx[p].pick)])

\* reresolve_unmapped_lines: load every unmapped line with its order.
SelectUnmapped(p, stock) ==
    /\ tx[p].at = "idle"
    /\ stock \/ HistoryPass
    /\ LET found == {l \in Line : status[OrderOf[l]] # "none" /\ master[l] = NULL}
       IN  /\ found # {}
           /\ Local(p, [NoTx EXCEPT
                !.job = "reresolve", !.at = "lines", !.stock = stock, !.lines = found,
                !.was = [o \in Order |-> IF \E l \in found : OrderOf[l] = o
                                         THEN status[o] ELSE "none"]])

\* Faulty variant: lines of cancelled orders are consumed too.
StockPass(p, l) == tx[p].stock

\* This is the live pass, and the order was not cancelled when it was loaded.
Live(p, l) == tx[p].stock /\ tx[p].was[OrderOf[l]] \notin CancelStatus

\* The master a pass finds for a line, from the mapping of this moment.  A blank
\* key is not looked up: it stands for every product without a code.
Found(l) == IF KeyOf[l] \in BlankKey THEN NULL ELSE mapping[KeyOf[l]]

\* One of those lines: passed over if nothing is found; else filled, and
\* consumed if it is live.
ResolveLine(p) ==
    /\ tx[p].job = "reresolve"
    /\ Ready(p, "lines")
    /\ \E l \in tx[p].lines :
        LET m == Found(l)
        IN  Local(p, [tx[p] EXCEPT
              !.lines = @ \ {l},
              !.fills[l] = m,
              !.want = IF m # NULL /\ Live(p, l) THEN Consume(l, m) ELSE {}])

FinishLines(p) ==
    /\ tx[p].job \in {"resolve", "reresolve"}
    /\ Ready(p, "lines")
    /\ tx[p].lines = {}
    /\ Local(p, [tx[p] EXCEPT !.at = "settle"])

\* Faulty variant: the lines filled by this transaction still count.
LeftBefore(p, o) == {l \in LinesOf(o) : master[l] = NULL}

\* The lines of o still unmapped, as far as this transaction can see.
Left(p, o) == {l \in LinesOf(o) : master[l] = NULL /\ tx[p].fills[l] = NULL}

\* _settle_orders: confirm the touched orders, parked when they were loaded,
\* that have no unmapped line left.
Settle(p) ==
    /\ tx[p].at = "settle"
    /\ LET Touched(o) == \E l \in LinesOf(o) : tx[p].fills[l] # NULL
       IN  Local(p, [tx[p] EXCEPT
              !.at = "commit",
              !.put = [o \in Order |->
                  IF Touched(o) /\ Left(p, o) = {} /\ tx[p].was[o] = "pending_mapping"
                  THEN "confirmed" ELSE "none"]])

-----------------------------------------------------------------------------
(* The end of a transaction, and single-statement ones *)

\* The rows this transaction changed replace the committed ones; events whose
\* source is on record already are dropped by the unique index.
Commit(p) ==
    LET t == tx[p] IN
    /\ t.at = "commit"
    /\ \A q \in Session \ {p} : \A k \in t.reopened : ~Resolving(q, k)
    /\ status' = [o \in Order |-> IF t.put[o] = "none" THEN status[o] ELSE t.put[o]]
    /\ master' = [l \in Line |-> IF t.fills[l] = NULL THEN master[l] ELSE t.fills[l]]
    /\ events' = events \cup t.events
    /\ mapping' = [k \in Key |-> IF t.key = k THEN t.pick ELSE mapping[k]]
    /\ alert' = [k \in Key |->
          CASE t.key = k /\ alert[k] \in Outstanding -> "resolved"
            [] k \in t.reopened -> "open"
            [] k \in t.parked /\ alert[k] = "none" -> "open"
            [] OTHER -> alert[k]]
    /\ settled' = IF t.job = "reresolve" /\ ~t.stock
                  THEN settled \cup {l \in Line : t.fills[l] # NULL} ELSE settled
    /\ late' = IF t.stale THEN late \cup {t.order} ELSE late
    /\ tx' = [tx EXCEPT ![p] = NoTx]
    /\ UNCHANGED <<channel, reported>>

\* A crash, a database error or a deadlock abort.
Fail(p) ==
    /\ tx[p].at # "idle"
    /\ Rollback(p)

\* alerts_start: an outstanding alert is assigned to an operator.
StartAlert(k) ==
    /\ alert[k] = "open"
    /\ \A q \in Session : ~Resolving(q, k)
    /\ alert' = [alert EXCEPT ![k] = "in_progress"]
    /\ UNCHANGED <<channel, reported, status, master, mapping, events, settled, late, tx>>

\* mappings_new_submit, mappings_import and import_mappings: a mapping is added
\* and nothing is replayed.
AddMapping(k, m) ==
    /\ mapping[k] = NULL
    /\ \A q \in Session : ~Resolving(q, k)
    /\ mapping' = [mapping EXCEPT ![k] = m]
    /\ UNCHANGED <<channel, reported, status, master, alert, events, settled, late, tx>>

\* mappings_delete.
DeleteMapping(k) ==
    /\ Unmap
    /\ mapping[k] # NULL
    /\ \A q \in Session : ~Resolving(q, k)
    /\ mapping' = [mapping EXCEPT ![k] = NULL]
    /\ UNCHANGED <<channel, reported, status, master, alert, events, settled, late, tx>>

Next ==
    \/ \E o \in Order : Place(o) \/ Ship(o) \/ CancelOrder(o)
    \/ \E p \in Session :
        \/ \E o \in Order, st \in ChannelStatus : FindOrder(p, o, st)
        \/ LockAndAppend(p)
        \/ InsertOrder(p) \/ InsertConflict(p) \/ IngestLine(p) \/ FinishNew(p)
        \/ IngestUpdate(p) \/ CreditLine(p) \/ FinishCredit(p)
        \/ \E k \in Key : \E m \in Choice[k] : ResolveAlert(p, k, m)
        \/ \E stock \in BOOLEAN : SelectUnmapped(p, stock)
        \/ ReplayLine(p) \/ ResolveLine(p) \/ FinishLines(p) \/ Settle(p)
        \/ Commit(p) \/ Fail(p)
    \/ \E k \in Key :
        \/ StartAlert(k)
        \/ DeleteMapping(k)
        \/ \E m \in Choice[k] : AddMapping(k, m)

Spec == Init /\ [][Next]_vars

-----------------------------------------------------------------------------
(* Properties *)

\* The net effect of an order line on the stock of a master.
Holds(l, m) == Consumed(l, m) \in events /\ Returned(l, m) \notin events

\* Stock moves exactly with attribution: a consumption is booked on the master
\* its line shows, so a line that is parked (or unmapped by a rolled back pass)
\* has taken nothing.  (The item's master_sku_id and the consume call of one
\* transaction commit together, whichever pass comes first.)
ConsumptionIsAttributed ==
    \A e \in events : master[e.line] = e.master

\* A cancelled order holds no stock: _compensate_lines credits each line that
\* was consumed, and no replay consumes a line of a cancelled order.
CancelledHoldsNoStock ==
    \A l \in Line : status[OrderOf[l]] \in CancelStatus =>
        \A m \in Master : ~Holds(l, m)

\* A live order has taken the stock of each line it can attribute, unless the
\* line was attributed by the historical pass, which leaves stock alone, or the
\* order was once handed a payload older than the channel's state.
LiveOrderHoldsStock ==
    \A l \in Line :
        /\ OrderOf[l] \notin late
        /\ status[OrderOf[l]] \notin CancelStatus
        /\ master[l] # NULL
        /\ l \notin settled
        => Holds(l, master[l])

\* _settle_orders confirms an order as soon as nothing on it is unmapped: no
\* order stays parked without an unmapped line.
ParkedHasUnmappedLine ==
    \A o \in Order : status[o] = "pending_mapping" =>
        \E l \in LinesOf(o) : master[l] = NULL

\* A parked order is on the alerts screen: each channel SKU it waits for has an alert
\* that is outstanding, also after a mapping of it was made and deleted again.
ParkedIsOnAlert ==
    \A l \in Line : status[OrderOf[l]] = "pending_mapping" /\ master[l] = NULL =>
        alert[KeyOf[l]] \in Outstanding

\* An unmapped line is never lost from sight: its channel SKU has an alert that
\* is outstanding, or a mapping by which reprocess_pending_orders fills it.
UnmappedIsReachable ==
    \A l \in Line : status[OrderOf[l]] # "none" /\ master[l] = NULL =>
        alert[KeyOf[l]] \in Outstanding \/ Found(l) # NULL

\* The status of an order tells what is true of it: a cancelled one holds no stock, a live
\* one that of each line it can attribute, a parked one has a line it cannot attribute,
\* and an operator is told of each (services/ingest.py:4-12, services/mapping.py:33-40).
StatusIsTrue ==
    CancelledHoldsNoStock /\ LiveOrderHoldsStock /\ ParkedHasUnmappedLine /\ ParkedIsOnAlert
=============================================================================
