--------------------------- MODULE InventoryLedger ---------------------------
(***************************************************************************)
(* The event-sourced stock ledger of app/services/inventory.py, and the    *)
(* stocktake write of app/services/reconcile.py, under PostgreSQL READ     *)
(* COMMITTED with row locks.                                               *)
(*                                                                         *)
(* inventory_events is the append-only log, inventory_snapshots its        *)
(* projection (one row per master SKU, the row every writer locks FOR      *)
(* UPDATE).  A session runs one transaction at a time; a transaction is a  *)
(* list of ledger calls made one after another (the lines of an order, the *)
(* components of a bundle, the diffs of a bulk approval, the orders of one *)
(* poll batch).  What a transaction writes is visible to itself only until *)
(* Commit, and its row locks are held to the end of the transaction.       *)
(*                                                                         *)
(* Abstractions.  The rows of inventory_events are kept per SKU in id      *)
(* order: ids are drawn while the SKU's snapshot row is locked, so id      *)
(* order and commit order agree.  Times, reasons and operators are left    *)
(* out.  Orders may drive stock negative: only manual_adjust refuses.      *)
(***************************************************************************)
EXTENDS Integers, Sequences

CONSTANTS
    Sku,        \* master_skus rows
    Line,       \* EventSource values: (channel, order id, line id)
    Session,    \* concurrent database sessions
    Work,       \* the transactions callers can run: sequences of ledger calls
    MaxEvents,  \* bound: no unsourced event is started on a SKU with this many
    NoLine      \* the NULL source columns of an unsourced event

Kind == {"consume", "return", "adjust", "count"}

EventType == {"order_consumed", "cancellation_returned", "manual_adjust", "stocktake"}

\* One ledger call.  qty is the ordered quantity times quantity_per for a
\* consume or a return, the signed delta of an adjustment, the counted
\* quantity of a stocktake.
Call == [kind : Kind, sku : Sku, line : Line \cup {NoLine}, qty : Int]

\* One inventory_events row of a SKU.
Event == [type : EventType, line : Line \cup {NoLine}, delta : Int]

\* The callers of the ledger respect the argument checks it raises on.
LegalCall(c) ==
    /\ c.kind \in {"consume", "return"} => c.line \in Line /\ c.qty > 0
    /\ c.kind \in {"adjust", "count"} => c.line = NoLine
    /\ c.kind = "adjust" => c.qty # 0

ASSUME LineAssumption == NoLine \notin Line
ASSUME WorkAssumption ==
    /\ Work \subseteq Seq(Call)
    /\ \A w \in Work : \A i \in 1..Len(w) : LegalCall(w[i])
ASSUME MaxEventsAssumption == MaxEvents \in Nat

VARIABLES
    (***********************************************************************)
    (* Committed tables                                                    *)
    (***********************************************************************)
    hasRow,     \* SKUs with a committed inventory_snapshots row
    onHand,     \* on_hand_qty of that row (0 where there is none)
    log,        \* committed inventory_events rows of each SKU
    (***********************************************************************)
    (* Open transactions                                                   *)
    (***********************************************************************)
    pc,         \* where each session is
    todo,       \* its remaining ledger calls
    held,       \* snapshot rows it has locked or inserted
    work,       \* its own view of on_hand_qty of the rows it holds
    rows        \* events it has appended and not committed

committed == <<hasRow, onHand, log>>
vars == <<hasRow, onHand, log, pc, todo, held, work, rows>>

NoRows == [s \in Sku |-> <<>>]
NoQty == [s \in Sku |-> 0]

Init ==
    /\ hasRow = {}
    /\ onHand = NoQty
    /\ log = NoRows
    /\ pc = [p \in Session |-> "idle"]
    /\ todo = [p \in Session |-> <<>>]
    /\ held = [p \in Session |-> {}]
    /\ work = [p \in Session |-> NoQty]
    /\ rows = [p \in Session |-> NoRows]

-----------------------------------------------------------------------------
(* Reading the log *)

\* The running balance of a SKU's events: SUM(quantity_delta) of each prefix.
Balance(sq) ==
    LET bal[i \in 0..Len(sq)] == IF i = 0 THEN 0 ELSE bal[i - 1] + sq[i].delta
    IN  bal

\* SUM(inventory_events.quantity_delta) of one SKU.
Total(sq) == Balance(sq)[Len(sq)]

\* Is an event of this type and source among the rows?  The unique index
\* uq_inventory_event_source compares exactly these columns.
HasEvent(sq, type, line) ==
    \E i \in 1..Len(sq) : sq[i].type = type /\ sq[i].line = line

\* What session p sees of a SKU's events: the committed ones and its own.
Pending(p, s) == log[s] \o rows[p][s]

Sees(p, s, type, line) == HasEvent(Pending(p, s), type, line)

-----------------------------------------------------------------------------
(* Transactions *)

call(p) == Head(todo[p])

Idle(p) ==
    /\ pc' = [pc EXCEPT ![p] = "idle"]
    /\ todo' = [todo EXCEPT ![p] = <<>>]
    /\ held' = [held EXCEPT ![p] = {}]
    /\ work' = [work EXCEPT ![p] = NoQty]
    /\ rows' = [rows EXCEPT ![p] = NoRows]

\* Every error path: the session's transaction is rolled back, its row locks
\* are released and nothing of it is ever seen.
Rollback(p) ==
    /\ Idle(p)
    /\ UNCHANGED committed

Begin(p) ==
    /\ pc[p] = "idle"
    /\ \E w \in Work :
        /\ \A i \in 1..Len(w) :
              w[i].line = NoLine => Len(log[w[i].sku]) < MaxEvents
        /\ todo' = [todo EXCEPT ![p] = w]
    /\ pc' = [pc EXCEPT ![p] = "stmt"]
    /\ UNCHANGED <<hasRow, onHand, log, held, work, rows>>

\* Faulty variant: every cancelled line counts as consumed.
AssumeConsumed(p) == TRUE

\* _was_consumed: the component's own consumption is on record.
WasConsumed(p) == Sees(p, call(p).sku, "order_consumed", call(p).line)

\* return_order_line: credit a component only if it was consumed.  A plain
\* SELECT: it takes no lock.
CheckReturn(p) ==
    /\ pc[p] = "stmt"
    /\ todo[p] # <<>>
    /\ call(p).kind = "return"
    /\ IF WasConsumed(p)
       THEN /\ pc' = [pc EXCEPT ![p] = "credit"]
            /\ UNCHANGED todo
       ELSE /\ todo' = [todo EXCEPT ![p] = Tail(@)]
            /\ UNCHANGED pc
    /\ UNCHANGED <<hasRow, onHand, log, held, work, rows>>

\* The session is about to lock the snapshot row of its current call.
AtLock(p) ==
    /\ todo[p] # <<>>
    /\ \/ pc[p] = "credit"
       \/ pc[p] = "stmt" /\ call(p).kind # "return"

\* Faulty variant: the SELECT without FOR UPDATE, the INSERT without a key.
NeverLocked(p, s) == TRUE

\* No other session has locked or inserted the snapshot row of s.
Unlocked(p, s) == \A q \in Session \ {p} : s \notin held[q]

\* _lock_or_create_snapshot: SELECT ... FOR UPDATE.  It waits while another
\* session holds the row, and reads the row's newest committed version once it
\* has the lock.
LockSnapshot(p) ==
    /\ AtLock(p)
    /\ LET s == call(p).sku IN
        /\ s \in hasRow \cup held[p]
        /\ Unlocked(p, s)
        /\ held' = [held EXCEPT ![p] = @ \cup {s}]
        /\ work' = [work EXCEPT ![p][s] = IF s \in held[p] THEN @ ELSE onHand[s]]
    /\ pc' = [pc EXCEPT ![p] = "locked"]
    /\ UNCHANGED <<hasRow, onHand, log, todo, rows>>

\* The SELECT finds no row, so it locks nothing (a row another session has
\* inserted and not committed is not visible).
MissSnapshot(p) ==
    /\ AtLock(p)
    /\ call(p).sku \notin hasRow \cup held[p]
    /\ pc' = [pc EXCEPT ![p] = "create"]
    /\ UNCHANGED <<hasRow, onHand, log, todo, held, work, rows>>

\* INSERT of the missing snapshot row with quantity 0.  The primary key makes
\* it wait for another session's uncommitted insert of the same SKU.
CreateSnapshot(p) ==
    /\ pc[p] = "create"
    /\ LET s == call(p).sku IN
        /\ s \notin hasRow
        /\ Unlocked(p, s)
        /\ held' = [held EXCEPT ![p] = @ \cup {s}]
        /\ work' = [work EXCEPT ![p][s] = 0]
    /\ pc' = [pc EXCEPT ![p] = "locked"]
    /\ UNCHANGED <<hasRow, onHand, log, todo, rows>>

\* Faulty variant: the IntegrityError is swallowed and the INSERT sent again.
CreateRetried(p) ==
    /\ pc[p] = "create"
    /\ call(p).sku \in hasRow
    /\ UNCHANGED vars

\* The other session committed first: the INSERT raises IntegrityError outside
\* any SAVEPOINT, which aborts the whole transaction.
CreateConflict(p) ==
    /\ pc[p] = "create"
    /\ call(p).sku \in hasRow
    /\ Rollback(p)

\* Faulty variant: the event is appended and on_hand_qty is not moved.
AppendOnly(p, type, delta) ==
    LET e == [type |-> type, line |-> call(p).line, delta |-> delta]
    IN  /\ rows' = [rows EXCEPT ![p][call(p).sku] = Append(@, e)]
        /\ UNCHANGED work

\* Append an event to the SKU of the current call and move on_hand_qty by its
\* delta.
Append1(p, type, delta) ==
    LET s == call(p).sku
        e == [type |-> type, line |-> call(p).line, delta |-> delta]
    IN  /\ rows' = [rows EXCEPT ![p][s] = Append(@, e)]
        /\ work' = [work EXCEPT ![p][s] = @ + delta]

\* Go on to the next call.
NextCall(p) ==
    /\ todo' = [todo EXCEPT ![p] = Tail(@)]
    /\ pc' = [pc EXCEPT ![p] = "stmt"]

SourcedType(p) ==
    IF call(p).kind = "consume" THEN "order_consumed" ELSE "cancellation_returned"

\* Faulty variant: no unique index.
NeverDuplicate(p) == FALSE

\* The event of the current call violates uq_inventory_event_source.
Duplicate(p) == Sees(p, call(p).sku, SourcedType(p), call(p).line)

\* _append_sourced_event: the insert runs in a SAVEPOINT; a violation of the
\* unique index undoes only the insert and the call is a no-op.
AppendSourced(p) ==
    /\ pc[p] = "locked"
    /\ call(p).kind \in {"consume", "return"}
    /\ IF Duplicate(p)
       THEN UNCHANGED <<rows, work>>
       ELSE Append1(p, SourcedType(p),
                    IF call(p).kind = "consume" THEN 0 - call(p).qty ELSE call(p).qty)
    /\ NextCall(p)
    /\ UNCHANGED <<hasRow, onHand, log, held>>

\* Faulty variant: the quantity is checked before the adjustment, not after.
SufficientBefore(p) == work[p][call(p).sku] >= 0

\* The projected quantity, computed under the lock, is not negative.
Sufficient(p) == work[p][call(p).sku] + call(p).qty >= 0

\* manual_adjust, accepted.
ManualAdjust(p) ==
    /\ pc[p] = "locked"
    /\ call(p).kind = "adjust"
    /\ Sufficient(p)
    /\ Append1(p, "manual_adjust", call(p).qty)
    /\ NextCall(p)
    /\ UNCHANGED <<hasRow, onHand, log, held>>

\* manual_adjust, refused: InventoryInsufficientError reaches the caller's
\* transaction block.
RefuseAdjust(p) ==
    /\ pc[p] = "locked"
    /\ call(p).kind = "adjust"
    /\ ~ Sufficient(p)
    /\ Rollback(p)

\* approve_diff: the counted quantity wins, and the event's delta is recomputed
\* from the quantity read under the lock, never the scan-time delta.
ApplyCount(p) ==
    /\ pc[p] = "locked"
    /\ call(p).kind = "count"
    /\ Append1(p, "stocktake", call(p).qty - work[p][call(p).sku])
    /\ NextCall(p)
    /\ UNCHANGED <<hasRow, onHand, log, held>>

\* Faulty variant: a commit after each call rather than after the last.
AnyTime(p) == TRUE

\* The caller has made its last ledger call.
Finished(p) == todo[p] = <<>>

\* The end of the caller's transaction block.
Commit(p) ==
    /\ pc[p] = "stmt"
    /\ Finished(p)
    /\ hasRow' = hasRow \cup held[p]
    /\ onHand' = [s \in Sku |-> IF s \in held[p] THEN work[p][s] ELSE onHand[s]]
    /\ log' = [s \in Sku |-> log[s] \o rows[p][s]]
    /\ Idle(p)

\* A crash, a lost connection or an error of the caller between two statements.
Fail(p) ==
    /\ pc[p] # "idle"
    /\ Rollback(p)

\* p waits for a row that q holds.
WaitsFor(p, q) ==
    /\ p # q
    /\ \/ AtLock(p) /\ call(p).sku \in hasRow \cup held[p]
       \/ pc[p] = "create" /\ call(p).sku \notin hasRow
    /\ call(p).sku \in held[q]

\* PostgreSQL aborts a session that is on a cycle of waiting sessions (each
\* waits for at most one other, so a set closed both ways is made of cycles).
DeadlockVictim(p) ==
    /\ \E S \in SUBSET Session :
        /\ p \in S
        /\ \A q \in S : /\ \E r \in S : WaitsFor(q, r)
                        /\ \E r \in S : WaitsFor(r, q)
    /\ Rollback(p)

Step(p) ==
    \/ CheckReturn(p)
    \/ MissSnapshot(p)
    \/ CreateConflict(p)
    \/ AppendSourced(p)
    \/ ManualAdjust(p)
    \/ RefuseAdjust(p)
    \/ ApplyCount(p)
    \/ Commit(p)

Acquire(p) == LockSnapshot(p) \/ CreateSnapshot(p)

Next ==
    \E p \in Session :
        Begin(p) \/ Step(p) \/ Acquire(p) \/ Fail(p) \/ DeadlockVictim(p)

Spec == Init /\ [][Next]_vars

-----------------------------------------------------------------------------
(* Properties *)

Pc == {"idle", "stmt", "credit", "create", "locked"}

\* Every table and every open transaction holds values of its columns' types.
TypeOK ==
    /\ hasRow \subseteq Sku
    /\ onHand \in [Sku -> Int]
    /\ log \in [Sku -> Seq(Event)]
    /\ pc \in [Session -> Pc]
    /\ todo \in [Session -> Seq(Call)]
    /\ held \in [Session -> SUBSET Sku]
    /\ work \in [Session -> [Sku -> Int]]
    /\ rows \in [Session -> [Sku -> Seq(Event)]]

\* inventory.py and approve_diff promise that the projection and the log never
\* disagree: snapshot.on_hand_qty = SUM(inventory_events.quantity_delta), in
\* every committed state, whatever writers run concurrently, fail or roll back.
SnapshotMatchesLog == \A s \in Sku : onHand[s] = Total(log[s])

OnceEach(sq) ==
    \A i, j \in 1..Len(sq) :
        /\ sq[i].line # NoLine
        /\ sq[i].type = sq[j].type
        /\ sq[i].line = sq[j].line
        => i = j

CreditsFollow(sq) ==
    \A i \in 1..Len(sq) :
        sq[i].type = "cancellation_returned" =>
            \E j \in 1..(i - 1) : /\ sq[j].type = "order_consumed"
                                 /\ sq[j].line = sq[i].line

AdjustsCovered(sq) ==
    \A i \in 1..Len(sq) : sq[i].type = "manual_adjust" => Balance(sq)[i] >= 0

InOrder(sq) == OnceEach(sq) /\ CreditsFollow(sq) /\ AdjustsCovered(sq)

\* A redelivered order, a retried task and an overlapping poll consume or credit
\* one component of one order line at most once (_append_sourced_event).
SourcedOnce == \A s \in Sku : OnceEach(log[s])

\* A cancellation never credits stock its order line did not take: each
\* cancellation_returned event follows the committed order_consumed event of
\* the same line and component (return_order_line, _was_consumed).
ReturnsFollowConsumption == \A s \in Sku : CreditsFollow(log[s])

\* manual_adjust never leaves a SKU below zero: the balance right after each
\* manual_adjust event is not negative, although orders that commit while the
\* operator's request is running may already have driven it there.
AdjustNeverBelowZero == \A s \in Sku : AdjustsCovered(log[s])

(* What an open transaction may rely on: the parts that make the properties
   above inductive. *)

RowLocksExclude == \A p, q \in Session : p # q => held[p] \cap held[q] = {}

\* A session writes only rows it holds, and its view of a held row counts the
\* events it has not committed.
ViewIsExact ==
    \A p \in Session, s \in Sku :
        IF s \in held[p] THEN work[p][s] = Total(Pending(p, s)) ELSE rows[p][s] = <<>>

\* A call past its lock holds its row, and one about to insert it does not; one
\* that is crediting an order line has seen its consumption.
CallIsPlaced(p) ==
    /\ pc[p] \in {"credit", "create", "locked"} => todo[p] # <<>>
    /\ pc[p] = "locked" => call(p).sku \in held[p]
    /\ pc[p] = "create" => call(p).sku \notin held[p]
    /\ pc[p] \in {"credit", "create", "locked"} /\ call(p).kind = "return" =>
          WasConsumed(p)
    /\ \A i \in 1..Len(todo[p]) : LegalCall(todo[p][i])

\* If any open transaction were to commit now, each SKU's log would still be in
\* order.
PendingInOrder == \A p \in Session, s \in Sku : InOrder(Pending(p, s))

\* Every writer holds the rows it is changing exclusively, knows their exact
\* quantity, and has appended only what it may commit, whatever other writers
\* commit meanwhile (_lock_or_create_snapshot and its callers).
WritersAreIsolated ==
    /\ RowLocksExclude
    /\ ViewIsExact
    /\ PendingInOrder
    /\ \A p \in Session : CallIsPlaced(p)
    /\ \A s \in Sku \ hasRow : onHand[s] = 0

\* Every transaction that is started ends: no session waits for a row lock for
\* ever, although calls lock SKUs in whatever order an order lists them.
TransactionsEnd ==
    \A p \in Session : pc[p] # "idle" ~> pc[p] = "idle"

LinesWith(sq, type) == {l \in Line : HasEvent(sq, type, l)}

\* The accounts that the committed tables make up.
Accounts ==
    [s \in Sku |-> [quantity |-> onHand[s],
                    taken |-> LinesWith(log[s], "order_consumed"),
                    credited |-> LinesWith(log[s], "cancellation_returned")]]

Book == INSTANCE StockBook WITH book <- Accounts

\* The ledger implements the book: whatever sessions do beside each other, fail
\* or lose, each commit changes what is on hand as its whole transaction, run
\* alone on what was committed before, would - an order is never partly consumed
\* and no update is lost.
ImplementsBook == Book!Spec
=============================================================================
