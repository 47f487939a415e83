---------------------------- MODULE SnapshotRepair ----------------------------
(***************************************************************************)
(* The repair CLI app/cli/recompute_snapshots.py run next to the writers   *)
(* of InventoryLedger.                                                     *)
(*                                                                         *)
(* A repair is one transaction over a list of SKUs.  For each it reads     *)
(* SUM(quantity_delta) with a plain SELECT, and only then locks the        *)
(* snapshot row and overwrites it with what it read.  It runs in a session *)
(* like any other: held, work, and the crash action Fail are the ledger's. *)
(*                                                                         *)
(* --dry-run writes nothing and is left out.  last_event_id is left out,   *)
(* so a row that differs only there counts as already right.               *)
(***************************************************************************)
EXTENDS InventoryLedger

CONSTANTS
    Targets,    \* the SKU lists a repair may be asked for
    MaxDrift    \* bound: how far off a snapshot may be to begin with

ASSUME TargetsAssumption == Targets \subseteq Seq(Sku)
ASSUME DriftAssumption == MaxDrift \in Nat

VARIABLES
    repair,     \* each session's repair: SKUs left, the sum read, of how many
                \* events, and the SKUs it locked with no event since
    healed      \* history: SKUs whose last repair met no concurrent commit

repairVars == <<vars, repair, healed>>

NoRepair == [skus |-> <<>>, sum |-> 0, of |-> 0, clean |-> {}]

\* A snapshot that an operator's SQL has left disagreeing with its (here still
\* empty) log is what the CLI is for.
RepairInit ==
    /\ hasRow \in SUBSET Sku
    /\ onHand \in [Sku -> 0..MaxDrift]
    /\ \A s \in Sku \ hasRow : onHand[s] = 0
    /\ log = NoRows
    /\ pc = [p \in Session |-> "idle"]
    /\ todo = [p \in Session |-> <<>>]
    /\ held = [p \in Session |-> {}]
    /\ work = [p \in Session |-> NoQty]
    /\ rows = [p \in Session |-> NoRows]
    /\ repair = [p \in Session |-> NoRepair]
    /\ healed = {}

-----------------------------------------------------------------------------
(* recompute *)

target(p) == Head(repair[p].skus)

BeginRepair(p) ==
    /\ pc[p] = "idle"
    /\ \E sq \in Targets : repair' = [repair EXCEPT ![p] = [NoRepair EXCEPT !.skus = sq]]
    /\ pc' = [pc EXCEPT ![p] = "sum"]
    /\ UNCHANGED <<committed, todo, held, work, rows, healed>>

\* SELECT coalesce(sum(quantity_delta), 0): no lock.
SumEvents(p) ==
    /\ pc[p] = "sum"
    /\ repair[p].skus # <<>>
    /\ repair' = [repair EXCEPT ![p].sum = Total(log[target(p)]),
                                ![p].of = Len(log[target(p)])]
    /\ pc' = [pc EXCEPT ![p] = "relock"]
    /\ UNCHANGED <<committed, todo, held, work, rows, healed>>

\* The row of the target is p's: the sum read before goes into it.
Overwrite(p) ==
    LET s == target(p) IN
    /\ Unlocked(p, s)
    /\ held' = [held EXCEPT ![p] = @ \cup {s}]
    /\ work' = [work EXCEPT ![p][s] = repair[p].sum]
    /\ repair' = [repair EXCEPT ![p].skus = Tail(@),
                                ![p].clean = IF repair[p].of = Len(log[s])
                                             THEN @ \cup {s} ELSE @ \ {s}]
    /\ pc' = [pc EXCEPT ![p] = "sum"]
    /\ UNCHANGED <<committed, todo, rows, healed>>

\* SELECT ... FOR UPDATE finds the row, waiting for whoever holds it.
LockAndOverwrite(p) ==
    /\ pc[p] = "relock"
    /\ target(p) \in hasRow \cup held[p]
    /\ Overwrite(p)

MissRow(p) ==
    /\ pc[p] = "relock"
    /\ target(p) \notin hasRow \cup held[p]
    /\ pc' = [pc EXCEPT ![p] = "insert"]
    /\ UNCHANGED <<committed, todo, held, work, rows, repair, healed>>

\* INSERT of a missing row, already with the sum.
InsertRow(p) ==
    /\ pc[p] = "insert"
    /\ target(p) \notin hasRow
    /\ Overwrite(p)

\* A ledger writer created and committed the row first: IntegrityError.
InsertRowConflict(p) ==
    /\ pc[p] = "insert"
    /\ target(p) \in hasRow
    /\ Rollback(p)
    /\ repair' = [repair EXCEPT ![p] = NoRepair]
    /\ UNCHANGED healed

CommitRepair(p) ==
    /\ pc[p] = "sum"
    /\ repair[p].skus = <<>>
    /\ hasRow' = hasRow \cup held[p]
    /\ onHand' = [s \in Sku |-> IF s \in held[p] THEN work[p][s] ELSE onHand[s]]
    /\ healed' = (healed \ held[p]) \cup repair[p].clean
    /\ Idle(p)
    /\ repair' = [repair EXCEPT ![p] = NoRepair]
    /\ UNCHANGED log

RepairStep(p) ==
    \/ SumEvents(p)
    \/ MissRow(p)
    \/ InsertRowConflict(p)
    \/ CommitRepair(p)

RepairAcquire(p) == LockAndOverwrite(p) \/ InsertRow(p)

\* p waits for q, a writer or a repair, each for a row the other holds.
Waits(p, q) ==
    \/ WaitsFor(p, q)
    \/ p # q /\ pc[p] \in {"relock", "insert"} /\ target(p) \in held[q] \ held[p]

\* PostgreSQL aborts a session that is on a cycle of waiting sessions.
CycleVictim(p) ==
    /\ \E S \in SUBSET Session :
        /\ p \in S
        /\ \A q \in S : (\E r \in S : Waits(q, r)) /\ (\E r \in S : Waits(r, q))
    /\ Rollback(p)

\* What a ledger writer does leaves repairs alone; a session that ends a
\* transaction, by a crash too, has no repair any more.
Beside(A) ==
    /\ A
    /\ repair' = [p \in Session |-> IF pc'[p] = "idle" THEN NoRepair ELSE repair[p]]
    /\ UNCHANGED healed

RepairNext ==
    \/ Beside(Next)
    \/ \E p \in Session :
        BeginRepair(p) \/ RepairStep(p) \/ RepairAcquire(p) \/ Beside(CycleVictim(p))

RepairSpec == RepairInit /\ [][RepairNext]_repairVars

\* A running session, writer or repair, goes on to its next statement; PostgreSQL
\* grants a row lock to its waiters in turn and resolves every deadlock.  Nothing
\* makes a caller begin a transaction, and nothing makes one fail.
RepairFairness ==
    \A p \in Session :
        /\ WF_repairVars(Beside(Step(p)) \/ RepairStep(p))
        /\ SF_repairVars(Beside(Acquire(p)) \/ RepairAcquire(p))
        /\ WF_repairVars(Beside(CycleVictim(p)))

FairRepairSpec == RepairSpec /\ RepairFairness

-----------------------------------------------------------------------------
(* Properties *)

\* A repair that nobody overtook between its sum and its lock sets the record
\* straight, and the writers that follow keep it straight: recompute holds each
\* row FOR UPDATE to the end of its transaction, so none slips in afterwards.
HealedAgrees == \A s \in healed : onHand[s] = Total(log[s])
=============================================================================
