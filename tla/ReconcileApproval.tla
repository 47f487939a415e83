-------------------------- MODULE ReconcileApproval --------------------------
(***************************************************************************)
(* The approval of counted differences: app/services/reconcile.py and the  *)
(* callers that drive it (the reconcile screen, the stocktake screen with  *)
(* its bulk buttons, scripts/reconcile_admin.py).                          *)
(*                                                                         *)
(* A run owns diffs, each about one SKU.  A request is one transaction: it *)
(* locks run, diff and snapshot rows FOR UPDATE one after another and      *)
(* commits at the end.  A screen that guards the kind of the run (the      *)
(* reconcile screen when it decides a diff, the stocktake screen always)   *)
(* loads the run with session.get BEFORE the service locks it; the later   *)
(* SELECT ... FOR UPDATE takes the row lock and returns the object the     *)
(* session already holds, whose columns stay as they were loaded.          *)
(*                                                                         *)
(* Quantities are the business of InventoryLedger: here a diff either has  *)
(* a committed stocktake event or not.                                     *)
(***************************************************************************)
EXTENDS Naturals, Sequences, FiniteSets

CONSTANTS
    Run,        \* reconcile_runs rows
    Diff,       \* reconcile_diffs rows
    Sku,        \* inventory_snapshots rows
    Session,    \* concurrent requests
    RunOf,      \* the run of each diff
    SkuOf,      \* the SKU of each diff
    Request,    \* the requests that may be made
    None        \* no request

Op == {"approve", "skip", "finalize", "cancel"}

\* A kind of run is handled by the screen of its name; the daily comparisons
\* with a channel (run types reconcile and shopify_audit) are "reconcile" here.
Kind == {"reconcile", "stocktake"}

\* A request: the caller that makes it, its operation, run and diffs in form
\* order.
RequestType == [by : Kind \cup {"script"}, op : Op, run : Run, diffs : Seq(Diff)]

\* The callers that load the run, to check its kind, before the service does.
Preloads(r) ==
    \/ r.by = "stocktake"
    \/ r.by = "reconcile" /\ r.op \in {"approve", "skip"}

ASSUME DiffAssumption == RunOf \in [Diff -> Run] /\ SkuOf \in [Diff -> Sku]
ASSUME RequestAssumption ==
    /\ Request \subseteq RequestType
    /\ None \notin Request
    /\ \A r \in Request :
        /\ r.op \in {"approve", "skip"} => r.diffs # <<>>
        /\ \A i \in 1..Len(r.diffs) : RunOf[r.diffs[i]] = r.run
ASSUME RowAssumption ==
    /\ Run \cap Diff = {}
    /\ Run \cap Sku = {}
    /\ Diff \cap Sku = {}

RunStatus == {"none", "pending_approval", "applied", "cancelled"}
Decision == {"none", "pending", "approved", "skipped"}
DiffsOf(r) == {d \in Diff : RunOf[d] = r}

VARIABLES
    kind,       \* reconcile_runs.run_type ("none": no row)
    status,     \* reconcile_runs.status ("none": no row)
    count,      \* reconcile_runs.applied_count
    decision,   \* reconcile_diffs.decision ("none": no row)
    applied,    \* stocktake events committed for each diff
    pc,         \* what each session does next
    req,        \* its request
    todo,       \* the diffs it still has to decide
    seen,       \* status and applied_count of its ORM run object
    held,       \* rows it has locked
    put         \* the decisions it will commit

tables == <<kind, status, count, decision, applied>>
vars == <<kind, status, count, decision, applied, pc, req, todo, seen, held, put>>

Unseen == [status |-> "none", count |-> 0]
NoPut == [d \in Diff |-> "none"]

Init ==
    /\ kind = [r \in Run |-> "none"]
    /\ status = [r \in Run |-> "none"]
    /\ count = [r \in Run |-> 0]
    /\ decision = [d \in Diff |-> "none"]
    /\ applied = [d \in Diff |-> 0]
    /\ pc = [p \in Session |-> "idle"]
    /\ req = [p \in Session |-> None]
    /\ todo = [p \in Session |-> <<>>]
    /\ seen = [p \in Session |-> Unseen]
    /\ held = [p \in Session |-> {}]
    /\ put = [p \in Session |-> NoPut]

-----------------------------------------------------------------------------

\* A run without differing rows is applied at once.
NewStatus(differing) == IF differing = {} THEN "applied" ELSE "pending_approval"

\* start_run: only rows whose count differs get a diff.
StartRun(r, k, differing) ==
    /\ status[r] = "none"
    /\ kind' = [kind EXCEPT ![r] = k]
    /\ decision' = [d \in Diff |-> IF d \in differing THEN "pending" ELSE decision[d]]
    /\ status' = [status EXCEPT ![r] = NewStatus(differing)]
    /\ UNCHANGED <<count, applied, pc, req, todo, seen, held, put>>

End(p) ==
    /\ pc' = [pc EXCEPT ![p] = "idle"]
    /\ req' = [req EXCEPT ![p] = None]
    /\ todo' = [todo EXCEPT ![p] = <<>>]
    /\ seen' = [seen EXCEPT ![p] = Unseen]
    /\ held' = [held EXCEPT ![p] = {}]
    /\ put' = [put EXCEPT ![p] = NoPut]

Rollback(p) == End(p) /\ UNCHANGED tables

\* A request about rows that exist.  The screens that guard the kind of the run
\* load it here, with a plain SELECT.
Begin(p, r) ==
    /\ pc[p] = "idle"
    /\ status[r.run] # "none"
    /\ Preloads(r) => kind[r.run] = r.by
    /\ \A i \in 1..Len(r.diffs) : decision[r.diffs[i]] # "none"
    /\ req' = [req EXCEPT ![p] = r]
    /\ todo' = [todo EXCEPT ![p] = r.diffs]
    /\ seen' = [seen EXCEPT ![p] =
          IF Preloads(r) THEN [status |-> status[r.run], count |-> count[r.run]] ELSE @]
    /\ pc' = [pc EXCEPT ![p] = IF r.op = "skip" THEN "diff" ELSE "run"]
    /\ UNCHANGED <<tables, held, put>>

\* The row session p asks for next; None when it waits for no lock.
Wants(p) ==
    CASE pc[p] = "run" -> req[p].run
      [] pc[p] = "diff" -> Head(todo[p])
      [] pc[p] = "snapshot" -> SkuOf[Head(todo[p])]
      [] OTHER -> None

\* Faulty variant: the SELECTs without FOR UPDATE.
NeverHeld(p) == TRUE

\* No other session holds the row p asks for.
Free(p) == \A q \in Session \ {p} : Wants(p) \notin held[q]

Lock(p, next) ==
    /\ Free(p)
    /\ held' = [held EXCEPT ![p] = @ \cup {Wants(p)}]
    /\ pc' = [pc EXCEPT ![p] = next]

\* _get_run: the row lock comes with the newest row, but a run object the
\* session loaded earlier keeps its columns.
LockRun(p) ==
    /\ pc[p] = "run"
    /\ Lock(p, IF req[p].op = "approve" THEN "diff" ELSE "close")
    /\ seen' = [seen EXCEPT ![p] =
          IF @.status = "none"
          THEN [status |-> status[req[p].run], count |-> count[req[p].run]] ELSE @]
    /\ UNCHANGED <<tables, req, todo, put>>

\* The decision p reads of its current diff, its own writes included.
Current(p) ==
    LET d == Head(todo[p]) IN IF put[p][d] = "none" THEN decision[d] ELSE put[p][d]

\* The next diff of the form, or the commit.  approve_diff takes the run lock
\* again, which its transaction already holds.
NextDiff(p) ==
    /\ todo' = [todo EXCEPT ![p] = Tail(@)]
    /\ pc' = [pc EXCEPT ![p] = IF Tail(todo[p]) = <<>> THEN "commit" ELSE "diff"]

\* _get_diff: the diff is first loaded under its lock, so it is never stale.
LockDiff(p) ==
    /\ pc[p] = "diff"
    /\ Lock(p, "decide")
    /\ UNCHANGED <<tables, req, todo, seen, put>>

\* approve_diff: an approved diff is a no-op, a pending one goes on to the
\* snapshot row.
ApproveDiff(p) ==
    /\ pc[p] = "decide"
    /\ req[p].op = "approve"
    /\ Current(p) # "skipped"
    /\ IF Current(p) = "approved"
       THEN NextDiff(p)
       ELSE pc' = [pc EXCEPT ![p] = "snapshot"] /\ UNCHANGED todo
    /\ UNCHANGED <<tables, req, seen, held, put>>

LockSnapshot(p) ==
    /\ pc[p] = "snapshot"
    /\ Lock(p, "apply")
    /\ UNCHANGED <<tables, req, todo, seen, put>>

\* The stocktake event, the decision, and the tally on the run object.
ApplyDiff(p) ==
    /\ pc[p] = "apply"
    /\ put' = [put EXCEPT ![p][Head(todo[p])] = "approved"]
    /\ seen' = [seen EXCEPT ![p].count = @ + 1]
    /\ NextDiff(p)
    /\ UNCHANGED <<tables, req, held>>

Skippable(p) == Current(p) # "approved"

\* skip_diff: allowed unless the diff is approved; it looks at no run.
SkipDiff(p) ==
    /\ pc[p] = "decide"
    /\ req[p].op = "skip"
    /\ Skippable(p)
    /\ put' = [put EXCEPT ![p][Head(todo[p])] = "skipped"]
    /\ NextDiff(p)
    /\ UNCHANGED <<tables, req, seen, held>>

\* Approving a skipped diff or skipping an approved one raises RuntimeError,
\* which undoes the whole request.
RefuseDiff(p) ==
    /\ pc[p] = "decide"
    /\ \/ req[p].op = "approve" /\ Current(p) = "skipped"
       \/ req[p].op = "skip" /\ ~ Skippable(p)
    /\ Rollback(p)

\* Faulty variant: the pending diffs are not counted.
NothingPending(r) == FALSE

HasPending(r) == \E d \in DiffsOf(r) : decision[d] = "pending"

\* finalize_run: refused for a cancelled run and while a diff is pending.
FinalizeRun(p) ==
    /\ pc[p] = "close"
    /\ req[p].op = "finalize"
    /\ seen[p].status \notin {"applied", "cancelled"}
    /\ ~ HasPending(req[p].run)
    /\ seen' = [seen EXCEPT ![p].status = "applied"]
    /\ pc' = [pc EXCEPT ![p] = "commit"]
    /\ UNCHANGED <<tables, req, todo, held, put>>

\* The run is not applied and its tally is zero.
Cancellable(p) == seen[p].status # "applied" /\ seen[p].count = 0

\* cancel_run.
CancelRun(p) ==
    /\ pc[p] = "close"
    /\ req[p].op = "cancel"
    /\ Cancellable(p)
    /\ seen[p].status # "cancelled"
    /\ seen' = [seen EXCEPT ![p].status = "cancelled"]
    /\ pc' = [pc EXCEPT ![p] = "commit"]
    /\ UNCHANGED <<tables, req, todo, held, put>>

\* A request that finds the run closed the way it asks changes no column of
\* it (the ORM writes a status only if it differs from the loaded one).
LeaveClosed(p) ==
    /\ pc[p] = "close"
    /\ \/ req[p].op = "finalize" /\ seen[p].status = "applied"
       \/ /\ req[p].op = "cancel"
          /\ Cancellable(p)
          /\ seen[p].status = "cancelled"
    /\ Rollback(p)

\* The RuntimeErrors of finalize_run and cancel_run.
RefuseClose(p) ==
    /\ pc[p] = "close"
    /\ \/ /\ req[p].op = "finalize"
          /\ seen[p].status # "applied"
          /\ \/ seen[p].status = "cancelled"
             \/ HasPending(req[p].run)
       \/ req[p].op = "cancel" /\ ~ Cancellable(p)
    /\ Rollback(p)

\* The columns this request assigned are written: the decisions, the tally of
\* an approval, the status of a finalize or a cancel.
Commit(p) ==
    /\ pc[p] = "commit"
    /\ LET r == req[p].run
           new == {d \in Diff : put[p][d] = "approved"}
       IN  /\ decision' = [d \in Diff |-> IF put[p][d] = "none" THEN decision[d]
                                          ELSE put[p][d]]
           /\ applied' = [d \in Diff |-> IF d \in new THEN applied[d] + 1 ELSE applied[d]]
           /\ count' = IF new # {} THEN [count EXCEPT ![r] = seen[p].count] ELSE count
           /\ status' = IF req[p].op \in {"finalize", "cancel"}
                        THEN [status EXCEPT ![r] = seen[p].status] ELSE status
    /\ UNCHANGED kind
    /\ End(p)

\* A crash, a lost connection, or a deadlock resolved by PostgreSQL.
Fail(p) ==
    /\ pc[p] # "idle"
    /\ Rollback(p)

Step(p) ==
    \/ LockRun(p) \/ LockDiff(p) \/ LockSnapshot(p)
    \/ ApproveDiff(p) \/ ApplyDiff(p) \/ SkipDiff(p) \/ RefuseDiff(p)
    \/ FinalizeRun(p) \/ CancelRun(p) \/ LeaveClosed(p) \/ RefuseClose(p)
    \/ Commit(p)

Next ==
    \/ \E r \in Run, k \in Kind : \E differing \in SUBSET DiffsOf(r) :
          StartRun(r, k, differing)
    \/ \E p \in Session :
        \/ \E r \in Request : Begin(p, r)
        \/ Step(p)
        \/ Fail(p)

Spec == Init /\ [][Next]_vars

-----------------------------------------------------------------------------
(* Properties *)

\* A diff moves stock exactly once, and exactly if it is approved: double
\* clicks, overlapping bulk approvals and an approval racing a skip included
\* (approve_diff: "re-approving an already-approved diff is a no-op").
AppliedIffApproved ==
    \A d \in Diff : applied[d] = IF decision[d] = "approved" THEN 1 ELSE 0

Approved(r) == {d \in DiffsOf(r) : decision[d] = "approved"}

\* What is closed stays closed (reconcile.py, start_run to cancel_run).  A decision
\* that moved stock is never taken back, and a skipped diff is never approved behind
\* the operator's back; an applied run has nothing left to decide, although decisions
\* can run while it is finalized; and a run of the reconcile screen that is applied or
\* cancelled stays so, whichever of two operators' requests commits first, and is
\* cancelled only with none of its diffs approved.
ClosedStaysClosed ==
    [][/\ \A d \in Diff :
            /\ decision[d] = "approved" => decision'[d] = "approved"
            /\ decision[d] = "skipped" => decision'[d] # "approved"
       /\ \A r \in Run :
            /\ status'[r] = "applied" => \A d \in DiffsOf(r) : decision'[d] # "pending"
            /\ kind[r] = "reconcile" /\ status[r] \in {"applied", "cancelled"} =>
                   status'[r] = status[r]
            /\ kind[r] = "reconcile" /\ status[r] # "cancelled" /\ status'[r] = "cancelled" =>
                   Approved(r) = {}]_vars
=============================================================================
