---------------------------- MODULE DailyRollup ----------------------------
(***************************************************************************)
(* The daily analytics rollups (services/analytics_rollup.py,              *)
(* cli/rebuild_daily_metrics.py): for each day of sales a few rows rebuilt *)
(* from the order lines.  The hourly job rebuilds the days that changed    *)
(* since the last success, the nightly one the most recent days, an        *)
(* operator a range of days.                                               *)
(*                                                                         *)
(* Each day is rebuilt in a READ COMMITTED transaction of its own, each    *)
(* query of which sees what is committed when it starts.                   *)
(*                                                                         *)
(* Abstractions.  An order has one line; quantities, prices, channels and  *)
(* the stock grid are left out, so the rows of a day are the sets of lines *)
(* they count.  `now` is advanced by commits of writes only: a transaction *)
(* that writes is one step, its commit, and its stamps are of the moment   *)
(* it began, which may be any time before.  The calendar does not turn:    *)
(* Recent are the days the nightly job covers.                             *)
(***************************************************************************)
EXTENDS Integers, FiniteSetsExt

CONSTANTS
    Line,     \* order lines, with their orders
    LastDay,  \* days of sale are 1..LastDay
    Recent,   \* the trailing days of --repair-days
    MaxDays,  \* --max-days: days per run
    DayOf,    \* [Line -> Day]: the day of ordered_at
    Job,      \* processes that run the rollup
    MaxNow,   \* bound: commits of writes, and 1
    MaxFails  \* bound: runs that fail or are killed

Day == 1..LastDay

ASSUME DayAssumption == LastDay \in Nat \ {0} /\ Recent \subseteq Day /\ DayOf \in [Line -> Day]
ASSUME BoundAssumption == MaxDays \in Nat /\ MaxNow \in Nat /\ MaxFails \in Nat
ASSUME RepairFits == IsFiniteSet(Recent) /\ Cardinality(Recent) <= MaxDays

VARIABLES
    line,       \* [Line -> what the order tables say of it]
    updated,    \* [Line -> updated_at of its order, 0 if there is none]
    booked,     \* [Line -> created_at of its event on the day of sale, 0 if there is none]
    now,        \* from 1
    shown,      \* [Day -> the committed rollup rows]
    watermark,  \* greatest completed_at of a success, -1 if there is none
    lock,       \* holder of the advisory lock, or None
    job,        \* [Job -> a run in progress]
    fails,      \* runs failed so far
    raced,      \* history: days written to by a transaction that overlapped a run
    left        \* history: days a success has passed over for another reason

source == <<line, updated, booked, now>>
vars == <<line, updated, booked, now, shown, watermark, lock, job, fails, raced, left>>

None == "none"
ASSUME NoneAssumption == None \notin Job

State == {"absent", "unmapped", "mapped", "cancelled", "dropped"}

-----------------------------------------------------------------------------
(* The rows of a day *)

Lines(d, state) == {l \in Line : DayOf[l] = d /\ line[l] = state}

\* _build_sales: lines of a known SKU, cancelled ones in columns of their own.
Sales(d) == [sold |-> Lines(d, "mapped"), cancelled |-> Lines(d, "cancelled")]

\* _build_unmapped: the others, cancelled ones left out.
Unmapped(d) == Lines(d, "unmapped")

NoRows == [sales |-> [sold |-> {}, cancelled |-> {}], unmapped |-> {}]

Fresh(d) == shown[d] = [sales |-> Sales(d), unmapped |-> Unmapped(d)]

-----------------------------------------------------------------------------
(* Which days a run rebuilds *)

\* changed_event_days_stmt and changed_order_days_stmt.  The event of a cancellation is
\* on the day of the cancellation, and the day of sale changes through the order only.
Touched(l, since) == booked[l] > since \/ updated[l] > since

ChangedDays(since) == {DayOf[l] : l \in {x \in Line : Touched(x, since)}}

\* dates_to_rebuild: without a watermark nothing.
DatesToRebuild(since) == IF since < 0 THEN {} ELSE ChangedDays(since)

\* The first MaxDays of the days planned.
Capped(days) == {d \in days : Cardinality({e \in days : e < d}) < MaxDays}

-----------------------------------------------------------------------------
Idle == [at |-> "idle", days |-> {}, day |-> 0, sales |-> NoRows.sales]

InFlight == \E j \in Job : job[j].at # "idle"

Init ==
    /\ line = [l \in Line |-> "absent"]
    /\ updated = [l \in Line |-> 0]
    /\ booked = [l \in Line |-> 0]
    /\ now = 1
    /\ shown = [d \in Day |-> NoRows]
    /\ watermark = -1
    /\ lock = None
    /\ job = [j \in Job |-> Idle]
    /\ fails = 0
    /\ raced = {}
    /\ left = {}

-----------------------------------------------------------------------------
(* Orders *)

\* A transaction that writes a line commits.  It has stamped the order, or an event of the
\* day of sale, with the moment it began (func.now() is of the transaction's start), which
\* may be before the commits and runs of others meanwhile.  What is committed while a run
\* is under way may come too late for that run, and is stamped before its completed_at;
\* what began before the last completed_at is behind the watermark when it is committed.
Put(l, state, stamped) ==
    /\ now < MaxNow
    /\ line' = [line EXCEPT ![l] = state]
    /\ now' = now + 1
    /\ \E began \in 1..(now + 1) :
        /\ updated' = IF "order" \in stamped THEN [updated EXCEPT ![l] = began] ELSE updated
        /\ booked' = IF "event" \in stamped THEN [booked EXCEPT ![l] = began] ELSE booked
        /\ raced' = IF InFlight \/ began <= watermark THEN raced \cup {DayOf[l]} ELSE raced
    /\ UNCHANGED <<shown, watermark, lock, job, fails, left>>

\* An order of a known SKU consumes stock on its day if its master is stock managed.
Order(l) ==
    /\ line[l] = "absent"
    /\ \/ Put(l, "unmapped", {"order"})
       \/ \E stamped \in {{"order"}, {"order", "event"}} : Put(l, "mapped", stamped)

Cancel(l) ==
    \/ line[l] = "mapped" /\ Put(l, "cancelled", {"order"})
    \/ line[l] = "unmapped" /\ Put(l, "dropped", {"order"})

\* A later payload of an order replaces the stored one.
Rewrite(l) == line[l] # "absent" /\ Put(l, line[l], {"order"})

\* A mapping has been found for the line: its stock is consumed on its day, or the order
\* is settled, or both.
Attribute(l) ==
    /\ line[l] = "unmapped"
    /\ \E stamped \in (SUBSET {"order", "event"}) \ {{}} : Put(l, "mapped", stamped)

\* Or neither: only the line is written, which has no stamp.
AttributeUnstamped(l) ==
    /\ line[l] \in {"unmapped", "dropped"}
    /\ line' = [line EXCEPT ![l] = IF @ = "dropped" THEN "cancelled" ELSE "mapped"]
    /\ left' = left \cup {DayOf[l]}
    /\ UNCHANGED <<updated, booked, now, shown, watermark, lock, job, fails, raced>>

-----------------------------------------------------------------------------
(* A run *)

\* pg_try_advisory_lock; the run that does not get it is over.
Locked(j) == job[j].at = "idle" /\ lock = None

Begin(j, days, passedOver) ==
    /\ Locked(j)
    /\ lock' = j
    /\ job' = [job EXCEPT ![j] = [Idle EXCEPT !.at = "next", !.days = Capped(days)]]
    /\ left' = left \cup (passedOver \ Capped(days))
    /\ UNCHANGED <<source, shown, watermark, fails, raced>>

\* A first run has no watermark and leaves everything; a capped one its last days.
StartHourly(j) ==
    LET days == DatesToRebuild(watermark)
    IN  Begin(j, days, IF watermark < 0 THEN ChangedDays(0) ELSE days)

\* Faulty variant: the repair trusts the stamps too.
StartNightlyIncremental(j) == Begin(j, DatesToRebuild(watermark), ChangedDays(watermark))

\* A run of fixed days leaves the others, and is a success like any other.
StartNightly(j) == Begin(j, Recent, ChangedDays(watermark))

\* --from and --to; the wrong way round they are no days.
StartRange(j) == \E from, to \in Day : Begin(j, from..to, ChangedDays(watermark))

\* rebuild_day: the day's rows are deleted, the sales read; then the unmapped lines.
ReadSales(j) ==
    /\ job[j].at = "next" /\ job[j].days # {}
    /\ LET d == Min(job[j].days)
       IN  job' = [job EXCEPT ![j].at = "building", ![j].day = d,
                              ![j].days = @ \ {d}, ![j].sales = Sales(d)]
    /\ UNCHANGED <<source, shown, watermark, lock, fails, raced, left>>

\* Faulty variant: an upsert, which leaves the rows that are no more.
CommitUpsert(j) ==
    LET d == job[j].day IN
    /\ job[j].at = "building"
    /\ shown' = [shown EXCEPT ![d] = [sales |-> job[j].sales, unmapped |-> @.unmapped \cup Unmapped(d)]]
    /\ job' = [job EXCEPT ![j].at = "next", ![j].day = 0, ![j].sales = NoRows.sales]
    /\ UNCHANGED <<source, watermark, lock, fails, raced, left>>

CommitDay(j) ==
    LET d == job[j].day IN
    /\ job[j].at = "building"
    /\ shown' = [shown EXCEPT ![d] = [sales |-> job[j].sales, unmapped |-> Unmapped(d)]]
    /\ job' = [job EXCEPT ![j].at = "next", ![j].day = 0, ![j].sales = NoRows.sales]
    /\ IF job[j].sales = Sales(d)
       THEN raced' = raced \ {d} /\ left' = left \ {d}
       ELSE UNCHANGED <<raced, left>>
    /\ UNCHANGED <<source, watermark, lock, fails>>

\* The days are done, or --prune-before drops the rows of days long past.
Unlock(j) ==
    /\ job[j].at = "next" /\ job[j].days = {}
    /\ \E before \in {1} \cup {d \in Day : \A r \in Recent : d <= r} :
        /\ shown' = [d \in Day |-> IF d < before THEN NoRows ELSE shown[d]]
        /\ left' = left \cup (1..(before - 1))
    /\ lock' = None
    /\ job' = [job EXCEPT ![j].at = "unlocked"]
    /\ UNCHANGED <<source, watermark, fails, raced>>

\* _record_run, after the lock is released.
RecordSuccess(j) ==
    /\ job[j].at = "unlocked"
    /\ watermark' = now
    /\ job' = [job EXCEPT ![j] = Idle]
    /\ UNCHANGED <<source, shown, lock, fails, raced, left>>

\* An exception, or the container is killed: the day in hand is rolled back, the
\* days before it stand, no success is recorded.
Fail(j) ==
    /\ job[j].at # "idle" /\ fails < MaxFails
    /\ fails' = fails + 1
    /\ job' = [job EXCEPT ![j] = Idle]
    /\ lock' = IF lock = j THEN None ELSE lock
    /\ UNCHANGED <<source, shown, watermark, raced, left>>

-----------------------------------------------------------------------------
Step(j) == ReadSales(j) \/ CommitDay(j) \/ Unlock(j) \/ RecordSuccess(j)

Next ==
    \/ \E l \in Line : Order(l) \/ Cancel(l) \/ Rewrite(l) \/ Attribute(l) \/ AttributeUnstamped(l)
    \/ \E j \in Job : StartHourly(j) \/ StartNightly(j) \/ StartRange(j) \/ Step(j) \/ Fail(j)

Spec == Init /\ [][Next]_vars

\* A run goes on, and Cloud Scheduler starts the nightly job again and again
\* (infra/terraform/scheduler.tf); now and then it finds the lock free.
FairSpec ==
    /\ Spec
    /\ \A j \in Job : WF_vars(Step(j))
    /\ SF_vars(\E j \in Job : StartNightly(j))

-----------------------------------------------------------------------------
(* Properties *)

\* A line is never both among a day's sales and among its unmapped sales, although
\* the two are read by separate statements: what is attributed in between is missing
\* until the next rebuild, and never makes the day's revenue too large
\* (analytics_rollup.py:36-38, 217-222).
NeverCountedTwice ==
    \A d \in Day : (shown[d].sales.sold \cup shown[d].sales.cancelled) \cap shown[d].unmapped = {}

\* A day whose rows are wrong is in sight of the next hourly run, or a transaction that
\* overlapped a run wrote to it, or it was passed over by a run that was capped, had no
\* watermark or was for other days, or changed without a stamp (analytics_rollup.py:3-22).
StaleHasReason ==
    \A d \in Day :
        \/ Fresh(d) \/ d \in raced \cup left
        \/ \E l \in Line : DayOf[l] = d /\ Touched(l, watermark)

\* What a reader of the rollup may rely on.
RowsTellOrders == NeverCountedTwice /\ StaleHasReason

\* What the rollup says of a line.
ShownAs(l) ==
    LET rows == shown[DayOf[l]] IN
    <<l \in rows.sales.sold, l \in rows.sales.cancelled, l \in rows.unmapped>>

Counted(state) == <<state = "mapped", state = "cancelled", state = "unmapped">>

\* Whatever the hourly runs have missed, the recent days come to show each line as it
\* is, again and again: a line changes a few times at most (rebuild_daily_metrics.py:18-21).
RepairHeals ==
    \A l \in {x \in Line : DayOf[x] \in Recent} : []<>(ShownAs(l) = Counted(line[l]))
=============================================================================
