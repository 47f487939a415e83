--------------------------- MODULE BigQueryExport ---------------------------
(***************************************************************************)
(* The daily export of one incremental table to BigQuery                   *)
(* (services/bigquery_export.py, cli/export_to_bq.py): changed rows are    *)
(* appended window by window up to a watermark.                            *)
(*                                                                         *)
(* BigQuery is not part of the database transaction.  A row is stamped     *)
(* when its transaction starts and becomes visible when it commits.        *)
(*                                                                         *)
(* Abstractions.  Tables are exported one after the other and share        *)
(* nothing, so one stands for all; snapshot tables, reloaded as a whole,   *)
(* have no watermark and are left out.  A change is a row with its stamp   *)
(* (updated_at, or created_at of an event); what it says is left out.      *)
(* Time is counted in ticks from 1; 0 stands for no timestamp.             *)
(***************************************************************************)
EXTENDS Integers, Sequences, FiniteSetsExt

CONSTANTS
    Row,         \* source rows
    Run,         \* processes that run the export
    Window,      \* EXPORT_WINDOW in ticks
    MaxWindows,  \* --max-windows: windows per run
    MaxTime,     \* bound: ticks
    MaxFaults    \* bound: loads BigQuery refuses and containers killed

ASSUME WindowAssumption == Window \in Nat \ {0} /\ MaxWindows \in Nat \ {0}
ASSUME BoundAssumption == MaxTime \in Nat \ {0} /\ MaxFaults \in Nat

VARIABLES
    clock,
    stamp,   \* each row's committed stamp, 0 if there is none yet
    open,    \* the stamp an open transaction has given it, 0 if none
    runs,    \* committed bigquery_export_runs: status by `until`
    copies,  \* how often BigQuery holds a change: 0, 1, or 2 for more
    job,     \* the run of each process
    faults,  \* loads refused and runs killed so far
    late,    \* history: changes committed after a window over their stamp was read
    excused  \* history: changes that may be in BigQuery more than once

source == <<clock, stamp, open>>
vars == <<clock, stamp, open, runs, copies, job, faults, late, excused>>

Time == 1..MaxTime
Change == Row \X Time

-----------------------------------------------------------------------------
(* Watermarks and windows *)

\* The greatest `until` of a successful run, 0 if there is none.
Watermark == Max({0} \cup {u \in Time : runs[u] = "success"})

\* The oldest stamp of the table, 0 if it has no row.
Earliest ==
    LET stamps == {stamp[r] : r \in Row} \ {0} IN IF stamps = {} THEN 0 ELSE Min(stamps)

\* plan_windows: the ends of the windows of (since, until].
Windows(since, until) ==
    IF since = 0 \/ since >= until THEN <<until>>
    ELSE [k \in 1..((until - since + Window - 1) \div Window) |->
            Min({since + k * Window, until})]

\* The windows one run of the job takes on.
Plan(until) ==
    LET ends == Windows(IF Watermark = 0 THEN Earliest ELSE Watermark, until)
    IN  SubSeq(ends, 1, Min({MaxWindows, Len(ends)}))

\* Faulty variant: the window is closed at both ends.
RowsBothEnds(since, until) ==
    {<<r, stamp[r]>> : r \in {x \in Row : stamp[x] >= Max({since, 1}) /\ stamp[x] <= until}}

\* The committed changes of (since, until].
Rows(since, until) ==
    {<<r, stamp[r]>> : r \in {x \in Row : stamp[x] > since /\ stamp[x] <= until}}

-----------------------------------------------------------------------------
\* A run: the ends of the windows to go, and of the window in hand the watermark it
\* starts from and the changes it has sent.
NoJob == [at |-> "idle", ends |-> <<>>, since |-> 0, hand |-> {}]

until(p) == Head(job[p].ends)

\* On to the next window of the plan, or done.
NextWindow(p) ==
    IF Len(job[p].ends) = 1 THEN NoJob
    ELSE [NoJob EXCEPT !.at = "next", !.ends = Tail(job[p].ends)]

Init ==
    /\ clock = 1
    /\ stamp = [r \in Row |-> 0]
    /\ open = [r \in Row |-> 0]
    /\ runs = [u \in Time |-> "none"]
    /\ copies = [c \in Change |-> 0]
    /\ job = [p \in Run |-> NoJob]
    /\ faults = 0
    /\ late = {}
    /\ excused = {}

-----------------------------------------------------------------------------
(* The source tables *)

Tick ==
    /\ clock < MaxTime
    /\ clock' = clock + 1
    /\ UNCHANGED <<stamp, open, runs, copies, job, faults, late, excused>>

Write(r) ==
    /\ open[r] = 0 /\ stamp[r] < clock
    /\ open' = [open EXCEPT ![r] = clock]
    /\ UNCHANGED <<clock, stamp, runs, copies, job, faults, late, excused>>

\* A window over the stamp has been read already, by a run that has succeeded or
\* still may.
ReadBefore(r) ==
    \/ open[r] <= Watermark
    \/ \E p \in Run : job[p].at = "loaded" /\ open[r] <= until(p)

Save(r) ==
    /\ open[r] # 0
    /\ stamp' = [stamp EXCEPT ![r] = open[r]]
    /\ open' = [open EXCEPT ![r] = 0]
    /\ late' = IF ReadBefore(r) THEN late \cup {<<r, open[r]>>} ELSE late
    /\ UNCHANGED <<clock, runs, copies, job, faults, excused>>

-----------------------------------------------------------------------------
(* The export *)

\* Cloud Scheduler, its retries and operators start runs, each up to its own now.
Start(p) ==
    /\ job[p].at = "idle"
    /\ job' = [job EXCEPT ![p] = [NoJob EXCEPT !.at = "next", !.ends = Plan(clock)]]
    /\ UNCHANGED <<source, runs, copies, faults, late, excused>>

\* A window's transaction reads the watermark before it claims the window.
Begin(p) ==
    /\ job[p].at = "next"
    /\ job' = [job EXCEPT ![p].at = "begun", ![p].since = Watermark]
    /\ UNCHANGED <<source, runs, copies, faults, late, excused>>

\* An uncommitted run of the same window blocks the insert.
Claimed(p) ==
    \E q \in Run \ {p} :
        job[q].at \in {"claimed", "loaded", "refused"} /\ until(q) = until(p)

Recorded(p) == runs[until(p)] # "none"

Claim(p) ==
    /\ job[p].at = "begun" /\ ~Claimed(p) /\ ~Recorded(p)
    /\ job' = [job EXCEPT ![p].at = "claimed"]
    /\ UNCHANGED <<source, runs, copies, faults, late, excused>>

\* Faulty variant: a window on record ends the run, as a failure does.
SkipEndsRun(p) ==
    /\ job[p].at = "begun" /\ ~Claimed(p) /\ Recorded(p)
    /\ job' = [job EXCEPT ![p] = NoJob]
    /\ UNCHANGED <<source, runs, copies, faults, late, excused>>

\* uq_bq_export_table_until: whatever became of the run on record, the window is
\* passed over.
Skip(p) ==
    /\ job[p].at = "begun" /\ ~Claimed(p) /\ Recorded(p)
    /\ job' = [job EXCEPT ![p] = NextWindow(p)]
    /\ UNCHANGED <<source, runs, copies, faults, late, excused>>

\* Changes of a window that another run has sent since p read its watermark.
Overlap(p, rows) ==
    rows \cap ((UNION {job[q].hand : q \in Run \ {p}})
               \cup {c \in Change : c[2] \in (job[p].since + 1)..Watermark})

Sent(rows) == [c \in Change |-> IF c \in rows THEN Min({copies[c] + 1, 2}) ELSE copies[c]]

Load(p) ==
    LET rows == Rows(job[p].since, until(p)) IN
    /\ job[p].at = "claimed"
    /\ copies' = Sent(rows)
    /\ job' = [job EXCEPT ![p].at = "loaded", ![p].hand = rows]
    /\ excused' = excused \cup Overlap(p, rows)
    /\ UNCHANGED <<source, runs, faults, late>>

\* The load job fails, or only its answer is lost.
Refuse(p) ==
    LET rows == Rows(job[p].since, until(p)) IN
    /\ job[p].at = "claimed" /\ faults < MaxFaults /\ clock < MaxTime
    /\ \/ UNCHANGED <<copies, excused>>
       \/ copies' = Sent(rows) /\ excused' = excused \cup rows
    /\ job' = [job EXCEPT ![p].at = "refused"]
    /\ faults' = faults + 1
    /\ UNCHANGED <<source, runs, late>>

\* Faulty variant: a failed window counts as done.
RecordAlwaysDone(p, status) ==
    /\ runs' = [runs EXCEPT ![until(p)] = "success"]
    /\ UNCHANGED <<source, copies, faults, late, excused>>

Record(p, status) ==
    /\ runs' = [runs EXCEPT ![until(p)] = status]
    /\ UNCHANGED <<source, copies, faults, late, excused>>

Commit(p) ==
    /\ job[p].at = "loaded"
    /\ Record(p, "success")
    /\ job' = [job EXCEPT ![p] = NextWindow(p)]

\* A failure is on record too, and ends the run.
CommitFailure(p) ==
    /\ job[p].at = "refused"
    /\ Record(p, "failed")
    /\ job' = [job EXCEPT ![p] = NoJob]

\* The container is killed: nothing of the window in hand is committed, and
\* BigQuery keeps what it took.
Kill(p) ==
    /\ job[p].at # "idle" /\ faults < MaxFaults
    /\ job' = [job EXCEPT ![p] = NoJob]
    /\ excused' = excused \cup job[p].hand
    /\ faults' = faults + 1
    /\ UNCHANGED <<source, runs, copies, late>>

-----------------------------------------------------------------------------
Step(p) ==
    Begin(p) \/ Claim(p) \/ Skip(p) \/ Load(p) \/ Commit(p) \/ CommitFailure(p)

Next ==
    \/ Tick
    \/ \E r \in Row : Write(r) \/ Save(r)
    \/ \E p \in Run : Step(p) \/ Refuse(p) \/ Kill(p) \/ Start(p)

Spec == Init /\ [][Next]_vars

\* The clock goes on, transactions end, a run that has begun goes on unless it is
\* killed, and Cloud Scheduler starts the job again and again.
Fairness ==
    /\ WF_vars(Tick)
    /\ \A r \in Row : WF_vars(Save(r))
    /\ \A p \in Run : WF_vars(Step(p)) /\ WF_vars(Start(p))

FairSpec == Spec /\ Fairness

-----------------------------------------------------------------------------
(* Properties *)

\* What the watermark has passed is in BigQuery: no change falls between two
\* windows, whatever fails, is killed, is capped or runs in parallel.  Only a
\* transaction that was open while its window was read can be missed
\* (bigquery_export.py:7-16, 307; "guaranteeing no gaps" does not consider it).
NothingIsSkipped ==
    \A r \in Row :
        stamp[r] \in 1..Watermark =>
            copies[<<r, stamp[r]>>] > 0 \/ <<r, stamp[r]>> \in late

\* A change is appended twice only for a reason the module's documentation names:
\* BigQuery took it and the commit did not follow, or two runs with different
\* ends were at it at once (bigquery_export.py:44-47, 10-11).
CopiesAreExcused ==
    \A c \in Change : copies[c] = 2 => c \in excused

\* Every change reaches BigQuery in the end, or a newer change of the row has
\* replaced it, although each run of the job is capped and BigQuery refuses some
\* loads: the rows of failed windows on record do not stop the windows after them
\* as long as there are fewer of them than a run may take (export_to_bq.py:43-48).
ChangesArrive ==
    \A r \in Row : \A t \in Time :
        (stamp[r] = t) ~> (stamp[r] # t \/ copies[<<r, t>>] > 0 \/ <<r, t>> \in late)
=============================================================================
