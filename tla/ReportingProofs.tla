-------------------------- MODULE ReportingProofs --------------------------
(***************************************************************************)
(* Theorems about what is derived from the books for others to read:       *)
(* BigQueryExport and SalesFigures.                                        *)
(*                                                                         *)
(* The export, for every table, number of processes, window length and     *)
(* bound.  It keeps no record of single rows, so that no row is skipped    *)
(* has to follow from what a window in hand knows: it starts no later than *)
(* the watermark, which only moves forward, and what was committed in it   *)
(* after it was read has been noted as late.                               *)
(*                                                                         *)
(* The sales figures, for all orders, SKUs, channels, category trees and   *)
(* calendars.  A row of the rollup is the sum of the lines it was built    *)
(* from as long as its day is fresh, and always a part of its day's        *)
(* totals; every screen is a way of dividing rows into groups.             *)
(***************************************************************************)
EXTENDS BigQueryExport, SalesFigures, NumberLemmas, SequenceTheorems, TLAPS

JobType == [at : {"idle", "next", "begun", "claimed", "loaded", "refused"},
            ends : Seq(Time), since : Nat, hand : SUBSET Change]

ExportTypeOK ==
    /\ clock \in Time
    /\ stamp \in [Row -> 0..clock]
    /\ open \in [Row -> 0..clock]
    /\ runs \in [Time -> {"none", "success", "failed"}]
    /\ copies \in [Change -> 0..2]
    /\ job \in [Run -> JobType]
    /\ faults \in Nat
    /\ late \subseteq Change
    /\ excused \subseteq Change

\* The window of a process that is at it: its row of bigquery_export_runs is its own.
Holds(p) == job[p].at \in {"claimed", "loaded", "refused"}

ClaimsExclude ==
    \A p, q \in Run : p # q /\ Holds(p) /\ Holds(q) => until(p) # until(q)

\* What a process knows of the window in hand.
JobInv(p) ==
    /\ job[p].at # "idle" => job[p].ends # <<>>
    /\ job[p].at # "loaded" => job[p].hand = {}
    /\ job[p].since <= Watermark
    /\ Holds(p) => runs[until(p)] = "none"
    /\ job[p].at = "loaded" =>
          /\ \A c \in job[p].hand : c[2] <= until(p)
          /\ \A r \in Row :
                stamp[r] \in (job[p].since + 1)..until(p) =>
                    copies[<<r, stamp[r]>>] > 0 \/ <<r, stamp[r]>> \in late

\* A change in BigQuery is behind the watermark or in a hand, unless it is excused.
SentAreKnown ==
    \A c \in Change :
        copies[c] > 0 =>
            c \in excused \/ c[2] <= Watermark \/ \E p \in Run : c \in job[p].hand

\* The inductive invariant.
ExportInv ==
    /\ ExportTypeOK
    /\ NothingIsSkipped
    /\ CopiesAreExcused
    /\ SentAreKnown
    /\ ClaimsExclude
    /\ \A p \in Run : JobInv(p)

-----------------------------------------------------------------------------
(* Watermarks and windows *)

\* The watermark of a table of runs is a successful window's end, or 0.
LEMMA MarkParts ==
    ASSUME NEW f \in [Time -> {"none", "success", "failed"}]
    PROVE  LET mark == Max({0} \cup {u \in Time : f[u] = "success"}) IN
           /\ mark \in Nat
           /\ mark = 0 \/ (mark \in Time /\ f[mark] = "success")
           /\ \A u \in Time : f[u] = "success" => u <= mark
<1> DEFINE S == {0} \cup {u \in Time : f[u] = "success"}
<1>1. S \in SUBSET Int /\ S # {} /\ \A n \in S : n \in Nat /\ n <= MaxTime
  BY BoundAssumption DEF Time
<1>2. MaxTime \in Int
  BY BoundAssumption
<1>3. Max(S) \in S /\ \A n \in S : Max(S) >= n
  <2> HIDE DEF S
  <2> QED
    BY <1>1, <1>2, MaxOfBounded
<1>4. Max(S) \in Nat /\ \A n \in S : n <= Max(S)
  <2> HIDE DEF S
  <2> QED
    BY <1>1, <1>3
<1> QED
  BY <1>3, <1>4 DEF Time

LEMMA WatermarkParts ==
    ASSUME ExportTypeOK
    PROVE  /\ Watermark \in Nat
           /\ \A u \in Time : runs[u] = "success" => u <= Watermark
<1>1. runs \in [Time -> {"none", "success", "failed"}]
  BY DEF ExportTypeOK
<1> QED
  BY <1>1, MarkParts DEF Watermark

\* It moves forward with every window that succeeds and never back.
LEMMA WatermarkGrows ==
    ASSUME ExportTypeOK, ExportTypeOK',
           \A u \in Time : runs[u] = "success" => runs'[u] = "success"
    PROVE  /\ Watermark \in Nat /\ Watermark' \in Nat /\ Watermark <= Watermark'
           /\ \A u \in Time : runs'[u] = "success" => u <= Watermark'
<1>1. /\ runs \in [Time -> {"none", "success", "failed"}]
      /\ runs' \in [Time -> {"none", "success", "failed"}]
  BY DEF ExportTypeOK
<1>2. /\ Watermark \in Nat
      /\ Watermark = 0 \/ (Watermark \in Time /\ runs[Watermark] = "success")
  BY <1>1, MarkParts DEF Watermark
<1>3. /\ Watermark' \in Nat
      /\ \A u \in Time : runs'[u] = "success" => u <= Watermark'
  BY <1>1, MarkParts DEF Watermark
<1> QED
  BY <1>2, <1>3

\* plan_windows: a run up to t has at least one window, and each of them ends by t.
LEMMA WindowsType ==
    ASSUME NEW t \in Time, NEW s \in Nat
    PROVE  Windows(s, t) \in Seq(Time) /\ Len(Windows(s, t)) >= 1
<1>1. CASE s = 0 \/ s >= t
  BY <1>1 DEF Windows
<1>2. CASE s # 0 /\ s < t
  <2> DEFINE n == (t - s + Window - 1) \div Window
             ends == [k \in 1..n |-> Min({s + k * Window, t})]
  <2>1. t \in Nat /\ s \in Nat /\ s < t /\ Window \in Nat /\ Window >= 1 /\ t \in 1..MaxTime
    BY <1>2, WindowAssumption, BoundAssumption DEF Time
  <2>2. n \in Int /\ n >= 1
    <3>1. t - s + Window - 1 >= Window /\ t - s + Window - 1 \in Nat
      BY <2>1
    <3>2. \A a \in Nat, w \in Nat : w >= 1 /\ a >= w => a \div w \in Int /\ a \div w >= 1
      OBVIOUS
    <3> QED
      BY <2>1, <3>1, <3>2
  <2>3. ASSUME NEW k \in 1..n PROVE Min({s + k * Window, t}) \in Time
    <3>1. s + k * Window \in Int /\ s + k * Window >= 1
      <4>1. k \in Nat /\ k >= 1
        BY <2>2
      <4>2. k * Window \in Nat
        BY <2>1, <4>1
      <4> QED
        BY <1>2, <2>1, <4>2
    <3>2. Min({s + k * Window, t}) = IF s + k * Window <= t THEN s + k * Window ELSE t
      BY <2>1, <3>1, MinMaxOfTwo
    <3> QED
      BY <2>1, <3>1, <3>2, BoundAssumption DEF Time
  <2>4. Windows(s, t) = ends
    BY <1>2, <2>1 DEF Windows
  <2>5. ends \in [1..n -> Time] /\ n \in Nat
    BY <2>2, <2>3
  <2> HIDE DEF n, ends
  <2> QED
    BY <2>2, <2>4, <2>5
<1> QED
  BY <1>1, <1>2 DEF Time

\* The windows a run takes on: at least one, and none ends after its now.
LEMMA PlanType ==
    ASSUME ExportTypeOK, NEW t \in Time
    PROVE  Plan(t) \in Seq(Time) /\ Plan(t) # <<>>
<1> DEFINE s == IF Watermark = 0 THEN Earliest ELSE Watermark
           ends == Windows(s, t)
<1>1. Earliest \in Nat
  <2> DEFINE S == {stamp[r] : r \in Row} \ {0}
  <2>1. S \in SUBSET Nat
    BY DEF ExportTypeOK, Time
  <2>2. S # {} => Min(S) \in S
    <3> HIDE DEF S
    <3> QED
      BY <2>1, MinOfNats
  <2>3. Earliest = IF S = {} THEN 0 ELSE Min(S)
    BY DEF Earliest
  <2> HIDE DEF S
  <2> QED
    BY <2>1, <2>2, <2>3
<1>2. s \in Nat
  BY <1>1, WatermarkParts
<1>3. ends \in Seq(Time) /\ Len(ends) \in Nat /\ Len(ends) >= 1
  <2> HIDE DEF s
  <2> QED
    BY <1>2, WindowsType
<1>4. Plan(t) = SubSeq(ends, 1, Min({MaxWindows, Len(ends)}))
  BY DEF Plan
<1> HIDE DEF ends
<1>5. Min({MaxWindows, Len(ends)}) \in 1..Len(ends)
  BY <1>3, MinMaxOfTwo, WindowAssumption
<1> DEFINE n == Min({MaxWindows, Len(ends)})
<1> HIDE DEF n
<1>6. n \in 1..Len(ends) /\ Plan(t) = SubSeq(ends, 1, n)
  BY <1>4, <1>5 DEF n
<1>7. SubSeq(ends, 1, n) \in Seq(Time) /\ Len(SubSeq(ends, 1, n)) = n
  <2>1. 1 \in 1..Len(ends) + 1
    BY <1>3
  <2>2. /\ SubSeq(ends, 1, n) \in Seq(Time)
        /\ Len(SubSeq(ends, 1, n)) = IF 1 <= n THEN n - 1 + 1 ELSE 0
    BY <1>3, <1>6, <2>1, SubSeqProperties
  <2> QED
    BY <1>6, <2>2
<1> QED
  BY <1>6, <1>7, EmptySeq

\* The record of a process that is done with a window.
LEMMA NextWindowParts ==
    ASSUME NEW p \in Run, job[p] \in JobType, job[p].ends # <<>>
    PROVE  /\ NextWindow(p) \in JobType
           /\ NextWindow(p).at \in {"idle", "next"}
           /\ NextWindow(p).at = "next" => NextWindow(p).ends # <<>>
           /\ NextWindow(p).since = 0 /\ NextWindow(p).hand = {}
<1>1. job[p].ends \in Seq(Time)
  BY DEF JobType
<1>2. /\ Tail(job[p].ends) \in Seq(Time)
      /\ Len(job[p].ends) # 1 => Tail(job[p].ends) # <<>>
  <2>1. /\ Tail(job[p].ends) \in Seq(Time)
        /\ Len(Tail(job[p].ends)) = Len(job[p].ends) - 1
    BY <1>1, HeadTailProperties
  <2>2. Len(job[p].ends) \in Nat
    BY <1>1
  <2>3. Tail(job[p].ends) = <<>> => Len(Tail(job[p].ends)) = 0
    BY <2>1, EmptySeq
  <2> QED
    BY <2>1, <2>2, <2>3
<1>3. NoJob \in JobType
  <2>1. <<>> \in Seq(Time)
    OBVIOUS
  <2> QED
    BY <2>1 DEF NoJob, JobType
<1>4. [NoJob EXCEPT !.at = "next", !.ends = Tail(job[p].ends)]
        \in [at : {"next"}, ends : {Tail(job[p].ends)}, since : {0}, hand : {{}}]
  BY DEF NoJob
<1> QED
  BY <1>2, <1>3, <1>4 DEF NextWindow, NoJob, JobType

\* The end of the window in hand is a time.
LEMMA UntilType ==
    ASSUME ExportInv, NEW p \in Run, job[p].at # "idle"
    PROVE  until(p) \in Time /\ job[p] \in JobType /\ job[p].ends # <<>>
<1>1. job[p] \in JobType /\ job[p].ends # <<>>
  BY DEF ExportInv, ExportTypeOK, JobInv
<1>2. job[p].ends \in Seq(Time)
  BY <1>1 DEF JobType
<1> QED
  BY <1>1, <1>2, HeadTailProperties DEF until

-----------------------------------------------------------------------------
(* Steps *)

\* What a process knows stays true while others send, record and save.
LEMMA KnowledgeStands ==
    ASSUME NEW p \in Run, JobInv(p), ExportTypeOK, Watermark' \in Nat, Watermark \in Nat,
           job'[p] = job[p], stamp' = stamp, Watermark <= Watermark',
           late \subseteq late',
           \A c \in Change : copies[c] > 0 => copies'[c] > 0,
           Holds(p) => runs'[until(p)] = runs[until(p)]
    PROVE  JobInv(p)'
<1>1. job[p] \in JobType /\ job[p].since \in Nat
  BY DEF ExportTypeOK, JobType
<1>2. \A r \in Row : stamp[r] \in Nat /\ (stamp[r] # 0 => <<r, stamp[r]>> \in Change)
  BY BoundAssumption DEF ExportTypeOK, Change, Time
<1>3. until(p)' = until(p) /\ Holds(p)' = Holds(p)
  BY DEF until, Holds
<1>4. job[p].since <= Watermark'
  BY <1>1 DEF JobInv
<1>5. ASSUME job[p].at = "loaded", NEW r \in Row, stamp[r] \in (job[p].since + 1)..until(p)
      PROVE  copies'[<<r, stamp[r]>>] > 0 \/ <<r, stamp[r]>> \in late'
  <2>1. <<r, stamp[r]>> \in Change
    BY <1>1, <1>2, <1>5
  <2> QED
    BY <1>5, <2>1 DEF JobInv
<1> QED
  BY <1>3, <1>4, <1>5 DEF JobInv

\* A step by which one process, with nothing in hand, only changes its own record.
LEMMA RecordStep ==
    ASSUME ExportInv, ExportTypeOK', NEW p \in Run,
           UNCHANGED <<clock, stamp, open, runs, copies, late, excused>>,
           \A q \in Run \ {p} : job'[q] = job[q],
           job[p].hand = {}, job'[p].hand = {},
           JobInv(p)',
           Holds(p)' => \A q \in Run \ {p} : Holds(q) => until(p)' # until(q)
    PROVE  ExportInv'
<1>1. Watermark' = Watermark /\ Watermark \in Nat
  BY WatermarkParts DEF ExportInv, Watermark
<1>2. NothingIsSkipped' /\ CopiesAreExcused'
  BY <1>1 DEF ExportInv, NothingIsSkipped, CopiesAreExcused
<1>3. SentAreKnown'
  <2>1. \A q \in Run : job'[q].hand = job[q].hand
    OBVIOUS
  <2> QED
    BY <1>1, <2>1 DEF ExportInv, SentAreKnown
<1>4. \A q \in Run \ {p} : until(q)' = until(q) /\ Holds(q)' = Holds(q)
  BY DEF until, Holds
<1>5. ClaimsExclude'
  BY <1>4 DEF ExportInv, ClaimsExclude
<1>6. \A q \in Run \ {p} : JobInv(q)'
  BY <1>1, KnowledgeStands DEF ExportInv
<1> QED
  BY <1>2, <1>3, <1>5, <1>6 DEF ExportInv

\* Start: a fresh run knows nothing but its plan.
LEMMA StartStep ==
    ASSUME ExportInv, NEW p \in Run, Start(p)
    PROVE  ExportInv'
<1> DEFINE new == [NoJob EXCEPT !.at = "next", !.ends = Plan(clock)]
<1>1. ExportTypeOK /\ JobInv(p) /\ job[p].at = "idle"
  BY DEF ExportInv, Start
<1>2. Plan(clock) \in Seq(Time) /\ Plan(clock) # <<>>
  BY <1>1, PlanType DEF ExportTypeOK
<1>3. new \in [at : {"next"}, ends : {Plan(clock)}, since : {0}, hand : {{}}]
  BY DEF NoJob
<1>4. new \in JobType
  BY <1>2, <1>3 DEF JobType
<1>5. /\ job'[p] = new /\ \A q \in Run \ {p} : job'[q] = job[q]
      /\ job' \in [Run -> JobType]
      /\ UNCHANGED <<clock, stamp, open, runs, copies, faults, late, excused>>
  BY <1>1, <1>4 DEF Start, ExportTypeOK, source
<1>6. ExportTypeOK'
  BY <1>1, <1>5 DEF ExportTypeOK
<1>7. /\ job'[p].at = "next" /\ job'[p].ends # <<>>
      /\ job'[p].since = 0 /\ job'[p].hand = {}
  BY <1>2, <1>3, <1>5
<1> HIDE DEF new
<1>8. Watermark' \in Nat
  BY <1>1, <1>5, WatermarkParts DEF Watermark
<1>9. JobInv(p)' /\ ~Holds(p)' /\ job[p].hand = {}
  BY <1>1, <1>7, <1>8 DEF JobInv, Holds
<1> QED
  BY <1>5, <1>6, <1>7, <1>9, RecordStep

\* Begin and Claim: the watermark a window starts from is not ahead of the watermark,
\* and the row it inserts is its own.
LEMMA ClaimStep ==
    ASSUME ExportInv, NEW p \in Run, Begin(p) \/ Claim(p)
    PROVE  ExportInv'
<1>1. /\ ExportTypeOK /\ JobInv(p) /\ job[p].at \in {"next", "begun"}
      /\ UNCHANGED <<clock, stamp, open, runs, copies, faults, late, excused>>
  BY DEF ExportInv, Begin, Claim, source
<1>2. job[p] \in JobType /\ Watermark \in Nat /\ Watermark' = Watermark
  BY <1>1, WatermarkParts DEF ExportTypeOK, Watermark
<1>3. CASE Begin(p)
  <2>1. /\ job' = [job EXCEPT ![p].at = "begun", ![p].since = Watermark]
    BY <1>3 DEF Begin
  <2>2. /\ job'[p] \in JobType /\ job'[p].at = "begun" /\ job'[p].since = Watermark
        /\ job'[p].hand = job[p].hand /\ job'[p].ends = job[p].ends
        /\ \A q \in Run \ {p} : job'[q] = job[q]
    BY <1>1, <1>2, <2>1 DEF ExportTypeOK, JobType
  <2>3. job' \in [Run -> JobType]
    BY <1>1, <2>1, <2>2 DEF ExportTypeOK
  <2>4. ExportTypeOK'
    BY <1>1, <2>3 DEF ExportTypeOK
  <2>5. JobInv(p)' /\ ~Holds(p)'
    BY <1>1, <1>2, <2>2 DEF JobInv, Holds
  <2>6. job[p].hand = {}
    BY <1>1 DEF JobInv
  <2> QED
    BY <1>1, <2>2, <2>4, <2>5, <2>6, RecordStep
<1>4. CASE Claim(p)
  <2>1. /\ job' = [job EXCEPT ![p].at = "claimed"] /\ ~Claimed(p) /\ ~Recorded(p)
        /\ job[p].at = "begun"
    BY <1>4 DEF Claim
  <2>2. /\ job'[p] \in JobType /\ job'[p].at = "claimed" /\ job'[p].since = job[p].since
        /\ job'[p].hand = job[p].hand /\ job'[p].ends = job[p].ends
        /\ \A q \in Run \ {p} : job'[q] = job[q]
    BY <1>1, <1>2, <2>1 DEF ExportTypeOK, JobType
  <2>3. job' \in [Run -> JobType]
    BY <1>1, <2>1, <2>2 DEF ExportTypeOK
  <2>4. ExportTypeOK'
    BY <1>1, <2>3 DEF ExportTypeOK
  <2>5. until(p)' = until(p)
    BY <2>2 DEF until
  <2>6. JobInv(p)'
    BY <1>1, <1>2, <2>1, <2>2, <2>5 DEF JobInv, Holds, Recorded
  <2>7. \A q \in Run \ {p} : Holds(q) => until(p)' # until(q)
    BY <2>1, <2>5 DEF Claimed, Holds
  <2>8. job[p].hand = {}
    BY <1>1 DEF JobInv
  <2> QED
    BY <1>1, <2>2, <2>4, <2>6, <2>7, <2>8, RecordStep
<1> QED
  BY <1>3, <1>4

\* Skip: a window on record is passed over.
LEMMA SkipStep ==
    ASSUME ExportInv, NEW p \in Run, Skip(p)
    PROVE  ExportInv'
<1>1. /\ ExportTypeOK /\ JobInv(p) /\ job[p].at = "begun"
      /\ job' = [job EXCEPT ![p] = NextWindow(p)]
      /\ UNCHANGED <<clock, stamp, open, runs, copies, faults, late, excused>>
  BY DEF ExportInv, Skip, source
<1>2. /\ NextWindow(p) \in JobType
      /\ NextWindow(p).at \in {"idle", "next"}
      /\ NextWindow(p).at = "next" => NextWindow(p).ends # <<>>
      /\ NextWindow(p).since = 0 /\ NextWindow(p).hand = {}
  BY <1>1, UntilType, NextWindowParts
<1>3. job'[p] = NextWindow(p) /\ \A q \in Run \ {p} : job'[q] = job[q]
  BY <1>1 DEF ExportTypeOK
<1>4. ExportTypeOK'
  BY <1>1, <1>2 DEF ExportTypeOK
<1>5. Watermark' \in Nat
  BY <1>1, WatermarkParts DEF Watermark
<1>6. JobInv(p)' /\ ~Holds(p)' /\ job[p].hand = {}
  BY <1>1, <1>2, <1>3, <1>5 DEF JobInv, Holds
<1> QED
  BY <1>1, <1>2, <1>3, <1>4, <1>6, RecordStep

\* The source goes on: a change saved behind the watermark or into a window already
\* read is late.
LEMMA SourceStep ==
    ASSUME ExportInv, Tick \/ \E r \in Row : Write(r) \/ Save(r)
    PROVE  ExportInv'
<1>1. ExportTypeOK /\ UNCHANGED <<runs, copies, job, faults, excused>>
  BY DEF ExportInv, Tick, Write, Save
<1>2. Watermark' = Watermark /\ Watermark \in Nat
  BY <1>1, WatermarkParts DEF Watermark
<1>3. /\ ExportTypeOK' /\ late \subseteq late'
      /\ \A r \in Row : stamp'[r] # stamp[r] =>
             /\ stamp'[r] = open[r] /\ stamp'[r] \in Time
             /\ ReadBefore(r) => <<r, stamp'[r]>> \in late'
  <2>1. ASSUME Tick PROVE ExportTypeOK' /\ late' = late /\ stamp' = stamp
    <3>1. /\ clock' = clock + 1 /\ clock < MaxTime /\ clock \in 1..MaxTime /\ MaxTime \in Nat
          /\ UNCHANGED <<stamp, open, late>>
      BY <1>1, <2>1, BoundAssumption DEF Tick, ExportTypeOK, Time
    <3>2. clock' \in Time /\ \A n \in 0..clock : n \in 0..clock'
      BY <3>1 DEF Time
    <3>3. stamp' \in [Row -> 0..clock'] /\ open' \in [Row -> 0..clock']
      BY <1>1, <3>1, <3>2 DEF ExportTypeOK
    <3> QED
      BY <1>1, <3>1, <3>2, <3>3 DEF ExportTypeOK
  <2>2. ASSUME NEW r \in Row, Write(r)
        PROVE  /\ ExportTypeOK' /\ late \subseteq late' /\ stamp' = stamp
    <3>1. clock \in 0..clock
      BY <1>1, BoundAssumption DEF ExportTypeOK, Time
    <3> QED
      BY <1>1, <2>2, <3>1 DEF Write, ExportTypeOK
  <2>3. ASSUME NEW r \in Row, Save(r)
        PROVE  /\ ExportTypeOK' /\ late \subseteq late'
               /\ stamp'[r] = open[r] /\ stamp'[r] \in Time
               /\ \A s \in Row \ {r} : stamp'[s] = stamp[s]
               /\ ReadBefore(r) => <<r, stamp'[r]>> \in late'
    <3>1. /\ clock' = clock /\ open[r] \in Time /\ open[r] \in 0..clock /\ 0 \in 0..clock
      BY <1>1, <2>3, BoundAssumption DEF Save, ExportTypeOK, Time
    <3>2. stamp' = [stamp EXCEPT ![r] = open[r]] /\ open' = [open EXCEPT ![r] = 0]
      BY <2>3 DEF Save
    <3>3. late' = IF ReadBefore(r) THEN late \cup {<<r, open[r]>>} ELSE late
      BY <2>3 DEF Save
    <3>4. late' \subseteq Change
      BY <1>1, <3>1, <3>3 DEF ExportTypeOK, Change
    <3> QED
      BY <1>1, <3>1, <3>2, <3>3, <3>4 DEF ExportTypeOK
  <2> QED
    BY <2>1, <2>2, <2>3
<1>4. \A r \in Row : ReadBefore(r) <=>
         \/ open[r] <= Watermark
         \/ \E p \in Run : job[p].at = "loaded" /\ open[r] <= until(p)
  BY DEF ReadBefore
<1>5. NothingIsSkipped'
  <2>1. ASSUME NEW r \in Row, stamp'[r] \in 1..Watermark
        PROVE  copies'[<<r, stamp'[r]>>] > 0 \/ <<r, stamp'[r]>> \in late'
    <3>1. CASE stamp'[r] = stamp[r]
      BY <1>1, <1>2, <1>3, <2>1, <3>1 DEF ExportInv, NothingIsSkipped
    <3>2. CASE stamp'[r] # stamp[r]
      BY <1>2, <1>3, <1>4, <2>1, <3>2
    <3> QED
      BY <3>1, <3>2
  <2> QED
    BY <1>2, <2>1 DEF NothingIsSkipped
<1>6. ASSUME NEW p \in Run PROVE JobInv(p)'
  <2>1. JobInv(p) /\ until(p)' = until(p) /\ Holds(p)' = Holds(p) /\ job' = job
    BY <1>1 DEF ExportInv, until, Holds
  <2>2. ASSUME job[p].at = "loaded", NEW r \in Row, stamp'[r] \in (job[p].since + 1)..until(p)
        PROVE  copies'[<<r, stamp'[r]>>] > 0 \/ <<r, stamp'[r]>> \in late'
    <3>1. CASE stamp'[r] = stamp[r]
      BY <1>1, <1>3, <2>1, <2>2, <3>1 DEF JobInv
    <3>2. CASE stamp'[r] # stamp[r]
      <4>1. until(p) \in Time /\ job[p].since \in Nat
        BY <1>1, <2>2, UntilType DEF JobType
      <4>2. stamp'[r] <= until(p)
        BY <1>3, <2>2, <3>2, <4>1 DEF Time
      <4> QED
        BY <1>3, <1>4, <2>2, <3>2, <4>2
    <3> QED
      BY <3>1, <3>2
  <2> QED
    BY <1>1, <1>2, <2>1, <2>2 DEF JobInv
<1>7. CopiesAreExcused' /\ SentAreKnown' /\ ClaimsExclude'
  BY <1>1, <1>2 DEF ExportInv, CopiesAreExcused, SentAreKnown, ClaimsExclude, until, Holds
<1> QED
  BY <1>3, <1>5, <1>6, <1>7 DEF ExportInv

\* What BigQuery takes it keeps, counted up to two.
LEMMA SentParts ==
    ASSUME ExportTypeOK, NEW rows \in SUBSET Change
    PROVE  /\ Sent(rows) \in [Change -> 0..2]
           /\ \A c \in Change : copies[c] > 0 => Sent(rows)[c] > 0
           /\ \A c \in rows : Sent(rows)[c] > 0
           /\ \A c \in Change \ rows : Sent(rows)[c] = copies[c]
           /\ \A c \in rows : Sent(rows)[c] = 2 => copies[c] > 0
<1>1. ASSUME NEW n \in 0..2 PROVE Min({n + 1, 2}) = IF n = 2 THEN 2 ELSE n + 1
  BY MinMaxOfTwo
<1>2. \A c \in Change : copies[c] \in 0..2
  BY DEF ExportTypeOK
<1>3. \A c \in Change : Sent(rows)[c] =
         IF c \in rows THEN (IF copies[c] = 2 THEN 2 ELSE copies[c] + 1) ELSE copies[c]
  BY <1>1, <1>2 DEF Sent
<1>4. Sent(rows) = [c \in Change |-> Sent(rows)[c]]
  BY DEF Sent
<1>5. \A c \in Change : Sent(rows)[c] \in 0..2
  BY <1>2, <1>3
<1> QED
  BY <1>2, <1>3, <1>4, <1>5

\* The changes of a window are changes with a stamp in it.
LEMMA RowsParts ==
    ASSUME ExportTypeOK, NEW s \in Nat, NEW t \in Time
    PROVE  /\ Rows(s, t) \subseteq Change
           /\ \A c \in Rows(s, t) : c[2] > s /\ c[2] <= t
           /\ \A r \in Row : stamp[r] \in (s + 1)..t => <<r, stamp[r]>> \in Rows(s, t)
<1>1. \A r \in Row : stamp[r] \in 0..clock /\ clock \in 1..MaxTime
  BY DEF ExportTypeOK, Time
<1>2. \A r \in Row : stamp[r] > s => stamp[r] \in Time
  BY <1>1, BoundAssumption DEF Time
<1>3. \A r \in Row : stamp[r] \in (s + 1)..t => stamp[r] > s /\ stamp[r] <= t
  BY <1>1 DEF Time
<1> QED
  BY <1>2, <1>3 DEF Rows, Change

\* Load: the window is sent whole, and what was in BigQuery before is excused.
LEMMA LoadStep ==
    ASSUME ExportInv, NEW p \in Run, Load(p)
    PROVE  ExportInv'
<1> DEFINE rows == Rows(job[p].since, until(p))
<1>1. /\ ExportTypeOK /\ JobInv(p) /\ job[p].at = "claimed"
      /\ copies' = Sent(rows)
      /\ job' = [job EXCEPT ![p].at = "loaded", ![p].hand = rows]
      /\ excused' = excused \cup Overlap(p, rows)
      /\ UNCHANGED <<clock, stamp, open, runs, faults, late>>
  BY DEF ExportInv, Load, source
<1>2. until(p) \in Time /\ job[p] \in JobType /\ job[p].since \in Nat
  BY <1>1, UntilType DEF JobType
<1>3. Watermark \in Nat /\ Watermark' = Watermark
  BY <1>1, WatermarkParts DEF Watermark
<1>4. /\ rows \subseteq Change
      /\ \A c \in rows : c[2] > job[p].since /\ c[2] <= until(p)
      /\ \A r \in Row : stamp[r] \in (job[p].since + 1)..until(p) => <<r, stamp[r]>> \in rows
  BY <1>1, <1>2, RowsParts
<1> HIDE DEF rows
<1>5. /\ copies' \in [Change -> 0..2]
      /\ \A c \in Change : copies[c] > 0 => copies'[c] > 0
      /\ \A c \in rows : copies'[c] > 0
      /\ \A c \in Change \ rows : copies'[c] = copies[c]
      /\ \A c \in rows : copies'[c] = 2 => copies[c] > 0
  BY <1>1, <1>4, SentParts
<1>6. /\ job'[p] \in JobType /\ job'[p].at = "loaded" /\ job'[p].hand = rows
      /\ job'[p].ends = job[p].ends /\ job'[p].since = job[p].since
      /\ \A q \in Run \ {p} : job'[q] = job[q]
      /\ job' \in [Run -> JobType]
  <2>1. /\ job'[p] = [job[p] EXCEPT !.at = "loaded", !.hand = rows]
        /\ \A q \in Run \ {p} : job'[q] = job[q]
    BY <1>1 DEF ExportTypeOK
  <2>2. /\ job'[p] \in JobType /\ job'[p].at = "loaded" /\ job'[p].hand = rows
        /\ job'[p].ends = job[p].ends /\ job'[p].since = job[p].since
    BY <1>2, <1>4, <2>1 DEF JobType
  <2>3. job' \in [Run -> JobType]
    BY <1>1, <2>2 DEF ExportTypeOK
  <2> QED
    BY <2>1, <2>2, <2>3
<1>7. ExportTypeOK'
  BY <1>1, <1>4, <1>5, <1>6 DEF ExportTypeOK, Overlap
<1>8. ASSUME NEW c \in rows, copies[c] > 0 PROVE c \in excused'
  <2>1. c \in Change /\ c[2] \in Time
    BY <1>4 DEF Change
  <2>2. CASE c \in excused
    BY <1>1, <2>2
  <2>3. CASE c[2] <= Watermark
    <3>1. c[2] \in (job[p].since + 1)..Watermark
      BY <1>2, <1>3, <1>4, <2>1, <2>3 DEF Time
    <3> QED
      BY <1>1, <2>1, <3>1 DEF Overlap
  <2>4. ASSUME NEW q \in Run, c \in job[q].hand PROVE c \in excused'
    <3>1. q # p
      BY <1>1, <2>4 DEF JobInv
    <3> QED
      BY <1>1, <2>4, <3>1 DEF Overlap
  <2> QED
    BY <1>8, <2>1, <2>2, <2>3, <2>4 DEF ExportInv, SentAreKnown
<1>9. CopiesAreExcused' /\ SentAreKnown'
  <2>1. ASSUME NEW c \in Change, copies'[c] = 2 PROVE c \in excused'
    BY <1>1, <1>5, <1>8, <2>1 DEF ExportInv, CopiesAreExcused
  <2>2. ASSUME NEW c \in Change, copies'[c] > 0
        PROVE  c \in excused' \/ c[2] <= Watermark' \/ \E q \in Run : c \in job'[q].hand
    <3>1. CASE c \in rows
      BY <1>6, <3>1
    <3>2. CASE c \notin rows
      <4>1. c \in excused \/ c[2] <= Watermark \/ \E q \in Run : c \in job[q].hand
        BY <1>5, <2>2, <3>2 DEF ExportInv, SentAreKnown
      <4>2. \A q \in Run : c \in job[q].hand => q # p
        BY <1>1 DEF JobInv
      <4> QED
        BY <1>1, <1>3, <1>6, <4>1, <4>2
    <3> QED
      BY <3>1, <3>2
  <2> QED
    BY <2>1, <2>2 DEF CopiesAreExcused, SentAreKnown
<1>10. NothingIsSkipped'
  <2>1. ASSUME NEW r \in Row, stamp[r] \in 1..Watermark
        PROVE  copies'[<<r, stamp[r]>>] > 0 \/ <<r, stamp[r]>> \in late
    <3>1. <<r, stamp[r]>> \in Change
      BY <1>1, <1>3, <2>1, BoundAssumption DEF ExportTypeOK, Change, Time
    <3> QED
      BY <1>5, <2>1, <3>1 DEF ExportInv, NothingIsSkipped
  <2> QED
    BY <1>1, <1>3, <2>1 DEF NothingIsSkipped
<1>11. until(p)' = until(p) /\ \A q \in Run \ {p} : until(q)' = until(q) /\ Holds(q)' = Holds(q)
  BY <1>6 DEF until, Holds
<1>12. ClaimsExclude'
  BY <1>1, <1>6, <1>11 DEF ExportInv, ClaimsExclude, Holds
<1>13. JobInv(p)'
  BY <1>1, <1>3, <1>4, <1>5, <1>6, <1>11 DEF JobInv, Holds
<1>14. \A q \in Run \ {p} : JobInv(q)'
  BY <1>1, <1>3, <1>5, <1>6, KnowledgeStands DEF ExportInv
<1> QED
  BY <1>7, <1>9, <1>10, <1>12, <1>13, <1>14 DEF ExportInv

\* A refused load and a killed container record nothing; whatever BigQuery took of the
\* window is excused.
LEMMA FaultStep ==
    ASSUME ExportInv, NEW p \in Run, Refuse(p) \/ Kill(p)
    PROVE  ExportInv'
<1> DEFINE rows == Rows(job[p].since, until(p))
<1>1. /\ ExportTypeOK /\ JobInv(p) /\ job[p].at # "idle"
      /\ faults' = faults + 1
      /\ UNCHANGED <<clock, stamp, open, runs, late>>
  BY DEF ExportInv, Refuse, Kill, source
<1>2. until(p) \in Time /\ job[p] \in JobType /\ job[p].since \in Nat
  BY <1>1, UntilType DEF JobType
<1>3. Watermark \in Nat /\ Watermark' = Watermark
  BY <1>1, WatermarkParts DEF Watermark
<1>4. rows \subseteq Change
  BY <1>1, <1>2, RowsParts
<1> HIDE DEF rows
<1>5. /\ copies' \in [Change -> 0..2] /\ excused' \subseteq Change
      /\ excused \subseteq excused' /\ job[p].hand \subseteq excused'
      /\ \A c \in Change : copies[c] > 0 => copies'[c] > 0
      /\ \A c \in Change : copies'[c] # copies[c] => c \in excused'
  <2>1. CASE Refuse(p)
    <3>1. /\ job[p].hand = {}
          /\ \/ UNCHANGED <<copies, excused>>
             \/ copies' = Sent(rows) /\ excused' = excused \cup rows
      BY <1>1, <2>1 DEF Refuse, JobInv, rows
    <3> QED
      BY <1>1, <1>4, <3>1, SentParts DEF ExportTypeOK
  <2>2. CASE Kill(p)
    BY <1>1, <1>2, <2>2 DEF Kill, ExportTypeOK, JobType
  <2> QED
    BY <2>1, <2>2
<1>6. /\ job'[p] \in JobType /\ job'[p].at \in {"idle", "refused"}
      /\ Refuse(p) => job'[p].at = "refused" /\ job'[p].ends = job[p].ends
      /\ Kill(p) => job'[p].at = "idle"
      /\ job'[p].hand = {} /\ job'[p].since <= Watermark
      /\ \A q \in Run \ {p} : job'[q] = job[q]
      /\ job' \in [Run -> JobType]
  <2>1. CASE Refuse(p)
    <3>1. /\ job' = [job EXCEPT ![p].at = "refused"] /\ job[p].at = "claimed"
      BY <2>1 DEF Refuse
    <3>2. /\ job'[p] \in JobType /\ job'[p].at = "refused" /\ job'[p].hand = job[p].hand
          /\ job'[p].ends = job[p].ends /\ job'[p].since = job[p].since
          /\ \A q \in Run \ {p} : job'[q] = job[q]
      BY <1>1, <1>2, <3>1 DEF ExportTypeOK, JobType
    <3>3. job' \in [Run -> JobType]
      BY <1>1, <3>1, <3>2 DEF ExportTypeOK
    <3>4. ~Kill(p)
      <4>1. Kill(p) => job'[p] = NoJob
        BY <1>1 DEF Kill, ExportTypeOK
      <4>2. NoJob.at = "idle"
        BY DEF NoJob
      <4> QED
        BY <3>2, <4>1, <4>2
    <3> QED
      BY <1>1, <3>1, <3>2, <3>3, <3>4 DEF JobInv
  <2>2. CASE Kill(p)
    <3>1. NoJob \in JobType
      <4>1. <<>> \in Seq(Time)
        OBVIOUS
      <4> QED
        BY <4>1 DEF NoJob, JobType
    <3>2. /\ job'[p] = NoJob /\ \A q \in Run \ {p} : job'[q] = job[q]
          /\ job' \in [Run -> JobType]
      BY <1>1, <2>2, <3>1 DEF Kill, ExportTypeOK
    <3> QED
      BY <1>3, <3>1, <3>2 DEF NoJob, Refuse
  <2> QED
    BY <2>1, <2>2
<1>7. ExportTypeOK'
  BY <1>1, <1>5, <1>6 DEF ExportTypeOK
<1>8. CopiesAreExcused' /\ SentAreKnown'
  <2>1. ASSUME NEW c \in Change, copies'[c] = 2 PROVE c \in excused'
    BY <1>5, <2>1 DEF ExportInv, CopiesAreExcused
  <2>2. ASSUME NEW c \in Change, copies'[c] > 0, c \notin excused'
        PROVE  c[2] <= Watermark' \/ \E q \in Run : c \in job'[q].hand
    <3>1. copies[c] > 0 /\ c \notin excused /\ c \notin job[p].hand
      BY <1>5, <2>2
    <3> QED
      BY <1>3, <1>6, <3>1 DEF ExportInv, SentAreKnown
  <2> QED
    BY <2>1, <2>2 DEF CopiesAreExcused, SentAreKnown
<1>9. NothingIsSkipped'
  <2>1. ASSUME NEW r \in Row, stamp[r] \in 1..Watermark
        PROVE  copies'[<<r, stamp[r]>>] > 0 \/ <<r, stamp[r]>> \in late
    <3>1. <<r, stamp[r]>> \in Change
      BY <1>1, <1>3, <2>1, BoundAssumption DEF ExportTypeOK, Change, Time
    <3> QED
      BY <1>5, <2>1, <3>1 DEF ExportInv, NothingIsSkipped
  <2> QED
    BY <1>1, <1>3, <2>1 DEF NothingIsSkipped
<1>10. Refuse(p) => until(p)' = until(p) /\ Holds(p)
  BY <1>6 DEF until, Holds, Refuse
<1>11. \A q \in Run \ {p} : until(q)' = until(q) /\ Holds(q)' = Holds(q)
  BY <1>6 DEF until, Holds
<1>12. ClaimsExclude'
  <2>1. Holds(p)' => Refuse(p)
    BY <1>6 DEF Holds
  <2> QED
    BY <1>10, <1>11, <2>1 DEF ExportInv, ClaimsExclude
<1>13. JobInv(p)'
  BY <1>1, <1>3, <1>6, <1>10 DEF JobInv, Holds
<1>14. \A q \in Run \ {p} : JobInv(q)'
  BY <1>1, <1>3, <1>5, <1>6, KnowledgeStands DEF ExportInv
<1> QED
  BY <1>7, <1>8, <1>9, <1>12, <1>13, <1>14 DEF ExportInv

\* Commit and CommitFailure: the watermark passes exactly what the window in hand has
\* sent or noted as late.
LEMMA CommitStep ==
    ASSUME ExportInv, NEW p \in Run, Commit(p) \/ CommitFailure(p)
    PROVE  ExportInv'
<1> DEFINE result == IF job[p].at = "loaded" THEN "success" ELSE "failed"
<1>1. /\ ExportTypeOK /\ JobInv(p) /\ job[p].at \in {"loaded", "refused"} /\ Holds(p)
      /\ runs' = [runs EXCEPT ![until(p)] = result]
      /\ UNCHANGED <<clock, stamp, open, copies, faults, late, excused>>
  BY DEF ExportInv, Commit, CommitFailure, Record, source, Holds
<1>2. until(p) \in Time /\ job[p] \in JobType /\ job[p].since \in Nat /\ job[p].ends # <<>>
  BY <1>1, UntilType DEF JobType
<1>3. /\ job'[p] \in JobType /\ job'[p].at \in {"idle", "next"}
      /\ job'[p].at = "next" => job'[p].ends # <<>>
      /\ job'[p].since = 0 /\ job'[p].hand = {}
      /\ \A q \in Run \ {p} : job'[q] = job[q]
      /\ job' \in [Run -> JobType]
  <2>1. CASE Commit(p)
    BY <1>1, <1>2, <2>1, NextWindowParts DEF Commit, ExportTypeOK
  <2>2. CASE CommitFailure(p)
    <3>1. NoJob \in JobType
      <4>1. <<>> \in Seq(Time)
        OBVIOUS
      <4> QED
        BY <4>1 DEF NoJob, JobType
    <3>2. /\ job'[p] = NoJob /\ \A q \in Run \ {p} : job'[q] = job[q]
          /\ job' \in [Run -> JobType]
      BY <1>1, <2>2, <3>1 DEF CommitFailure, ExportTypeOK
    <3> QED
      BY <3>1, <3>2 DEF NoJob
  <2> QED
    BY <2>1, <2>2
<1>4. /\ runs[until(p)] = "none" /\ runs'[until(p)] = result
      /\ \A u \in Time \ {until(p)} : runs'[u] = runs[u]
  BY <1>1, <1>2 DEF JobInv, ExportTypeOK
<1>5. ExportTypeOK'
  <2>1. runs' \in [Time -> {"none", "success", "failed"}]
    BY <1>1, <1>2 DEF ExportTypeOK
  <2> QED
    BY <1>1, <1>3, <2>1 DEF ExportTypeOK
<1>6. /\ Watermark \in Nat /\ Watermark' \in Nat /\ Watermark <= Watermark'
      /\ \A u \in Time : runs'[u] = "success" => u <= Watermark'
  BY <1>1, <1>4, <1>5, WatermarkGrows
<1>7. \A u \in Time : runs'[u] = "success" =>
         u <= Watermark \/ (u = until(p) /\ job[p].at = "loaded")
  BY <1>1, <1>4, WatermarkParts
<1>8. Watermark' = 0 \/ (Watermark' \in Time /\ runs'[Watermark'] = "success")
  BY <1>5, MarkParts DEF ExportTypeOK, Watermark
<1>9. NothingIsSkipped'
  <2>1. ASSUME NEW r \in Row, stamp[r] \in 1..Watermark'
        PROVE  copies[<<r, stamp[r]>>] > 0 \/ <<r, stamp[r]>> \in late
    <3>1. stamp[r] \in Nat
      BY <1>1, BoundAssumption DEF ExportTypeOK, Time
    <3>2. CASE stamp[r] <= Watermark
      BY <1>1, <1>6, <2>1, <3>2 DEF ExportInv, NothingIsSkipped
    <3>3. CASE ~(stamp[r] <= Watermark)
      <4>1. ~(Watermark' <= Watermark)
        BY <1>6, <2>1, <3>1, <3>3
      <4>2. Watermark' = until(p) /\ job[p].at = "loaded"
        BY <1>6, <1>7, <1>8, <4>1
      <4>3. stamp[r] \in (job[p].since + 1)..until(p)
        BY <1>1, <1>2, <1>6, <2>1, <3>1, <3>3, <4>2 DEF JobInv, Time
      <4> QED
        BY <1>1, <4>2, <4>3 DEF JobInv
    <3> QED
      BY <3>2, <3>3
  <2> QED
    BY <1>1, <2>1 DEF NothingIsSkipped
<1>10. CopiesAreExcused'
  BY <1>1 DEF ExportInv, CopiesAreExcused
<1>11. SentAreKnown'
  <2>1. ASSUME NEW c \in Change, copies[c] > 0, c \notin excused
        PROVE  c[2] <= Watermark' \/ \E q \in Run : c \in job'[q].hand
    <3>1. c[2] \in Nat
      BY BoundAssumption DEF Change, Time
    <3>2. c[2] <= Watermark \/ \E q \in Run : c \in job[q].hand
      BY <2>1 DEF ExportInv, SentAreKnown
    <3>3. CASE c[2] <= Watermark
      BY <1>6, <3>1, <3>3
    <3>4. ASSUME NEW q \in Run, q # p, c \in job[q].hand
          PROVE  \E x \in Run : c \in job'[x].hand
      BY <1>3, <3>4
    <3>5. CASE c \in job[p].hand
      <4>1. job[p].at = "loaded" /\ c[2] <= until(p)
        BY <1>1, <3>5 DEF JobInv
      <4>2. until(p) <= Watermark'
        BY <1>2, <1>4, <1>6, <4>1
      <4> QED
        BY <1>2, <1>6, <3>1, <4>1, <4>2 DEF Time
    <3> QED
      BY <3>2, <3>3, <3>4, <3>5
  <2> QED
    BY <1>1, <2>1 DEF SentAreKnown
<1>12. \A q \in Run \ {p} : until(q)' = until(q) /\ Holds(q)' = Holds(q)
  BY <1>3 DEF until, Holds
<1>13. ~Holds(p)' /\ JobInv(p)'
  BY <1>3, <1>6 DEF Holds, JobInv
<1>14. ClaimsExclude'
  BY <1>12, <1>13 DEF ExportInv, ClaimsExclude
<1>15. ASSUME NEW q \in Run \ {p} PROVE JobInv(q)'
  <2>1. Holds(q) => until(q) # until(p) /\ until(q) \in Time
    BY <1>1, UntilType DEF ExportInv, ClaimsExclude, Holds
  <2>2. Holds(q) => runs'[until(q)] = runs[until(q)]
    BY <1>4, <2>1
  <2> QED
    BY <1>1, <1>3, <1>6, <2>2, KnowledgeStands DEF ExportInv
<1> QED
  BY <1>5, <1>9, <1>10, <1>11, <1>13, <1>14, <1>15 DEF ExportInv

-----------------------------------------------------------------------------
(* The invariant and what follows from it *)

LEMMA ExportInit == ASSUME Init PROVE ExportInv
<1>1. 1 \in Time /\ 0 \in 0..1
  BY BoundAssumption DEF Time
<1>2. NoJob \in JobType
  <2>1. <<>> \in Seq(Time)
    OBVIOUS
  <2> QED
    BY <2>1 DEF NoJob, JobType
<1>3. ExportTypeOK
  BY <1>1, <1>2 DEF Init, ExportTypeOK
<1>4. Watermark \in Nat
  BY <1>3, WatermarkParts
<1>5. \A p \in Run : job[p] = NoJob /\ NoJob.at = "idle" /\ NoJob.hand = {} /\ NoJob.since = 0
  BY DEF Init, NoJob
<1>6. \A p \in Run : JobInv(p) /\ ~Holds(p)
  BY <1>4, <1>5 DEF JobInv, Holds
<1> QED
  BY <1>3, <1>6 DEF Init, ExportInv, NothingIsSkipped, CopiesAreExcused, SentAreKnown,
                    ClaimsExclude

LEMMA ExportStep == ASSUME ExportInv, [Next]_vars PROVE ExportInv'
<1>1. CASE Tick \/ \E r \in Row : Write(r) \/ Save(r)
  BY <1>1, SourceStep
<1>2. ASSUME NEW p \in Run, Step(p) \/ Refuse(p) \/ Kill(p) \/ Start(p) PROVE ExportInv'
  BY <1>2, StartStep, ClaimStep, SkipStep, LoadStep, CommitStep, FaultStep DEF Step
<1>3. CASE UNCHANGED vars
  <2>1. UNCHANGED <<clock, stamp, open, runs, copies, job, faults, late, excused>>
    BY <1>3 DEF vars, source
  <2>2. ExportTypeOK' /\ Watermark' = Watermark
    BY <2>1 DEF ExportInv, ExportTypeOK, Watermark
  <2>3. /\ NothingIsSkipped' /\ CopiesAreExcused' /\ SentAreKnown' /\ ClaimsExclude'
        /\ \A p \in Run : JobInv(p)'
    BY <2>1, <2>2 DEF ExportInv, NothingIsSkipped, CopiesAreExcused, SentAreKnown,
                      ClaimsExclude, JobInv, Holds, until
  <2> QED
    BY <2>2, <2>3 DEF ExportInv
<1> QED
  BY <1>1, <1>2, <1>3 DEF Next

\* In every reachable state, with any number of runs of the job at once, the records of
\* the export are typed, claims exclude each other and every window in hand starts at or
\* behind the watermark.
THEOREM ExportCorrect == Spec => []ExportInv
<1>1. Init => ExportInv
  BY ExportInit
<1>2. ExportInv /\ [Next]_vars => ExportInv'
  BY ExportStep
<1> QED
  BY <1>1, <1>2, PTL DEF Spec

\* run_incremental: a change the watermark has passed is in BigQuery, unless its
\* transaction was open while its window was read.
THEOREM NoChangeIsSkipped == Spec => []NothingIsSkipped
<1>1. ExportInv => NothingIsSkipped
  BY DEF ExportInv
<1> QED
  BY <1>1, ExportCorrect, PTL

\* A change is in BigQuery twice only if BigQuery took it and the commit did not follow,
\* or if windows of two runs overlapped.
THEOREM DuplicatesAreExcused == Spec => []CopiesAreExcused
<1>1. ExportInv => CopiesAreExcused
  BY DEF ExportInv
<1> QED
  BY <1>1, ExportCorrect, PTL
-----------------------------------------------------------------------------
(* The sales figures *)

SaleRow == [day : Day, channel : Channel, master : Master, category : Category \cup {NULL},
            orders : Nat, quantity : Nat, gross : Nat, cancelledQuantity : Nat, cancelledGross : Nat]

OpenRow == [day : Day, channel : Channel, item : Item, orders : Nat, quantity : Nat, gross : Nat]

SalesTypeOK ==
    /\ status \in [Order -> {"absent", "new"} \cup Cancelled]
    /\ master \in [Line -> Master \cup {NULL}]
    /\ tree \in [Category -> Category \cup {"absent", "root"}]
    /\ category \in [Master -> Category \cup {NULL}]
    /\ sales \in SUBSET SaleRow /\ IsFiniteSet(sales)
    /\ unmapped \in SUBSET OpenRow /\ IsFiniteSet(unmapped)

\* Two levels, and nothing is filed under a category that is no more.
FiledOK ==
    /\ \A k \in Category : tree[k] \in Category => tree[tree[k]] = "root"
    /\ \A m \in Master : category[m] # NULL => tree[category[m]] # "absent"
    /\ \A r \in sales : r.category # NULL => tree[r.category] # "absent"

\* The unique keys of the two tables.
KeysOK ==
    /\ \A r, q \in sales :
          r.day = q.day /\ r.channel = q.channel /\ r.master = q.master => r = q
    /\ \A r, q \in unmapped :
          r.day = q.day /\ r.channel = q.channel /\ r.item = q.item => r = q

\* A day has its rows and their totals from one rebuild.
SalesOf(d) == {r \in sales : r.day = d}
UnmappedOf(d) == {r \in unmapped : r.day = d}

TotalsOK ==
    /\ \A r \in sales \cup unmapped : r.day \in DOMAIN kpis
    /\ \A d \in DOMAIN kpis :
          /\ d \in Day
          /\ kpis[d].quantity = Sum(Units, SalesOf(d))
          /\ kpis[d].gross = Sum(Gross, SalesOf(d))
          /\ kpis[d].unmapped = Sum(Gross, UnmappedOf(d))

\* The lines of a row of sales, those of them that count, and those of an unmapped row.
Here(d, c, m) == {l \in LinesOn(d) : ChannelOf[OrderOf[l]] = c /\ master[l] = m}
Sold(d, c, m) == {l \in Here(d, c, m) : Live(OrderOf[l])}
Parked(d, c, i) ==
    {l \in LinesOn(d) : ChannelOf[OrderOf[l]] = c /\ ItemOf[l] = i /\ master[l] = NULL /\ Live(OrderOf[l])}

\* The rows of a day tell the orders as they are now.
Fresh(d) ==
    /\ kpis[d].orders = Cardinality({o \in Order : Live(o) /\ DayOf[o] = d})
    /\ \A r \in SalesOf(d) :
          /\ Here(d, r.channel, r.master) # {}
          /\ r.quantity = Sum(Count, Sold(d, r.channel, r.master))
          /\ r.gross = Sum(Amount, Sold(d, r.channel, r.master))
    /\ \A l \in LinesOn(d) : master[l] # NULL =>
          \E r \in SalesOf(d) : r.channel = ChannelOf[OrderOf[l]] /\ r.master = master[l]
    /\ \A r \in UnmappedOf(d) : r.gross = Sum(Amount, Parked(d, r.channel, r.item))
    /\ \A l \in LinesOn(d) : master[l] = NULL /\ Live(OrderOf[l]) =>
          \E r \in UnmappedOf(d) : r.channel = ChannelOf[OrderOf[l]] /\ r.item = ItemOf[l]

SalesInv ==
    /\ SalesTypeOK
    /\ FiledOK
    /\ KeysOK
    /\ TotalsOK
    /\ \A d \in DOMAIN kpis \ touched : Fresh(d)

-----------------------------------------------------------------------------
(* Sums of the figures, as sums over functions *)

SalesFinite ==
    /\ IsFiniteSet(Order) /\ IsFiniteSet(Line) /\ IsFiniteSet(Channel)
    /\ IsFiniteSet(Master) /\ IsFiniteSet(Category)

LEMMA MeasuresAreSums ==
    ASSUME NEW S
    PROVE  /\ Sum(Units, S) = SumOver([r \in S |-> r.quantity], S)
           /\ Sum(Gross, S) = SumOver([r \in S |-> r.gross], S)
           /\ Sum(Count, S) = SumOver([l \in S |-> Count(l)], S)
           /\ Sum(Amount, S) = SumOver([l \in S |-> Amount(l)], S)
<1>1. Sum(Units, S) = SumOver([r \in S |-> r.quantity], S)
  BY DEF Sum, Units, MapThenSumSet, MapThenFoldSet, SumOver, IsSum
<1>2. Sum(Gross, S) = SumOver([r \in S |-> r.gross], S)
  BY DEF Sum, Gross, MapThenSumSet, MapThenFoldSet, SumOver, IsSum
<1>3. Sum(Count, S) = SumOver([l \in S |-> Count(l)], S)
  BY DEF Sum, MapThenSumSet, MapThenFoldSet, SumOver, IsSum
<1>4. Sum(Amount, S) = SumOver([l \in S |-> Amount(l)], S)
  BY DEF Sum, MapThenSumSet, MapThenFoldSet, SumOver, IsSum
<1> QED
  BY <1>1, <1>2, <1>3, <1>4

LEMMA PeriodsAreSums ==
    ASSUME NEW p
    PROVE  /\ Sum(LAMBDA d : KpiOf(d).orders, p) = SumOver([d \in p |-> KpiOf(d).orders], p)
           /\ Sum(LAMBDA d : KpiOf(d).quantity, p) = SumOver([d \in p |-> KpiOf(d).quantity], p)
           /\ Sum(LAMBDA d : KpiOf(d).gross, p) = SumOver([d \in p |-> KpiOf(d).gross], p)
           /\ Sum(LAMBDA d : KpiOf(d).unmapped, p) = SumOver([d \in p |-> KpiOf(d).unmapped], p)
<1>1. Sum(LAMBDA d : KpiOf(d).orders, p) = SumOver([d \in p |-> KpiOf(d).orders], p)
  BY DEF Sum, MapThenSumSet, MapThenFoldSet, SumOver, IsSum
<1>2. Sum(LAMBDA d : KpiOf(d).quantity, p) = SumOver([d \in p |-> KpiOf(d).quantity], p)
  BY DEF Sum, MapThenSumSet, MapThenFoldSet, SumOver, IsSum
<1>3. Sum(LAMBDA d : KpiOf(d).gross, p) = SumOver([d \in p |-> KpiOf(d).gross], p)
  BY DEF Sum, MapThenSumSet, MapThenFoldSet, SumOver, IsSum
<1>4. Sum(LAMBDA d : KpiOf(d).unmapped, p) = SumOver([d \in p |-> KpiOf(d).unmapped], p)
  BY DEF Sum, MapThenSumSet, MapThenFoldSet, SumOver, IsSum
<1> QED
  BY <1>1, <1>2, <1>3, <1>4

\* Quantities and prices are naturals, and so are their products and sums.
LEMMA LineMeasures ==
    ASSUME SalesFinite, NEW S \in SUBSET Line, NEW T \in SUBSET S
    PROVE  /\ IsFiniteSet(T)
           /\ \A l \in S : Count(l) \in Nat /\ Amount(l) \in Nat
           /\ Sum(Count, T) = SumOver([l \in S |-> Count(l)], T)
           /\ Sum(Amount, T) = SumOver([l \in S |-> Amount(l)], T)
           /\ Sum(Count, T) \in Nat /\ Sum(Amount, T) \in Nat
<1>1. IsFiniteSet(T)
  BY FS_Subset DEF SalesFinite
<1>2. \A l \in S : Count(l) \in Nat /\ Amount(l) \in Nat
  <2>1. \A i, j \in Nat : i * j \in Nat
    BY SMT
  <2> QED
    BY <2>1, ShapeAssumption DEF Count, Amount
<1>3. SumOver([l \in T |-> Count(l)], T) = SumOver([l \in S |-> Count(l)], T)
  <2> DEFINE v == [l \in T |-> Count(l)]
             w == [l \in S |-> Count(l)]
  <2>1. \A l \in T : v[l] = w[l]
    OBVIOUS
  <2> HIDE DEF v, w
  <2> QED
    BY <1>1, <2>1, SumEqual
<1>4. SumOver([l \in T |-> Amount(l)], T) = SumOver([l \in S |-> Amount(l)], T)
  <2> DEFINE v == [l \in T |-> Amount(l)]
             w == [l \in S |-> Amount(l)]
  <2>1. \A l \in T : v[l] = w[l]
    OBVIOUS
  <2> HIDE DEF v, w
  <2> QED
    BY <1>1, <2>1, SumEqual
<1>5. SumOver([l \in T |-> Count(l)], T) \in Nat
  <2> DEFINE v == [l \in T |-> Count(l)]
  <2>1. \A l \in T : v[l] \in Nat
    BY <1>2
  <2>2. SumOver(v, T) \in Nat
    <3> HIDE DEF v
    <3> QED
      BY <1>1, <2>1, SumOfNats
  <2> QED
    BY <2>2
<1>6. SumOver([l \in T |-> Amount(l)], T) \in Nat
  <2> DEFINE v == [l \in T |-> Amount(l)]
  <2>1. \A l \in T : v[l] \in Nat
    BY <1>2
  <2>2. SumOver(v, T) \in Nat
    <3> HIDE DEF v
    <3> QED
      BY <1>1, <2>1, SumOfNats
  <2> QED
    BY <2>2
<1> QED
  BY <1>1, <1>2, <1>3, <1>4, <1>5, <1>6, MeasuresAreSums

\* The rows of either table.
Priced(R) == IsFiniteSet(R) /\ \A r \in R : r.quantity \in Nat /\ r.gross \in Nat

LEMMA RowMeasures ==
    ASSUME NEW R, Priced(R), NEW T \in SUBSET R
    PROVE  /\ IsFiniteSet(T)
           /\ Sum(Units, T) = SumOver([r \in R |-> r.quantity], T)
           /\ Sum(Gross, T) = SumOver([r \in R |-> r.gross], T)
           /\ Sum(Units, T) \in Nat /\ Sum(Gross, T) \in Nat
<1>1. IsFiniteSet(T)
  BY FS_Subset DEF Priced
<1>2. \A r \in R : r.quantity \in Nat /\ r.gross \in Nat
  BY DEF Priced
<1>3. SumOver([r \in T |-> r.quantity], T) = SumOver([r \in R |-> r.quantity], T)
  <2> DEFINE v == [r \in T |-> r.quantity]
             w == [r \in R |-> r.quantity]
  <2>1. \A r \in T : v[r] = w[r]
    OBVIOUS
  <2> HIDE DEF v, w
  <2> QED
    BY <1>1, <2>1, SumEqual
<1>4. SumOver([r \in T |-> r.gross], T) = SumOver([r \in R |-> r.gross], T)
  <2> DEFINE v == [r \in T |-> r.gross]
             w == [r \in R |-> r.gross]
  <2>1. \A r \in T : v[r] = w[r]
    OBVIOUS
  <2> HIDE DEF v, w
  <2> QED
    BY <1>1, <2>1, SumEqual
<1>5. SumOver([r \in T |-> r.quantity], T) \in Nat
  <2> DEFINE v == [r \in T |-> r.quantity]
  <2>1. \A r \in T : v[r] \in Nat
    BY <1>2
  <2>2. SumOver(v, T) \in Nat
    <3> HIDE DEF v
    <3> QED
      BY <1>1, <2>1, SumOfNats
  <2> QED
    BY <2>2
<1>6. SumOver([r \in T |-> r.gross], T) \in Nat
  <2> DEFINE v == [r \in T |-> r.gross]
  <2>1. \A r \in T : v[r] \in Nat
    BY <1>2
  <2>2. SumOver(v, T) \in Nat
    <3> HIDE DEF v
    <3> QED
      BY <1>1, <2>1, SumOfNats
  <2> QED
    BY <2>2
<1> QED
  BY <1>1, <1>3, <1>4, <1>5, <1>6, MeasuresAreSums

\* Rows in groups: what the groups add up to.
LEMMA RowsInGroups ==
    ASSUME NEW R, Priced(R), NEW B, IsFiniteSet(B), NEW g, \A r \in R : g[r] \in B,
           NEW part, \A b \in B : part[b] = {r \in R : g[r] = b},
           NEW v
    PROVE  /\ (\A b \in B : v[b] = Sum(Gross, part[b])) => SumOver(v, B) = Sum(Gross, R)
           /\ (\A b \in B : v[b] = Sum(Units, part[b])) => SumOver(v, B) = Sum(Units, R)
<1>1. \A b \in B : part[b] \in SUBSET R
  OBVIOUS
<1>2. ASSUME \A b \in B : v[b] = Sum(Gross, part[b]) PROVE SumOver(v, B) = Sum(Gross, R)
  <2> DEFINE w == [r \in R |-> r.gross]
  <2>1. \A b \in B : v[b] = SumOver(w, part[b])
    BY <1>1, <1>2, RowMeasures
  <2>2. Sum(Gross, R) = SumOver(w, R) /\ IsFiniteSet(R)
    BY RowMeasures
  <2>3. \A r \in R : w[r] \in Int
    BY DEF Priced
  <2> HIDE DEF w
  <2> QED
    BY <2>1, <2>2, <2>3, SumByFibres
<1>3. ASSUME \A b \in B : v[b] = Sum(Units, part[b]) PROVE SumOver(v, B) = Sum(Units, R)
  <2> DEFINE w == [r \in R |-> r.quantity]
  <2>1. \A b \in B : v[b] = SumOver(w, part[b])
    BY <1>1, <1>3, RowMeasures
  <2>2. Sum(Units, R) = SumOver(w, R) /\ IsFiniteSet(R)
    BY RowMeasures
  <2>3. \A r \in R : w[r] \in Int
    BY DEF Priced
  <2> HIDE DEF w
  <2> QED
    BY <2>1, <2>2, <2>3, SumByFibres
<1> QED
  BY <1>2, <1>3

\* Lines in groups likewise.
LEMMA LinesInGroups ==
    ASSUME SalesFinite, NEW S \in SUBSET Line, NEW B, IsFiniteSet(B), NEW g, \A l \in S : g[l] \in B,
           NEW part, \A b \in B : part[b] = {l \in S : g[l] = b},
           NEW v
    PROVE  /\ (\A b \in B : v[b] = Sum(Amount, part[b])) => SumOver(v, B) = Sum(Amount, S)
           /\ (\A b \in B : v[b] = Sum(Count, part[b])) => SumOver(v, B) = Sum(Count, S)
<1>1. \A b \in B : part[b] \in SUBSET S
  OBVIOUS
<1>2. ASSUME \A b \in B : v[b] = Sum(Amount, part[b]) PROVE SumOver(v, B) = Sum(Amount, S)
  <2> DEFINE w == [l \in S |-> Amount(l)]
  <2>1. \A b \in B : v[b] = SumOver(w, part[b])
    BY <1>1, <1>2, LineMeasures
  <2>2. Sum(Amount, S) = SumOver(w, S) /\ IsFiniteSet(S)
    BY LineMeasures
  <2>3. \A l \in S : w[l] \in Int
    <3>1. S \in SUBSET S
      OBVIOUS
    <3>2. \A l \in S : Count(l) \in Nat /\ Amount(l) \in Nat
      BY <3>1, LineMeasures
    <3> QED
      BY <3>2
  <2> HIDE DEF w
  <2> QED
    BY <2>1, <2>2, <2>3, SumByFibres
<1>3. ASSUME \A b \in B : v[b] = Sum(Count, part[b]) PROVE SumOver(v, B) = Sum(Count, S)
  <2> DEFINE w == [l \in S |-> Count(l)]
  <2>1. \A b \in B : v[b] = SumOver(w, part[b])
    BY <1>1, <1>3, LineMeasures
  <2>2. Sum(Count, S) = SumOver(w, S) /\ IsFiniteSet(S)
    BY LineMeasures
  <2>3. \A l \in S : w[l] \in Int
    <3>1. S \in SUBSET S
      OBVIOUS
    <3>2. \A l \in S : Count(l) \in Nat /\ Amount(l) \in Nat
      BY <3>1, LineMeasures
    <3> QED
      BY <3>2
  <2> HIDE DEF w
  <2> QED
    BY <2>1, <2>2, <2>3, SumByFibres
<1> QED
  BY <1>2, <1>3

LEMMA NothingAddsUp == Sum(Units, {}) = 0 /\ Sum(Gross, {}) = 0
  BY MeasuresAreSums, SumEmpty

LEMMA TablesArePriced ==
    ASSUME SalesTypeOK
    PROVE  /\ \A R \in SUBSET sales : Priced(R)
           /\ \A R \in SUBSET unmapped : Priced(R)
<1>1. ASSUME NEW R \in SUBSET sales PROVE Priced(R)
  <2>1. IsFiniteSet(R)
    BY FS_Subset DEF SalesTypeOK
  <2> QED
    BY <2>1 DEF SalesTypeOK, SaleRow, Priced
<1>2. ASSUME NEW R \in SUBSET unmapped PROVE Priced(R)
  <2>1. IsFiniteSet(R)
    BY FS_Subset DEF SalesTypeOK
  <2> QED
    BY <2>1 DEF SalesTypeOK, OpenRow, Priced
<1> QED
  BY <1>1, <1>2

LEMMA DaysAreFinite ==
    ASSUME NEW p \in SUBSET Day
    PROVE  IsFiniteSet(p)
<1>1. IsFiniteSet(Day)
  BY FS_Interval, ShapeAssumption DEF Day
<1> QED
  BY <1>1, FS_Subset

\* A day's KPI is what its rows add up to, and nothing where it has none.
LEMMA DayTotals ==
    ASSUME TotalsOK, NEW d
    PROVE  /\ KpiOf(d).quantity = Sum(Units, SalesOf(d))
           /\ KpiOf(d).gross = Sum(Gross, SalesOf(d))
           /\ KpiOf(d).unmapped = Sum(Gross, UnmappedOf(d))
<1>1. CASE d \in DOMAIN kpis
  BY <1>1 DEF KpiOf, TotalsOK
<1>2. CASE d \notin DOMAIN kpis
  <2>1. SalesOf(d) = {} /\ UnmappedOf(d) = {}
    BY <1>2 DEF TotalsOK, SalesOf, UnmappedOf
  <2> QED
    BY <1>2, <2>1, NothingAddsUp DEF KpiOf, NoData
<1> QED
  BY <1>1, <1>2

\* A period's KPIs are what the rows of its days add up to.
LEMMA PeriodTotals ==
    ASSUME SalesTypeOK, TotalsOK, NEW p \in SUBSET Day
    PROVE  /\ PeriodKpis(p).quantity = Sum(Units, {r \in sales : r.day \in p})
           /\ PeriodKpis(p).gross = Sum(Gross, {r \in sales : r.day \in p})
           /\ PeriodKpis(p).unmapped = Sum(Gross, {r \in unmapped : r.day \in p})
<1> DEFINE R == {r \in sales : r.day \in p}
           U == {r \in unmapped : r.day \in p}
           units == [d \in p |-> KpiOf(d).quantity]
           gross == [d \in p |-> KpiOf(d).gross]
           waits == [d \in p |-> KpiOf(d).unmapped]
           partS == [d \in p |-> SalesOf(d)]
           partU == [d \in p |-> UnmappedOf(d)]
           gS == [r \in R |-> r.day]
           gU == [r \in U |-> r.day]
<1>1. Priced(R) /\ Priced(U) /\ IsFiniteSet(p)
  BY TablesArePriced, DaysAreFinite
<1>2. /\ \A d \in p : partS[d] = {r \in R : gS[r] = d}
      /\ \A d \in p : partU[d] = {r \in U : gU[r] = d}
  BY DEF SalesOf, UnmappedOf
<1>3. (\A r \in R : gS[r] \in p) /\ (\A r \in U : gU[r] \in p)
  OBVIOUS
<1>4. /\ \A d \in p : units[d] = Sum(Units, partS[d])
      /\ \A d \in p : gross[d] = Sum(Gross, partS[d])
      /\ \A d \in p : waits[d] = Sum(Gross, partU[d])
  BY DayTotals
<1>5. /\ SumOver(units, p) = Sum(Units, R)
      /\ SumOver(gross, p) = Sum(Gross, R)
      /\ SumOver(waits, p) = Sum(Gross, U)
  <2> HIDE DEF R, U, units, gross, waits, partS, partU, gS, gU
  <2>1. SumOver(units, p) = Sum(Units, R) /\ SumOver(gross, p) = Sum(Gross, R)
    BY <1>1, <1>2, <1>3, <1>4, RowsInGroups
  <2>2. SumOver(waits, p) = Sum(Gross, U)
    BY <1>1, <1>2, <1>3, <1>4, RowsInGroups
  <2> QED
    BY <2>1, <2>2
<1> QED
  BY <1>5, PeriodsAreSums DEF PeriodKpis

-----------------------------------------------------------------------------
(* The audit *)

\* The lines of a day that sell a SKU, and those that wait for one.
KnownOn(d) == {l \in Line : Live(OrderOf[l]) /\ DayOf[OrderOf[l]] = d /\ master[l] # NULL}
WaitingOn(d) == {l \in Line : Live(OrderOf[l]) /\ DayOf[OrderOf[l]] = d /\ master[l] = NULL}

\* On a fresh day the rows add up to the lines.
LEMMA FreshDay ==
    ASSUME SalesFinite, SalesTypeOK, KeysOK, NEW d \in Day, Fresh(d)
    PROVE  /\ Sum(Units, SalesOf(d)) = Sum(Count, KnownOn(d))
           /\ Sum(Gross, SalesOf(d)) = Sum(Amount, KnownOn(d))
           /\ Sum(Gross, UnmappedOf(d)) = Sum(Amount, WaitingOn(d))
<1>0. \A l \in Line : Live(OrderOf[l]) => status[OrderOf[l]] # "absent"
  BY DEF Live
<1>1. /\ Sum(Units, SalesOf(d)) = Sum(Count, KnownOn(d))
      /\ Sum(Gross, SalesOf(d)) = Sum(Amount, KnownOn(d))
  <2> DEFINE S == KnownOn(d)
             B == SalesOf(d)
             fits(l, r) == r.channel = ChannelOf[OrderOf[l]] /\ r.master = master[l]
             g == [l \in S |-> CHOOSE r \in B : fits(l, r)]
             part == [r \in B |-> Sold(d, r.channel, r.master)]
             units == [r \in B |-> r.quantity]
             gross == [r \in B |-> r.gross]
  <2>1. \A l \in S : g[l] \in B /\ fits(l, g[l])
    <3>1. ASSUME NEW l \in S PROVE \E r \in B : fits(l, r)
      BY <1>0 DEF Fresh, KnownOn, LinesOn
    <3> QED
      BY <3>1
  <2>2. \A l \in S, r \in B : fits(l, r) => g[l] = r
    BY <2>1 DEF KeysOK, SalesOf
  <2>3. \A r \in B : part[r] = {l \in S : g[l] = r}
    <3>1. ASSUME NEW r \in B, NEW l \in part[r] PROVE l \in S /\ g[l] = r
      <4>1. l \in Line /\ DayOf[OrderOf[l]] = d /\ Live(OrderOf[l]) /\ fits(l, r)
        BY <3>1 DEF Sold, Here, LinesOn
      <4>2. r.master # NULL
        BY NullAssumption DEF SalesOf, SalesTypeOK, SaleRow
      <4> QED
        BY <4>1, <4>2, <2>2 DEF KnownOn
    <3>2. ASSUME NEW r \in B, NEW l \in S, g[l] = r PROVE l \in part[r]
      <4>1. fits(l, r)
        BY <3>2, <2>1
      <4> QED
        BY <4>1, <1>0 DEF Sold, Here, LinesOn, KnownOn
    <3> HIDE DEF g, S, B
    <3>3. \A r \in B : part[r] \subseteq S
      BY <3>1
    <3> QED
      BY <3>1, <3>2, <3>3
  <2>4. S \in SUBSET Line
    BY DEF KnownOn
  <2>5. IsFiniteSet(B)
    BY FS_Subset DEF SalesTypeOK, SalesOf
  <2>6. /\ \A r \in B : units[r] = Sum(Count, part[r])
        /\ \A r \in B : gross[r] = Sum(Amount, part[r])
    BY DEF Fresh
  <2>7. SumOver(units, B) = Sum(Count, S) /\ SumOver(gross, B) = Sum(Amount, S)
    <3>1. \A l \in S : g[l] \in B
      BY <2>1
    <3> HIDE DEF S, B, g, part, units, gross
    <3> QED
      BY <2>3, <2>4, <2>5, <2>6, <3>1, LinesInGroups
  <2> QED
    BY <2>7, MeasuresAreSums
<1>2. Sum(Gross, UnmappedOf(d)) = Sum(Amount, WaitingOn(d))
  <2> DEFINE S == WaitingOn(d)
             B == UnmappedOf(d)
             fits(l, r) == r.channel = ChannelOf[OrderOf[l]] /\ r.item = ItemOf[l]
             g == [l \in S |-> CHOOSE r \in B : fits(l, r)]
             part == [r \in B |-> Parked(d, r.channel, r.item)]
             gross == [r \in B |-> r.gross]
  <2>1. \A l \in S : g[l] \in B /\ fits(l, g[l])
    <3>1. ASSUME NEW l \in S PROVE \E r \in B : fits(l, r)
      BY <1>0 DEF Fresh, WaitingOn, LinesOn
    <3> QED
      BY <3>1
  <2>2. \A l \in S, r \in B : fits(l, r) => g[l] = r
    BY <2>1 DEF KeysOK, UnmappedOf
  <2>3. \A r \in B : part[r] = {l \in S : g[l] = r}
    <3>1. ASSUME NEW r \in B, NEW l \in part[r] PROVE l \in S /\ g[l] = r
      <4>1. l \in Line /\ DayOf[OrderOf[l]] = d /\ Live(OrderOf[l]) /\ fits(l, r) /\ master[l] = NULL
        BY <3>1 DEF Parked, LinesOn
      <4> QED
        BY <4>1, <2>2 DEF WaitingOn
    <3>2. ASSUME NEW r \in B, NEW l \in S, g[l] = r PROVE l \in part[r]
      <4>1. fits(l, r)
        BY <3>2, <2>1
      <4> QED
        BY <4>1, <1>0 DEF Parked, LinesOn, WaitingOn
    <3> HIDE DEF g, S, B
    <3>3. \A r \in B : part[r] \subseteq S
      BY <3>1
    <3> QED
      BY <3>1, <3>2, <3>3
  <2>4. S \in SUBSET Line
    BY DEF WaitingOn
  <2>5. IsFiniteSet(B)
    BY FS_Subset DEF SalesTypeOK, UnmappedOf
  <2>6. \A r \in B : gross[r] = Sum(Amount, part[r])
    BY DEF Fresh
  <2>7. SumOver(gross, B) = Sum(Amount, S)
    <3>1. \A l \in S : g[l] \in B
      BY <2>1
    <3> HIDE DEF S, B, g, part, gross
    <3> QED
      BY <2>3, <2>4, <2>5, <2>6, <3>1, LinesInGroups
  <2> QED
    BY <2>7, MeasuresAreSums
<1> QED
  BY <1>1, <1>2

\* The live orders of a period, day by day.
LEMMA OrdersByDay ==
    ASSUME SalesFinite, NEW p \in SUBSET Day, NEW v,
           \A d \in p : v[d] = Cardinality({o \in Order : Live(o) /\ DayOf[o] = d})
    PROVE  SumOver(v, p) = Cardinality({o \in Order : Live(o) /\ DayOf[o] \in p})
<1> DEFINE S == {o \in Order : Live(o) /\ DayOf[o] \in p}
           g == [o \in S |-> DayOf[o]]
           part == [d \in p |-> {o \in Order : Live(o) /\ DayOf[o] = d}]
<1>1. IsFiniteSet(S) /\ IsFiniteSet(p)
  BY DaysAreFinite, FS_Subset DEF SalesFinite
<1>2. \A d \in p : part[d] = {o \in S : g[o] = d} /\ v[d] = Cardinality(part[d])
  OBVIOUS
<1>3. \A o \in S : g[o] \in p
  OBVIOUS
<1>4. SumOver(v, p) = Cardinality(S)
  <2> HIDE DEF S, g, part
  <2> QED
    BY <1>1, <1>2, <1>3, CountByFibres
<1> QED
  BY <1>4

\* On fresh days the screens have the numbers of the orders.
LEMMA FreshPeriod ==
    ASSUME SalesFinite, SalesInv, NEW p \in SUBSET Day, UpToDate(p)
    PROVE  /\ PeriodKpis(p).orders = FromOrders(p).orders
           /\ PeriodKpis(p).quantity = FromOrders(p).quantity
           /\ PeriodKpis(p).gross = FromOrders(p).gross
           /\ PeriodKpis(p).unmapped = FromOrders(p).unmapped
<1>1. \A d \in p : d \in Day /\ d \in DOMAIN kpis /\ Fresh(d)
  BY DEF UpToDate, SalesInv
<1>2. IsFiniteSet(p)
  BY DaysAreFinite
<1> DEFINE lines == {l \in Line : Live(OrderOf[l]) /\ DayOf[OrderOf[l]] \in p}
           known == {l \in lines : master[l] # NULL}
           waiting == lines \ known
           count == [d \in p |-> KpiOf(d).orders]
           units == [d \in p |-> KpiOf(d).quantity]
           gross == [d \in p |-> KpiOf(d).gross]
           waits == [d \in p |-> KpiOf(d).unmapped]
           g == [l \in lines |-> DayOf[OrderOf[l]]]
           partK == [d \in p |-> KnownOn(d)]
           partW == [d \in p |-> WaitingOn(d)]
<1>3. /\ \A d \in p : partK[d] = {l \in known : g[l] = d}
      /\ \A d \in p : partW[d] = {l \in waiting : g[l] = d}
  BY DEF KnownOn, WaitingOn
<1>4. ASSUME NEW d \in p
      PROVE  /\ units[d] = Sum(Count, partK[d])
             /\ gross[d] = Sum(Amount, partK[d])
             /\ waits[d] = Sum(Amount, partW[d])
  <2>1. Fresh(d) /\ d \in Day
    BY <1>1
  <2>2. /\ Sum(Units, SalesOf(d)) = Sum(Count, KnownOn(d))
        /\ Sum(Gross, SalesOf(d)) = Sum(Amount, KnownOn(d))
        /\ Sum(Gross, UnmappedOf(d)) = Sum(Amount, WaitingOn(d))
    BY <2>1, FreshDay DEF SalesInv
  <2> QED
    BY <2>2, DayTotals DEF SalesInv
<1>5. known \in SUBSET Line /\ waiting \in SUBSET Line
  OBVIOUS
<1>6. (\A l \in known : g[l] \in p) /\ (\A l \in waiting : g[l] \in p)
  OBVIOUS
<1>7. SumOver(units, p) = Sum(Count, known) /\ SumOver(gross, p) = Sum(Amount, known)
  <2> HIDE DEF lines, known, waiting, count, units, gross, waits, g, partK, partW
  <2> QED
    BY <1>2, <1>3, <1>4, <1>5, <1>6, LinesInGroups
<1>8. SumOver(waits, p) = Sum(Amount, waiting)
  <2> HIDE DEF lines, known, waiting, count, units, gross, waits, g, partK, partW
  <2> QED
    BY <1>2, <1>3, <1>4, <1>5, <1>6, LinesInGroups
<1>9. SumOver(count, p) = Cardinality({o \in Order : Live(o) /\ DayOf[o] \in p})
  <2>1. \A d \in p : count[d] = Cardinality({o \in Order : Live(o) /\ DayOf[o] = d})
    BY <1>1 DEF KpiOf, Fresh
  <2> HIDE DEF count
  <2> QED
    BY <2>1, OrdersByDay
<1> QED
  BY <1>7, <1>8, <1>9, PeriodsAreSums DEF PeriodKpis, FromOrders

\* The parts of AuditFindsOnlyStaleDays.
LEMMA AuditHolds ==
    ASSUME SalesFinite, SalesInv
    PROVE  AuditFindsOnlyStaleDays
<1>1. ASSUME NEW p \in SUBSET Day, UpToDate(p)
      PROVE  \A measure \in {"orders", "quantity", "gross", "unmapped"} :
                PeriodKpis(p)[measure] = FromOrders(p)[measure]
  BY <1>1, FreshPeriod
<1>2. \A p \in Periods : p \in SUBSET Day
  BY ShapeAssumption DEF Periods, Day
<1>3. ASSUME NEW p \in Periods, Disagreements(p) # {}
      PROVE  \E d \in p : d \in touched \cup MissingDays(p)
  <2>1. ~ UpToDate(p)
    BY <1>1, <1>2, <1>3 DEF Disagreements
  <2> QED
    BY <2>1 DEF UpToDate, MissingDays
<1>4. ASSUME NEW p \in Periods, Previous(p) \subseteq Day, UpToDate(p \cup Previous(p))
      PROVE  PctChange(PeriodKpis(p), PeriodKpis(Previous(p))) = PctChange(FromOrders(p), FromOrders(Previous(p)))
  <2>1. PICK b : b = Previous(p)
    OBVIOUS
  <2>2. p \in SUBSET Day /\ b \in SUBSET Day /\ UpToDate(p) /\ UpToDate(b)
    BY <1>2, <1>4, <2>1 DEF UpToDate
  <2>3. /\ PeriodKpis(p).gross = FromOrders(p).gross /\ PeriodKpis(p).unmapped = FromOrders(p).unmapped
        /\ PeriodKpis(b).gross = FromOrders(b).gross /\ PeriodKpis(b).unmapped = FromOrders(b).unmapped
    BY <2>2, FreshPeriod
  <2> QED
    BY <2>1, <2>3 DEF PctChange
<1> QED
  BY <1>3, <1>4 DEF AuditFindsOnlyStaleDays

-----------------------------------------------------------------------------
(* SalesInv is inductive *)

LEMMA SalesInitInv == SalesInit => SalesInv
<1> SUFFICES ASSUME SalesInit PROVE SalesInv
  OBVIOUS
<1>1. sales = {} /\ unmapped = {} /\ DOMAIN kpis = {}
  BY DEF SalesInit
<1>2. SalesTypeOK
  BY <1>1, FS_EmptySet, TreeAssumption, NullAssumption DEF SalesInit, SalesTypeOK
<1>3. FiledOK
  BY <1>1, TreeAssumption DEF SalesInit, FiledOK
<1> QED
  BY <1>1, <1>2, <1>3 DEF SalesInv, KeysOK, TotalsOK

\* What is written on other days leaves a day fresh.
LEMMA DayAlone ==
    ASSUME NEW d \in Day, Fresh(d), UNCHANGED rollup,
           \A l \in Line : DayOf[OrderOf[l]] = d => master'[l] = master[l],
           \A o \in Order : DayOf[o] = d => status'[o] = status[o]
    PROVE  Fresh(d)'
<1>1. \A o \in Order : DayOf[o] = d => (Live(o)' <=> Live(o))
  BY DEF Live
<1>2. \A l \in Line : OrderOf[l] \in Order
  BY ShapeAssumption
<1>3. LinesOn(d)' = LinesOn(d)
  BY <1>2 DEF LinesOn
<1>4. \A l \in LinesOn(d) : master'[l] = master[l] /\ (Live(OrderOf[l])' <=> Live(OrderOf[l]))
  BY <1>1, <1>2 DEF LinesOn
<1>5. ASSUME NEW c, NEW m PROVE Here(d, c, m)' = Here(d, c, m) /\ Sold(d, c, m)' = Sold(d, c, m)
  BY <1>3, <1>4 DEF Here, Sold
<1>6. ASSUME NEW c, NEW i PROVE Parked(d, c, i)' = Parked(d, c, i)
  BY <1>3, <1>4 DEF Parked
<1>7. {o \in Order : Live(o) /\ DayOf[o] = d}' = {o \in Order : Live(o) /\ DayOf[o] = d}
  BY <1>1
<1>8. SalesOf(d)' = SalesOf(d) /\ UnmappedOf(d)' = UnmappedOf(d) /\ kpis' = kpis
  BY DEF rollup, SalesOf, UnmappedOf
<1>9. kpis'[d].orders = Cardinality({o \in Order : Live(o) /\ DayOf[o] = d}')
  BY <1>7, <1>8 DEF Fresh
<1>10. \A r \in SalesOf(d)' :
          /\ Here(d, r.channel, r.master)' # {}
          /\ r.quantity = Sum(Count, Sold(d, r.channel, r.master)')
          /\ r.gross = Sum(Amount, Sold(d, r.channel, r.master)')
  BY <1>5, <1>8 DEF Fresh
<1>11. \A l \in LinesOn(d)' : master'[l] # NULL =>
          \E r \in SalesOf(d)' : r.channel = ChannelOf[OrderOf[l]] /\ r.master = master'[l]
  BY <1>3, <1>4, <1>8 DEF Fresh
<1>12. \A r \in UnmappedOf(d)' : r.gross = Sum(Amount, Parked(d, r.channel, r.item)')
  BY <1>6, <1>8 DEF Fresh
<1>13. \A l \in LinesOn(d)' : master'[l] = NULL /\ Live(OrderOf[l])' =>
          \E r \in UnmappedOf(d)' : r.channel = ChannelOf[OrderOf[l]] /\ r.item = ItemOf[l]
  BY <1>3, <1>4, <1>8 DEF Fresh
<1> QED
  BY <1>9, <1>10, <1>11, <1>12, <1>13 DEF Fresh

\* An order is written: its days are touched, the tables stay.
LEMMA WriteKeeps ==
    ASSUME SalesInv, UNCHANGED <<taxonomy, rollup>>,
           status' \in [Order -> {"absent", "new"} \cup Cancelled],
           master' \in [Line -> Master \cup {NULL}],
           touched \subseteq touched',
           \A l \in Line : DayOf[OrderOf[l]] \notin touched' => master'[l] = master[l],
           \A o \in Order : DayOf[o] \notin touched' => status'[o] = status[o]
    PROVE  SalesInv'
<1> USE DEF SalesInv
<1>1. SalesTypeOK' /\ FiledOK' /\ KeysOK'
  BY DEF SalesTypeOK, FiledOK, KeysOK, taxonomy, rollup
<1>2. TotalsOK'
  BY DEF TotalsOK, SalesOf, UnmappedOf, rollup
<1>3. ASSUME NEW d \in DOMAIN kpis' \ touched' PROVE Fresh(d)'
  <2>1. d \in DOMAIN kpis \ touched /\ d \in Day
    BY <1>3 DEF rollup, TotalsOK
  <2>2. Fresh(d)
    BY <2>1
  <2> QED
    BY <1>3, <2>1, <2>2, DayAlone
<1> QED
  BY <1>1, <1>2, <1>3

LEMMA PlaceKeeps ==
    ASSUME SalesInv, NEW o \in Order, Place(o)
    PROVE  SalesInv'
<1>1. status' \in [Order -> {"absent", "new"} \cup Cancelled]
  BY DEF Place, SalesInv, SalesTypeOK
<1>2. PICK found \in [{ItemOf[l] : l \in LinesOf(o)} -> Master \cup {NULL}] :
        master' = [l \in Line |-> IF OrderOf[l] = o THEN found[ItemOf[l]] ELSE master[l]]
  BY DEF Place
<1>3. master' \in [Line -> Master \cup {NULL}]
  BY <1>2 DEF SalesInv, SalesTypeOK, LinesOf
<1>4. \A l \in Line : OrderOf[l] # o => master'[l] = master[l]
  BY <1>2
<1>5. \A q \in Order : q # o => status'[q] = status[q]
  BY DEF Place, SalesInv, SalesTypeOK
<1>6. touched' = touched \cup {DayOf[o]} /\ UNCHANGED <<taxonomy, rollup>>
  BY DEF Place
<1> QED
  BY <1>1, <1>3, <1>4, <1>5, <1>6, WriteKeeps

LEMMA CancelKeeps ==
    ASSUME SalesInv, NEW o \in Order, Cancel(o)
    PROVE  SalesInv'
<1>1. PICK why \in Cancelled : status' = [status EXCEPT ![o] = why]
  BY DEF Cancel
<1>2. status' \in [Order -> {"absent", "new"} \cup Cancelled]
  BY <1>1 DEF SalesInv, SalesTypeOK
<1>3. \A q \in Order : q # o => status'[q] = status[q]
  BY <1>1 DEF SalesInv, SalesTypeOK
<1>4. touched' = touched \cup {DayOf[o]} /\ UNCHANGED <<master, taxonomy, rollup>>
  BY DEF Cancel
<1> QED
  BY <1>2, <1>3, <1>4, WriteKeeps DEF SalesInv, SalesTypeOK

LEMMA AttributeKeeps ==
    ASSUME SalesInv, NEW i \in Item, NEW m \in Master, Attribute(i, m)
    PROVE  SalesInv'
<1> DEFINE waits == {l \in Line : ItemOf[l] = i /\ master[l] = NULL /\ status[OrderOf[l]] # "absent"}
<1>1. /\ master' = [l \in Line |-> IF l \in waits THEN m ELSE master[l]]
      /\ touched' = touched \cup {DayOf[OrderOf[l]] : l \in waits}
      /\ UNCHANGED <<status, taxonomy, rollup>>
  BY DEF Attribute
<1>2. master' \in [Line -> Master \cup {NULL}]
  BY <1>1 DEF SalesInv, SalesTypeOK
<1>3. \A l \in Line : DayOf[OrderOf[l]] \notin touched' => master'[l] = master[l]
  BY <1>1
<1> QED
  BY <1>1, <1>2, <1>3, WriteKeeps DEF SalesInv, SalesTypeOK

\* The category tree and the SKUs' categories change; the tables stay.
LEMMA FileKeeps ==
    ASSUME SalesInv, UNCHANGED <<orders, rollup, touched>>,
           tree' \in [Category -> Category \cup {"absent", "root"}],
           category' \in [Master -> Category \cup {NULL}],
           FiledOK'
    PROVE  SalesInv'
<1> USE DEF SalesInv
<1>1. SalesTypeOK' /\ KeysOK'
  BY DEF SalesTypeOK, KeysOK, orders, rollup
<1>2. TotalsOK'
  BY DEF TotalsOK, SalesOf, UnmappedOf, rollup
<1>3. ASSUME NEW d \in DOMAIN kpis' \ touched' PROVE Fresh(d)'
  <2>1. d \in DOMAIN kpis \ touched /\ d \in Day
    BY <1>3 DEF rollup, TotalsOK
  <2>2. Fresh(d)
    BY <2>1
  <2> QED
    BY <2>1, <2>2, DayAlone DEF orders
<1> QED
  BY <1>1, <1>2, <1>3

LEMMA CreateKeeps ==
    ASSUME SalesInv, NEW k \in Category, Create(k)
    PROVE  SalesInv'
<1> USE DEF SalesInv
<1>1. PICK parent \in {"root"} \cup {x \in Category : tree[x] = "root"} : tree' = [tree EXCEPT ![k] = parent]
  BY DEF Create
<1>2. tree[k] = "absent" /\ UNCHANGED <<orders, category, rollup, touched>>
  BY DEF Create
<1>3. tree' \in [Category -> Category \cup {"absent", "root"}]
  BY <1>1 DEF SalesTypeOK
<1>4. \A c \in Category : tree[c] # k
  BY <1>2 DEF FiledOK
<1>5. parent # k /\ "root" \notin Category /\ parent # "absent"
  BY <1>1, <1>2, TreeAssumption
<1>6. \A c \in Category : tree'[c] = IF c = k THEN parent ELSE tree[c]
  BY <1>1 DEF SalesTypeOK
<1>7. \A c \in Category : tree'[c] \in Category => tree'[tree'[c]] = "root"
  BY <1>1, <1>4, <1>5, <1>6 DEF FiledOK
<1>8. \A c \in Category : tree[c] # "absent" => tree'[c] # "absent"
  BY <1>2, <1>6
<1>9. \A r \in sales : r.category \in Category \cup {NULL}
  BY DEF SalesTypeOK, SaleRow
<1>10. FiledOK'
  BY <1>2, <1>7, <1>8, <1>9 DEF FiledOK, SalesTypeOK, rollup
<1> QED
  BY <1>2, <1>3, <1>10, FileKeeps DEF SalesTypeOK

LEMMA ToggleKeeps ==
    ASSUME SalesInv, NEW k \in Category, Toggle(k)
    PROVE  SalesInv'
<1>1. UNCHANGED <<orders, tree, category, rollup, touched>>
  BY DEF Toggle
<1>2. FiledOK'
  BY <1>1 DEF SalesInv, FiledOK, rollup
<1> QED
  BY <1>1, <1>2, FileKeeps DEF SalesInv, SalesTypeOK

\* A sheet files SKUs under categories that are there.
LEMMA UploadKeeps ==
    ASSUME SalesInv, NEW sheet \in Sheets, Upload(sheet), \E n \in Nat : DOMAIN sheet = 1 .. n
    PROVE  SalesInv'
<1> DEFINE plan == ByCategory(sheet)
<1>1. /\ category' = [m \in Master |-> IF \E k \in DOMAIN plan : m \in plan[k]
                                      THEN CHOOSE k \in DOMAIN plan : m \in plan[k]
                                      ELSE category[m]]
      /\ UNCHANGED <<orders, tree, active, rollup, touched>>
  BY DEF Upload
<1>2. ASSUME NEW m \in DOMAIN Targets(sheet) PROVE Targets(sheet)[m] \in Known
  <2>1. PICK S : S = {i \in ValidRows(sheet) : sheet[i][1] = m}
    OBVIOUS
  <2>2. S # {} /\ S \in SUBSET ValidRows(sheet)
    BY <1>2, <2>1 DEF Targets
  <2>3. PICK n \in Nat : DOMAIN sheet = 1 .. n
    OBVIOUS
  <2>4. S \in SUBSET Int /\ \A i \in S : i <= n
    BY <2>2, <2>3 DEF ValidRows
  <2>5. Max(S) \in S
    <3>1. n \in Int /\ S # {}
      BY <2>2
    <3> HIDE DEF plan
    <3> QED
      BY <2>4, <3>1, MaxOfBounded
  <2>6. Targets(sheet)[m] = sheet[Max(S)][2]
    BY <1>2, <2>1 DEF Targets
  <2> QED
    BY <2>2, <2>5, <2>6 DEF ValidRows
<1>3. \A k \in DOMAIN plan : k \in Known
  BY <1>2 DEF ByCategory
<1>4. ASSUME NEW m \in Master
      PROVE  category'[m] \in Category \cup {NULL} /\ (category'[m] # NULL => tree[category'[m]] # "absent")
  <2>1. CASE \E k \in DOMAIN plan : m \in plan[k]
    <3>1. category'[m] \in DOMAIN plan
      BY <1>1, <2>1
    <3> QED
      BY <1>3, <3>1 DEF Known
  <2>2. CASE ~ \E k \in DOMAIN plan : m \in plan[k]
    BY <1>1, <2>2 DEF SalesInv, SalesTypeOK, FiledOK
  <2> QED
    BY <2>1, <2>2
<1>5. category' \in [Master -> Category \cup {NULL}]
  <2>1. DOMAIN category' = Master /\ category' = [m \in Master |-> category'[m]]
    BY <1>1
  <2> QED
    BY <1>4, <2>1
<1>6. FiledOK'
  BY <1>1, <1>4 DEF SalesInv, FiledOK, rollup
<1> QED
  BY <1>1, <1>5, <1>6, FileKeeps DEF SalesInv, SalesTypeOK

\* A deleted category is taken out of the rows: each keeps its key and its figures.
Refiled(r, k) == [r EXCEPT !.category = IF @ = k THEN NULL ELSE @]

LEMMA RefiledRow ==
    ASSUME NEW r \in SaleRow, NEW k \in Category
    PROVE  /\ Refiled(r, k) \in SaleRow
           /\ Refiled(r, k).day = r.day /\ Refiled(r, k).channel = r.channel
           /\ Refiled(r, k).master = r.master
           /\ Refiled(r, k).quantity = r.quantity /\ Refiled(r, k).gross = r.gross
           /\ Refiled(r, k).category = IF r.category = k THEN NULL ELSE r.category
  BY DEF Refiled, SaleRow

LEMMA RefiledTotals ==
    ASSUME SalesTypeOK, KeysOK, NEW k \in Category, NEW d,
           NEW T, T = {Refiled(r, k) : r \in SalesOf(d)}
    PROVE  Sum(Units, T) = Sum(Units, SalesOf(d)) /\ Sum(Gross, T) = Sum(Gross, SalesOf(d))
<1> DEFINE S == SalesOf(d)
           h == [r \in S |-> Refiled(r, k)]
           u == [r \in S |-> r.quantity]
           v == [r \in T |-> r.quantity]
           a == [r \in S |-> r.gross]
           b == [r \in T |-> r.gross]
<1>1. IsFiniteSet(S) /\ \A r \in S : r \in SaleRow
  BY FS_Subset DEF SalesTypeOK, SalesOf
<1>2. Renames(h, S, T)
  BY <1>1, RefiledRow DEF KeysOK, SalesOf, Renames
<1>4. (\A r \in S : v[h[r]] = u[r]) /\ (\A r \in S : b[h[r]] = a[r])
  BY <1>1, <1>2, RefiledRow DEF Renames
<1>5. (\A r \in S : u[r] \in Int) /\ (\A r \in S : a[r] \in Int)
  BY <1>1 DEF SaleRow
<1>6. SumOver(v, T) = SumOver(u, S) /\ SumOver(b, T) = SumOver(a, S)
  <2> HIDE DEF S, h, u, v, a, b
  <2>1. SumOver(v, T) = SumOver(u, S)
    BY <1>1, <1>2, <1>4, <1>5, SumRenamed
  <2>2. SumOver(b, T) = SumOver(a, S)
    BY <1>1, <1>2, <1>4, <1>5, SumRenamed
  <2> QED
    BY <2>1, <2>2
<1> QED
  BY <1>6, MeasuresAreSums

LEMMA DeleteKeeps ==
    ASSUME SalesInv, NEW k \in Category, Delete(k)
    PROVE  SalesInv'
<1> USE DEF SalesInv
<1>1. /\ \A m \in Master : category[m] # k
      /\ \A c \in Category : tree[c] # k
      /\ tree' = [tree EXCEPT ![k] = "absent"]
      /\ UNCHANGED <<orders, category, unmapped, kpis, touched>>
  BY DEF Delete
<1>2. sales' = {Refiled(r, k) : r \in sales}
  BY DEF Delete, Refiled
<1>3. \A r \in sales : r \in SaleRow
  BY DEF SalesTypeOK
<1>4. \A r \in sales' : \E q \in sales :
         /\ r = Refiled(q, k) /\ r \in SaleRow
         /\ r.day = q.day /\ r.channel = q.channel /\ r.master = q.master
         /\ r.quantity = q.quantity /\ r.gross = q.gross
         /\ r.category = IF q.category = k THEN NULL ELSE q.category
  BY <1>2, <1>3, RefiledRow
<1>5. IsFiniteSet(sales')
  <2> DEFINE f == [r \in sales |-> Refiled(r, k)]
  <2>1. f \in Surjection(sales, sales')
    BY <1>2 DEF Surjection
  <2> QED
    BY <2>1, FS_Surjection DEF SalesTypeOK
<1>6. SalesTypeOK'
  <2>1. tree' \in [Category -> Category \cup {"absent", "root"}]
    BY <1>1 DEF SalesTypeOK
  <2>2. sales' \in SUBSET SaleRow
    BY <1>4
  <2> QED
    BY <1>1, <1>5, <2>1, <2>2 DEF SalesTypeOK, orders
<1>7. \A c \in Category : tree'[c] = IF c = k THEN "absent" ELSE tree[c]
  BY <1>1 DEF SalesTypeOK
<1>8. FiledOK'
  <2>1. \A c \in Category : tree'[c] \in Category => tree'[tree'[c]] = "root"
    BY <1>1, <1>7, TreeAssumption DEF FiledOK
  <2>2. \A m \in Master : category'[m] # NULL => tree'[category'[m]] # "absent"
    BY <1>1, <1>7 DEF FiledOK, SalesTypeOK
  <2>3. \A r \in sales' : r.category # NULL => tree'[r.category] # "absent"
    <3>1. ASSUME NEW q \in sales, q.category # k, q.category # NULL PROVE tree'[q.category] # "absent"
      <4>1. q.category \in Category
        BY <1>3, <3>1 DEF SaleRow
      <4> QED
        BY <1>7, <3>1, <4>1 DEF FiledOK
    <3> QED
      BY <1>4, <3>1
  <2> QED
    BY <2>1, <2>2, <2>3 DEF FiledOK
<1>9. KeysOK'
  <2>1. \A r, q \in sales' : r.day = q.day /\ r.channel = q.channel /\ r.master = q.master => r = q
    BY <1>4 DEF KeysOK
  <2> QED
    BY <1>1, <2>1 DEF KeysOK
<1>10. \A d : SalesOf(d)' = {Refiled(r, k) : r \in SalesOf(d)}
  BY <1>2, <1>3, RefiledRow DEF SalesOf
<1>11. \A d : UnmappedOf(d)' = UnmappedOf(d)
  BY <1>1 DEF UnmappedOf
<1>12. ASSUME NEW d
       PROVE  Sum(Units, SalesOf(d)') = Sum(Units, SalesOf(d)) /\ Sum(Gross, SalesOf(d)') = Sum(Gross, SalesOf(d))
  BY <1>10, RefiledTotals
<1>13. TotalsOK'
  <2>1. \A r \in (sales \cup unmapped)' : r.day \in DOMAIN kpis'
    BY <1>1, <1>4 DEF TotalsOK
  <2> QED
    BY <1>1, <1>11, <1>12, <2>1 DEF TotalsOK
<1>14. ASSUME NEW d \in DOMAIN kpis' \ touched' PROVE Fresh(d)'
  <2>1. Fresh(d)
    BY <1>1, <1>14
  <2>2. LinesOn(d)' = LinesOn(d) /\ (\A o : Live(o)' <=> Live(o)) /\ master' = master
    BY <1>1 DEF LinesOn, Live, orders
  <2>3. /\ \A c, m : Here(d, c, m)' = Here(d, c, m) /\ Sold(d, c, m)' = Sold(d, c, m)
        /\ \A c, i : Parked(d, c, i)' = Parked(d, c, i)
    BY <2>2 DEF Here, Sold, Parked
  <2>4. kpis'[d].orders = Cardinality({o \in Order : Live(o) /\ DayOf[o] = d}')
    BY <1>1, <2>1, <2>2 DEF Fresh
  <2>5. \A r \in SalesOf(d)' : \E q \in SalesOf(d) :
            /\ r.channel = q.channel /\ r.master = q.master
            /\ r.quantity = q.quantity /\ r.gross = q.gross
    BY <1>4 DEF SalesOf
  <2>6. \A r \in SalesOf(d)' :
            /\ Here(d, r.channel, r.master)' # {}
            /\ r.quantity = Sum(Count, Sold(d, r.channel, r.master)')
            /\ r.gross = Sum(Amount, Sold(d, r.channel, r.master)')
    BY <2>1, <2>3, <2>5 DEF Fresh
  <2>7. \A q \in SalesOf(d) : \E r \in SalesOf(d)' : r.channel = q.channel /\ r.master = q.master
    BY <1>3, <1>10, RefiledRow DEF SalesOf
  <2>8. \A l \in LinesOn(d)' : master'[l] # NULL =>
            \E r \in SalesOf(d)' : r.channel = ChannelOf[OrderOf[l]] /\ r.master = master'[l]
    BY <2>1, <2>2, <2>7 DEF Fresh
  <2>9. \A r \in UnmappedOf(d)' : r.gross = Sum(Amount, Parked(d, r.channel, r.item)')
    BY <1>11, <2>1, <2>3 DEF Fresh
  <2>10. \A l \in LinesOn(d)' : master'[l] = NULL /\ Live(OrderOf[l])' =>
            \E r \in UnmappedOf(d)' : r.channel = ChannelOf[OrderOf[l]] /\ r.item = ItemOf[l]
    BY <1>11, <2>1, <2>2 DEF Fresh
  <2> QED
    BY <2>4, <2>6, <2>8, <2>9, <2>10 DEF Fresh
<1> QED
  BY <1>6, <1>8, <1>9, <1>13, <1>14

\* A row that is built holds the figures of its lines.
LEMMA LinesMeasured ==
    ASSUME SalesFinite, NEW T \in SUBSET Line
    PROVE  /\ Cardinality({OrderOf[l] : l \in T}) \in Nat
           /\ Sum(Count, T) \in Nat /\ Sum(Amount, T) \in Nat
<1>1. {OrderOf[l] : l \in T} \in SUBSET Order
  BY ShapeAssumption
<1>2. T \in SUBSET T
  OBVIOUS
<1> QED
  BY <1>1, <1>2, LineMeasures, FS_Subset, FS_CardinalityType DEF SalesFinite

LEMMA SalesRowBuilt ==
    ASSUME SalesFinite, NEW d, NEW c, NEW m
    PROVE  /\ SalesRow(d, c, m).day = d /\ SalesRow(d, c, m).channel = c
           /\ SalesRow(d, c, m).master = m /\ SalesRow(d, c, m).category = category[m]
           /\ SalesRow(d, c, m).quantity = Sum(Count, Sold(d, c, m))
           /\ SalesRow(d, c, m).gross = Sum(Amount, Sold(d, c, m))
           /\ d \in Day /\ c \in Channel /\ m \in Master /\ category[m] \in Category \cup {NULL} =>
                SalesRow(d, c, m) \in SaleRow
<1>1. /\ Here(d, c, m) \in SUBSET Line /\ Sold(d, c, m) \in SUBSET Line
      /\ Here(d, c, m) \ Sold(d, c, m) \in SUBSET Line
  BY DEF Here, Sold, LinesOn
<1>2. SalesRow(d, c, m) =
        [day |-> d, channel |-> c, master |-> m, category |-> category[m],
         orders |-> Cardinality({OrderOf[l] : l \in Here(d, c, m)}),
         quantity |-> Sum(Count, Sold(d, c, m)), gross |-> Sum(Amount, Sold(d, c, m)),
         cancelledQuantity |-> Sum(Count, Here(d, c, m) \ Sold(d, c, m)),
         cancelledGross |-> Sum(Amount, Here(d, c, m) \ Sold(d, c, m))]
  BY DEF SalesRow, Here, Sold
<1>3. /\ Cardinality({OrderOf[l] : l \in Here(d, c, m)}) \in Nat
      /\ Sum(Count, Sold(d, c, m)) \in Nat /\ Sum(Amount, Sold(d, c, m)) \in Nat
      /\ Sum(Count, Here(d, c, m) \ Sold(d, c, m)) \in Nat
      /\ Sum(Amount, Here(d, c, m) \ Sold(d, c, m)) \in Nat
  BY <1>1, LinesMeasured
<1>4. ASSUME d \in Day, c \in Channel, m \in Master, category[m] \in Category \cup {NULL}
      PROVE  SalesRow(d, c, m) \in SaleRow
  BY <1>2, <1>3, <1>4 DEF SaleRow
<1> QED
  BY <1>2, <1>4

LEMMA UnmappedRowBuilt ==
    ASSUME SalesFinite, NEW d, NEW c, NEW i
    PROVE  /\ UnmappedRow(d, c, i).day = d /\ UnmappedRow(d, c, i).channel = c
           /\ UnmappedRow(d, c, i).item = i
           /\ UnmappedRow(d, c, i).gross = Sum(Amount, Parked(d, c, i))
           /\ d \in Day /\ c \in Channel /\ i \in Item => UnmappedRow(d, c, i) \in OpenRow
<1>1. Parked(d, c, i) \in SUBSET Line
  BY DEF Parked, LinesOn
<1>2. UnmappedRow(d, c, i) =
        [day |-> d, channel |-> c, item |-> i,
         orders |-> Cardinality({OrderOf[l] : l \in Parked(d, c, i)}),
         quantity |-> Sum(Count, Parked(d, c, i)), gross |-> Sum(Amount, Parked(d, c, i))]
  BY DEF UnmappedRow, Parked
<1> QED
  BY <1>1, <1>2, LinesMeasured DEF OpenRow

\* The rows built for a day: one for each channel and SKU, and for each channel and item.
LEMMA DayBuilt ==
    ASSUME SalesFinite, SalesTypeOK, NEW d \in Day
    PROVE  /\ BuildSales(d) \in SUBSET SaleRow /\ IsFiniteSet(BuildSales(d))
           /\ BuildUnmapped(d) \in SUBSET OpenRow /\ IsFiniteSet(BuildUnmapped(d))
           /\ \A r \in BuildSales(d) :
                /\ r.day = d /\ r.category = category[r.master]
                /\ r = SalesRow(d, r.channel, r.master)
                /\ Here(d, r.channel, r.master) # {}
           /\ \A r \in BuildUnmapped(d) : r.day = d /\ r = UnmappedRow(d, r.channel, r.item)
           /\ \A l \in LinesOn(d) : master[l] # NULL =>
                SalesRow(d, ChannelOf[OrderOf[l]], master[l]) \in BuildSales(d)
           /\ \A l \in LinesOn(d) : master[l] = NULL /\ Live(OrderOf[l]) =>
                UnmappedRow(d, ChannelOf[OrderOf[l]], ItemOf[l]) \in BuildUnmapped(d)
<1> DEFINE S == {l \in LinesOn(d) : master[l] # NULL}
           U == {l \in LinesOn(d) : master[l] = NULL /\ Live(OrderOf[l])}
           f == [l \in S |-> SalesRow(d, ChannelOf[OrderOf[l]], master[l])]
           h == [l \in U |-> UnmappedRow(d, ChannelOf[OrderOf[l]], ItemOf[l])]
<1>1. IsFiniteSet(S) /\ IsFiniteSet(U)
  BY FS_Subset DEF SalesFinite, LinesOn
<1>2. /\ \A l \in S : f[l] = SalesRow(d, ChannelOf[OrderOf[l]], master[l]) /\ f[l] \in BuildSales(d)
      /\ \A r \in BuildSales(d) : \E l \in S : r = f[l]
      /\ \A l \in U : h[l] = UnmappedRow(d, ChannelOf[OrderOf[l]], ItemOf[l]) /\ h[l] \in BuildUnmapped(d)
      /\ \A r \in BuildUnmapped(d) : \E l \in U : r = h[l]
  BY DEF BuildSales, BuildUnmapped
<1>3. f \in Surjection(S, BuildSales(d)) /\ h \in Surjection(U, BuildUnmapped(d))
  BY <1>2 DEF Surjection
<1>4. IsFiniteSet(BuildSales(d)) /\ IsFiniteSet(BuildUnmapped(d))
  BY <1>1, <1>3, FS_Surjection
<1>5. ASSUME NEW l \in S
      PROVE  /\ ChannelOf[OrderOf[l]] \in Channel /\ master[l] \in Master
             /\ category[master[l]] \in Category \cup {NULL}
             /\ l \in Here(d, ChannelOf[OrderOf[l]], master[l])
  BY ShapeAssumption DEF SalesTypeOK, LinesOn, Here
<1>6. ASSUME NEW l \in U PROVE ChannelOf[OrderOf[l]] \in Channel /\ ItemOf[l] \in Item
  BY ShapeAssumption DEF LinesOn
<1>7. ASSUME NEW r \in BuildSales(d)
      PROVE  /\ r \in SaleRow /\ r.day = d /\ r.category = category[r.master]
             /\ r = SalesRow(d, r.channel, r.master)
             /\ Here(d, r.channel, r.master) # {}
  <2>1. PICK l \in S : r = SalesRow(d, ChannelOf[OrderOf[l]], master[l])
    BY <1>2
  <2>2. /\ ChannelOf[OrderOf[l]] \in Channel /\ master[l] \in Master
        /\ category[master[l]] \in Category \cup {NULL}
        /\ l \in Here(d, ChannelOf[OrderOf[l]], master[l])
    BY <1>5
  <2>3. /\ r.day = d /\ r.channel = ChannelOf[OrderOf[l]] /\ r.master = master[l]
        /\ r.category = category[master[l]]
    BY <2>1, SalesRowBuilt
  <2>4. r \in SaleRow
    BY <2>1, <2>2, SalesRowBuilt
  <2> QED
    BY <2>1, <2>2, <2>3, <2>4
<1>8. ASSUME NEW r \in BuildUnmapped(d)
      PROVE  r \in OpenRow /\ r.day = d /\ r = UnmappedRow(d, r.channel, r.item)
  <2>1. PICK l \in U : r = UnmappedRow(d, ChannelOf[OrderOf[l]], ItemOf[l])
    BY <1>2
  <2>2. ChannelOf[OrderOf[l]] \in Channel /\ ItemOf[l] \in Item
    BY <1>6
  <2>3. r.day = d /\ r.channel = ChannelOf[OrderOf[l]] /\ r.item = ItemOf[l]
    BY <2>1, UnmappedRowBuilt
  <2>4. r \in OpenRow
    BY <2>1, <2>2, UnmappedRowBuilt
  <2> QED
    BY <2>1, <2>3, <2>4
<1>9. BuildSales(d) \in SUBSET SaleRow /\ BuildUnmapped(d) \in SUBSET OpenRow
  BY <1>7, <1>8
<1> HIDE DEF f, h
<1> QED
  BY <1>2, <1>4, <1>7, <1>8, <1>9

LEMMA RebuildKeeps ==
    ASSUME SalesFinite, SalesInv, NEW d \in Day, Rebuild(d)
    PROVE  SalesInv'
<1> USE DEF SalesInv
<1> DEFINE rows == BuildSales(d)
           others == BuildUnmapped(d)
<1>1. /\ sales' = {r \in sales : r.day # d} \cup rows
      /\ unmapped' = {r \in unmapped : r.day # d} \cup others
      /\ kpis' = [x \in DOMAIN kpis \cup {d} |->
                    IF x = d THEN BuildKpi(d, rows, others) ELSE kpis[x]]
      /\ touched' = touched \ {d}
      /\ UNCHANGED <<orders, taxonomy>>
  BY DEF Rebuild
<1>2. /\ rows \in SUBSET SaleRow /\ IsFiniteSet(rows)
      /\ others \in SUBSET OpenRow /\ IsFiniteSet(others)
      /\ \A r \in rows : r.day = d
      /\ \A r \in others : r.day = d
  BY DayBuilt
<1>3. SalesTypeOK'
  <2>1. sales' \in SUBSET SaleRow /\ unmapped' \in SUBSET OpenRow
    BY <1>1, <1>2 DEF SalesTypeOK
  <2>2. IsFiniteSet(sales') /\ IsFiniteSet(unmapped')
    <3>1. IsFiniteSet({r \in sales : r.day # d}) /\ IsFiniteSet({r \in unmapped : r.day # d})
      BY FS_Subset DEF SalesTypeOK
    <3> QED
      BY <1>1, <1>2, <3>1, FS_Union
  <2> QED
    BY <1>1, <2>1, <2>2 DEF SalesTypeOK, orders, taxonomy
<1>4. FiledOK'
  <2>1. \A r \in rows : r.category # NULL => tree[r.category] # "absent"
    <3>1. \A r \in rows : r.category = category[r.master] /\ r.master \in Master
      BY <1>2, DayBuilt DEF SaleRow
    <3> QED
      BY <3>1 DEF FiledOK
  <2>2. \A r \in sales' : r \in sales \/ r \in rows
    BY <1>1
  <2> QED
    BY <1>1, <2>1, <2>2 DEF FiledOK, taxonomy
<1>5. KeysOK'
  <2>1. \A r, q \in rows : r.channel = q.channel /\ r.master = q.master => r = q
    BY DayBuilt
  <2>2. \A r, q \in others : r.channel = q.channel /\ r.item = q.item => r = q
    BY DayBuilt
  <2> HIDE DEF rows, others
  <2>3. \A r, q \in sales' : r.day = q.day /\ r.channel = q.channel /\ r.master = q.master => r = q
    BY <1>1, <1>2, <2>1 DEF KeysOK
  <2>4. \A r, q \in unmapped' : r.day = q.day /\ r.channel = q.channel /\ r.item = q.item => r = q
    BY <1>1, <1>2, <2>2 DEF KeysOK
  <2> QED
    BY <2>3, <2>4 DEF KeysOK
<1>6. /\ SalesOf(d)' = rows /\ UnmappedOf(d)' = others
      /\ \A e : e # d => SalesOf(e)' = SalesOf(e) /\ UnmappedOf(e)' = UnmappedOf(e)
  <2> HIDE DEF rows, others
  <2> QED
    BY <1>1, <1>2 DEF SalesOf, UnmappedOf
<1>7. TotalsOK'
  <2>1. ASSUME NEW r \in (sales \cup unmapped)' PROVE r.day \in DOMAIN kpis'
    <3> HIDE DEF rows, others
    <3> QED
      BY <1>1, <1>2, <2>1 DEF TotalsOK
  <2>2. ASSUME NEW e \in DOMAIN kpis'
        PROVE  /\ e \in Day
               /\ kpis'[e].quantity = Sum(Units, SalesOf(e)')
               /\ kpis'[e].gross = Sum(Gross, SalesOf(e)')
               /\ kpis'[e].unmapped = Sum(Gross, UnmappedOf(e)')
    <3>1. CASE e = d
      <4>1. kpis'[e] = BuildKpi(d, rows, others)
        BY <1>1, <3>1
      <4> HIDE DEF rows, others
      <4> QED
        BY <1>6, <3>1, <4>1 DEF BuildKpi
    <3>2. CASE e # d
      <4>1. e \in DOMAIN kpis /\ kpis'[e] = kpis[e]
        BY <1>1, <3>2
      <4> QED
        BY <1>6, <3>2, <4>1 DEF TotalsOK
    <3> QED
      BY <3>1, <3>2
  <2> QED
    BY <2>1, <2>2 DEF TotalsOK
<1>8. /\ \A o : Live(o)' <=> Live(o)
      /\ \A e : LinesOn(e)' = LinesOn(e)
      /\ master' = master
  BY <1>1 DEF Live, LinesOn, orders
<1>9. /\ \A e, c, m : Here(e, c, m)' = Here(e, c, m) /\ Sold(e, c, m)' = Sold(e, c, m)
      /\ \A e, c, i : Parked(e, c, i)' = Parked(e, c, i)
  BY <1>8 DEF Here, Sold, Parked
<1>10. ASSUME NEW e \in DOMAIN kpis' \ touched' PROVE Fresh(e)'
  <2>0. {o \in Order : Live(o) /\ DayOf[o] = e}' = {o \in Order : Live(o) /\ DayOf[o] = e}
    BY <1>8
  <2>1. CASE e = d
    <3>1. kpis'[d].orders = Cardinality({o \in Order : Live(o) /\ DayOf[o] = d})
      BY <1>1 DEF BuildKpi
    <3>2. \A r \in rows :
            /\ Here(d, r.channel, r.master) # {}
            /\ r.quantity = Sum(Count, Sold(d, r.channel, r.master))
            /\ r.gross = Sum(Amount, Sold(d, r.channel, r.master))
      BY DayBuilt, SalesRowBuilt, UnmappedRowBuilt
    <3>3. \A l \in LinesOn(d) : master[l] # NULL =>
            \E r \in rows : r.channel = ChannelOf[OrderOf[l]] /\ r.master = master[l]
      BY DayBuilt, SalesRowBuilt, UnmappedRowBuilt
    <3>4. \A r \in others : r.gross = Sum(Amount, Parked(d, r.channel, r.item))
      BY DayBuilt, SalesRowBuilt, UnmappedRowBuilt
    <3>5. \A l \in LinesOn(d) : master[l] = NULL /\ Live(OrderOf[l]) =>
            \E r \in others : r.channel = ChannelOf[OrderOf[l]] /\ r.item = ItemOf[l]
      BY DayBuilt, SalesRowBuilt, UnmappedRowBuilt
    <3> HIDE DEF rows, others
    <3> QED
      BY <1>6, <1>8, <1>9, <2>0, <2>1, <3>1, <3>2, <3>3, <3>4, <3>5 DEF Fresh
  <2>2. CASE e # d
    <3>1. e \in DOMAIN kpis \ touched /\ kpis'[e] = kpis[e]
      BY <1>1, <1>10, <2>2
    <3>2. Fresh(e)
      BY <3>1
    <3> QED
      BY <1>6, <1>8, <1>9, <2>0, <2>2, <3>1, <3>2 DEF Fresh
  <2> QED
    BY <2>1, <2>2
<1> QED
  BY <1>3, <1>4, <1>5, <1>7, <1>10

\* What a sheet is: a sequence of rows.
SheetsFit == \A sheet \in Sheets : \E n \in Nat : DOMAIN sheet = 1 .. n

\* Every step of SalesFigures keeps SalesInv.
LEMMA SalesStep ==
    ASSUME SalesFinite, SheetsFit, SalesInv, [SalesNext]_salesVars
    PROVE  SalesInv'
<1>1. ASSUME NEW o \in Order, Place(o) \/ Cancel(o) PROVE SalesInv'
  BY <1>1, PlaceKeeps, CancelKeeps
<1>2. ASSUME NEW i \in Item, NEW m \in Master, Attribute(i, m) PROVE SalesInv'
  BY <1>2, AttributeKeeps
<1>3. ASSUME NEW d \in Day, Rebuild(d) PROVE SalesInv'
  BY <1>3, RebuildKeeps
<1>4. ASSUME NEW k \in Category, Create(k) \/ Toggle(k) \/ Delete(k) PROVE SalesInv'
  BY <1>4, CreateKeeps, ToggleKeeps, DeleteKeeps
<1>5. ASSUME NEW sheet \in Sheets, Upload(sheet) PROVE SalesInv'
  BY <1>5, UploadKeeps DEF SheetsFit
<1>6. CASE UNCHANGED salesVars
  <2>1. FiledOK'
    BY <1>6 DEF salesVars, taxonomy, rollup, SalesInv, FiledOK
  <2> QED
    BY <1>6, <2>1, FileKeeps DEF salesVars, taxonomy, SalesInv, SalesTypeOK
<1> QED
  BY <1>1, <1>2, <1>3, <1>4, <1>5, <1>6 DEF SalesNext

\* The audit agrees with the screens wherever the rollup is up to date, in every
\* behaviour: with any orders, lines, trees and sheets.
THEOREM AuditIsFair ==
    ASSUME SalesFinite, SheetsFit
    PROVE  SalesSpec => []AuditFindsOnlyStaleDays
<1>1. SalesInit => SalesInv
  BY SalesInitInv
<1>2. SalesInv /\ [SalesNext]_salesVars => SalesInv'
  BY SalesStep
<1>3. SalesInv => AuditFindsOnlyStaleDays
  BY AuditHolds
<1> QED
  BY <1>1, <1>2, <1>3, PTL DEF SalesSpec

-----------------------------------------------------------------------------
(* The parts of a screen and its headline *)

\* A column of a screen as a sum over a function.
LEMMA TotalIsSum ==
    ASSUME NEW f, NEW B, DOMAIN f = B, f = [x \in B |-> f[x]]
    PROVE  Total(f) = SumOver(f, B)
  BY DEF Total, Sum, MapThenSumSet, MapThenFoldSet, SumOver, IsSum

LEMMA SeriesIsSum ==
    ASSUME NEW f
    PROVE  Sum(LAMBDA b : f[b].gross, DOMAIN f) = SumOver([b \in DOMAIN f |-> f[b].gross], DOMAIN f)
  BY DEF Sum, MapThenSumSet, MapThenFoldSet, SumOver, IsSum

\* The labels of finitely many rows are no more than the rows.
LEMMA LabelsFinite ==
    ASSUME NEW R, IsFiniteSet(R), NEW g, NEW B, \A b \in B : \E r \in R : b = g[r],
           \A r \in R : g[r] \in B
    PROVE  IsFiniteSet(B) /\ Cardinality(B) <= Cardinality(R)
<1> DEFINE f == [r \in R |-> g[r]]
<1>1. f \in Surjection(R, B)
  BY DEF Surjection
<1> QED
  BY <1>1, FS_Surjection

\* Rows in groups, as a column of a screen.
LEMMA ColumnAddsUp ==
    ASSUME NEW R, Priced(R), NEW g, NEW f, NEW B, DOMAIN f = B, f = [b \in B |-> f[b]],
           \A r \in R : g[r] \in B, \A b \in B : \E r \in R : b = g[r],
           NEW part, \A b \in B : part[b] = {r \in R : g[r] = b},
           \A b \in B : f[b] = Sum(Gross, part[b])
    PROVE  Total(f) = Sum(Gross, R)
<1>1. IsFiniteSet(R)
  BY DEF Priced
<1>2. IsFiniteSet(B)
  BY <1>1, LabelsFinite
<1>3. SumOver(f, B) = Sum(Gross, R)
  BY <1>2, RowsInGroups
<1> QED
  BY <1>3, TotalIsSum

\* What is rolled up to the members of B that the others lie under adds up to the whole.
LEMMA RolledUp ==
    ASSUME NEW S, IsFiniteSet(S), NEW own, \A x \in S : own[x] \in Int, NEW B \in SUBSET S,
           NEW home, \A x \in S : home[x] \in B, \A b \in B : home[b] = b,
           NEW kids, \A b \in B : kids[b] = {x \in S : x # b /\ home[x] = b},
           NEW v, \A b \in B : v[b] = own[b] + SumOver(own, kids[b])
    PROVE  SumOver(v, B) = SumOver(own, S)
<1> DEFINE fibre == [b \in B |-> {x \in S : home[x] = b}]
<1>1. ASSUME NEW b \in B PROVE v[b] = SumOver(own, fibre[b])
  <2>1. PICK T : T = fibre[b]
    OBVIOUS
  <2>2. T \in SUBSET S /\ b \in T /\ T \ {b} = kids[b]
    BY <2>1
  <2>3. IsFiniteSet(T) /\ \A x \in T : own[x] \in Int
    BY <2>2, FS_Subset
  <2>4. SumOver(own, T) = own[b] + SumOver(own, T \ {b})
    BY <2>2, <2>3, SumRemove
  <2> QED
    BY <2>1, <2>2, <2>4
<1>2. IsFiniteSet(B)
  BY FS_Subset
<1>3. \A b \in B : fibre[b] = {x \in S : home[x] = b}
  OBVIOUS
<1> HIDE DEF fibre
<1> QED
  BY <1>1, <1>2, <1>3, SumByFibres

\* The channels, the unmapped sales among them.
LEMMA ChannelsAddUp ==
    ASSUME SalesFinite, SalesInv, NEW p \in SUBSET Day
    PROVE  Total(ChannelShare(p)) = PeriodKpis(p).gross + PeriodKpis(p).unmapped
<1> USE DEF SalesInv
<1> DEFINE R == {r \in sales : r.day \in p}
           U == {r \in unmapped : r.day \in p}
           C == {r.channel : r \in R}
           B == C \cup {NULL}
           f == ChannelShare(p)
           g == [r \in R |-> r.channel]
           part == [c \in C |-> {r \in R : g[r] = c}]
<1>1. SalesRows(p, Everything) = R
  BY DEF SalesRows, Everything, Narrow
<1>2. \A r \in sales : r.channel \in Channel
  BY DEF SalesTypeOK, SaleRow
<1>3. NULL \notin C
  BY <1>2, NullAssumption
<1>4. \A c \in C : SalesRows(p, [Everything EXCEPT !.channel = c]) = part[c]
  BY <1>3 DEF SalesRows, Everything, Narrow
<1>5. f = [c \in B |-> IF c = NULL THEN Sum(Gross, U) ELSE Sum(Gross, SalesRows(p, [Everything EXCEPT !.channel = c]))]
  BY <1>1 DEF ChannelShare
<1>6. DOMAIN f = B /\ f = [b \in B |-> f[b]]
  BY <1>5
<1>7. f[NULL] = Sum(Gross, U) /\ \A c \in C : f[c] = Sum(Gross, part[c])
  BY <1>3, <1>4, <1>5
<1>8. Priced(R) /\ Priced(U)
  BY TablesArePriced
<1>9. IsFiniteSet(R) /\ IsFiniteSet(C)
  <2>1. IsFiniteSet(R)
    BY <1>8 DEF Priced
  <2>2. /\ \A c \in C : \E r \in R : c = g[r]
        /\ \A r \in R : g[r] \in C
    OBVIOUS
  <2> HIDE DEF R, C, g
  <2> QED
    BY <2>1, <2>2, LabelsFinite
<1>10. SumOver(f, C) = Sum(Gross, R)
  <2>1. \A r \in R : g[r] \in C
    OBVIOUS
  <2>2. \A c \in C : part[c] = {r \in R : g[r] = c}
    OBVIOUS
  <2> HIDE DEF R, U, C, f, g, part
  <2> QED
    BY <1>7, <1>8, <1>9, <2>1, <2>2, RowsInGroups
<1>11. Sum(Gross, R) \in Nat /\ Sum(Gross, U) \in Nat
  <2>1. R \in SUBSET R /\ U \in SUBSET U
    OBVIOUS
  <2> HIDE DEF R, U
  <2> QED
    BY <1>8, <2>1, RowMeasures
<1>12. SumOver(f, B) = Sum(Gross, U) + Sum(Gross, R)
  <2>1. IsFiniteSet(B)
    BY <1>9, FS_AddElement
  <2>2. \A b \in B : f[b] \in Int
    <3>1. \A c \in C : part[c] \in SUBSET R
      OBVIOUS
    <3> HIDE DEF R, U, C, f, part
    <3>2. \A c \in C : Sum(Gross, part[c]) \in Nat
      BY <1>8, <3>1, RowMeasures
    <3> QED
      BY <1>7, <1>11, <3>2
  <2>3. B \ {NULL} = C /\ NULL \in B
    BY <1>3
  <2> HIDE DEF R, U, C, B, f, part
  <2>4. SumOver(f, B) = f[NULL] + SumOver(f, C)
    BY <2>1, <2>2, <2>3, SumRemove
  <2> QED
    BY <1>7, <1>10, <2>4
<1>13. Total(f) = SumOver(f, B)
  <2> HIDE DEF f, B
  <2> QED
    BY <1>6, TotalIsSum
<1>14. PeriodKpis(p).gross = Sum(Gross, R) /\ PeriodKpis(p).unmapped = Sum(Gross, U)
  BY PeriodTotals
<1>15. \A i, j \in Nat : i + j = j + i
  OBVIOUS
<1> HIDE DEF R, U, C, B, f, g, part
<1>16. Total(f) = PeriodKpis(p).gross + PeriodKpis(p).unmapped
  BY <1>11, <1>12, <1>13, <1>14, <1>15
<1> QED
  BY <1>16 DEF f

\* The SKUs, by the category they were filed under.
LEMMA SkusAddUp ==
    ASSUME SalesFinite, SalesInv, NEW p \in SUBSET Day
    PROVE  Total(SkuSales(p, Everything)) = PeriodKpis(p).gross
<1> USE DEF SalesInv
<1> DEFINE R == {r \in sales : r.day \in p}
           B == {<<r.master, r.category>> : r \in R}
           f == SkuSales(p, Everything)
           g == [r \in R |-> <<r.master, r.category>>]
           part == [b \in B |-> {r \in R : g[r] = b}]
<1>1. SalesRows(p, Everything) = R
  BY DEF SalesRows, Everything, Narrow
<1>2. f = [b \in B |-> Sum(Gross, {r \in R : r.master = b[1] /\ r.category = b[2]})]
  BY <1>1 DEF SkuSales
<1>3. \A b \in B : part[b] = {r \in R : r.master = b[1] /\ r.category = b[2]}
  OBVIOUS
<1>4. DOMAIN f = B /\ f = [b \in B |-> f[b]] /\ \A b \in B : f[b] = Sum(Gross, part[b])
  BY <1>2, <1>3
<1>5. Priced(R)
  BY TablesArePriced
<1>6. /\ \A r \in R : g[r] \in B
      /\ \A b \in B : \E r \in R : b = g[r]
      /\ \A b \in B : part[b] = {r \in R : g[r] = b}
  OBVIOUS
<1>7. PeriodKpis(p).gross = Sum(Gross, R)
  BY PeriodTotals
<1> HIDE DEF R, B, f, g, part
<1>8. Total(f) = Sum(Gross, R)
  BY <1>4, <1>5, <1>6, ColumnAddsUp
<1> QED
  BY <1>7, <1>8 DEF f

\* The buckets, of whatever size.
LEMMA BucketsAddUp ==
    ASSUME SalesFinite, SalesInv, NEW p \in SUBSET Day, NEW where, NEW days
    PROVE  LET series == BucketedSales(p, where, days) IN
           Sum(LAMBDA b : series[b].gross, DOMAIN series) = Sum(Gross, SalesRows(p, where))
<1> USE DEF SalesInv
<1> DEFINE R == SalesRows(p, where)
           B == {Bucket(d, days) : d \in p}
           series == BucketedSales(p, where, days)
           f == [b \in B |-> series[b].gross]
           g == [r \in R |-> Bucket(r.day, days)]
           part == [b \in B |-> SalesRows({d \in p : Bucket(d, days) = b}, where)]
<1>1. DOMAIN series = B /\ \A b \in B : series[b].gross = Sum(Gross, part[b])
  BY DEF BucketedSales
<1>2. \A b \in B : part[b] = {r \in R : g[r] = b}
  BY DEF SalesRows
<1>3. \A r \in R : g[r] \in B
  BY DEF SalesRows
<1>4. IsFiniteSet(B)
  <2> DEFINE h == [d \in p |-> Bucket(d, days)]
  <2>1. (\A b \in B : \E d \in p : b = h[d]) /\ \A d \in p : h[d] \in B
    OBVIOUS
  <2>2. IsFiniteSet(p)
    BY DaysAreFinite
  <2> HIDE DEF B, h
  <2> QED
    BY <2>1, <2>2, LabelsFinite
<1>5. Priced(R)
  <2>1. R \in SUBSET sales
    BY DEF SalesRows
  <2> QED
    BY <2>1, TablesArePriced
<1>6. \A b \in B : f[b] = Sum(Gross, part[b])
  BY <1>1
<1>7. Sum(LAMBDA b : series[b].gross, DOMAIN series) = SumOver(f, B)
  <2>1. Sum(LAMBDA b : series[b].gross, DOMAIN series)
          = SumOver([b \in DOMAIN series |-> series[b].gross], DOMAIN series)
    <3> HIDE DEF series
    <3> QED
      BY SeriesIsSum
  <2> QED
    BY <1>1, <2>1
<1>8. SumOver(f, B) = Sum(Gross, R)
  <2> HIDE DEF R, B, f, g, part
  <2> QED
    BY <1>2, <1>3, <1>4, <1>5, <1>6, RowsInGroups
<1> QED
  BY <1>7, <1>8

\* A category, or the one it is under.
Home == [k \in Category \cup {NULL} |-> IF k \in Category /\ tree[k] \in Category THEN tree[k] ELSE k]

LEMMA HomeIsTop ==
    ASSUME SalesInv
    PROVE  /\ \A k \in Category \cup {NULL} : Home[k] \in Category \cup {NULL} /\ Home[Home[k]] = Home[k]
           /\ Home[NULL] = NULL
           /\ \A k \in Category : Home[k] \in Category
           /\ \A k \in Category : tree[k] \in Category => Home[k] = tree[k] /\ tree[tree[k]] = "root" /\ tree[k] # k
           /\ \A k \in Category : tree[k] \notin Category => Home[k] = k
<1>1. "root" \notin Category /\ NULL \notin Category
  BY TreeAssumption, NullAssumption
<1>2. /\ \A k \in Category : tree[k] \in Category => Home[k] = tree[k]
      /\ \A k \in Category : tree[k] \notin Category => Home[k] = k
      /\ Home[NULL] = NULL
  BY <1>1 DEF Home
<1>3. \A k \in Category : tree[k] \in Category => tree[tree[k]] = "root" /\ tree[k] # k
  BY <1>1 DEF SalesInv, FiledOK
<1> QED
  BY <1>1, <1>2, <1>3

\* The category tree: a top category with those under it, and what has none.
LEMMA CategoriesAddUp ==
    ASSUME SalesFinite, SalesInv, NEW p \in SUBSET Day, NEW where
    PROVE  Total(CategoryTotals(p, where)) = Sum(Gross, SalesRows(p, where))
<1> DEFINE R == SalesRows(p, where)
           filed(k) == {r \in R : r.category = k}
           sold == {k \in Category : tree[k] # "absent" /\ \E r \in R : r.category = k}
           node == sold \cup {tree[k] : k \in {x \in sold : tree[x] \in Category}}
           roots == {k \in node : k \notin sold \/ tree[k] \notin node}
           S == node \cup {NULL}
           B == roots \cup {NULL}
           own == [k \in S |-> Sum(Gross, filed(k))]
           f == CategoryTotals(p, where)
           kids == [k \in B |-> {c \in sold : tree[c] = k}]
<1>1. Priced(R) /\ IsFiniteSet(R)
  <2>1. R \in SUBSET sales
    BY DEF SalesRows
  <2> QED
    BY <2>1, TablesArePriced DEF Priced, SalesInv
<1>2. sold \in SUBSET Category /\ node \in SUBSET Category /\ roots \in SUBSET node
  OBVIOUS
<1>3. NULL \notin Category /\ "root" \notin Category /\ \A k \in Category : tree[k] # NULL
  BY TreeAssumption, NullAssumption DEF SalesInv, SalesTypeOK
<1>4. \A k \in node : k \in roots <=> tree[k] \notin Category
  <2>1. \A k \in sold : tree[k] \in Category => tree[k] \in node
    OBVIOUS
  <2>2. \A k \in node \ sold : tree[k] = "root"
    BY HomeIsTop
  <2> QED
    BY <1>2, <1>3, <2>1, <2>2
<1>5. IsFiniteSet(S)
  <2>1. IsFiniteSet(node)
    BY <1>2, FS_Subset DEF SalesFinite
  <2> QED
    BY <2>1, FS_AddElement
<1>6. /\ \A k \in S : Home[k] \in B
      /\ \A b \in B : Home[b] = b
  <2>1. ASSUME NEW k \in node PROVE Home[k] \in B
    <3>1. CASE tree[k] \in Category
      <4>1. k \in sold
        BY <1>3, <3>1, HomeIsTop
      <4>2. tree[k] \in node /\ tree[tree[k]] = "root" /\ Home[k] = tree[k]
        BY <1>2, <3>1, <4>1, HomeIsTop
      <4> QED
        BY <1>3, <1>4, <4>2
    <3>2. CASE tree[k] \notin Category
      BY <1>2, <1>4, <3>2, HomeIsTop
    <3> QED
      BY <3>1, <3>2
  <2>2. \A b \in roots : Home[b] = b
    BY <1>2, <1>4, HomeIsTop
  <2> QED
    BY <2>1, <2>2, HomeIsTop
<1>7. \A b \in B : kids[b] = {x \in S : x # b /\ Home[x] = b}
  <2>1. ASSUME NEW b \in B, NEW x \in kids[b] PROVE x \in S /\ x # b /\ Home[x] = b
    <3>1. x \in sold /\ tree[x] = b /\ b \in Category
      BY <1>2, <1>3, <2>1
    <3> QED
      BY <1>2, <3>1, HomeIsTop
  <2>2. ASSUME NEW b \in B, NEW x \in S, x # b, Home[x] = b PROVE x \in kids[b]
    <3>1. x \in node
      BY <2>2, HomeIsTop
    <3>2. tree[x] \in Category /\ tree[x] = b
      BY <1>2, <2>2, <3>1, HomeIsTop
    <3>3. x \in sold
      BY <1>3, <3>1, <3>2, HomeIsTop
    <3> QED
      BY <3>2, <3>3
  <2>3. \A b \in B : kids[b] \subseteq S
    OBVIOUS
  <2> HIDE DEF R, sold, node, roots, S, B, own, f, kids
  <2> QED
    BY <2>1, <2>2, <2>3
<1>8. \A k \in S : own[k] = Sum(Gross, filed(k)) /\ own[k] \in Int
  <2>1. \A k \in S : filed(k) \in SUBSET R
    OBVIOUS
  <2> HIDE DEF R, node
  <2>2. \A k \in S : Sum(Gross, filed(k)) \in Nat
    <3> HIDE DEF filed
    <3> QED
      BY <1>1, <2>1, RowMeasures
  <2> QED
    BY <2>2
<1>9. \A b \in B : f[b] = own[b] + SumOver(own, kids[b])
  <2>1. \A b \in B : f[b] = Sum(Gross, filed(b)) + Sum(LAMBDA k : Sum(Gross, {r \in SalesRows(p, where) : r.category = k}), {c \in sold : tree[c] = b})
    BY DEF CategoryTotals
  <2>2. ASSUME NEW X, X \in SUBSET S
        PROVE  Sum(LAMBDA k : Sum(Gross, {r \in SalesRows(p, where) : r.category = k}), X) = SumOver(own, X)
    <3> DEFINE w == [k \in X |-> Sum(Gross, {r \in SalesRows(p, where) : r.category = k})]
    <3>1. \A k \in X : w[k] = own[k]
      BY <2>2
    <3>2. IsFiniteSet(X)
      BY <1>5, <2>2, FS_Subset
    <3>3. SumOver(w, X) = SumOver(own, X)
      <4> HIDE DEF w, own
      <4> QED
        BY <3>1, <3>2, SumEqual
    <3>4. Sum(LAMBDA k : Sum(Gross, {r \in SalesRows(p, where) : r.category = k}), X) = SumOver(w, X)
      <4> HIDE DEF R, filed, sold, node, roots, S, B, own, f, kids
      <4> QED
        BY DEF Sum, MapThenSumSet, MapThenFoldSet, SumOver, IsSum
    <3> HIDE DEF w
    <3> QED
      BY <3>3, <3>4
  <2>3. \A b \in B : {c \in sold : tree[c] = b} = kids[b] /\ kids[b] \in SUBSET S
    OBVIOUS
  <2>4. \A b \in B : b \in S
    OBVIOUS
  <2>5. ASSUME NEW b \in B PROVE f[b] = own[b] + SumOver(own, kids[b])
    <3>1. f[b] = Sum(Gross, filed(b)) + Sum(LAMBDA k : Sum(Gross, {r \in SalesRows(p, where) : r.category = k}), kids[b])
      BY <2>1, <2>3
    <3> HIDE DEF f, kids, own, sold, filed, S, B
    <3> QED
      BY <1>8, <2>2, <2>3, <2>4, <3>1
  <2> QED
    BY <2>5
<1>10. DOMAIN f = B /\ f = [b \in B |-> f[b]]
  BY DEF CategoryTotals
<1>11. SumOver(f, B) = SumOver(own, S)
  <2>1. B \in SUBSET S
    OBVIOUS
  <2>2. \A k \in S : own[k] \in Int
    BY <1>8
  <2> HIDE DEF R, sold, node, roots, S, B, own, f, kids
  <2> QED
    BY <1>5, <1>6, <1>7, <1>9, <2>1, <2>2, RolledUp
<1>12. SumOver(own, S) = Sum(Gross, R)
  <2> DEFINE g == [r \in R |-> r.category]
             part == [k \in S |-> filed(k)]
  <2>1. \A r \in R : g[r] \in S
    <3>1. \A r \in R : r.category \in Category \cup {NULL} /\ (r.category # NULL => tree[r.category] # "absent")
      BY DEF SalesRows, SalesInv, SalesTypeOK, SaleRow, FiledOK
    <3> QED
      BY <3>1
  <2>2. \A k \in S : part[k] = {r \in R : g[r] = k} /\ own[k] = Sum(Gross, part[k])
    OBVIOUS
  <2> HIDE DEF R, S, g, part, own
  <2> QED
    BY <1>1, <1>5, <2>1, <2>2, RowsInGroups
<1>13. Total(f) = SumOver(f, B)
  <2> HIDE DEF f, B
  <2> QED
    BY <1>10, TotalIsSum
<1> QED
  BY <1>11, <1>12, <1>13

\* The SKUs of each top category with those under it, and the unclassified ones.
LEMMA SkusCounted ==
    ASSUME SalesFinite, SalesInv
    PROVE  Total(SkuCounts) = Cardinality(Master)
<1> DEFINE filed(k) == {m \in Master : category[m] = k}
           top == {x \in Category : tree[x] = "root"}
           S == {x \in Category : tree[x] # "absent"} \cup {NULL}
           B == top \cup {NULL}
           own == [k \in S |-> Cardinality(filed(k))]
           f == SkuCounts
           kids == [k \in B |-> {c \in Category : tree[c] = k}]
<1>1. /\ NULL \notin Category /\ "root" \notin Category /\ "absent" \notin Category
      /\ \A k \in Category : tree[k] \in Category \cup {"absent", "root"} /\ tree[k] # NULL
  BY TreeAssumption, NullAssumption DEF SalesInv, SalesTypeOK
<1>2. IsFiniteSet(S)
  <2>1. IsFiniteSet({x \in Category : tree[x] # "absent"})
    BY FS_Subset DEF SalesFinite
  <2> QED
    BY <2>1, FS_AddElement
<1>3. /\ \A k \in S : Home[k] \in B
      /\ \A b \in B : Home[b] = b
  <2>1. ASSUME NEW k \in Category, tree[k] # "absent" PROVE Home[k] \in B
    <3>1. CASE tree[k] \in Category
      BY <3>1, HomeIsTop
    <3>2. CASE tree[k] = "root"
      BY <1>1, <3>2, HomeIsTop
    <3> QED
      BY <1>1, <2>1, <3>1, <3>2
  <2>2. \A b \in top : Home[b] = b
    BY <1>1, HomeIsTop
  <2> QED
    BY <2>1, <2>2, HomeIsTop
<1>4. \A b \in B : kids[b] = {x \in S : x # b /\ Home[x] = b}
  <2>1. ASSUME NEW b \in B, NEW x \in kids[b] PROVE x \in S /\ x # b /\ Home[x] = b
    <3>1. x \in Category /\ tree[x] = b /\ b \in Category
      BY <1>1, <2>1
    <3> QED
      BY <1>1, <3>1, HomeIsTop
  <2>2. ASSUME NEW b \in B, NEW x \in S, x # b, Home[x] = b PROVE x \in kids[b]
    <3>1. x \in Category
      BY <2>2, HomeIsTop
    <3>2. tree[x] \in Category /\ tree[x] = b
      BY <2>2, <3>1, HomeIsTop
    <3> QED
      BY <3>1, <3>2
  <2>3. \A b \in B : kids[b] \subseteq S
    <3>1. ASSUME NEW b \in B, NEW x \in kids[b] PROVE x \in S
      BY <2>1, <3>1
    <3> HIDE DEF kids, S, B
    <3> QED
      BY <3>1
  <2> HIDE DEF top, S, B, own, f, kids
  <2> QED
    BY <2>1, <2>2, <2>3
<1>5. \A k \in S : own[k] \in Int
  <2>1. ASSUME NEW k \in S PROVE Cardinality(filed(k)) \in Nat
    BY FS_Subset, FS_CardinalityType DEF SalesFinite
  <2> QED
    BY <2>1
<1>6. \A b \in B : f[b] = own[b] + SumOver(own, kids[b])
  <2>1. \A b \in B : f[b] = Cardinality(filed(b)) + Sum(LAMBDA k : Cardinality({m \in Master : category[m] = k}), {c \in Category : tree[c] = b})
    BY DEF SkuCounts
  <2>2. ASSUME NEW X, X \in SUBSET S
        PROVE  Sum(LAMBDA k : Cardinality({m \in Master : category[m] = k}), X) = SumOver(own, X)
    <3> DEFINE w == [k \in X |-> Cardinality({m \in Master : category[m] = k})]
    <3>1. \A k \in X : w[k] = own[k]
      BY <2>2
    <3>2. IsFiniteSet(X)
      BY <1>2, <2>2, FS_Subset
    <3>3. SumOver(w, X) = SumOver(own, X)
      <4> HIDE DEF w, own
      <4> QED
        BY <3>1, <3>2, SumEqual
    <3>4. Sum(LAMBDA k : Cardinality({m \in Master : category[m] = k}), X) = SumOver(w, X)
      <4> HIDE DEF filed, top, S, B, own, f, kids
      <4> QED
        BY DEF Sum, MapThenSumSet, MapThenFoldSet, SumOver, IsSum
    <3> HIDE DEF w
    <3> QED
      BY <3>3, <3>4
  <2>3. \A b \in B : kids[b] \in SUBSET S
    <3>1. \A b \in B : kids[b] = {x \in S : x # b /\ Home[x] = b}
      BY <1>4
    <3> HIDE DEF kids, S, B
    <3> QED
      BY <3>1
  <2>4. \A b \in B : b \in S /\ own[b] = Cardinality(filed(b)) /\ {c \in Category : tree[c] = b} = kids[b]
    OBVIOUS
  <2>5. ASSUME NEW b \in B PROVE f[b] = own[b] + SumOver(own, kids[b])
    <3>1. f[b] = Cardinality(filed(b)) + Sum(LAMBDA k : Cardinality({m \in Master : category[m] = k}), kids[b])
      BY <2>1, <2>4
    <3> HIDE DEF f, kids, own, filed, S, B
    <3> QED
      BY <2>2, <2>3, <2>4, <3>1
  <2> QED
    BY <2>5
<1>7. DOMAIN f = B /\ f = [b \in B |-> f[b]]
  BY DEF SkuCounts
<1>8. SumOver(f, B) = SumOver(own, S)
  <2>1. B \in SUBSET S
    OBVIOUS
  <2> HIDE DEF top, S, B, own, f, kids
  <2> QED
    BY <1>2, <1>3, <1>4, <1>5, <1>6, <2>1, RolledUp
<1>9. SumOver(own, S) = Cardinality(Master)
  <2> DEFINE part == [k \in S |-> filed(k)]
  <2>1. \A m \in Master : category[m] \in S
    BY DEF SalesInv, SalesTypeOK, FiledOK
  <2>2. \A k \in S : part[k] = {m \in Master : category[m] = k} /\ own[k] = Cardinality(part[k])
    OBVIOUS
  <2>3. IsFiniteSet(Master)
    BY DEF SalesFinite
  <2> HIDE DEF S, part, own
  <2> QED
    BY <1>2, <2>1, <2>2, <2>3, CountByFibres
<1>10. Total(f) = SumOver(f, B)
  <2> HIDE DEF f, B
  <2> QED
    BY <1>7, TotalIsSum
<1> QED
  BY <1>8, <1>9, <1>10

\* The orders beside a category's sales are those that have a line in them.
LEMMA CategoryOrders ==
    ASSUME SalesFinite, SalesInv, NEW d \in Day, UpToDate({d}),
           NEW where \in Filters, where.category # AnyCategory
    PROVE  /\ OrderCount(d, where) \in Nat /\ Sum(Units, SalesRows({d}, where)) \in Nat
           /\ (OrderCount(d, where) = 0) = (Sum(Units, SalesRows({d}, where)) = 0)
           /\ OrderCount(d, where) <= Sum(Units, SalesRows({d}, where))
           /\ OrderCount(d, where) <= kpis[d].orders
<1> USE DEF SalesInv
<1> DEFINE R == SalesRows({d}, where)
           fits(l, r) == r.channel = ChannelOf[OrderOf[l]] /\ r.master = master[l]
           L == {l \in KnownOn(d) : \E r \in R : fits(l, r)}
           O == {o \in Order :
                    /\ Live(o) /\ DayOf[o] = d /\ where.channel \in {NULL, ChannelOf[o]}
                    /\ \/ where.category = AnyCategory
                       \/ \E l \in LinesOf(o), r \in sales :
                            /\ r.day = d /\ r.channel = ChannelOf[o] /\ r.master = master[l]
                            /\ r.category = where.category}
           all == {o \in Order : Live(o) /\ DayOf[o] = d}
           units == Sum(Units, R)
<1>1. Fresh(d) /\ d \in DOMAIN kpis
  BY DEF UpToDate
<1>2. \A r \in sales : r \in R <=> /\ r.day = d /\ where.channel \in {NULL, r.channel}
                                   /\ r.category = where.category
  BY DEF SalesRows, Narrow
<1>3. R \in SUBSET sales /\ R \in SUBSET SalesOf(d)
  BY DEF SalesRows, SalesOf
<1>4. Priced(R) /\ IsFiniteSet(R)
  BY <1>3, TablesArePriced DEF Priced
<1>5. \A r \in sales : r.master # NULL
  BY NullAssumption DEF SalesTypeOK, SaleRow
<1>6. IsFiniteSet(L) /\ L \in SUBSET Line
  BY FS_Subset DEF SalesFinite, KnownOn
<1>7. units = Sum(Count, L)
  <2> DEFINE g == [l \in L |-> CHOOSE r \in R : fits(l, r)]
             part == [r \in R |-> Sold(d, r.channel, r.master)]
             v == [r \in R |-> r.quantity]
  <2>1. \A l \in L : g[l] \in R /\ fits(l, g[l])
    OBVIOUS
  <2>2. \A l \in L, r \in R : fits(l, r) => g[l] = r
    <3>1. \A r \in R : r \in sales /\ r.day = d
      BY <1>3 DEF SalesOf
    <3> HIDE DEF R, L, g
    <3> QED
      BY <2>1, <3>1 DEF KeysOK
  <2>3. \A r \in R : part[r] = {l \in L : g[l] = r}
    <3>1. ASSUME NEW r \in R, NEW l \in part[r] PROVE l \in L /\ g[l] = r
      <4>1. l \in Line /\ DayOf[OrderOf[l]] = d /\ Live(OrderOf[l]) /\ fits(l, r)
        BY <3>1 DEF Sold, Here, LinesOn
      <4>2. l \in L
        BY <1>3, <1>5, <4>1 DEF KnownOn
      <4> QED
        BY <4>1, <4>2, <2>2
    <3>2. ASSUME NEW r \in R, NEW l \in L, g[l] = r PROVE l \in part[r]
      <4>1. fits(l, r)
        BY <3>2, <2>1
      <4> QED
        BY <4>1 DEF Sold, Here, LinesOn, KnownOn, Live
    <3> HIDE DEF g, L, R
    <3>3. \A r \in R : part[r] \subseteq L
      BY <3>1
    <3> QED
      BY <3>1, <3>2, <3>3
  <2>4. \A r \in R : v[r] = Sum(Count, part[r])
    BY <1>1, <1>3 DEF Fresh
  <2>5. \A l \in L : g[l] \in R
    BY <2>1
  <2>6. SumOver(v, R) = Sum(Count, L)
    <3> HIDE DEF R, L, g, part, v
    <3> QED
      BY <1>4, <1>6, <2>3, <2>4, <2>5, LinesInGroups
  <2> QED
    BY <2>6, MeasuresAreSums
<1>8. /\ \A o \in O : \E l \in L : o = OrderOf[l]
      /\ \A l \in L : OrderOf[l] \in O
  <2>1. ASSUME NEW o \in O PROVE \E l \in L : o = OrderOf[l]
    <3>1. PICK l \in LinesOf(o), r \in sales :
              r.day = d /\ r.channel = ChannelOf[o] /\ r.master = master[l] /\ r.category = where.category
      OBVIOUS
    <3>2. r \in R
      BY <1>2, <3>1
    <3>3. l \in KnownOn(d) /\ OrderOf[l] = o
      BY <1>5, <3>1 DEF LinesOf, KnownOn
    <3> QED
      BY <3>1, <3>2, <3>3
  <2>2. ASSUME NEW l \in L PROVE OrderOf[l] \in O
    <3>1. PICK r \in R : fits(l, r)
      OBVIOUS
    <3>2. r \in sales /\ r.day = d /\ where.channel \in {NULL, r.channel} /\ r.category = where.category
      BY <1>2, <1>3
    <3>3. /\ OrderOf[l] \in Order /\ l \in LinesOf(OrderOf[l])
          /\ Live(OrderOf[l]) /\ DayOf[OrderOf[l]] = d
      BY ShapeAssumption DEF KnownOn, LinesOf
    <3> QED
      BY <3>1, <3>2, <3>3
  <2> QED
    BY <2>1, <2>2
<1>9. OrderCount(d, where) = Cardinality(O)
  BY DEF OrderCount
<1>10. IsFiniteSet(O) /\ Cardinality(O) <= Cardinality(L)
  <2> DEFINE g == [l \in L |-> OrderOf[l]]
  <2>1. /\ \A o \in O : \E l \in L : o = g[l]
        /\ \A l \in L : g[l] \in O
    BY <1>8
  <2> HIDE DEF O, L, g
  <2> QED
    BY <1>6, <2>1, LabelsFinite
<1>11. Sum(Count, L) \in Nat /\ Cardinality(L) <= Sum(Count, L)
  <2> DEFINE w == [l \in L |-> Count(l)]
  <2>1. \A l \in L : w[l] \in Nat \ {0}
    BY <1>6, ShapeAssumption DEF Count
  <2>2. SumOver(w, L) \in Nat /\ Cardinality(L) <= SumOver(w, L)
    <3> HIDE DEF L, w
    <3> QED
      BY <1>6, <2>1, SumOfPositives
  <2> QED
    BY <2>2, MeasuresAreSums
<1>12. kpis[d].orders = Cardinality(all) /\ O \in SUBSET all /\ IsFiniteSet(all)
  BY <1>1, FS_Subset DEF Fresh, SalesFinite
<1>13. Cardinality(O) <= Cardinality(all) /\ Cardinality(O) \in Nat /\ Cardinality(L) \in Nat
  <2> HIDE DEF O, L, all
  <2> QED
    BY <1>6, <1>10, <1>12, FS_Subset, FS_CardinalityType
<1>14. Cardinality(O) = 0 => Sum(Count, L) = 0
  <2>1. SUFFICES ASSUME Cardinality(O) = 0 PROVE Sum(Count, L) = 0
    OBVIOUS
  <2>2. O = {}
    <3> HIDE DEF O
    <3> QED
      BY <1>10, <2>1, FS_EmptySet
  <2>3. L = {}
    BY <1>8, <2>2
  <2> QED
    BY <2>3, MeasuresAreSums, SumEmpty
<1>15. /\ Cardinality(O) \in Nat /\ units \in Nat
       /\ (Cardinality(O) = 0) = (units = 0)
       /\ Cardinality(O) <= units /\ Cardinality(O) <= kpis[d].orders
  <2> HIDE DEF O, L, R, all, units
  <2> QED
    BY <1>7, <1>10, <1>11, <1>12, <1>13, <1>14
<1> QED
  BY <1>9, <1>15

LEMMA CountsDescribe ==
    ASSUME SalesFinite, SalesInv
    PROVE  CountsDescribeSales
<1> USE DEF SalesInv
<1>1. ASSUME NEW d \in Day, UpToDate({d}) PROVE OrderCount(d, Everything) = kpis[d].orders
  BY <1>1 DEF OrderCount, Everything, UpToDate, Fresh
<1>2. ASSUME NEW d \in Day, UpToDate({d})
      PROVE  Sum(LAMBDA c : OrderCount(d, [Everything EXCEPT !.channel = c]), Channel) = kpis[d].orders
  <2> DEFINE all == {o \in Order : Live(o) /\ DayOf[o] = d}
             part == [c \in Channel |-> {o \in all : ChannelOf[o] = c}]
             v == [c \in Channel |-> OrderCount(d, [Everything EXCEPT !.channel = c])]
  <2>1. kpis[d].orders = Cardinality(all) /\ IsFiniteSet(all) /\ IsFiniteSet(Channel)
    BY <1>2, FS_Subset DEF Fresh, UpToDate, SalesFinite
  <2>2. \A c \in Channel : v[c] = Cardinality(part[c])
    <3>1. ASSUME NEW c \in Channel PROVE v[c] = Cardinality(part[c])
      <4>1. c # NULL
        BY NullAssumption
      <4>2. part[c] = {o \in Order : Live(o) /\ DayOf[o] = d /\ c \in {NULL, ChannelOf[o]}}
        BY <4>1
      <4> QED
        BY <4>2 DEF OrderCount, Everything
    <3> QED
      BY <3>1
  <2>3. /\ \A o \in all : ChannelOf[o] \in Channel
        /\ \A c \in Channel : part[c] = {o \in all : ChannelOf[o] = c}
    BY ShapeAssumption
  <2>4. SumOver(v, Channel) = Cardinality(all)
    <3> HIDE DEF all, part, v
    <3> QED
      BY <2>1, <2>2, <2>3, CountByFibres
  <2>5. Sum(LAMBDA c : OrderCount(d, [Everything EXCEPT !.channel = c]), Channel) = SumOver(v, Channel)
    <3> HIDE DEF all, part
    <3> QED
      BY DEF Sum, MapThenSumSet, MapThenFoldSet, SumOver, IsSum
  <2> QED
    BY <2>1, <2>4, <2>5
<1> QED
  BY <1>1, <1>2, CategoryOrders DEF CountsDescribeSales

\* The parts of PartsSumToTotals.
LEMMA PartsHold ==
    ASSUME SalesFinite, SalesInv
    PROVE  PartsSumToTotals
<1>1. \A p \in Periods : p \in SUBSET Day
  BY ShapeAssumption DEF Periods, Day
<1> QED
  BY <1>1, ChannelsAddUp, SkusAddUp, CategoriesAddUp, BucketsAddUp, SkusCounted, CountsDescribe
  DEF PartsSumToTotals

\* What a screen breaks down adds up to its headline in every behaviour.
THEOREM PartsAddUp ==
    ASSUME SalesFinite, SheetsFit
    PROVE  SalesSpec => []PartsSumToTotals
<1>1. SalesInit => SalesInv
  BY SalesInitInv
<1>2. SalesInv /\ [SalesNext]_salesVars => SalesInv'
  BY SalesStep
<1>3. SalesInv => PartsSumToTotals
  BY PartsHold
<1> QED
  BY <1>1, <1>2, <1>3, PTL DEF SalesSpec
=============================================================================
