------------------------- MODULE DailyRollupProofs --------------------------
(***************************************************************************)
(* Theorems about DailyRollup, for every set of order lines, number of     *)
(* days, choice of recent days and number of jobs.                         *)
(*                                                                         *)
(* A run moves the watermark past everything that was written before it    *)
(* ends, so a day may go stale for good.  RunInv says what a run has seen  *)
(* to by then: every day it does not still have to do is fresh or on       *)
(* record as raced or left.  The advisory lock keeps two runs from         *)
(* building at once; a run that has unlocked and not yet recorded its      *)
(* success may overlap the next one.                                       *)
(*                                                                         *)
(* The last part is about StockScreens under any step of StockFigures,     *)
(* where a run is one step: for every set of SKUs, calendar and movement   *)
(* of stock.                                                               *)
(***************************************************************************)
EXTENDS DailyRollup, StockScreens, NumberLemmas, TLAPS

SalesType == [sold : SUBSET Line, cancelled : SUBSET Line]

JobType == [at : {"idle", "next", "building", "unlocked"}, days : SUBSET Day,
            day : Nat, sales : SalesType]

RollupTypeOK ==
    /\ line \in [Line -> State]
    /\ updated \in [Line -> Nat]
    /\ booked \in [Line -> Nat]
    /\ now \in Nat
    /\ shown \in [Day -> [sales : SalesType, unmapped : SUBSET Line]]
    /\ watermark \in Nat \cup {-1}
    /\ lock \in Job \cup {None}
    /\ job \in [Job -> JobType]
    /\ fails \in Nat
    /\ raced \in SUBSET Day
    /\ left \in SUBSET Day

\* Every line that is there has a stamp, and no stamp and no success is ahead of now.
StampsOK ==
    /\ watermark <= now
    /\ \A l \in Line : /\ updated[l] <= now /\ booked[l] <= now
                       /\ line[l] # "absent" => updated[l] > 0

LockHeld == \A j \in Job : job[j].at \in {"next", "building"} => lock = j

\* The lines of a day that have a SKU, and those that are there at all.
Attributed(d) == {l \in Line : DayOf[l] = d /\ line[l] \in {"mapped", "cancelled"}}
Known(d) == {l \in Line : DayOf[l] = d /\ updated[l] > 0}

\* Rows tell of lines of their day, and what a run has read as sold keeps its SKU.
RowsAreOrders ==
    /\ \A d \in Day :
          shown[d].sales.sold \cup shown[d].sales.cancelled \cup shown[d].unmapped \subseteq Known(d)
    /\ \A j \in Job : job[j].at = "building" =>
          /\ job[j].day \in Day
          /\ job[j].sales.sold \cup job[j].sales.cancelled \subseteq Attributed(job[j].day)

Explained(d) == Fresh(d) \/ d \in raced \cup left
Changed(d) == \E l \in Line : DayOf[l] = d /\ Touched(l, watermark) /\ Touched(l, 0)

\* The days a run still has to build.
ToDo(j) == job[j].days \cup (IF job[j].at = "building" THEN {job[j].day} ELSE {})

RunInv(j) ==
    /\ job[j].at # "idle" => \A d \in Day \ ToDo(j) : Explained(d)
    /\ job[j].at = "building" =>
          job[j].sales = Sales(job[j].day) \/ job[j].day \in raced \cup left
    /\ job[j].at = "unlocked" => job[j].days = {}

\* The inductive invariant.
RollupInv ==
    /\ RollupTypeOK
    /\ StampsOK
    /\ LockHeld
    /\ RowsAreOrders
    /\ NeverCountedTwice
    /\ \A d \in Day : Explained(d) \/ Changed(d)
    /\ \A j \in Job : RunInv(j)

-----------------------------------------------------------------------------
(* Writes *)

\* The lines of a day are as they were if none of them is written.
LEMMA OtherLines ==
    ASSUME RollupTypeOK, NEW l \in Line, \A k \in Line \ {l} : line'[k] = line[k],
           shown' = shown, raced \subseteq raced', left \subseteq left',
           NEW d \in Day, d # DayOf[l]
    PROVE  Sales(d)' = Sales(d) /\ Unmapped(d)' = Unmapped(d) /\ (Explained(d) => Explained(d)')
<1>1. \A state \in State : Lines(d, state)' = Lines(d, state)
  BY DEF Lines
<1>2. Sales(d)' = Sales(d) /\ Unmapped(d)' = Unmapped(d)
  BY <1>1 DEF Sales, Unmapped, State
<1> QED
  BY <1>2 DEF Explained, Fresh

\* A write of a line leaves its day in sight of the next run, or on record as raced or
\* left, and on record whenever a run is under way.
LEMMA WriteStep ==
    ASSUME RollupInv, RollupTypeOK', NEW l \in Line,
           UNCHANGED <<shown, watermark, lock, job, fails>>,
           \A k \in Line \ {l} : /\ line'[k] = line[k]
                                 /\ updated'[k] = updated[k] /\ booked'[k] = booked[k],
           line[l] \in {"mapped", "cancelled"} => line'[l] \in {"mapped", "cancelled"},
           now <= now', updated'[l] > 0, updated'[l] <= now', booked'[l] <= now',
           raced \subseteq raced', left \subseteq left',
           DayOf[l] \in raced' \cup left'
              \/ (~InFlight /\ (booked'[l] > watermark \/ updated'[l] > watermark)
                            /\ (booked'[l] > 0 \/ updated'[l] > 0))
    PROVE  RollupInv'
<1> USE DEF RollupInv
<1>1. DayOf \in [Line -> Day]
  BY DayAssumption
<1>2. /\ \A k \in Line : /\ updated[k] \in Nat /\ updated'[k] \in Nat
                          /\ booked[k] \in Nat /\ booked'[k] \in Nat
      /\ now \in Nat /\ now' \in Nat /\ watermark \in Nat \cup {-1}
  BY DEF RollupTypeOK
<1>3. \A k \in Line : updated[k] > 0 => updated'[k] > 0
  BY <1>2
<1>4. StampsOK'
  <2>1. \A k \in Line \ {l} : /\ line'[k] = line[k]
                               /\ updated'[k] = updated[k] /\ booked'[k] = booked[k]
    OBVIOUS
  <2> QED
    BY <1>2, <2>1 DEF StampsOK
<1>5. LockHeld'
  BY DEF LockHeld
<1>6. \A d \in Day : Known(d) \subseteq Known(d)' /\ Attributed(d) \subseteq Attributed(d)'
  BY <1>2, <1>3 DEF Known, Attributed
<1>7. RowsAreOrders' /\ NeverCountedTwice'
  BY <1>6 DEF RowsAreOrders, NeverCountedTwice
<1>8. \A d \in Day \ {DayOf[l]} : Changed(d) => Changed(d)'
  BY DEF Changed, Touched
<1>9. ASSUME NEW d \in Day PROVE Explained(d)' \/ Changed(d)'
  <2>1. CASE d = DayOf[l]
    BY <1>2, <2>1 DEF Explained, Changed, Touched
  <2>2. CASE d # DayOf[l]
    BY <1>8, <2>2, OtherLines
  <2> QED
    BY <2>1, <2>2
<1>10. ASSUME NEW j \in Job PROVE RunInv(j)'
  <2>1. CASE job[j].at = "idle"
    BY <2>1 DEF RunInv
  <2>2. CASE job[j].at # "idle"
    <3>1. InFlight /\ DayOf[l] \in raced' \cup left'
      BY <2>2 DEF InFlight
    <3>2. ToDo(j)' = ToDo(j) /\ RunInv(j)
      BY DEF ToDo
    <3>3. \A d \in Day : Explained(d) => Explained(d)'
      BY <3>1, OtherLines DEF Explained
    <3>4. job[j].at = "building" =>
             Sales(job[j].day)' = Sales(job[j].day) \/ job[j].day \in raced' \cup left'
      BY <3>1, OtherLines DEF RowsAreOrders
    <3> QED
      BY <3>2, <3>3, <3>4 DEF RunInv
  <2> QED
    BY <2>1, <2>2
<1> QED
  BY <1>4, <1>5, <1>7, <1>9, <1>10

\* Order, Cancel, Rewrite and Attribute: a stamped write, whenever it began.
LEMMA PutStep ==
    ASSUME RollupInv, NEW l \in Line, NEW state \in State \ {"absent"},
           NEW stamped \in (SUBSET {"order", "event"}) \ {{}},
           line[l] \in {"mapped", "cancelled"} => state \in {"mapped", "cancelled"},
           line[l] = "absent" => "order" \in stamped,
           Put(l, state, stamped)
    PROVE  RollupInv'
<1>1. /\ RollupTypeOK /\ StampsOK /\ DayOf \in [Line -> Day]
  BY DayAssumption DEF RollupInv
<1>2. PICK began \in 1..(now + 1) :
        /\ line' = [line EXCEPT ![l] = state] /\ now' = now + 1
        /\ updated' = IF "order" \in stamped THEN [updated EXCEPT ![l] = began] ELSE updated
        /\ booked' = IF "event" \in stamped THEN [booked EXCEPT ![l] = began] ELSE booked
        /\ raced' = IF InFlight \/ began <= watermark THEN raced \cup {DayOf[l]} ELSE raced
        /\ UNCHANGED <<shown, watermark, lock, job, fails, left>>
  BY DEF Put
<1>3. /\ began \in Nat /\ began > 0 /\ began <= now + 1
      /\ now \in Nat /\ watermark \in Nat \cup {-1}
      /\ updated \in [Line -> Nat] /\ booked \in [Line -> Nat] /\ line \in [Line -> State]
  BY <1>1 DEF RollupTypeOK
<1>4. updated' \in [Line -> Nat] /\ booked' \in [Line -> Nat] /\ line' \in [Line -> State]
  BY <1>2, <1>3
<1>5. RollupTypeOK'
  BY <1>1, <1>2, <1>3, <1>4 DEF RollupTypeOK
<1>6. /\ \A k \in Line \ {l} : /\ line'[k] = line[k]
                                /\ updated'[k] = updated[k] /\ booked'[k] = booked[k]
      /\ line'[l] = state
      /\ updated'[l] = IF "order" \in stamped THEN began ELSE updated[l]
      /\ booked'[l] = IF "event" \in stamped THEN began ELSE booked[l]
  BY <1>2, <1>3
<1>7. /\ now <= now' /\ updated'[l] > 0 /\ updated'[l] <= now' /\ booked'[l] <= now'
      /\ updated'[l] = began \/ booked'[l] = began
  <2>1. /\ updated[l] \in Nat /\ booked[l] \in Nat /\ updated[l] <= now /\ booked[l] <= now
        /\ line[l] # "absent" => updated[l] > 0
    BY <1>1, <1>3 DEF StampsOK
  <2>2. "order" \in stamped \/ "event" \in stamped
    OBVIOUS
  <2>3. now' = now + 1
    BY <1>2
  <2>4. updated'[l] > 0 /\ updated'[l] <= now'
    BY <1>3, <1>6, <2>1, <2>3
  <2>5. booked'[l] <= now'
    BY <1>3, <1>6, <2>1, <2>3
  <2> QED
    BY <1>3, <1>6, <2>2, <2>3, <2>4, <2>5
<1>8. /\ raced \subseteq raced' /\ left \subseteq left'
      /\ DayOf[l] \in raced' \/ (~InFlight /\ ~(began <= watermark))
  BY <1>2
<1>9. ~(began <= watermark) => began > watermark
  BY <1>3
<1>10. /\ DayOf[l] \in raced' \cup left'
          \/ (~InFlight /\ (booked'[l] > watermark \/ updated'[l] > watermark)
                        /\ (booked'[l] > 0 \/ updated'[l] > 0))
  BY <1>3, <1>7, <1>8, <1>9
<1> QED
  BY <1>2, <1>5, <1>6, <1>7, <1>8, <1>10, WriteStep

\* AttributeUnstamped: a write without a stamp, which puts its day on record.
LEMMA UnstampedStep ==
    ASSUME RollupInv, NEW l \in Line, AttributeUnstamped(l)
    PROVE  RollupInv'
<1>1. /\ RollupTypeOK /\ StampsOK /\ DayOf \in [Line -> Day]
  BY DayAssumption DEF RollupInv
<1>2. /\ line[l] \in {"unmapped", "dropped"}
      /\ line' = [line EXCEPT ![l] = IF @ = "dropped" THEN "cancelled" ELSE "mapped"]
      /\ left' = left \cup {DayOf[l]}
      /\ UNCHANGED <<updated, booked, now, shown, watermark, lock, job, fails, raced>>
  BY DEF AttributeUnstamped
<1>3. RollupTypeOK'
  BY <1>1, <1>2 DEF RollupTypeOK, State
<1>4. /\ \A k \in Line \ {l} : /\ line'[k] = line[k]
                                /\ updated'[k] = updated[k] /\ booked'[k] = booked[k]
      /\ line'[l] \in {"mapped", "cancelled"}
  BY <1>1, <1>2 DEF RollupTypeOK
<1>5. now <= now' /\ updated'[l] > 0 /\ updated'[l] <= now' /\ booked'[l] <= now'
  BY <1>1, <1>2 DEF RollupTypeOK, StampsOK
<1> QED
  BY <1>2, <1>3, <1>4, <1>5, WriteStep

-----------------------------------------------------------------------------
(* Runs *)

\* A step that writes no order and commits no row: days go on record or stay there.
LEMMA QuietStep ==
    ASSUME RollupInv, RollupTypeOK', UNCHANGED <<line, updated, booked, now, shown, watermark>>,
           raced' = raced, left \subseteq left', LockHeld',
           NEW j \in Job, \A k \in Job \ {j} : job'[k] = job[k],
           job'[j].at = "building" =>
              /\ job'[j].day \in Day
              /\ job'[j].sales = Sales(job'[j].day)
                 \/ (job[j].at = "building" /\ job'[j] = job[j]),
           RunInv(j)'
    PROVE  RollupInv'
<1> USE DEF RollupInv
<1>1. \A d \in Day : Sales(d)' = Sales(d) /\ Unmapped(d)' = Unmapped(d) /\ Fresh(d)' = Fresh(d)
  BY DEF Sales, Unmapped, Lines, Fresh
<1>2. \A d \in Day : (Explained(d) => Explained(d)') /\ Changed(d)' = Changed(d)
  BY <1>1 DEF Explained, Changed, Touched
<1>3. StampsOK' /\ NeverCountedTwice'
  BY DEF StampsOK, NeverCountedTwice
<1>4. \A d \in Day : Known(d)' = Known(d) /\ Attributed(d)' = Attributed(d)
  BY DEF Known, Attributed
<1>5. \A d \in Day : Sales(d).sold \cup Sales(d).cancelled \subseteq Attributed(d)
  BY DEF Sales, Lines, Attributed
<1>6. RowsAreOrders'
  <2>1. \A k \in Job : job'[k].at = "building" =>
          /\ job'[k].day \in Day
          /\ job'[k].sales.sold \cup job'[k].sales.cancelled \subseteq Attributed(job'[k].day)
    <3>1. ASSUME NEW k \in Job, job'[k] = job[k], job'[k].at = "building"
          PROVE  /\ job'[k].day \in Day
                 /\ job'[k].sales.sold \cup job'[k].sales.cancelled \subseteq Attributed(job'[k].day)
      BY <3>1 DEF RowsAreOrders
    <3>2. ASSUME job'[j].at = "building", job'[j].day \in Day, job'[j].sales = Sales(job'[j].day)
          PROVE  job'[j].sales.sold \cup job'[j].sales.cancelled \subseteq Attributed(job'[j].day)
      BY <1>5, <3>2
    <3> QED
      BY <3>1, <3>2
  <2> QED
    BY <1>4, <2>1 DEF RowsAreOrders
<1>7. ASSUME NEW k \in Job \ {j} PROVE RunInv(k)'
  <2>1. RunInv(k) /\ job'[k] = job[k] /\ ToDo(k)' = ToDo(k)
    BY DEF ToDo
  <2>2. job[k].at = "building" => job[k].day \in Day
    BY DEF RowsAreOrders
  <2> QED
    BY <1>1, <1>2, <2>1, <2>2 DEF RunInv
<1> QED
  BY <1>2, <1>3, <1>6, <1>7

\* A run begins: the days that changed and that it does not take on are put on record.
LEMMA BeginStep ==
    ASSUME RollupInv, NEW j \in Job, NEW days \in SUBSET Day, NEW passedOver \in SUBSET Day,
           \A d \in Day : Changed(d) => d \in passedOver,
           Begin(j, days, passedOver)
    PROVE  RollupInv'
<1> DEFINE new == [Idle EXCEPT !.at = "next", !.days = Capped(days)]
<1>1. /\ RollupTypeOK /\ LockHeld /\ lock = None /\ lock' = j /\ job[j].at = "idle"
      /\ job' = [job EXCEPT ![j] = new]
      /\ left' = left \cup (passedOver \ Capped(days))
      /\ UNCHANGED <<line, updated, booked, now, shown, watermark, fails, raced>>
  BY DEF RollupInv, Begin, Locked, source
<1>2. Capped(days) \subseteq Day
  BY DEF Capped
<1>3. /\ new \in JobType /\ new.at = "next" /\ new.days = Capped(days)
  BY <1>2 DEF Idle, NoRows, JobType, SalesType
<1> HIDE DEF new
<1>4. /\ job'[j] = new /\ \A k \in Job \ {j} : job'[k] = job[k]
      /\ job' \in [Job -> JobType]
  BY <1>1, <1>3 DEF RollupTypeOK
<1>5. RollupTypeOK'
  BY <1>1, <1>4 DEF RollupTypeOK
<1>6. LockHeld'
  BY <1>1, <1>3, <1>4, NoneAssumption DEF LockHeld
<1>7. RunInv(j)'
  <2>1. ASSUME NEW d \in Day, d \notin Capped(days) PROVE Explained(d)'
    <3>1. Fresh(d)' = Fresh(d)
      BY <1>1 DEF Fresh, Sales, Unmapped, Lines
    <3>2. Explained(d) \/ d \in passedOver
      BY DEF RollupInv
    <3> QED
      BY <1>1, <2>1, <3>1, <3>2 DEF Explained
  <2> QED
    BY <1>3, <1>4, <2>1 DEF RunInv, ToDo
<1> QED
  BY <1>1, <1>3, <1>4, <1>5, <1>6, <1>7, QuietStep

\* The three ways to start a run.
LEMMA StartStep ==
    ASSUME RollupInv, NEW j \in Job, StartHourly(j) \/ StartNightly(j) \/ StartRange(j)
    PROVE  RollupInv'
<1>1. DayOf \in [Line -> Day] /\ Recent \subseteq Day /\ LastDay \in Nat
  BY DayAssumption
<1>2. /\ ChangedDays(watermark) \in SUBSET Day /\ ChangedDays(0) \in SUBSET Day
      /\ DatesToRebuild(watermark) \in SUBSET Day
  BY <1>1 DEF ChangedDays, DatesToRebuild
<1>3. \A d \in Day : Changed(d) => d \in ChangedDays(watermark) /\ d \in ChangedDays(0)
  BY DEF Changed, ChangedDays
<1>4. CASE StartHourly(j)
  BY <1>2, <1>3, <1>4, BeginStep DEF StartHourly, DatesToRebuild
<1>5. CASE StartNightly(j)
  BY <1>1, <1>2, <1>3, <1>5, BeginStep DEF StartNightly
<1>6. CASE StartRange(j)
  <2>1. PICK from \in Day, to \in Day : Begin(j, from..to, ChangedDays(watermark))
    BY <1>6 DEF StartRange
  <2>2. from..to \in SUBSET Day
    BY <1>1 DEF Day
  <2> QED
    BY <1>2, <1>3, <2>1, <2>2, BeginStep
<1> QED
  BY <1>4, <1>5, <1>6

\* rebuild_day: the sales of the first day to do are read.
LEMMA ReadSalesStep ==
    ASSUME RollupInv, NEW j \in Job, ReadSales(j)
    PROVE  RollupInv'
<1>1. /\ RollupTypeOK /\ LockHeld /\ RunInv(j) /\ job[j].at = "next" /\ job[j].days # {}
      /\ UNCHANGED <<line, updated, booked, now, shown, watermark, lock, fails, raced, left>>
  BY DEF RollupInv, ReadSales, source
<1>2. job[j] \in JobType /\ job[j].days \in SUBSET Day
  BY <1>1 DEF RollupTypeOK, JobType
<1>3. PICK d \in Day :
        /\ d \in job[j].days /\ d \in Nat
        /\ job' = [job EXCEPT ![j].at = "building", ![j].day = d,
                              ![j].days = @ \ {d}, ![j].sales = Sales(d)]
  <2>1. Min(job[j].days) \in job[j].days /\ \A d \in Day : d \in Nat
    BY <1>1, <1>2, MinOfNats, DayAssumption DEF Day
  <2> QED
    BY <1>2, <2>1 DEF ReadSales
<1>4. Sales(d) \in SalesType
  BY DEF Sales, SalesType, Lines
<1>5. /\ job'[j] \in JobType /\ job'[j].at = "building" /\ job'[j].day = d
      /\ job'[j].days = job[j].days \ {d} /\ job'[j].sales = Sales(d)
      /\ \A k \in Job \ {j} : job'[k] = job[k]
      /\ job' \in [Job -> JobType]
  <2>1. /\ job'[j] = [job[j] EXCEPT !.at = "building", !.day = d,
                                   !.days = job[j].days \ {d}, !.sales = Sales(d)]
        /\ \A k \in Job \ {j} : job'[k] = job[k]
    BY <1>1, <1>3 DEF RollupTypeOK
  <2>2. /\ job'[j] \in JobType /\ job'[j].at = "building" /\ job'[j].day = d
        /\ job'[j].days = job[j].days \ {d} /\ job'[j].sales = Sales(d)
    <3>1. PICK new : new = job'[j]
      OBVIOUS
    <3>2. new = [job[j] EXCEPT !.at = "building", !.day = d,
                               !.days = job[j].days \ {d}, !.sales = Sales(d)]
      BY <2>1, <3>1
    <3>3. /\ new \in JobType /\ new.at = "building" /\ new.day = d
          /\ new.days = job[j].days \ {d} /\ new.sales = Sales(d)
      <4>1. job[j].days \ {d} \in SUBSET Day /\ d \in Nat
        BY <1>2, <1>3
      <4> QED
        BY <1>2, <1>4, <3>2, <4>1 DEF JobType
    <3> QED
      BY <3>1, <3>3
  <2>3. job' \in [Job -> JobType]
    BY <1>1, <1>3, <2>2 DEF RollupTypeOK
  <2> QED
    BY <2>1, <2>2, <2>3
<1>6. RollupTypeOK'
  BY <1>1, <1>5 DEF RollupTypeOK
<1>7. LockHeld'
  BY <1>1, <1>5 DEF LockHeld
<1>8. Sales(d)' = Sales(d) /\ \A e \in Day : Explained(e)' = Explained(e)
  BY <1>1 DEF Explained, Fresh, Sales, Unmapped, Lines
<1>9. RunInv(j)'
  BY <1>1, <1>3, <1>5, <1>8 DEF RunInv, ToDo
<1> QED
  BY <1>1, <1>3, <1>5, <1>6, <1>7, <1>9, QuietStep

\* The day commits: its rows are right, or it is on record that they are not.
LEMMA CommitDayStep ==
    ASSUME RollupInv, NEW j \in Job, CommitDay(j)
    PROVE  RollupInv'
<1> PICK d : d = job[j].day
  OBVIOUS
<1> DEFINE row == [sales |-> job[j].sales, unmapped |-> Unmapped(d)]
<1>1. /\ RollupTypeOK /\ StampsOK /\ LockHeld /\ RowsAreOrders /\ NeverCountedTwice
      /\ RunInv(j) /\ job[j].at = "building"
      /\ shown' = [shown EXCEPT ![d] = row]
      /\ job' = [job EXCEPT ![j].at = "next", ![j].day = 0, ![j].sales = NoRows.sales]
      /\ IF job[j].sales = Sales(d)
         THEN raced' = raced \ {d} /\ left' = left \ {d}
         ELSE UNCHANGED <<raced, left>>
      /\ UNCHANGED <<line, updated, booked, now, watermark, lock, fails>>
  BY DEF RollupInv, CommitDay, source
<1>2. /\ job[j] \in JobType /\ d \in Day /\ job[j].sales \in SalesType
      /\ job[j].sales.sold \cup job[j].sales.cancelled \subseteq Attributed(d)
  BY <1>1 DEF RollupTypeOK, RowsAreOrders, JobType
<1>3. Unmapped(d) \subseteq Line /\ Unmapped(d) \cap Attributed(d) = {}
  BY DEF Unmapped, Lines, Attributed
<1>4. /\ job'[j] \in JobType /\ job'[j].at = "next" /\ job'[j].days = job[j].days
      /\ \A k \in Job \ {j} : job'[k] = job[k]
      /\ job' \in [Job -> JobType]
  <2>1. /\ job'[j] = [job[j] EXCEPT !.at = "next", !.day = 0, !.sales = NoRows.sales]
        /\ \A k \in Job \ {j} : job'[k] = job[k]
    BY <1>1 DEF RollupTypeOK
  <2>2. NoRows.sales \in SalesType
    BY DEF NoRows, SalesType
  <2>3. job'[j] \in JobType /\ job'[j].at = "next" /\ job'[j].days = job[j].days
    <3>1. PICK new : new = job'[j]
      OBVIOUS
    <3>2. new = [job[j] EXCEPT !.at = "next", !.day = 0, !.sales = NoRows.sales]
      BY <2>1, <3>1
    <3>3. new \in JobType /\ new.at = "next" /\ new.days = job[j].days
      BY <1>2, <2>2, <3>2 DEF JobType
    <3> QED
      BY <3>1, <3>3
  <2>4. job' \in [Job -> JobType]
    BY <1>1, <2>3 DEF RollupTypeOK
  <2> QED
    BY <2>1, <2>3, <2>4
<1>5. /\ shown'[d] = row /\ \A e \in Day \ {d} : shown'[e] = shown[e]
      /\ shown' \in [Day -> [sales : SalesType, unmapped : SUBSET Line]]
  <2>1. row \in [sales : SalesType, unmapped : SUBSET Line]
    BY <1>2, <1>3
  <2> HIDE DEF row
  <2> QED
    BY <1>1, <1>2, <2>1 DEF RollupTypeOK
<1>6. RollupTypeOK'
  BY <1>1, <1>4, <1>5 DEF RollupTypeOK
<1>7. StampsOK' /\ LockHeld'
  BY <1>1, <1>4 DEF StampsOK, LockHeld
<1>8. \A e \in Day : /\ Sales(e)' = Sales(e) /\ Unmapped(e)' = Unmapped(e)
                     /\ Known(e)' = Known(e) /\ Attributed(e)' = Attributed(e)
                     /\ Changed(e)' = Changed(e)
  BY <1>1 DEF Sales, Unmapped, Lines, Known, Attributed, Changed, Touched
<1>9. Explained(d)'
  <2>1. CASE job[j].sales = Sales(d)
    BY <1>2, <1>5, <1>8, <2>1 DEF Explained, Fresh
  <2>2. CASE job[j].sales # Sales(d)
    BY <1>1, <2>2 DEF Explained, RunInv
  <2> QED
    BY <2>1, <2>2
<1>10. \A e \in Day : Explained(e) => Explained(e)'
  <2>1. ASSUME NEW e \in Day \ {d}, Explained(e) PROVE Explained(e)'
    BY <1>1, <1>5, <1>8, <2>1 DEF Explained, Fresh
  <2> QED
    BY <1>9, <2>1
<1>11. Attributed(d) \subseteq Known(d) /\ Unmapped(d) \subseteq Known(d)
  BY <1>1 DEF Attributed, Known, Unmapped, Lines, StampsOK
<1>12. RowsAreOrders'
  <2>1. ASSUME NEW k \in Job, job'[k].at = "building"
        PROVE  /\ job'[k].day \in Day
               /\ job'[k].sales.sold \cup job'[k].sales.cancelled \subseteq Attributed(job'[k].day)
    BY <1>1, <1>4, <2>1 DEF RowsAreOrders
  <2>2. ASSUME NEW e \in Day
        PROVE  shown'[e].sales.sold \cup shown'[e].sales.cancelled \cup shown'[e].unmapped
                  \subseteq Known(e)
    BY <1>1, <1>2, <1>5, <1>11 DEF RowsAreOrders
  <2> QED
    BY <1>8, <2>1, <2>2 DEF RowsAreOrders
<1>13. NeverCountedTwice'
  BY <1>1, <1>2, <1>3, <1>5 DEF NeverCountedTwice
<1>14. ASSUME NEW k \in Job PROVE RunInv(k)'
  <2>1. CASE k = j
    BY <1>1, <1>4, <1>9, <1>10, <2>1 DEF RunInv, ToDo
  <2>2. CASE k # j
    <3>1. job'[k] = job[k] /\ ToDo(k)' = ToDo(k) /\ RunInv(k) /\ job[k].at # "building"
      BY <1>1, <1>4, <2>2 DEF ToDo, LockHeld, RollupInv
    <3> QED
      BY <1>10, <3>1 DEF RunInv
  <2> QED
    BY <2>1, <2>2
<1>15. \A e \in Day : Explained(e)' \/ Changed(e)'
  BY <1>8, <1>10 DEF RollupInv
<1> QED
  BY <1>6, <1>7, <1>12, <1>13, <1>14, <1>15 DEF RollupInv

\* Unlock: days that are pruned are on record as left.
LEMMA UnlockStep ==
    ASSUME RollupInv, NEW j \in Job, Unlock(j)
    PROVE  RollupInv'
<1>1. /\ RollupTypeOK /\ StampsOK /\ LockHeld /\ RowsAreOrders /\ NeverCountedTwice
      /\ RunInv(j) /\ job[j].at = "next" /\ job[j].days = {}
      /\ lock' = None /\ job' = [job EXCEPT ![j].at = "unlocked"]
      /\ UNCHANGED <<line, updated, booked, now, watermark, fails, raced>>
  BY DEF RollupInv, Unlock, source
<1>2. PICK before \in Day :
        /\ shown' = [d \in Day |-> IF d < before THEN NoRows ELSE shown[d]]
        /\ left' = left \cup (1..(before - 1))
  BY DayAssumption DEF Unlock, Day
<1>3. /\ left' \subseteq Day /\ left \subseteq left'
      /\ \A d \in Day : d < before => d \in left'
  BY <1>1, <1>2, DayAssumption DEF RollupTypeOK, Day
<1>4. /\ job'[j] \in JobType /\ job'[j].at = "unlocked" /\ job'[j].days = {}
      /\ \A k \in Job \ {j} : job'[k] = job[k]
      /\ job' \in [Job -> JobType]
  <2>1. job[j] \in JobType
    BY <1>1 DEF RollupTypeOK
  <2>2. /\ job'[j] = [job[j] EXCEPT !.at = "unlocked"]
        /\ \A k \in Job \ {j} : job'[k] = job[k]
    BY <1>1 DEF RollupTypeOK
  <2>3. job'[j] \in JobType /\ job'[j].at = "unlocked" /\ job'[j].days = {}
    BY <1>1, <2>1, <2>2 DEF JobType
  <2>4. job' \in [Job -> JobType]
    BY <1>1, <2>3 DEF RollupTypeOK
  <2> QED
    BY <2>2, <2>3, <2>4
<1>5. NoRows \in [sales : SalesType, unmapped : SUBSET Line]
  BY DEF NoRows, SalesType
<1>6. RollupTypeOK'
  BY <1>1, <1>2, <1>3, <1>4, <1>5 DEF RollupTypeOK
<1>7. StampsOK' /\ LockHeld'
  BY <1>1, <1>4 DEF StampsOK, LockHeld
<1>8. \A e \in Day : /\ Sales(e)' = Sales(e) /\ Unmapped(e)' = Unmapped(e)
                     /\ Known(e)' = Known(e) /\ Attributed(e)' = Attributed(e)
                     /\ Changed(e)' = Changed(e)
  BY <1>1 DEF Sales, Unmapped, Lines, Known, Attributed, Changed, Touched
<1>9. \A e \in Day : shown'[e] = shown[e] \/ (shown'[e] = NoRows /\ e \in left')
  BY <1>2, <1>3
<1>10. \A e \in Day : Explained(e) => Explained(e)'
  BY <1>1, <1>3, <1>8, <1>9 DEF Explained, Fresh
<1>11. RowsAreOrders'
  <2>1. ASSUME NEW e \in Day
        PROVE  shown'[e].sales.sold \cup shown'[e].sales.cancelled \cup shown'[e].unmapped
                  \subseteq Known(e)
    BY <1>1, <1>9 DEF RowsAreOrders, NoRows
  <2>2. ASSUME NEW k \in Job, job'[k].at = "building" PROVE job'[k] = job[k]
    BY <1>4, <2>2
  <2>3. ASSUME NEW k \in Job, job'[k].at = "building"
        PROVE  /\ job'[k].day \in Day
               /\ job'[k].sales.sold \cup job'[k].sales.cancelled \subseteq Attributed(job'[k].day)
    BY <1>1, <2>2, <2>3 DEF RowsAreOrders
  <2> QED
    BY <1>8, <2>1, <2>3 DEF RowsAreOrders
<1>12. NeverCountedTwice'
  BY <1>1, <1>9 DEF NeverCountedTwice, NoRows
<1>13. ASSUME NEW k \in Job PROVE RunInv(k)'
  <2>1. CASE k = j
    BY <1>1, <1>4, <1>10, <2>1 DEF RunInv, ToDo
  <2>2. CASE k # j
    <3>1. job'[k] = job[k] /\ ToDo(k)' = ToDo(k) /\ RunInv(k) /\ job[k].at # "building"
      BY <1>1, <1>4, <2>2 DEF ToDo, LockHeld, RollupInv
    <3> QED
      BY <1>10, <3>1 DEF RunInv
  <2> QED
    BY <2>1, <2>2
<1>14. \A e \in Day : Explained(e)' \/ Changed(e)'
  BY <1>8, <1>10 DEF RollupInv
<1> QED
  BY <1>6, <1>7, <1>11, <1>12, <1>13, <1>14 DEF RollupInv

\* _record_run: the watermark passes every write, and no day that still needs them.
LEMMA RecordSuccessStep ==
    ASSUME RollupInv, NEW j \in Job, RecordSuccess(j)
    PROVE  RollupInv'
<1>1. /\ RollupTypeOK /\ StampsOK /\ LockHeld /\ RowsAreOrders /\ NeverCountedTwice
      /\ RunInv(j) /\ job[j].at = "unlocked"
      /\ watermark' = now /\ job' = [job EXCEPT ![j] = Idle]
      /\ UNCHANGED <<line, updated, booked, now, shown, lock, fails, raced, left>>
  BY DEF RollupInv, RecordSuccess, source
<1>2. /\ Idle \in JobType /\ Idle.at = "idle"
  BY DEF Idle, NoRows, JobType, SalesType
<1>3. /\ job'[j] = Idle /\ \A k \in Job \ {j} : job'[k] = job[k]
      /\ job' \in [Job -> JobType]
  BY <1>1, <1>2 DEF RollupTypeOK
<1>4. RollupTypeOK'
  BY <1>1, <1>3 DEF RollupTypeOK
<1>5. StampsOK' /\ LockHeld' /\ NeverCountedTwice'
  BY <1>1, <1>2, <1>3 DEF StampsOK, LockHeld, NeverCountedTwice, RollupTypeOK
<1>6. \A d \in Day : Explained(d)' = Explained(d) /\ Sales(d)' = Sales(d)
  BY <1>1 DEF Explained, Fresh, Sales, Unmapped, Lines
<1>7. \A d \in Day : Explained(d)
  BY <1>1 DEF RunInv, ToDo
<1>8. RowsAreOrders'
  BY <1>1, <1>2, <1>3 DEF RowsAreOrders, Known, Attributed
<1>9. ASSUME NEW k \in Job PROVE RunInv(k)'
  <2>1. CASE k = j
    BY <1>2, <1>3, <2>1 DEF RunInv
  <2>2. CASE k # j
    BY <1>1, <1>3, <1>6, <1>7, <2>2 DEF RunInv, RollupInv, RowsAreOrders
  <2> QED
    BY <2>1, <2>2
<1> QED
  BY <1>4, <1>5, <1>6, <1>7, <1>8, <1>9 DEF RollupInv

\* A run that fails gives up its lock and records nothing.
LEMMA FailStep ==
    ASSUME RollupInv, NEW j \in Job, Fail(j)
    PROVE  RollupInv'
<1>1. /\ RollupTypeOK /\ LockHeld /\ job' = [job EXCEPT ![j] = Idle] /\ fails' = fails + 1
      /\ lock' = IF lock = j THEN None ELSE lock
      /\ UNCHANGED <<line, updated, booked, now, shown, watermark, raced, left>>
  BY DEF RollupInv, Fail, source
<1>2. /\ Idle \in JobType /\ Idle.at = "idle"
  BY DEF Idle, NoRows, JobType, SalesType
<1>3. /\ job'[j] = Idle /\ \A k \in Job \ {j} : job'[k] = job[k]
      /\ job' \in [Job -> JobType]
  BY <1>1, <1>2 DEF RollupTypeOK
<1>4. RollupTypeOK' /\ LockHeld' /\ RunInv(j)'
  BY <1>1, <1>2, <1>3 DEF RollupTypeOK, LockHeld, RunInv
<1> QED
  BY <1>1, <1>2, <1>3, <1>4, QuietStep

-----------------------------------------------------------------------------
(* The invariant and what follows from it *)

LEMMA RollupInit == ASSUME Init PROVE RollupInv
<1>1. Idle \in JobType /\ Idle.at = "idle" /\ NoRows \in [sales : SalesType, unmapped : SUBSET Line]
  BY DEF Idle, NoRows, JobType, SalesType
<1>2. RollupTypeOK
  BY <1>1 DEF Init, RollupTypeOK, State
<1>3. StampsOK /\ LockHeld /\ \A j \in Job : job[j].at = "idle"
  BY <1>1 DEF Init, StampsOK, LockHeld
<1>4. \A d \in Day : shown[d] = NoRows
  BY DEF Init
<1>5. RowsAreOrders /\ NeverCountedTwice
  BY <1>3, <1>4 DEF RowsAreOrders, NeverCountedTwice, NoRows
<1>6. \A d \in Day : Fresh(d)
  <2>1. \A d \in Day : Sales(d) = NoRows.sales /\ Unmapped(d) = {}
    BY DEF Init, Sales, Unmapped, Lines, NoRows
  <2> QED
    BY <1>4, <2>1 DEF Fresh, NoRows
<1> QED
  BY <1>2, <1>3, <1>5, <1>6 DEF RollupInv, Explained, RunInv

LEMMA RollupStep == ASSUME RollupInv, [Next]_vars PROVE RollupInv'
<1>1. ASSUME NEW l \in Line, Order(l) \/ Cancel(l) \/ Rewrite(l) \/ Attribute(l) PROVE RollupInv'
  <2>1. PICK state \in State \ {"absent"}, stamped \in (SUBSET {"order", "event"}) \ {{}} :
           /\ Put(l, state, stamped)
           /\ line[l] \in {"mapped", "cancelled"} => state \in {"mapped", "cancelled"}
           /\ line[l] = "absent" => "order" \in stamped
    <3>1. line[l] \in State
      BY DEF RollupInv, RollupTypeOK
    <3>2. /\ {"order"} \in (SUBSET {"order", "event"}) \ {{}}
          /\ {"order", "event"} \in (SUBSET {"order", "event"}) \ {{}}
      OBVIOUS
    <3>3. CASE Order(l)
      BY <3>2, <3>3 DEF Order, State
    <3>4. CASE Cancel(l)
      BY <3>2, <3>4 DEF Cancel, State
    <3>5. CASE Rewrite(l)
      BY <3>1, <3>2, <3>5 DEF Rewrite, State
    <3>6. CASE Attribute(l)
      BY <3>6 DEF Attribute, State
    <3> QED
      BY <1>1, <3>3, <3>4, <3>5, <3>6
  <2> QED
    BY <2>1, PutStep
<1>2. ASSUME NEW l \in Line, AttributeUnstamped(l) PROVE RollupInv'
  BY <1>2, UnstampedStep
<1>3. ASSUME NEW j \in Job, StartHourly(j) \/ StartNightly(j) \/ StartRange(j) PROVE RollupInv'
  BY <1>3, StartStep
<1>4. ASSUME NEW j \in Job, Step(j) \/ Fail(j) PROVE RollupInv'
  BY <1>4, ReadSalesStep, CommitDayStep, UnlockStep, RecordSuccessStep, FailStep DEF Step
<1>5. CASE UNCHANGED vars
  <2>1. UNCHANGED <<line, updated, booked, now, shown, watermark, lock, job, fails, raced, left>>
    BY <1>5 DEF vars, source
  <2>2. /\ RollupTypeOK' /\ StampsOK' /\ LockHeld' /\ RowsAreOrders' /\ NeverCountedTwice'
    BY <2>1 DEF RollupInv, RollupTypeOK, StampsOK, LockHeld, RowsAreOrders, NeverCountedTwice,
                Known, Attributed
  <2>3. \A d \in Day : Sales(d)' = Sales(d) /\ Explained(d)' = Explained(d) /\ Changed(d)' = Changed(d)
    BY <2>1 DEF Sales, Explained, Fresh, Unmapped, Lines, Changed, Touched
  <2>4. \A j \in Job : RunInv(j)'
    BY <2>1, <2>3 DEF RollupInv, RunInv, ToDo, RowsAreOrders
  <2> QED
    BY <2>2, <2>3, <2>4 DEF RollupInv
<1> QED
  BY <1>1, <1>2, <1>3, <1>4, <1>5 DEF Next

\* In every reachable state, with runs of all kinds, failures and writes in any order,
\* the rollup is typed, one run builds at a time, and a run about to record its success
\* leaves no stale day that is not on record.
THEOREM RollupCorrect == Spec => []RollupInv
<1>1. Init => RollupInv
  BY RollupInit
<1>2. RollupInv /\ [Next]_vars => RollupInv'
  BY RollupStep
<1> QED
  BY <1>1, <1>2, PTL DEF Spec

\* rebuild_day and dates_to_rebuild: no line is counted both as a sale and as unmapped,
\* and a day whose rows are wrong will be rebuilt by the next hourly run or is one of
\* those that were raced, passed over or written without a stamp.
THEOREM RollupTellsOrders == Spec => []RowsTellOrders
<1>1. RollupInv => RowsTellOrders
  BY DEF RollupInv, RowsTellOrders, StaleHasReason, Explained, Changed
<1> QED
  BY <1>1, RollupCorrect, PTL

-----------------------------------------------------------------------------
(***************************************************************************)
(* The stock figures (StockScreens), for all that StockFigures does.       *)
(***************************************************************************)
CONSTANTS Sku, RepairDays, First, Counts, MaxMoves
VARIABLE moves

Figures == INSTANCE StockFigures

-----------------------------------------------------------------------------
(* Balances *)

\* The log by day and SKU, and the sum of a SKU's first days.
Log == [Figures!Day -> [Sku -> [used : Int, back : Int, other : Int]]]

Nets(log, d, s) == [e \in 1 .. d |-> log[e][s].back + log[e][s].other - log[e][s].used]

\* A balance adds up what has moved.
LEMMA BalanceIsSum ==
    ASSUME NEW d, NEW s
    PROVE  /\ Balance(d, s) = SumOver(Nets(moved, d, s), 1 .. d)
           /\ Balance(d, s)' = SumOver(Nets(moved', d, s), 1 .. d)
           /\ Figures!Balance(d, s) = Balance(d, s)
<1>1. Balance(d, s) = SumOver(Nets(moved, d, s), 1 .. d)
  BY DEF Balance, Net, Nets, MapThenSumSet, MapThenFoldSet, SumOver, IsSum
<1>2. Balance(d, s)' = SumOver(Nets(moved', d, s), 1 .. d)
  BY DEF Balance, Net, Nets, MapThenSumSet, MapThenFoldSet, SumOver, IsSum
<1>3. Figures!Balance(d, s) = SumOver(Nets(moved, d, s), 1 .. d)
  BY DEF Figures!Balance, Figures!Net, Nets, Figures!MapThenSumSet, Figures!MapThenFoldSet, SumOver, IsSum
<1> QED
  BY <1>1, <1>2, <1>3

\* A balance is a number, and the walk over one day takes it to the next.
LEMMA BalanceWalks ==
    ASSUME LastDay \in Nat, moved \in Log, NEW d \in Figures!Day, NEW s \in Sku
    PROVE  /\ Net(d, s) \in Int /\ Balance(d, s) \in Int /\ Balance(d - 1, s) \in Int
           /\ Balance(d, s) = Balance(d - 1, s) + Net(d, s)
<1> DEFINE w == Nets(moved, d, s)
           v == Nets(moved, d - 1, s)
<1>1. d \in Nat /\ d >= 1 /\ 1 .. d \in SUBSET Figures!Day /\ d \in 1 .. d
  BY DEF Figures!Day
<1>2. \A e \in 1 .. d : w[e] \in Int
  BY <1>1 DEF Nets, Log
<1>3. w[d] = Net(d, s)
  BY <1>1 DEF Nets, Net
<1>4. (1 .. d) \ {d} = 1 .. (d - 1) /\ IsFiniteSet(1 .. d) /\ IsFiniteSet(1 .. (d - 1))
  <2>1. (1 .. d) \ {d} = 1 .. (d - 1)
    BY <1>1
  <2>2. d \in Int /\ d - 1 \in Int /\ 1 \in Int
    BY <1>1
  <2> QED
    BY <2>1, <2>2, FS_Interval
<1>5. \A e \in 1 .. (d - 1) : v[e] = w[e] /\ v[e] \in Int
  BY <1>1, <1>2 DEF Nets
<1> HIDE DEF w, v
<1>6. SumOver(w, 1 .. d) = w[d] + SumOver(w, 1 .. (d - 1))
  BY <1>1, <1>2, <1>4, SumRemove
<1>7. SumOver(w, 1 .. (d - 1)) = SumOver(v, 1 .. (d - 1))
  BY <1>4, <1>5, SumEqual
<1>8. SumOver(w, 1 .. d) \in Int /\ SumOver(v, 1 .. (d - 1)) \in Int
  BY <1>2, <1>4, <1>5, SumType
<1>9. Balance(d, s) = SumOver(w, 1 .. d) /\ Balance(d - 1, s) = SumOver(v, 1 .. (d - 1))
  BY BalanceIsSum DEF w, v
<1> QED
  BY <1>1, <1>2, <1>3, <1>6, <1>7, <1>8, <1>9

\* A balance depends on the days up to it.
LEMMA BalanceKept ==
    ASSUME LastDay \in Nat, NEW d \in Figures!Day, NEW s \in Sku,
           \A e \in 1 .. d : moved'[e][s] = moved[e][s]
    PROVE  Balance(d, s)' = Balance(d, s)
<1>1. Nets(moved', d, s) = Nets(moved, d, s)
  BY DEF Nets
<1> QED
  BY <1>1, BalanceIsSum

-----------------------------------------------------------------------------
(* The rows and their reasons *)

\* Every table holds values of its columns' types.
StockType ==
    /\ moved \in Log
    /\ today \in Figures!Day
    /\ population \in SUBSET Sku
    /\ changed \in SUBSET Figures!Day
    /\ DOMAIN grid \in SUBSET (Figures!Day \X Sku)
    /\ \A key \in DOMAIN grid : grid[key].onHand \in Int /\ grid[key].used \in Int

\* What the rows say needs nothing else to be inductive.
StockInv == StockType /\ RowsLagForAReason

\* On the first day there are no rows.
LEMMA StockInit ==
    ASSUME LastDay \in Nat \ {0}, First \in [Sku -> Int], Figures!Init
    PROVE  StockInv
<1>1. moved \in Log
  BY DEF Figures!Init, Figures!NoMoves, Log
<1>2. DOMAIN grid = {}
  BY DEF Figures!Init
<1>3. today \in Figures!Day /\ changed \in SUBSET Figures!Day /\ population \in SUBSET Sku
  BY DEF Figures!Init, Figures!Day
<1> QED
  BY <1>1, <1>2, <1>3 DEF StockInv, StockType, RowsLagForAReason

\* Book: the day itself counts as changed, the days after it as shadowed.
LEMMA BookKeeps ==
    ASSUME LastDay \in Nat, StockInv,
           NEW d \in 1 .. today, NEW s \in Sku, NEW kind \in {"used", "back", "other"}, NEW q \in Int,
           Figures!Book(d, s, kind, q)
    PROVE  StockInv'
<1> USE DEF StockInv, StockType
<1>1. d \in Figures!Day
  BY DEF Figures!Day
<1>2. moved' = [moved EXCEPT ![d][s][kind] = @ + q]
  BY DEF Figures!Book
<1>3. moved' \in Log
  <2>1. PICK row : row = [moved[d][s] EXCEPT ![kind] = @ + q]
    OBVIOUS
  <2>2. row \in [used : Int, back : Int, other : Int]
    BY <1>1, <2>1 DEF Log
  <2>3. moved' = [moved EXCEPT ![d] = [moved[d] EXCEPT ![s] = row]]
    BY <1>1, <1>2, <2>1 DEF Log
  <2> QED
    BY <1>1, <2>2, <2>3 DEF Log
<1>4. \A e \in Figures!Day : \A t \in Sku : e # d => moved'[e][t] = moved[e][t]
  BY <1>1, <1>2 DEF Log
<1>5. ASSUME NEW key \in DOMAIN grid', key[1] \notin (changed \cup passed \cup shadow)',
             key[1] \in Figures!Day, key[2] \in Sku
      PROVE  Balance(key[1], key[2])' = Balance(key[1], key[2])
  <2>1. key[1] # d /\ ~(key[1] \in (d + 1) .. LastDay)
    BY <1>5 DEF Figures!Book
  <2>2. key[1] < d
    BY <1>1, <1>5, <2>1 DEF Figures!Day
  <2>3. \A e \in 1 .. key[1] : moved'[e][key[2]] = moved[e][key[2]]
    BY <1>1, <1>4, <1>5, <2>2 DEF Figures!Day
  <2> QED
    BY <1>5, <2>3, BalanceKept
<1>6. RowsLagForAReason'
  <2>1. ASSUME NEW key \in DOMAIN grid'
        PROVE  /\ grid'[key].used # moved'[key[1]][key[2]].used
                    \/ grid'[key].back # moved'[key[1]][key[2]].back => key[1] \in (changed \cup passed)'
               /\ grid'[key].onHand # Balance(key[1], key[2])' => key[1] \in (changed \cup passed \cup shadow)'
    <3>1. key \in DOMAIN grid /\ grid'[key] = grid[key] /\ key[1] \in Figures!Day /\ key[2] \in Sku
      BY DEF Figures!Book
    <3>2. d \in changed' /\ changed \subseteq changed' /\ passed' = passed /\ shadow \subseteq shadow'
      BY DEF Figures!Book
    <3>3. /\ grid[key].used # moved[key[1]][key[2]].used
                \/ grid[key].back # moved[key[1]][key[2]].back => key[1] \in changed \cup passed
          /\ grid[key].onHand # Balance(key[1], key[2]) => key[1] \in changed \cup passed \cup shadow
      BY <3>1 DEF RowsLagForAReason
    <3>4. key[1] # d => moved'[key[1]][key[2]] = moved[key[1]][key[2]]
      BY <1>4, <3>1
    <3> QED
      BY <1>5, <3>1, <3>2, <3>3, <3>4
  <2> QED
    BY <2>1 DEF RowsLagForAReason
<1> QED
  BY <1>1, <1>3, <1>6 DEF Figures!Book

\* Run: the rows it writes are exact, the others keep their reason.
LEMMA RunKeeps ==
    ASSUME LastDay \in Nat, StockInv, NEW days \in SUBSET Figures!Day, NEW leaves,
           Figures!Run(days, leaves), changed \subseteq days \cup leaves
    PROVE  StockInv'
<1> USE DEF StockInv, StockType
<1>1. /\ DOMAIN grid' = {k \in DOMAIN grid : k[1] \notin days} \cup (days \X population)
      /\ \A key \in DOMAIN grid' :
            /\ key[1] \in days /\ key[2] \in population => grid'[key] = StockRow(key[1], key[2])
            /\ key[1] \notin days => key \in DOMAIN grid /\ grid'[key] = grid[key]
            /\ key[1] \in days => key[2] \in population
  <2>1. grid' = [key \in {k \in DOMAIN grid : k[1] \notin days} \cup (days \X population) |->
                  IF key[1] \in days THEN StockRow(key[1], key[2]) ELSE grid[key]]
    BY BalanceIsSum DEF Figures!Run, Figures!GridOf, Figures!StockRow, StockRow, Figures!Opening, Opening,
       Figures!Net, Net
  <2> QED
    BY <2>1
<1>2. /\ UNCHANGED <<moved, population, today>> /\ changed' = {}
      /\ passed' = (passed \cup leaves) \ days /\ shadow' = shadow \ days
  BY DEF Figures!Run
<1>3. \A d \in Figures!Day, s \in Sku :
         /\ Balance(d, s)' = Balance(d, s)
         /\ StockRow(d, s).onHand = Balance(d, s) /\ Balance(d, s) \in Int
         /\ StockRow(d, s).used = moved[d][s].used /\ StockRow(d, s).back = moved[d][s].back
  <2>1. ASSUME NEW d \in Figures!Day, NEW s \in Sku
        PROVE  /\ Balance(d, s)' = Balance(d, s)
               /\ StockRow(d, s).onHand = Balance(d, s) /\ Balance(d, s) \in Int
               /\ StockRow(d, s).used = moved[d][s].used /\ StockRow(d, s).back = moved[d][s].back
    <3>1. Balance(d, s)' = Balance(d, s)
      BY <1>2, BalanceKept
    <3> QED
      BY <3>1, BalanceWalks DEF StockRow, Opening
  <2> QED
    BY <2>1
<1>4. StockType'
  <2>1. DOMAIN grid' \in SUBSET (Figures!Day \X Sku)
    BY <1>1
  <2>2. \A key \in DOMAIN grid' : grid'[key].onHand \in Int /\ grid'[key].used \in Int
    <3>1. ASSUME NEW key \in DOMAIN grid' PROVE grid'[key].onHand \in Int /\ grid'[key].used \in Int
      <4>1. CASE key[1] \in days
        <5>1. key[1] \in Figures!Day /\ key[2] \in Sku /\ moved[key[1]][key[2]].used \in Int
          BY <2>1, <4>1 DEF Log
        <5> QED
          BY <1>1, <1>3, <4>1, <5>1
      <4>2. CASE key[1] \notin days
        BY <1>1, <4>2
      <4> QED
        BY <4>1, <4>2
    <3> QED
      BY <3>1
  <2> QED
    BY <1>2, <2>1, <2>2
<1>5. RowsLagForAReason'
  <2>1. ASSUME NEW key \in DOMAIN grid'
        PROVE  /\ grid'[key].used # moved'[key[1]][key[2]].used
                    \/ grid'[key].back # moved'[key[1]][key[2]].back => key[1] \in (changed \cup passed)'
               /\ grid'[key].onHand # Balance(key[1], key[2])' => key[1] \in (changed \cup passed \cup shadow)'
    <3>1. key[1] \in Figures!Day /\ key[2] \in Sku
      BY <1>4
    <3>2. CASE key[1] \in days
      BY <1>1, <1>2, <1>3, <3>1, <3>2
    <3>3. CASE key[1] \notin days
      <4>1. key \in DOMAIN grid /\ grid'[key] = grid[key]
        BY <1>1, <3>3
      <4>2. /\ grid[key].used # moved[key[1]][key[2]].used
                \/ grid[key].back # moved[key[1]][key[2]].back => key[1] \in changed \cup passed
            /\ grid[key].onHand # Balance(key[1], key[2]) => key[1] \in changed \cup passed \cup shadow
        BY <4>1 DEF RowsLagForAReason
      <4> QED
        BY <1>2, <1>3, <3>1, <3>3, <4>1, <4>2
    <3> QED
      BY <3>2, <3>3
  <2> QED
    BY <2>1 DEF RowsLagForAReason
<1> QED
  BY <1>4, <1>5

\* Every step keeps the rows and their reasons.
LEMMA StockStep ==
    ASSUME LastDay \in Nat \ {0}, RepairDays \in Int, Counts \subseteq Int,
           StockInv, [Figures!Next]_Figures!vars
    PROVE  StockInv'
<1>1. ASSUME NEW s \in Sku, Figures!Consume(s) PROVE StockInv'
  BY <1>1, BookKeeps DEF Figures!Consume
<1>2. ASSUME NEW s \in Sku, Figures!Return(s) PROVE StockInv'
  <2>1. PICK d \in 1 .. today : Figures!Book(d, s, "back", 1)
    BY <1>2 DEF Figures!Return
  <2> QED
    BY <2>1, BookKeeps
<1>3. ASSUME NEW s \in Sku, Figures!Count(s) PROVE StockInv'
  <2>1. PICK q \in Counts : Figures!Book(today, s, "other", q - Figures!OnHand(s))
    BY <1>3 DEF Figures!Count
  <2>2. Figures!OnHand(s) \in Int
    BY BalanceIsSum, BalanceWalks DEF Figures!OnHand, StockInv, StockType
  <2>3. today \in 1 .. today /\ q - Figures!OnHand(s) \in Int
    BY <2>2 DEF StockInv, StockType, Figures!Day
  <2> QED
    BY <2>1, <2>3, BookKeeps
<1>4. ASSUME NEW s \in Sku, Figures!Reclassify(s) PROVE StockInv'
  <2>1. \A d \in Figures!Day, t \in Sku : Balance(d, t)' = Balance(d, t)
    BY <1>4, BalanceKept DEF Figures!Reclassify
  <2> QED
    BY <1>4, <2>1 DEF Figures!Reclassify, StockInv, StockType, RowsLagForAReason
<1>5. CASE Figures!Tomorrow
  <2>1. \A d \in Figures!Day, t \in Sku : Balance(d, t)' = Balance(d, t)
    BY <1>5, BalanceKept DEF Figures!Tomorrow
  <2>2. today' \in Figures!Day
    BY <1>5 DEF Figures!Tomorrow, Figures!Day, StockInv, StockType
  <2> QED
    BY <1>5, <2>1, <2>2 DEF Figures!Tomorrow, StockInv, StockType, RowsLagForAReason
<1>6. CASE Figures!Hourly
  <2>1. changed \in SUBSET Figures!Day
    BY DEF StockInv, StockType
  <2> QED
    BY <1>6, <2>1, RunKeeps DEF Figures!Hourly, Figures!DatesToRebuild
<1>7. CASE Figures!Nightly
  <2>1. ((today - RepairDays + 1) .. today) \cap Figures!Day \in SUBSET Figures!Day
    OBVIOUS
  <2> QED
    BY <1>7, <2>1, RunKeeps DEF Figures!Nightly
<1>8. CASE UNCHANGED Figures!vars
  <2>1. \A d \in Figures!Day, t \in Sku : Balance(d, t)' = Balance(d, t)
    BY <1>8, BalanceKept DEF Figures!vars
  <2> QED
    BY <1>8, <2>1 DEF Figures!vars, StockInv, StockType, RowsLagForAReason
<1> QED
  BY <1>1, <1>2, <1>3, <1>4, <1>5, <1>6, <1>7, <1>8 DEF Figures!Next

-----------------------------------------------------------------------------
(* Rates and thresholds *)

\* Thresholds that make sense of the badges: none is below 1.
ThresholdsFit ==
    /\ MinThreshold \in Nat \ {0} /\ MaxThreshold \in Int /\ Fallback \in Nat \ {0}
    /\ MinDays \in Nat \ {0} /\ Cover \in Int /\ Window \in Int

\* The sum of the rates, as a sum over a function.
LEMMA UsedIsSum ==
    ASSUME NEW rows, NEW S
    PROVE  /\ MapThenSumSet(LAMBDA k : rows[k].used, S) = SumOver([k \in S |-> rows[k].used], S)
           /\ Figures!MapThenSumSet(LAMBDA k : rows[k].used, S) = SumOver([k \in S |-> rows[k].used], S)
<1>1. MapThenSumSet(LAMBDA k : rows[k].used, S) = SumOver([k \in S |-> rows[k].used], S)
  BY DEF MapThenSumSet, MapThenFoldSet, SumOver, IsSum
<1>2. Figures!MapThenSumSet(LAMBDA k : rows[k].used, S) = SumOver([k \in S |-> rows[k].used], S)
  BY DEF Figures!MapThenSumSet, Figures!MapThenFoldSet, SumOver, IsSum
<1> QED
  BY <1>1, <1>2

\* Figures counts sets as everybody does.
LEMMA SameCount == \A S : Figures!Cardinality(S) = Cardinality(S)
  BY DEF Figures!Cardinality, Cardinality

\* velocities: what a window says of a SKU are numbers.
LEMMA RateType ==
    ASSUME NEW rows, IsFiniteSet(DOMAIN rows), \A k \in DOMAIN rows : rows[k].used \in Int,
           NEW window, NEW s
    PROVE  /\ Rate(rows, window, s).observed \in Nat /\ Rate(rows, window, s).consumed \in Int
           /\ Figures!Rate(rows, window, s) = Rate(rows, window, s)
<1>1. PICK keys : keys = {k \in DOMAIN rows : k[1] \in window /\ k[2] = s}
  OBVIOUS
<1>2. PICK w : w = [k \in keys |-> rows[k].used]
  OBVIOUS
<1>3. IsFiniteSet(keys) /\ \A k \in keys : w[k] \in Int
  BY <1>1, <1>2, FS_Subset
<1>4. SumOver(w, keys) \in Int /\ Cardinality(keys) \in Nat
  BY <1>3, SumType, FS_CardinalityType
<1>5. /\ MapThenSumSet(LAMBDA k : rows[k].used, keys) = SumOver(w, keys)
      /\ Figures!MapThenSumSet(LAMBDA k : rows[k].used, keys) = SumOver(w, keys)
  BY <1>2, UsedIsSum
<1>6. Rate(rows, window, s) = [observed |-> Cardinality(keys), consumed |-> SumOver(w, keys)]
  BY <1>1, <1>5 DEF Rate
<1>7. Figures!Rate(rows, window, s) = [observed |-> Cardinality(keys), consumed |-> SumOver(w, keys)]
  BY <1>1, <1>5, SameCount DEF Figures!Rate
<1> QED
  BY <1>4, <1>6, <1>7

\* Threshold: clamped from below, whatever was sold.
LEMMA ThresholdFits ==
    ASSUME ThresholdsFit, NEW rate, rate.observed \in Nat, rate.consumed \in Int
    PROVE  /\ Threshold(rate, Cover) \in Int /\ Threshold(rate, Cover) >= 1
           /\ Figures!Threshold(rate, Cover) = Threshold(rate, Cover)
<1> USE DEF ThresholdsFit
<1>1. /\ Figures!IsActionable(rate) = IsActionable(rate)
      /\ Figures!Rounded(rate.consumed * Cover, rate.observed) = Rounded(rate.consumed * Cover, rate.observed)
  BY DEF Figures!IsActionable, IsActionable, Figures!Confidence, Confidence, Figures!Rounded, Rounded
<1>2. CASE ~IsActionable(rate)
  BY <1>1, <1>2 DEF Threshold, Figures!Threshold
<1>3. CASE IsActionable(rate)
  <2>1. rate.observed >= 1
    BY <1>3 DEF IsActionable, Confidence
  <2>2. PICK a \in Int : a = rate.consumed * Cover
    OBVIOUS
  <2>3. a \div rate.observed \in Int
    BY <2>1, QuotientIsMost
  <2>4. Rounded(a, rate.observed) \in Int
    BY <2>3 DEF Rounded
  <2>5. PICK i \in Int : i = Rounded(a, rate.observed)
    BY <2>4
  <2>6. Min({MaxThreshold, i}) \in Int
    BY MinMaxOfTwo
  <2>7. PICK j \in Int : j = Min({MaxThreshold, i})
    BY <2>6
  <2>8. Max({MinThreshold, j}) = IF MinThreshold >= j THEN MinThreshold ELSE j
    <3>1. MinThreshold \in Int /\ j \in Int
      OBVIOUS
    <3> QED
      BY <3>1, MinMaxOfTwo
  <2>9. Threshold(rate, Cover) = Max({MinThreshold, j})
    BY <1>3, <2>2, <2>5, <2>7 DEF Threshold
  <2>10. Figures!Threshold(rate, Cover) = Threshold(rate, Cover)
    <3>1. \A S : Figures!Max(S) = Max(S) /\ Figures!Min(S) = Min(S)
      BY DEF Figures!Max, Max, Figures!Min, Min
    <3> QED
      BY <1>1, <1>3, <3>1 DEF Threshold, Figures!Threshold
  <2> QED
    BY <2>8, <2>9, <2>10
<1> QED
  BY <1>2, <1>3

-----------------------------------------------------------------------------
(* The screens *)

\* The SKUs a day has rows of.
RowsOn(d) == {key[2] : key \in {k \in DOMAIN grid : k[1] = d}}

\* A day's figures sum up the day's rows, both written by one run; and no
\* threshold a refresh has left is below 1.
ScreenInv ==
    /\ StockInv
    /\ IsFiniteSet(DOMAIN grid)
    /\ DOMAIN kpi \in SUBSET Figures!Day
    /\ \A d \in DOMAIN kpi :
          /\ kpi[d].out = Cardinality({s \in RowsOn(d) : grid[<<d, s>>].onHand <= 0})
          /\ kpi[d].total = SumOver([s \in RowsOn(d) |-> grid[<<d, s>>].onHand], RowsOn(d))
    /\ \A s \in DOMAIN velocity : velocity[s].threshold \in Int /\ velocity[s].threshold >= 1

\* There are no figures to begin with.
LEMMA ScreenInit ==
    ASSUME LastDay \in Nat \ {0}, First \in [Sku -> Int], Figures!Init
    PROVE  ScreenInv
<1>1. DOMAIN grid = {} /\ DOMAIN kpi = {} /\ DOMAIN velocity = {}
  BY DEF Figures!Init
<1> QED
  BY <1>1, StockInit, FS_EmptySet DEF ScreenInv

\* A run writes the rows and the figures of its days from the same balances.
LEMMA RunKeepsScreens ==
    ASSUME LastDay \in Nat, IsFiniteSet(Sku), ThresholdsFit, ScreenInv,
           NEW days \in SUBSET Figures!Day, NEW leaves,
           Figures!Run(days, leaves), changed \subseteq days \cup leaves
    PROVE  ScreenInv'
<1>1. StockInv'
  BY RunKeeps DEF ScreenInv
<1>2. population \in SUBSET Sku
  BY DEF ScreenInv, StockInv, StockType
<1>3. \A d, s : Figures!StockRow(d, s) = StockRow(d, s)
  BY BalanceIsSum DEF Figures!StockRow, StockRow, Figures!Opening, Opening, Figures!Net, Net
<1>4. IsFiniteSet(DOMAIN grid')
  <2>1. DOMAIN grid' \in SUBSET (Figures!Day \X Sku)
    BY <1>1 DEF StockInv, StockType
  <2>2. IsFiniteSet(Figures!Day)
    BY FS_Interval DEF Figures!Day
  <2>3. IsFiniteSet(Figures!Day \X Sku)
    BY <2>2, FS_Product
  <2> QED
    BY <2>1, <2>3, FS_Subset
<1>5. /\ DOMAIN grid' = {k \in DOMAIN grid : k[1] \notin days} \cup (days \X population)
      /\ \A d \in days, s \in population : grid'[<<d, s>>] = StockRow(d, s)
      /\ \A k \in DOMAIN grid : k[1] \notin days => grid'[k] = grid[k]
  BY <1>3 DEF Figures!Run, Figures!GridOf
<1>6. ASSUME NEW d \in days PROVE RowsOn(d)' = population
  <2>1. \A k \in DOMAIN grid' : k[1] = d => k[2] \in population
    BY <1>5
  <2>2. \A s \in population : <<d, s>> \in DOMAIN grid'
    BY <1>5
  <2>3. RowsOn(d)' \subseteq population
    BY <2>1 DEF RowsOn
  <2>4. ASSUME NEW s \in population PROVE s \in RowsOn(d)'
    <3>1. PICK k \in DOMAIN grid' : k[1] = d /\ k[2] = s
      <4>1. <<d, s>>[1] = d /\ <<d, s>>[2] = s
        OBVIOUS
      <4> QED
        BY <2>2, <4>1
    <3> QED
      BY <3>1 DEF RowsOn
  <2> QED
    BY <2>3, <2>4
<1>7. ASSUME NEW d, d \notin days PROVE RowsOn(d)' = RowsOn(d)
  BY <1>5, <1>7 DEF RowsOn
<1>8. /\ DOMAIN kpi' = DOMAIN kpi \cup days
      /\ \A d \in days : kpi'[d] = Figures!DayKpi(d)
      /\ \A d \in DOMAIN kpi \ days : kpi'[d] = kpi[d]
  BY DEF Figures!Run, Figures!KpisOf
<1>9. ASSUME NEW d \in DOMAIN kpi'
      PROVE  /\ kpi'[d].out = Cardinality({s \in RowsOn(d)' : grid'[<<d, s>>].onHand <= 0})
             /\ kpi'[d].total = SumOver([s \in RowsOn(d)' |-> grid'[<<d, s>>].onHand], RowsOn(d)')
  <2>1. CASE d \in days
    <3>1. Figures!DayKpi(d).out = Cardinality({s \in population : StockRow(d, s).onHand <= 0})
      <4>1. Figures!DayKpi(d).out = Cardinality({s \in population : Figures!StockRow(d, s).onHand <= 0})
        BY SameCount DEF Figures!DayKpi
      <4>2. {s \in population : Figures!StockRow(d, s).onHand <= 0}
              = {s \in population : StockRow(d, s).onHand <= 0}
        BY <1>3
      <4> QED
        BY <4>1, <4>2
    <3>2. Figures!DayKpi(d).total = SumOver([s \in population |-> StockRow(d, s).onHand], population)
      <4>1. Figures!MapThenSumSet(LAMBDA s : Figures!StockRow(d, s).onHand, population)
              = SumOver([s \in population |-> Figures!StockRow(d, s).onHand], population)
        BY DEF Figures!MapThenSumSet, Figures!MapThenFoldSet, SumOver, IsSum
      <4> QED
        BY <1>3, <4>1 DEF Figures!DayKpi
    <3>3. {s \in RowsOn(d)' : grid'[<<d, s>>].onHand <= 0} = {s \in population : StockRow(d, s).onHand <= 0}
      BY <1>5, <1>6, <2>1
    <3>4. [s \in RowsOn(d)' |-> grid'[<<d, s>>].onHand] = [s \in population |-> StockRow(d, s).onHand]
      BY <1>5, <1>6, <2>1
    <3> QED
      BY <1>6, <1>8, <2>1, <3>1, <3>2, <3>3, <3>4
  <2>2. CASE d \notin days
    <3>1. d \in DOMAIN kpi /\ kpi'[d] = kpi[d] /\ RowsOn(d)' = RowsOn(d)
      BY <1>7, <1>8, <2>2
    <3>2. \A s \in RowsOn(d) : grid'[<<d, s>>] = grid[<<d, s>>]
      <4>1. ASSUME NEW s \in RowsOn(d) PROVE grid'[<<d, s>>] = grid[<<d, s>>]
        <5>1. PICK k \in DOMAIN grid : k[1] = d /\ k[2] = s
          BY DEF RowsOn
        <5>2. k = <<d, s>>
          BY <5>1 DEF ScreenInv, StockInv, StockType
        <5> QED
          BY <1>5, <2>2, <5>1, <5>2
      <4> QED
        BY <4>1
    <3>3. {s \in RowsOn(d) : grid'[<<d, s>>].onHand <= 0} = {s \in RowsOn(d) : grid[<<d, s>>].onHand <= 0}
      BY <3>2
    <3>4. [s \in RowsOn(d) |-> grid'[<<d, s>>].onHand] = [s \in RowsOn(d) |-> grid[<<d, s>>].onHand]
      BY <3>2
    <3> QED
      BY <3>1, <3>3, <3>4 DEF ScreenInv
  <2> QED
    BY <2>1, <2>2
<1>10. \A s \in DOMAIN velocity' : velocity'[s].threshold \in Int /\ velocity'[s].threshold >= 1
  <2>1. CASE velocity' = velocity
    BY <2>1 DEF ScreenInv
  <2>2. CASE velocity' = Figures!Refresh(grid')
    <3>1. \A k \in DOMAIN grid' : grid'[k].used \in Int
      BY <1>1 DEF StockInv, StockType
    <3>2. ASSUME NEW s \in DOMAIN velocity'
          PROVE  velocity'[s].threshold \in Int /\ velocity'[s].threshold >= 1
      <4>1. PICK rate : rate = Figures!Rate(grid', Figures!Trailing(today), s)
        OBVIOUS
      <4>2. rate.observed \in Nat /\ rate.consumed \in Int
        <5>1. PICK rows, window : rows = grid' /\ window = Figures!Trailing(today)
          OBVIOUS
        <5>2. /\ Rate(rows, window, s).observed \in Nat /\ Rate(rows, window, s).consumed \in Int
              /\ Figures!Rate(rows, window, s) = Rate(rows, window, s)
          BY <1>4, <3>1, <5>1, RateType
        <5> QED
          BY <4>1, <5>1, <5>2
      <4>3. velocity'[s].threshold = Figures!Threshold(rate, Cover)
        BY <2>2, <4>1 DEF Figures!Refresh, Figures!VelocityRow
      <4> QED
        BY <4>2, <4>3, ThresholdFits
    <3> QED
      BY <3>2
  <2> QED
    BY <2>1, <2>2 DEF Figures!Run
<1> QED
  BY <1>1, <1>4, <1>8, <1>9, <1>10 DEF ScreenInv

\* Every step keeps the figures.
LEMMA ScreenStep ==
    ASSUME LastDay \in Nat \ {0}, IsFiniteSet(Sku), RepairDays \in Int, Counts \subseteq Int,
           ThresholdsFit, ScreenInv, [Figures!Next]_Figures!vars
    PROVE  ScreenInv'
<1>1. StockInv'
  BY StockStep DEF ScreenInv
<1>2. ASSUME UNCHANGED <<grid, kpi, velocity>> PROVE ScreenInv'
  <2>1. \A d : RowsOn(d)' = RowsOn(d)
    BY <1>2 DEF RowsOn
  <2> QED
    BY <1>1, <1>2, <2>1 DEF ScreenInv
<1>3. ASSUME NEW s \in Sku, Figures!Consume(s) \/ Figures!Return(s) \/ Figures!Count(s) \/ Figures!Reclassify(s)
      PROVE  ScreenInv'
  <2>1. UNCHANGED <<grid, kpi, velocity>>
    <3>1. ASSUME NEW d, NEW kind, NEW q, Figures!Book(d, s, kind, q) PROVE UNCHANGED <<grid, kpi, velocity>>
      BY <3>1 DEF Figures!Book
    <3>2. CASE Figures!Reclassify(s)
      BY <3>2 DEF Figures!Reclassify
    <3>3. CASE Figures!Consume(s)
      BY <3>1, <3>3 DEF Figures!Consume
    <3>4. CASE Figures!Return(s)
      BY <3>1, <3>4 DEF Figures!Return
    <3>5. CASE Figures!Count(s)
      BY <3>1, <3>5 DEF Figures!Count
    <3> QED
      BY <1>3, <3>2, <3>3, <3>4, <3>5
  <2> QED
    BY <1>2, <2>1
<1>4. CASE Figures!Tomorrow
  BY <1>2, <1>4 DEF Figures!Tomorrow
<1>5. CASE Figures!Hourly
  <2>1. changed \in SUBSET Figures!Day
    BY DEF ScreenInv, StockInv, StockType
  <2> QED
    BY <1>5, <2>1, RunKeepsScreens DEF Figures!Hourly, Figures!DatesToRebuild
<1>6. CASE Figures!Nightly
  <2>1. ((today - RepairDays + 1) .. today) \cap Figures!Day \in SUBSET Figures!Day
    OBVIOUS
  <2> QED
    BY <1>6, <2>1, RunKeepsScreens DEF Figures!Nightly
<1>7. CASE UNCHANGED Figures!vars
  BY <1>2, <1>7 DEF Figures!vars
<1> QED
  BY <1>3, <1>4, <1>5, <1>6, <1>7 DEF Figures!Next

\* The risk list: the sort key is asymmetric, and its forecasts are in the order of days.
LEMMA RiskListHolds ==
    ASSUME LastDay \in Nat, ThresholdsFit, ScreenInv
    PROVE  RiskListIsInOrder
<1> USE DEF ThresholdsFit
<1>1. ASSUME NEW r \in Risks(Cover)
      PROVE  /\ r.onHand \in Int /\ r.rate.observed \in Nat /\ r.rate.consumed \in Int
             /\ r.forecast => r.onHand > 0 /\ r.rate.consumed > 0
             /\ r.forecast \in BOOLEAN
  <2>1. PICK s \in population : r = Risk(s, Cover)
    BY DEF Risks
  <2>2. OnHandOn(today - 1, s) \in Int
    BY DEF OnHandOn, ScreenInv, StockInv, StockType
  <2>3. PICK rate : rate = Rate(grid, Trailing(today), s)
    OBVIOUS
  <2>4. rate.observed \in Nat /\ rate.consumed \in Int
    BY <2>3, RateType DEF ScreenInv, StockInv, StockType
  <2>5. /\ r.onHand = OnHandOn(today - 1, s) /\ r.rate = rate
        /\ r.forecast = (IsActionable(rate) /\ OnHandOn(today - 1, s) > 0)
    BY <2>1, <2>3 DEF Risk
  <2> QED
    BY <2>2, <2>4, <2>5 DEF IsActionable
<1>2. {r.sku : r \in Risks(Cover)} = population
  <2>1. \A s : Risk(s, Cover).sku = s
    BY DEF Risk
  <2>2. \A s \in population : Risk(s, Cover) \in Risks(Cover)
    BY DEF Risks
  <2>3. \A r \in Risks(Cover) : r.sku \in population
    BY <2>1 DEF Risks
  <2> QED
    BY <2>1, <2>2, <2>3
<1>3. ASSUME NEW r \in Risks(Cover), NEW q \in Risks(Cover), ComesBefore(r, q)
      PROVE  /\ ~ComesBefore(q, r)
             /\ q.onHand <= 0 => r.onHand <= 0
             /\ r.forecast /\ q.forecast => RunsOutOn(r) <= RunsOutOn(q)
             /\ q.forecast => r.forecast \/ r.onHand <= 0
  <2> DEFINE group(x) == IF x.onHand <= 0 THEN 0 ELSE IF x.forecast THEN 1 ELSE 2
  <2>1. PICK i \in Int, j \in Int, k \in Int, l \in Int :
           /\ i = r.onHand * r.rate.observed * q.rate.consumed
           /\ j = q.onHand * q.rate.observed * r.rate.consumed
           /\ k = r.rate.consumed * q.rate.observed
           /\ l = q.rate.consumed * r.rate.observed
    <3>1. \A x, y, z \in Int : x * y \in Int /\ x * y * z \in Int
      OBVIOUS
    <3>2. /\ r.onHand \in Int /\ r.rate.observed \in Int /\ r.rate.consumed \in Int
          /\ q.onHand \in Int /\ q.rate.observed \in Int /\ q.rate.consumed \in Int
      BY <1>1
    <3>3. /\ r.onHand * r.rate.observed * q.rate.consumed \in Int
          /\ q.onHand * q.rate.observed * r.rate.consumed \in Int
          /\ r.rate.consumed * q.rate.observed \in Int
          /\ q.rate.consumed * r.rate.observed \in Int
      BY <3>1, <3>2
    <3> QED
      BY <3>3
  <2>2. /\ ComesBefore(r, q) <=> \/ group(r) < group(q)
                                 \/ group(r) = 1 /\ group(q) = 1 /\ i < j
                                 \/ group(r) # 1 /\ group(r) = group(q) /\ k > l
        /\ ComesBefore(q, r) <=> \/ group(q) < group(r)
                                 \/ group(q) = 1 /\ group(r) = 1 /\ j < i
                                 \/ group(q) # 1 /\ group(q) = group(r) /\ l > k
    BY <2>1 DEF ComesBefore
  <2>3. /\ group(r) \in 0 .. 2 /\ group(q) \in 0 .. 2
        /\ group(r) = 0 <=> r.onHand <= 0
        /\ group(q) = 0 <=> q.onHand <= 0
        /\ r.forecast => group(r) = 1
        /\ q.forecast => group(q) = 1
        /\ group(r) = 1 => r.forecast
    BY <1>1
  <2> HIDE DEF group
  <2>4. ~ComesBefore(q, r)
    BY <1>3, <2>2, <2>3
  <2>5. q.onHand <= 0 => r.onHand <= 0
    BY <1>3, <2>2, <2>3
  <2>6. q.forecast => r.forecast \/ r.onHand <= 0
    BY <1>3, <2>2, <2>3
  <2>7. ASSUME r.forecast, q.forecast PROVE RunsOutOn(r) <= RunsOutOn(q)
    <3>1. i < j
      BY <1>3, <2>2, <2>3, <2>7
    <3>2. PICK a \in Int, b \in Int : a = r.onHand * r.rate.observed /\ b = q.onHand * q.rate.observed
      BY <1>1
    <3>3. a * q.rate.consumed <= b * r.rate.consumed
      BY <2>1, <3>1, <3>2
    <3>4. r.rate.consumed \in Nat /\ r.rate.consumed >= 1 /\ q.rate.consumed \in Nat /\ q.rate.consumed >= 1
      BY <1>1, <2>7
    <3>5. /\ a \div r.rate.consumed <= b \div q.rate.consumed
          /\ a \div r.rate.consumed \in Int /\ b \div q.rate.consumed \in Int
      <4>1. PICK c \in Nat, d \in Nat : c = r.rate.consumed /\ d = q.rate.consumed
        BY <3>4
      <4>2. c >= 1 /\ d >= 1 /\ a * d <= b * c
        BY <3>3, <3>4, <4>1
      <4>3. a \div c <= b \div d
        BY <4>2, QuotientsInOrder
      <4>4. a \div c \in Int /\ b \div d \in Int
        BY <4>2, QuotientIsMost
      <4> QED
        BY <4>1, <4>3, <4>4
    <3>6. today \in Int
      BY DEF ScreenInv, StockInv, StockType, Figures!Day
    <3> QED
      BY <3>2, <3>5, <3>6 DEF RunsOutOn
  <2> QED
    BY <2>4, <2>5, <2>6, <2>7
<1> QED
  BY <1>2, <1>3 DEF RiskListIsInOrder

\* What a badge compares: stock and threshold of a SKU.
LEMMA BucketTypes ==
    ASSUME LastDay \in Nat, ThresholdsFit, ScreenInv, NEW s \in population
    PROVE  OnHand(s) \in Int /\ ThresholdOf(s) \in Int /\ ThresholdOf(s) >= 1
<1>1. today \in Figures!Day /\ s \in Sku /\ moved \in Log
  BY DEF ScreenInv, StockInv, StockType
<1>2. OnHand(s) \in Int
  BY <1>1, BalanceWalks DEF OnHand
<1> QED
  BY <1>2 DEF ThresholdOf, ThresholdsFit, ScreenInv

\* Badges and lists: each SKU is in one bucket.
LEMMA BadgesAreLists ==
    ASSUME LastDay \in Nat, IsFiniteSet(Sku), ThresholdsFit, ScreenInv
    PROVE  /\ \A bucket \in Status : /\ Badge(bucket) = Cardinality(List(bucket))
                                     /\ \A s \in List(bucket) : Classify(OnHand(s), ThresholdOf(s)) = bucket
           /\ MapThenSumSet(Badge, Status) = Cardinality(population)
<1>1. IsFiniteSet(population)
  BY FS_Subset DEF ScreenInv, StockInv, StockType
<1>2. ASSUME NEW bucket \in Status PROVE Badge(bucket) = Cardinality(List(bucket))
  <2>1. PICK w : w = [s \in population |->
                        IF InBucket(bucket, OnHand(s), ThresholdOf(s)) THEN 1 ELSE 0]
    OBVIOUS
  <2>2. Badge(bucket) = SumOver(w, population)
    BY <2>1 DEF Badge, MapThenSumSet, MapThenFoldSet, SumOver, IsSum
  <2>3. \A s \in population : w[s] \in {0, 1}
    BY <2>1
  <2>4. {s \in population : w[s] = 1} = List(bucket)
    BY <2>1 DEF List
  <2> QED
    BY <1>1, <2>2, <2>3, <2>4, SumOfOnes
<1>3. ASSUME NEW bucket \in Status, NEW s \in List(bucket)
      PROVE  Classify(OnHand(s), ThresholdOf(s)) = bucket
  <2>1. s \in population /\ InBucket(bucket, OnHand(s), ThresholdOf(s))
    BY DEF List
  <2>2. PICK q \in Int, t \in Int : q = OnHand(s) /\ t = ThresholdOf(s) /\ t >= 1
    BY <2>1, BucketTypes
  <2>3. InBucket(bucket, q, t)
    BY <2>1, <2>2
  <2>4. Classify(q, t) = bucket
    <3>1. CASE bucket = "negative"
      BY <2>2, <2>3, <3>1 DEF InBucket, Classify
    <3>2. CASE bucket = "zero"
      BY <2>2, <2>3, <3>2 DEF InBucket, Classify
    <3>3. CASE bucket = "low"
      BY <2>2, <2>3, <3>3 DEF InBucket, Classify
    <3>4. CASE bucket = "normal"
      <4>1. q >= t
        BY <2>3, <3>4 DEF InBucket
      <4>2. ~(q < 0) /\ q # 0 /\ ~(q < t)
        BY <2>2, <4>1
      <4> QED
        BY <3>4, <4>2 DEF Classify
    <3> QED
      BY <3>1, <3>2, <3>3, <3>4 DEF Status
  <2> QED
    BY <2>2, <2>4
<1>4. ASSUME NEW s \in population
      PROVE  \E bucket \in Status : s \in List(bucket)
  <2>1. PICK q \in Int, t \in Int : q = OnHand(s) /\ t = ThresholdOf(s) /\ t >= 1
    BY BucketTypes
  <2>2. \E bucket \in Status : InBucket(bucket, q, t)
    BY <2>1 DEF Status, InBucket
  <2> QED
    BY <2>1, <2>2 DEF List
<1>5. PICK A, B, C, D : A = List("negative") /\ B = List("zero") /\ C = List("low") /\ D = List("normal")
  OBVIOUS
<1>6. /\ population = ((A \cup B) \cup C) \cup D
      /\ A \cap B = {} /\ (A \cup B) \cap C = {} /\ ((A \cup B) \cup C) \cap D = {}
      /\ IsFiniteSet(A) /\ IsFiniteSet(B) /\ IsFiniteSet(C) /\ IsFiniteSet(D)
  <2>1. \A bucket \in Status : List(bucket) \in SUBSET population
    BY DEF List
  <2>2. A \in SUBSET population /\ B \in SUBSET population /\ C \in SUBSET population /\ D \in SUBSET population
    BY <1>5, <2>1 DEF Status
  <2>3. \A s : /\ s \in A => Classify(OnHand(s), ThresholdOf(s)) = "negative"
               /\ s \in B => Classify(OnHand(s), ThresholdOf(s)) = "zero"
               /\ s \in C => Classify(OnHand(s), ThresholdOf(s)) = "low"
               /\ s \in D => Classify(OnHand(s), ThresholdOf(s)) = "normal"
    BY <1>3, <1>5 DEF Status
  <2>4. \A s \in population : s \in A \/ s \in B \/ s \in C \/ s \in D
    BY <1>4, <1>5 DEF Status
  <2>5. IsFiniteSet(A) /\ IsFiniteSet(B) /\ IsFiniteSet(C) /\ IsFiniteSet(D)
    BY <1>1, <2>2, FS_Subset
  <2>6. A \cap B = {} /\ (A \cup B) \cap C = {} /\ ((A \cup B) \cup C) \cap D = {}
    BY <2>3
  <2> QED
    BY <2>2, <2>4, <2>5, <2>6
<1>7. Cardinality(population) = Cardinality(A) + Cardinality(B) + Cardinality(C) + Cardinality(D)
  <2>1. /\ Cardinality(A) \in Nat /\ Cardinality(B) \in Nat
        /\ Cardinality(C) \in Nat /\ Cardinality(D) \in Nat
    BY <1>6, FS_CardinalityType
  <2>2. IsFiniteSet(A \cup B) /\ Cardinality(A \cup B) = Cardinality(A) + Cardinality(B)
    BY <1>6, DisjointUnion
  <2>3. /\ IsFiniteSet((A \cup B) \cup C)
        /\ Cardinality((A \cup B) \cup C) = Cardinality(A \cup B) + Cardinality(C)
    BY <1>6, <2>2, DisjointUnion
  <2>4. Cardinality(((A \cup B) \cup C) \cup D) = Cardinality((A \cup B) \cup C) + Cardinality(D)
    BY <1>6, <2>3, DisjointUnion
  <2> QED
    BY <1>6, <2>1, <2>2, <2>3, <2>4
<1>8. MapThenSumSet(Badge, Status) = Cardinality(A) + Cardinality(B) + Cardinality(C) + Cardinality(D)
  <2>1. PICK v : v = [b \in Status |-> Badge(b)]
    OBVIOUS
  <2>2. MapThenSumSet(Badge, Status) = SumOver(v, Status)
    BY <2>1 DEF MapThenSumSet, MapThenFoldSet, SumOver, IsSum
  <2>3. /\ v["negative"] = Cardinality(A) /\ v["zero"] = Cardinality(B)
        /\ v["low"] = Cardinality(C) /\ v["normal"] = Cardinality(D)
    BY <1>2, <1>5, <2>1 DEF Status
  <2>4. /\ v["negative"] \in Int /\ v["zero"] \in Int /\ v["low"] \in Int /\ v["normal"] \in Int
    BY <1>6, <2>3, FS_CardinalityType
  <2> DEFINE S1 == {"normal"}
             S2 == {"low", "normal"}
             S3 == {"zero", "low", "normal"}
  <2>5. IsFiniteSet({}) /\ IsFiniteSet(S1) /\ IsFiniteSet(S2) /\ IsFiniteSet(S3) /\ IsFiniteSet(Status)
    <3>1. IsFiniteSet({})
      BY FS_EmptySet
    <3>2. IsFiniteSet(S1)
      BY FS_Singleton
    <3>3. IsFiniteSet(S2)
      <4>1. S2 = S1 \cup {"low"}
        OBVIOUS
      <4> QED
        BY <3>2, <4>1, FS_AddElement
    <3>4. IsFiniteSet(S3)
      <4>1. S3 = S2 \cup {"zero"}
        OBVIOUS
      <4> QED
        BY <3>3, <4>1, FS_AddElement
    <3>5. Status = S3 \cup {"negative"}
      BY DEF Status
    <3>6. IsFiniteSet(Status)
      BY <3>4, <3>5, FS_AddElement
    <3> QED
      BY <3>1, <3>2, <3>3, <3>4, <3>6
  <2>6. /\ Status \ {"negative"} = S3 /\ S3 \ {"zero"} = S2 /\ S2 \ {"low"} = S1 /\ S1 \ {"normal"} = {}
        /\ "negative" \in Status /\ "zero" \in S3 /\ "low" \in S2 /\ "normal" \in S1
    BY DEF Status
  <2>7. /\ \A x \in Status : v[x] \in Int
        /\ \A x \in S3 : v[x] \in Int
        /\ \A x \in S2 : v[x] \in Int
        /\ \A x \in S1 : v[x] \in Int
    BY <2>4 DEF Status
  <2> HIDE DEF S1, S2, S3
  <2>8. SumOver(v, Status) = v["negative"] + SumOver(v, S3)
    BY <2>5, <2>6, <2>7, SumRemove
  <2>9. SumOver(v, S3) = v["zero"] + SumOver(v, S2)
    BY <2>5, <2>6, <2>7, SumRemove
  <2>10. SumOver(v, S2) = v["low"] + SumOver(v, S1)
    BY <2>5, <2>6, <2>7, SumRemove
  <2>11. SumOver(v, S1) = v["normal"] + SumOver(v, {})
    BY <2>5, <2>6, <2>7, SumRemove
  <2>12. SumOver(v, {}) = 0
    BY SumEmpty
  <2> QED
    BY <2>2, <2>3, <2>4, <2>8, <2>9, <2>10, <2>11, <2>12
<1> QED
  BY <1>2, <1>3, <1>7, <1>8

\* The stock of a set of SKUs, as a sum over a function.
LEMMA OnHandIsSum ==
    ASSUME NEW S
    PROVE  MapThenSumSet(OnHand, S) = SumOver([s \in S |-> OnHand(s)], S)
  BY DEF MapThenSumSet, MapThenFoldSet, SumOver, IsSum

\* The dashboard and the risk list read the same rows of yesterday.
LEMMA DashboardAgrees ==
    ASSUME LastDay \in Nat, IsFiniteSet(Sku), ScreenInv,
           today - 1 \in DOMAIN kpi, RowsOn(today - 1) = population
    PROVE  kpi[today - 1].out = RiskCounts(Cover).out
<1>1. PICK day : day = today - 1
  OBVIOUS
<1>2. \A s \in population : Risk(s, Cover).onHand = grid[<<day, s>>].onHand
  <2>1. ASSUME NEW s \in population PROVE Risk(s, Cover).onHand = grid[<<day, s>>].onHand
    <3>1. PICK k \in DOMAIN grid : k[1] = day /\ k[2] = s
      BY <1>1 DEF RowsOn
    <3>2. k = <<day, s>>
      BY <3>1 DEF ScreenInv, StockInv, StockType
    <3> QED
      BY <1>1, <3>1, <3>2 DEF Risk, OnHandOn
  <2> QED
    BY <2>1
<1>3. PICK X : X = {s \in population : grid[<<day, s>>].onHand <= 0}
  OBVIOUS
<1>4. PICK Y : Y = {r \in Risks(Cover) : r.onHand <= 0}
  OBVIOUS
<1>5. IsFiniteSet(X)
  BY <1>3, FS_Subset DEF ScreenInv, StockInv, StockType
<1>6. ExistsBijection(X, Y)
  <2>1. PICK f : f = [s \in X |-> Risk(s, Cover)]
    OBVIOUS
  <2>2. \A s \in X : f[s] \in Y /\ f[s].sku = s
    BY <1>2, <1>3, <1>4, <2>1 DEF Risks, Risk
  <2>3. \A r \in Y : \E s \in X : f[s] = r
    <3>1. ASSUME NEW r \in Y PROVE \E s \in X : f[s] = r
      <4>1. PICK s \in population : r = Risk(s, Cover)
        BY <1>4 DEF Risks
      <4>2. s \in X
        BY <1>2, <1>3, <1>4, <4>1
      <4> QED
        BY <2>1, <4>1, <4>2
    <3> QED
      BY <3>1
  <2>4. f \in [X -> Y] /\ \A s, t \in X : f[s] = f[t] => s = t
    <3>1. DOMAIN f = X
      BY <2>1
    <3>2. \A s, t \in X : f[s] = f[t] => s = t
      BY <2>2
    <3>3. f \in [X -> Y]
      BY <2>1, <2>2
    <3> QED
      BY <3>2, <3>3
  <2>5. f \in Injection(X, Y) /\ f \in Surjection(X, Y)
    BY <2>3, <2>4 DEF Injection, Surjection, IsInjective
  <2> QED
    BY <2>5 DEF ExistsBijection, Bijection
<1>7. Cardinality(Y) = Cardinality(X)
  BY <1>5, <1>6, FS_Bijection
<1>8. kpi[day].out = Cardinality(X)
  BY <1>1, <1>3 DEF ScreenInv
<1> QED
  BY <1>1, <1>4, <1>7, <1>8 DEF RiskCounts

\* And so do the badges, while yesterday's rows are exact and nothing moves today.
LEMMA BadgesAgree ==
    ASSUME LastDay \in Nat, IsFiniteSet(Sku), ThresholdsFit, ScreenInv,
           today - 1 \in DOMAIN kpi \ (changed \cup passed \cup shadow),
           RowsOn(today - 1) = population,
           \A s \in population : Net(today, s) = 0
    PROVE  /\ kpi[today - 1].out = Badge("negative") + Badge("zero")
           /\ kpi[today - 1].total = MapThenSumSet(OnHand, population)
<1>1. PICK day : day = today - 1
  OBVIOUS
<1>2. IsFiniteSet(population) /\ day \in Figures!Day
  BY <1>1, FS_Subset DEF ScreenInv, StockInv, StockType
<1>3. \A s \in population : grid[<<day, s>>].onHand = OnHand(s) /\ OnHand(s) \in Int
  <2>1. ASSUME NEW s \in population PROVE grid[<<day, s>>].onHand = OnHand(s) /\ OnHand(s) \in Int
    <3>1. PICK k \in DOMAIN grid : k[1] = day /\ k[2] = s
      BY <1>1 DEF RowsOn
    <3>2. k = <<day, s>>
      BY <3>1 DEF ScreenInv, StockInv, StockType
    <3>3. grid[k].onHand = Balance(day, s)
      BY <1>1, <3>1 DEF ScreenInv, StockInv, RowsLagForAReason
    <3>4. s \in Sku /\ today \in Figures!Day /\ moved \in Log
      BY DEF ScreenInv, StockInv, StockType
    <3>5. Balance(today, s) \in Int /\ Balance(today - 1, s) \in Int /\ Balance(today, s) = Balance(today - 1, s) + Net(today, s)
      BY <3>4, BalanceWalks
    <3> QED
      BY <1>1, <3>2, <3>3, <3>5 DEF OnHand
  <2> QED
    BY <2>1
<1>4. PICK X : X = {s \in population : OnHand(s) <= 0}
  OBVIOUS
<1>5. kpi[day].out = Cardinality(X)
  <2>1. {s \in population : grid[<<day, s>>].onHand <= 0} = X
    BY <1>3, <1>4
  <2> QED
    BY <1>1, <2>1 DEF ScreenInv
<1>6. PICK A, B : A = List("negative") /\ B = List("zero")
  OBVIOUS
<1>7. X = A \cup B /\ A \cap B = {} /\ IsFiniteSet(A) /\ IsFiniteSet(B)
  <2>1. A = {s \in population : OnHand(s) < 0} /\ B = {s \in population : OnHand(s) = 0}
    BY <1>6 DEF List, InBucket
  <2>2. \A i \in Int : (i <= 0) <=> (i < 0 \/ i = 0)
    OBVIOUS
  <2>3. \A i \in Int : ~(i < 0 /\ i = 0)
    OBVIOUS
  <2>4. \A s \in population : /\ (OnHand(s) <= 0) <=> (OnHand(s) < 0 \/ OnHand(s) = 0)
                              /\ ~(OnHand(s) < 0 /\ OnHand(s) = 0)
    <3>1. ASSUME NEW s \in population
          PROVE  /\ (OnHand(s) <= 0) <=> (OnHand(s) < 0 \/ OnHand(s) = 0)
                 /\ ~(OnHand(s) < 0 /\ OnHand(s) = 0)
      <4>1. PICK i \in Int : i = OnHand(s)
        BY <1>3
      <4> QED
        BY <2>2, <2>3, <4>1
    <3> QED
      BY <3>1
  <2>5. X = A \cup B /\ A \cap B = {}
    BY <1>4, <2>1, <2>4
  <2> QED
    BY <1>2, <2>1, <2>5, FS_Subset
<1>8. Cardinality(X) = Badge("negative") + Badge("zero")
  <2>1. Badge("negative") = Cardinality(A) /\ Badge("zero") = Cardinality(B)
    BY <1>6, BadgesAreLists DEF Status
  <2> QED
    BY <1>7, <2>1, DisjointUnion
<1>9. kpi[day].total = MapThenSumSet(OnHand, population)
  <2>1. PICK w : w = [s \in population |-> OnHand(s)]
    OBVIOUS
  <2>2. MapThenSumSet(OnHand, population) = SumOver(w, population)
    BY <2>1, OnHandIsSum
  <2>3. [s \in population |-> grid[<<day, s>>].onHand] = w
    BY <1>3, <2>1
  <2> QED
    BY <1>1, <2>2, <2>3 DEF ScreenInv
<1> QED
  BY <1>1, <1>5, <1>8, <1>9

-----------------------------------------------------------------------------
\* The parts of ScreensAgree.
LEMMA ScreensHold ==
    ASSUME LastDay \in Nat, IsFiniteSet(Sku), ThresholdsFit, ScreenInv
    PROVE  ScreensAgree
<1>1. {key[2] : key \in {k \in DOMAIN grid : k[1] = today - 1}} = RowsOn(today - 1)
  BY DEF RowsOn
<1>2. RiskListIsInOrder
  BY RiskListHolds
<1>3. /\ \A bucket \in Status : /\ Badge(bucket) = Cardinality(List(bucket))
                                /\ \A s \in List(bucket) : Classify(OnHand(s), ThresholdOf(s)) = bucket
      /\ MapThenSumSet(Badge, Status) = Cardinality(population)
  BY BadgesAreLists
<1>4. ASSUME today - 1 \in DOMAIN kpi \ (changed \cup passed \cup shadow), RowsOn(today - 1) = population
      PROVE  /\ kpi[today - 1].out = RiskCounts(Cover).out
             /\ (\A s \in population : Net(today, s) = 0) =>
                   /\ kpi[today - 1].out = Badge("negative") + Badge("zero")
                   /\ kpi[today - 1].total = MapThenSumSet(OnHand, population)
  BY <1>4, DashboardAgrees, BadgesAgree
<1> QED
  BY <1>1, <1>2, <1>3, <1>4 DEF ScreensAgree

\* _build_stock under the hourly and the nightly job: a row of a day's stock is wrong only
\* for one of the known reasons, however events are backdated and days rebuilt.
THEOREM RowsLag ==
    ASSUME LastDay \in Nat \ {0}, RepairDays \in Int, First \in [Sku -> Int], Counts \subseteq Int
    PROVE  Figures!Spec => []RowsLagForAReason
<1>1. Figures!Init => StockInv
  BY StockInit
<1>2. StockInv /\ [Figures!Next]_Figures!vars => StockInv'
  BY StockStep
<1>3. StockInv => RowsLagForAReason
  BY DEF StockInv
<1> QED
  BY <1>1, <1>2, <1>3, PTL DEF Figures!Spec

\* The dashboard, the risk list, the inventory list, its badges and its CSV tell one
\* story, for every window, cover and clamp as long as no threshold is below 1.
THEOREM ScreensTellTheSame ==
    ASSUME LastDay \in Nat \ {0}, RepairDays \in Int, First \in [Sku -> Int], Counts \subseteq Int,
           IsFiniteSet(Sku), ThresholdsFit
    PROVE  Figures!Spec => []ScreensAgree
<1>1. Figures!Init => ScreenInv
  BY ScreenInit
<1>2. ScreenInv /\ [Figures!Next]_Figures!vars => ScreenInv'
  BY ScreenStep
<1>3. ScreenInv => ScreensAgree
  BY ScreensHold
<1> QED
  BY <1>1, <1>2, <1>3, PTL DEF Figures!Spec
=============================================================================
