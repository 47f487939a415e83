---------------------------- MODULE StockFigures ----------------------------
(***************************************************************************)
(* How the figures of StockScreens come about: stock moves, the calendar   *)
(* turns, SKUs enter and leave the analysable population, and the rollup   *)
(* rebuilds days and rates.                                                *)
(*                                                                         *)
(* A run of the rollup is one step: how runs interleave and fail is        *)
(* DailyRollup's subject.                                                  *)
(***************************************************************************)
EXTENDS StockScreens

CONSTANTS
    Sku,
    LastDay,       \* bound: the calendar
    RepairDays,    \* days the nightly job walks back over
    First,         \* [Sku -> Nat]: stock seeded on the first day
    Counts,       \* quantities an operator may set a SKU to
    MaxMoves       \* bound: stock events

Day == 1..LastDay

VARIABLE moves     \* counts them for MaxMoves

vars == <<today, moved, population, changed, grid, kpi, velocity, passed, shadow, moves>>

NoMoves == [used |-> 0, back |-> 0, other |-> 0]

Init ==
    /\ today = 1
    /\ moved = [d \in Day |-> [s \in Sku |-> IF d = 1 THEN [NoMoves EXCEPT !.other = First[s]] ELSE NoMoves]]
    /\ population = Sku
    /\ changed = {1}
    /\ grid = <<>>
    /\ kpi = <<>>
    /\ velocity = <<>>
    /\ passed = {}
    /\ shadow = {}
    /\ moves = 0

\* An event enters the log today, for a day past or present.
Book(d, s, kind, quantity) ==
    /\ moves < MaxMoves
    /\ moves' = moves + 1
    /\ moved' = [moved EXCEPT ![d][s][kind] = @ + quantity]
    /\ changed' = changed \cup {d}
    /\ shadow' = shadow \cup (d + 1)..LastDay
    /\ UNCHANGED <<today, population, grid, kpi, velocity, passed>>

\* An order of that day, ingested late or attributed to the SKU only now.
Consume(s) == \E d \in 1..today : Book(d, s, "used", 1)

\* It is cancelled, and so booked today; older cancellations stand on the order's day.
Return(s) ==
    /\ MapThenSumSet(LAMBDA d : moved[d][s].used - moved[d][s].back, Day) > 0
    /\ \E d \in 1..today : Book(d, s, "back", 1)

\* A count, or an adjustment.
Count(s) == \E q \in Counts : q # OnHand(s) /\ Book(today, s, "other", q - OnHand(s))

\* A SKU enters or leaves the analysable population.
Reclassify(s) ==
    /\ population' = IF s \in population THEN population \ {s} ELSE population \cup {s}
    /\ moves < MaxMoves
    /\ moves' = moves + 1
    /\ UNCHANGED <<today, moved, changed, grid, kpi, velocity, passed, shadow>>

Tomorrow ==
    /\ today < LastDay
    /\ today' = today + 1
    /\ UNCHANGED <<moved, population, changed, grid, kpi, velocity, passed, shadow, moves>>

\* dates_to_rebuild, by what was created since the last success.
DatesToRebuild == changed

\* rebuild_daily_metrics: the days, then the rates, whose refresh may fail.
Run(days, leaves) ==
    /\ grid' = GridOf(days)
    /\ kpi' = KpisOf(days)
    /\ velocity' \in {Refresh(grid'), velocity}
    /\ changed' = {}
    /\ passed' = (passed \cup leaves) \ days
    /\ shadow' = shadow \ days
    /\ UNCHANGED <<today, moved, population, moves>>

Hourly == Run(DatesToRebuild, {})

\* --repair-days, the days before the calendar left out.
Nightly == Run((today - RepairDays + 1)..today \cap Day, changed)

Next ==
    \/ \E s \in Sku : Consume(s) \/ Return(s) \/ Count(s) \/ Reclassify(s)
    \/ Tomorrow \/ Hourly \/ Nightly

Spec == Init /\ [][Next]_vars
=============================================================================
