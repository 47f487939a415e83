---------------------------- MODULE StockScreens ----------------------------
(***************************************************************************)
(* The stock figures of the analytics and inventory screens: the daily     *)
(* closing balances the rollup derives from the event log                  *)
(* (services/analytics_rollup.py), the consumption rates and low-stock     *)
(* thresholds derived from those (services/velocity.py), the risk list     *)
(* (ui/routes/analytics.py) and the inventory list with its badges         *)
(* (ui/routes/inventory.py, services/stock_status.py).                     *)
(*                                                                         *)
(* The events of a SKU on a day are their sums.  A SKU is analysable or    *)
(* not: why (set parent, not stock managed, archived) is sku_scope's       *)
(* matter.                                                                 *)
(***************************************************************************)
EXTENDS Integers, FiniteSetsExt

CONSTANTS
    Window,        \* DEFAULT_WINDOW_DAYS
    MinDays,       \* MIN_DAYS_FOR_ESTIMATE
    Cover,         \* DEFAULT_COVER_DAYS
    MinThreshold, MaxThreshold,
    Fallback       \* settings.low_stock_threshold

VARIABLES
    today,
    moved,       \* [Day -> [Sku -> its events by occurred_at, summed by kind]]
    population,  \* the analysable SKUs
    changed,     \* days with events created since the last successful run
    grid,        \* sku_daily_stock: [<<day, SKU>> -> row]
    kpi,         \* daily_kpi_snapshots, the stock columns: [day -> row]
    velocity,    \* sku_velocity: [SKU -> row]
    passed,      \* history: changed days a successful run of fixed days has left out
    shadow       \* history: days since whose rebuild an event was booked for a day before

Net(d, s) == moved[d][s].back + moved[d][s].other - moved[d][s].used

Balance(d, s) == MapThenSumSet(LAMBDA e : Net(e, s), 1..d)

\* inventory_snapshots: what the SKU has now, nothing being booked ahead.
OnHand(s) == Balance(today, s)

-----------------------------------------------------------------------------
(* One day of the rollup *)

\* Faulty variant: the day's own movement counts as its opening too.
OpeningThrough(d, s) == Balance(d, s)

\* opening_balance_stmt: what moved before the day.
Opening(d, s) == Balance(d - 1, s)

\* _build_stock, with walk_daily_balances over the one day.
StockRow(d, s) ==
    [onHand |-> Opening(d, s) + Net(d, s), used |-> moved[d][s].used, back |-> moved[d][s].back]

\* The rows of the SKUs analysable now replace those the day had.
GridOf(days) ==
    [key \in {k \in DOMAIN grid : k[1] \notin days} \cup (days \X population) |->
        IF key[1] \in days THEN StockRow(key[1], key[2]) ELSE grid[key]]

\* Faulty variant: out of stock is exactly zero.
DayKpiZero(d) ==
    [total |-> MapThenSumSet(LAMBDA s : StockRow(d, s).onHand, population),
     count |-> Cardinality(population),
     out |-> Cardinality({s \in population : StockRow(d, s).onHand = 0})]

\* _build_kpi: out of stock is zero or less.
DayKpi(d) ==
    [total |-> MapThenSumSet(LAMBDA s : StockRow(d, s).onHand, population),
     count |-> Cardinality(population),
     out |-> Cardinality({s \in population : StockRow(d, s).onHand <= 0})]

KpisOf(days) == [d \in DOMAIN kpi \cup days |-> IF d \in days THEN DayKpi(d) ELSE kpi[d]]

-----------------------------------------------------------------------------
(* Consumption rates *)

\* Window days ending yesterday (velocity_window, resolve_period).
Trailing(day) == (day - Window)..(day - 1)

\* velocities: what the rows of the window say; without a row there is no day.
Rate(rows, window, s) ==
    LET keys == {k \in DOMAIN rows : k[1] \in window /\ k[2] = s}
    IN  [observed |-> Cardinality(keys), consumed |-> MapThenSumSet(LAMBDA k : rows[k].used, keys)]

Confidence(rate) ==
    IF rate.observed < MinDays THEN "insufficient"
    ELSE IF rate.observed < Window THEN "limited" ELSE "good"

IsActionable(rate) == Confidence(rate) # "insufficient" /\ rate.consumed > 0

\* round(): to the nearest, halves to the even one.
Rounded(a, b) ==
    LET down == a \div b
        rest == 2 * (a % b)
    IN  IF rest > b \/ (rest = b /\ down % 2 = 1) THEN down + 1 ELSE down

\* threshold: enough for the cover days at this rate, clamped.
Threshold(rate, cover) ==
    IF ~IsActionable(rate) THEN MinThreshold
    ELSE Max({MinThreshold, Min({MaxThreshold, Rounded(rate.consumed * cover, rate.observed)})})

VelocityRow(rows, day, s) ==
    LET rate == Rate(rows, Trailing(day), s) IN
    [observed |-> rate.observed, consumed |-> rate.consumed,
     confidence |-> Confidence(rate), threshold |-> Threshold(rate, Cover)]

\* refresh_velocities: DELETE and INSERT, a row for every analysable SKU.
Refresh(rows) == [s \in population |-> VelocityRow(rows, today, s)]

-----------------------------------------------------------------------------
(* The risk list *)

\* A SKU without a row on the last day of the period has nothing there.
OnHandOn(d, s) == IF <<d, s>> \in DOMAIN grid THEN grid[<<d, s>>].onHand ELSE 0

\* stockout_risks.
Risk(s, cover) ==
    LET rate == Rate(grid, Trailing(today), s)
        quantity == OnHandOn(today - 1, s)
    IN  [sku |-> s, onHand |-> quantity, rate |-> rate, threshold |-> Threshold(rate, cover),
         forecast |-> IsActionable(rate) /\ quantity > 0]

\* Faulty variant: an inner join with the stock rows.
RisksWithRow(cover) == {Risk(s, cover) : s \in {x \in population : <<today - 1, x>> \in DOMAIN grid}}

Risks(cover) == {Risk(s, cover) : s \in population}

\* The sort key: already out, then soonest to run out (onHand / per_day), then those
\* with no forecast, the faster first.
ComesBefore(r, q) ==
    LET group(x) == IF x.onHand <= 0 THEN 0 ELSE IF x.forecast THEN 1 ELSE 2
        days(x, y) == x.onHand * x.rate.observed * y.rate.consumed
    IN  \/ group(r) < group(q)
        \/ group(r) = 1 /\ group(q) = 1 /\ days(r, q) < days(q, r)
        \/ group(r) # 1 /\ group(r) = group(q)
           /\ r.rate.consumed * q.rate.observed > q.rate.consumed * r.rate.observed

\* stockout_on: whole days, rounded down.
RunsOutOn(r) == today + (r.onHand * r.rate.observed) \div r.rate.consumed

RiskCounts(cover) ==
    [out |-> Cardinality({r \in Risks(cover) : r.onHand <= 0}),
     below |-> Cardinality({r \in Risks(cover) : r.onHand < r.threshold}),
     unforecastable |-> Cardinality({r \in Risks(cover) : ~r.forecast})]

-----------------------------------------------------------------------------
(* The inventory list *)

Status == {"negative", "zero", "low", "normal"}

\* _threshold_expression: a SKU the refresh has not reached has the configured one.
ThresholdOf(s) == IF s \in DOMAIN velocity THEN velocity[s].threshold ELSE Fallback

\* classify, of the CSV.
Classify(quantity, threshold) ==
    CASE quantity < 0 -> "negative"
      [] quantity = 0 -> "zero"
      [] quantity > 0 /\ quantity < threshold -> "low"
      [] OTHER -> "normal"

\* filter_condition, of the list and, summed, of the badges.
InBucket(bucket, quantity, threshold) ==
    CASE bucket = "negative" -> quantity < 0
      [] bucket = "zero" -> quantity = 0
      [] bucket = "low" -> quantity >= 1 /\ quantity < threshold
      [] bucket = "normal" -> quantity >= threshold

List(bucket) == {s \in population : InBucket(bucket, OnHand(s), ThresholdOf(s))}

Badge(bucket) ==
    MapThenSumSet(LAMBDA s : IF InBucket(bucket, OnHand(s), ThresholdOf(s)) THEN 1 ELSE 0, population)

-----------------------------------------------------------------------------
(* Properties *)

\* What a row says was used and returned on its day is wrong only if the next hourly
\* run will see the day or a run of fixed days has passed it over; its closing balance
\* is wrong only then or after an event for an earlier day, and is the walk of all
\* days before it otherwise, however the days were rebuilt (analytics_rollup.py:3-22,
\* 115-137).
RowsLagForAReason ==
    \A key \in DOMAIN grid :
        LET d == key[1]
            s == key[2]
        IN  /\ grid[key].used # moved[d][s].used \/ grid[key].back # moved[d][s].back =>
                    d \in changed \cup passed
            /\ grid[key].onHand # Balance(d, s) => d \in changed \cup passed \cup shadow

\* The risk list keeps every analysable SKU, those with nothing to forecast from too,
\* and along it the days of running out never go back (velocity.py:231-238, 272-281).
RiskListIsInOrder ==
    LET risks == Risks(Cover) IN
    /\ {r.sku : r \in risks} = population
    /\ \A r, q \in risks : ComesBefore(r, q) =>
        /\ ~ComesBefore(q, r)
        /\ q.onHand <= 0 => r.onHand <= 0
        /\ r.forecast /\ q.forecast => RunsOutOn(r) <= RunsOutOn(q)
        /\ q.forecast => r.forecast \/ r.onHand <= 0

\* Each badge of the inventory list counts its list, the lists are the whole screen
\* without overlap and the CSV names each row as the list it is in, whatever thresholds
\* the refresh has left (stock_status.py:1-20, ui/routes/inventory.py:256-258).  When
\* yesterday has been rebuilt since anything was booked for it, the dashboard and the
\* risk list count the same SKUs as out of stock, and so do the badges if nothing has
\* moved today (analytics_rollup.py:420-424).  The risk list is in order.
ScreensAgree ==
    /\ RiskListIsInOrder
    /\ \A bucket \in Status :
        /\ Badge(bucket) = Cardinality(List(bucket))
        /\ \A s \in List(bucket) : Classify(OnHand(s), ThresholdOf(s)) = bucket
    /\ MapThenSumSet(Badge, Status) = Cardinality(population)
    /\ LET day == today - 1 IN
        day \in DOMAIN kpi \ (changed \cup passed \cup shadow)
          /\ {key[2] : key \in {k \in DOMAIN grid : k[1] = day}} = population
        => /\ kpi[day].out = RiskCounts(Cover).out
           /\ (\A s \in population : Net(today, s) = 0) =>
                /\ kpi[day].out = Badge("negative") + Badge("zero")
                /\ kpi[day].total = MapThenSumSet(OnHand, population)
=============================================================================
