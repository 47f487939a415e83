----------------------------- MODULE CountSheets -----------------------------
(***************************************************************************)
(* What a sheet of figures proposes: the rows of a stocktake               *)
(* (services/stocktake.py), of a CROSS MALL export                         *)
(* (cli/reconcile_inventory.py and the reconcile screen) and of a Shopify  *)
(* audit (cli/audit_shopify_stock.py) against the stock on hand, and what  *)
(* the runs they become promise.                                           *)
(*                                                                         *)
(* A row carries a key and a mark: "figure", "blank" and "junk" for the    *)
(* cell of a CSV, "untracked" for a variant Shopify does not count.  A     *)
(* variant not stocked at the location is simply no row.                   *)
(***************************************************************************)
EXTENDS Naturals, Sequences, FiniteSetsExt

CONSTANT Master \* master_skus, which the keys of a stocktake sheet name

VARIABLES
    stock,      \* inventory_snapshots: on hand, of the masters with a row
    mapping,    \* the active mappings of each channel
    flags,      \* "bundle", "unmanaged", "archived" of each master
    runs,       \* reconcile_runs with their diffs
    standing    \* <<run, master>> approved, nothing moved the master since

\* A table with one row added or changed.
With(table, k, v) == [j \in DOMAIN table \cup {k} |-> IF j = k THEN v ELSE table[j]]

-----------------------------------------------------------------------------
(* Reading a sheet *)

\* Faulty variant: an empty cell reads as nothing on the shelf.
ReadableOrBlank(row) == row.mark \in {"figure", "blank"}

\* A row takes part only with a figure: an empty cell is skipped, and so is the 0 of a
\* variant that is not tracked.  An unreadable cell is skipped too, but by the reader of
\* CROSS MALL exports only after its key has been entered with 0.
Readable(row) == row.mark = "figure"

Entered(tool, row) == Readable(row) \/ (tool = "crossmall" /\ row.mark = "junk")

Entry(row) == IF row.mark = "figure" THEN row.qty ELSE 0

RowsOf(tool, file, k) == {i \in DOMAIN file : file[i].key = k /\ Entered(tool, file[i])}
Keys(tool, file) == {file[i].key : i \in {j \in DOMAIN file : Entered(tool, file[j])}}

\* rows_from: of two counts of one SKU the first is kept.
Counts(file) ==
    [k \in Keys("stocktake", file) |-> Entry(file[Min(RowsOf("stocktake", file, k))])]

\* aggregate_csv_variants and aggregate_levels: a channel's rows of one key are
\* added up.
Quantities(ch, file) ==
    [k \in Keys(ch, file) |-> MapThenSumSet(LAMBDA i : Entry(file[i]), RowsOf(ch, file, k))]

OnHand(m) == IF m \in DOMAIN stock THEN stock[m] ELSE 0

\* The masters among `targets` whose figure is not the stock on hand.
Differing(targets) ==
    LET differ == {m \in DOMAIN targets : targets[m] # OnHand(m)}
    IN  [m \in differ |-> [was |-> OnHand(m), target |-> targets[m]]]

\* plan_from_rows: only the SKUs on the sheet, unknown codes reported.
StocktakeDiffs(file) ==
    LET counts == Counts(file) IN Differing([m \in DOMAIN counts \cap Master |-> counts[m]])

MappedKeys(ch, file) == Keys(ch, file) \cap DOMAIN mapping[ch]
Named(ch, file) == {mapping[ch][k] : k \in MappedKeys(ch, file)}

\* Alias keys of one master are added up.
TargetOf(ch, file, m) ==
    MapThenSumSet(LAMBDA k : Quantities(ch, file)[k],
                  {k \in MappedKeys(ch, file) : mapping[ch][k] = m})

\* analysable_conditions(include_archived=False)
Analysable(m) == flags[m] = {}

Matched(ch, file) == {m \in Named(ch, file) : Analysable(m)}

\* collect_diffs of the CROSS MALL comparison: its differences and the figures
\* the preview shows.
ChannelDiffs(ch, file) == Differing([m \in Matched(ch, file) |-> TargetOf(ch, file, m)])

\* collect_diffs of the audit: the same comparison, of the rows Shopify tracks.
AuditDiffs(file) == ChannelDiffs("shopify", file)

Diffs(tool, file) ==
    CASE tool = "stocktake" -> StocktakeDiffs(file)
      [] tool = "crossmall" -> ChannelDiffs("crossmall", file)
      [] tool = "shopify" -> AuditDiffs(file)

\* The masters that some row that takes part names: kept beside the differences
\* for the properties.
NamedBy(tool, file) ==
    IF tool = "stocktake" THEN Keys("stocktake", file) \cap Master ELSE Named(tool, file)

-----------------------------------------------------------------------------
(* Properties *)

\* A cell of the sheet stands for an empty shelf: a figure that is 0, or on a CROSS
\* MALL export a cell that cannot be read.
SaysZero(tool, file) ==
    \E i \in DOMAIN file : \/ file[i].mark = "figure" /\ file[i].qty = 0
                           \/ file[i].mark = "junk" /\ tool = "crossmall"

\* Absent is not zero (audit_shopify_stock.py, stocktake.py): a run corrects only
\* masters that a row that takes part named when the differences were computed, and
\* proposes an empty shelf only when a figure on the sheet is 0 - or, from a CROSS MALL
\* export, when one of its cells is unreadable (reconcile_inventory.py:125-128) - however
\* the mappings and the stock changed between preview and execution.
AbsentIsNotZero ==
    \A r \in DOMAIN runs : \A m \in DOMAIN runs[r].diffs :
        /\ m \in runs[r].named
        /\ runs[r].diffs[m].target = 0 => SaysZero(runs[r].tool, runs[r].file)

\* An approved count stands: until something else moves the SKU, its stock is
\* the figure that was approved, whatever was sold between the reading of the
\* sheet and its approval; and the same stocktake sheet, read again, no longer
\* proposes it.
ApprovedCountStands ==
    \A s \in standing :
        LET run == runs[s[1]]
        IN  /\ OnHand(s[2]) = run.diffs[s[2]].target
            /\ run.tool = "stocktake" => s[2] \notin DOMAIN StocktakeDiffs(run.file)
=============================================================================
