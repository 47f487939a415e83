----------------------------- MODULE Worksheets -----------------------------
(***************************************************************************)
(* From figures on a sheet to corrected stock: the stocktake upload, the   *)
(* CROSS MALL comparison and the Shopify audit hand their differences      *)
(* (CountSheets) to ReconcileService.start_run.  How requests about one    *)
(* run exclude each other is the business of ReconcileApproval, so a       *)
(* decision is one step here.                                              *)
(***************************************************************************)
EXTENDS CountSheets

CONSTANTS
    ChannelKey, \* the keys of the channels
    File,       \* what may be uploaded, per tool
    Stocked,    \* the stock at the start
    Mappings,   \* the mappings of the channels at the start
    MaxQty,     \* bound: stock on hand
    MaxRuns,    \* bound: reconcile_runs rows
    MaxChanges  \* bound: movements and changes of the catalogue

Channel == {"crossmall", "shopify"}
Tool == Channel \cup {"stocktake"}

VARIABLES
    desk,       \* the sheet being handled: its tool, rows and differences
    changes     \* counts them for MaxChanges

vars == <<stock, mapping, flags, desk, runs, standing, changes>>

Idle == <<>>

Init ==
    /\ stock = Stocked
    /\ mapping = Mappings
    /\ flags = [m \in Master |-> {}]
    /\ desk = Idle
    /\ runs = <<>>
    /\ standing = {}
    /\ changes = 0

-----------------------------------------------------------------------------
(* From the sheet to a run *)

\* The preview of a screen, or the read session of a command.
Read(tool, by, file) ==
    /\ desk = Idle
    /\ Len(runs) < MaxRuns
    /\ tool = "stocktake" => by = "screen"
    /\ tool = "shopify" => by = "command"
    /\ desk' = [tool |-> tool, by |-> by, file |-> file,
                diffs |-> Diffs(tool, file), named |-> NamedBy(tool, file)]
    /\ UNCHANGED <<stock, mapping, flags, runs, standing, changes>>

\* start_run: a screen plans the same rows again, a command writes what its
\* read session found.
Start ==
    /\ desk # Idle
    /\ LET fresh == desk.by = "screen"
           diffs == IF fresh THEN Diffs(desk.tool, desk.file) ELSE desk.diffs
           named == IF fresh THEN NamedBy(desk.tool, desk.file) ELSE desk.named
       IN  runs' = Append(runs, [tool |-> desk.tool, file |-> desk.file, named |-> named,
                                 diffs |-> diffs,
                                 decision |-> [m \in DOMAIN diffs |-> "pending"]])
    /\ desk' = Idle
    /\ UNCHANGED <<stock, mapping, flags, standing, changes>>

\* A preview nobody executes, a command that ends after --dry-run or fails.
Leave ==
    /\ desk # Idle
    /\ desk' = Idle
    /\ UNCHANGED <<stock, mapping, flags, runs, standing, changes>>

Pending(r) == {m \in DOMAIN runs[r].diffs : runs[r].decision[m] = "pending"}

\* Faulty variant: the difference found when the sheet was read is added.
StaleResult(r, m) ==
    LET d == runs[r].diffs[m] IN IF OnHand(m) + d.target < d.was THEN 0 ELSE OnHand(m) + d.target - d.was

\* approve_diff: the count wins, the event's delta is measured again.
Result(r, m) == runs[r].diffs[m].target

Approve(r, m) ==
    /\ m \in Pending(r)
    /\ runs' = [runs EXCEPT ![r].decision[m] = "approved"]
    /\ stock' = With(stock, m, Result(r, m))
    /\ standing' = {s \in standing : s[2] # m} \cup {<<r, m>>}
    /\ UNCHANGED <<mapping, flags, desk, changes>>

Skip(r, m) ==
    /\ m \in Pending(r)
    /\ runs' = [runs EXCEPT ![r].decision[m] = "skipped"]
    /\ UNCHANGED <<stock, mapping, flags, desk, standing, changes>>

-----------------------------------------------------------------------------
(* What happens meanwhile *)

Changed == changes < MaxChanges /\ changes' = changes + 1

\* A sale, a receipt, a correction.
Move(m) ==
    /\ Changed
    /\ \E q \in 0..MaxQty : q # OnHand(m) /\ stock' = With(stock, m, q)
    /\ standing' = {s \in standing : s[2] # m}
    /\ UNCHANGED <<mapping, flags, desk, runs>>

\* A key is given a master, or its mapping is switched off.
Remap(ch, k) ==
    /\ Changed
    /\ \/ \E m \in Master : mapping' = [mapping EXCEPT ![ch] = With(@, k, m)]
       \/ /\ k \in DOMAIN mapping[ch]
          /\ mapping' = [mapping EXCEPT ![ch] = [j \in DOMAIN @ \ {k} |-> @[j]]]
    /\ UNCHANGED <<stock, flags, desk, runs, standing>>

\* A master is registered as a set, taken out of stock keeping, archived.
Flag(m, f) ==
    /\ Changed
    /\ flags' = [flags EXCEPT ![m] = @ \cup {f}]
    /\ UNCHANGED <<stock, mapping, desk, runs, standing>>

Next ==
    \/ \E tool \in Tool, by \in {"screen", "command"} :
          \E file \in File[tool] : Read(tool, by, file)
    \/ Start \/ Leave
    \/ \E r \in DOMAIN runs, m \in Master : Approve(r, m) \/ Skip(r, m)
    \/ \E m \in Master : Move(m)
    \/ \E ch \in Channel, k \in ChannelKey : Remap(ch, k)
    \/ \E m \in Master, f \in {"bundle", "unmanaged", "archived"} : Flag(m, f)

Spec == Init /\ [][Next]_vars
=============================================================================
