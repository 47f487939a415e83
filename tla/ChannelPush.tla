---------------------------- MODULE ChannelPush ----------------------------
(***************************************************************************)
(* How the stock of bundles reaches a channel: the hourly job              *)
(* (cli/push_bundle_availability.py, services/bundle_push.py) and the      *)
(* retry of a failed attempt from the admin screen                         *)
(* (ui/routes/sync_errors.py), both through services/inventory_push.py.    *)
(*                                                                         *)
(* Stock is read without a lock and sent to the channel as an absolute     *)
(* quantity.  The audit rows of all pushes of a job are committed together *)
(* at its end; the channel keeps what it took whatever becomes of them.    *)
(*                                                                         *)
(* Abstractions.  One channel, and one listing per bundle.  Equal audit    *)
(* rows are one.  A request does not reach the channel after the call that *)
(* sent it has ended.                                                      *)
(***************************************************************************)
EXTENDS Integers, FiniteSetsExt

CONSTANTS
    Sku,       \* master_skus rows
    Bundle,    \* those with is_bundle
    Per,       \* [Bundle -> [Sku -> Nat]]: quantity_per, 0 where not a component
    Job,       \* processes that run the scheduled job
    Screen,    \* processes that serve retries
    Quantity,  \* bound: the on-hand quantities a SKU may have
    MaxMoves   \* bound: changes of stock, catalogue and mappings

ASSUME BundleAssumption ==
    /\ Bundle \subseteq Sku
    /\ Per \in [Bundle -> [Sku -> Nat]]
    /\ \A b, c \in Bundle : Per[b][c] > 0 => Per[c] = [s \in Sku |-> 0]
ASSUME QuantityAssumption == Quantity \subseteq Int /\ IsFiniteSet(Quantity) /\ Quantity # {}
ASSUME ProcessAssumption == Job \cap Screen = {}
ASSUME MaxMovesAssumption == MaxMoves \in Nat

VARIABLES
    stock,   \* on_hand_qty of each SKU that is not a set
    live,    \* bundles that are stock managed and not archived
    mapped,  \* bundles with an active mapping on the channel
    moves,   \* changes of these three so far
    shown,   \* what the channel shows of each bundle
    audit,   \* committed sync_attempts rows that say failed
    push     \* the transaction of each process: a job or a retry

catalogue == <<stock, live, mapped, moves>>
vars == <<stock, live, mapped, moves, shown, audit, push>>

Process == Job \cup Screen

Row == [bundle : Bundle, qty : Int, status : {"pending", "succeeded", "failed"}]

-----------------------------------------------------------------------------
(* Derived availability *)

Parts(b) == {c \in Sku : Per[b][c] > 0}

\* SKUs whose own stock counts.
Stocked == {c \in Sku : c \in Bundle => Parts(c) = {}}

Share(b, c) == stock[c] \div Per[b][c]

\* Faulty variant: a component that has run out does not count.
AvailableOfAny(b) ==
    IF Parts(b) = {} THEN stock[b] ELSE Max({0} \cup {Share(b, c) : c \in Parts(b)})

\* get_bundle_available: a bundle without components has its own stock, and that
\* is not clamped.
Available(b) ==
    IF Parts(b) = {} THEN stock[b] ELSE Max({0, Min({Share(b, c) : c \in Parts(b)})})

\* What that number is meant to be: the most of the bundle that can be made.
CanMake(b, qty) ==
    LET need(c) == IF Parts(b) = {} /\ c = b THEN 1 ELSE Per[b][c]
        enough(n) == \A c \in Stocked : need(c) > 0 => n * need(c) <= qty[c]
    IN  Max({0} \cup {n \in 1..Max(Quantity) : enough(n)})

-----------------------------------------------------------------------------
\* A transaction: the bundles left to push, the rows it has flushed (a pending
\* one is the push in hand), and two histories: the pairs of a bundle and a
\* quantity the channel took from it, and what could be made of each bundle at
\* some moment since it began.
NoPush == [open |-> FALSE, todo |-> {}, rows |-> {}, took |-> {},
           seen |-> [b \in Bundle |-> {}]]

Begin(todo) ==
    [NoPush EXCEPT !.open = TRUE, !.todo = todo,
                   !.seen = [b \in Bundle |-> {CanMake(b, stock)}]]

InHand(p) == {r \in push[p].rows : r.status = "pending"}

Init ==
    /\ stock = [c \in Stocked |-> Max(Quantity)]
    /\ live = Bundle
    /\ mapped = Bundle
    /\ moves = 0
    /\ shown = [b \in Bundle |-> 0]
    /\ audit = {}
    /\ push = [p \in Process |-> NoPush]

-----------------------------------------------------------------------------
(* The rest of the system *)

\* Orders, counts and adjustments change the stock of a SKU.
Move(c, q) ==
    /\ moves < MaxMoves /\ q # stock[c]
    /\ moves' = moves + 1
    /\ stock' = [stock EXCEPT ![c] = q]
    /\ push' = [p \in Process |->
                    IF push[p].open
                    THEN [push[p] EXCEPT !.seen =
                            [b \in Bundle |-> @[b] \cup {CanMake(b, stock')}]]
                    ELSE push[p]]
    /\ UNCHANGED <<live, mapped, shown, audit>>

\* A bundle is retired or taken back, its mapping dropped or made.
Relist(b) ==
    /\ moves < MaxMoves
    /\ moves' = moves + 1
    /\ \/ live' = SymDiff(live, {b}) /\ UNCHANGED mapped
       \/ mapped' = SymDiff(mapped, {b}) /\ UNCHANGED live
    /\ UNCHANGED <<stock, shown, audit, push>>

-----------------------------------------------------------------------------
(* What begins a transaction *)

\* The hourly job: all live bundles, in no particular order.
StartJob(p) ==
    /\ p \in Job /\ ~push[p].open
    /\ push' = [push EXCEPT ![p] = Begin(live)]
    /\ UNCHANGED <<catalogue, shown, audit>>

\* Faulty variant: the retry sends what the failed attempt sent.
StartResend(p) ==
    /\ p \in Screen /\ ~push[p].open
    /\ \E r \in audit :
        push' = [push EXCEPT ![p] = [Begin({}) EXCEPT !.rows = {[r EXCEPT !.status = "pending"]}]]
    /\ UNCHANGED <<catalogue, shown, audit>>

\* Any failed attempt can be retried, again and again: its row stays failed.
StartRetry(p) ==
    /\ p \in Screen /\ ~push[p].open
    /\ \E r \in audit : push' = [push EXCEPT ![p] = Begin({r.bundle})]
    /\ UNCHANGED <<catalogue, shown, audit>>

-----------------------------------------------------------------------------
(* One push *)

Turn(p, b) == push[p].open /\ b \in push[p].todo /\ InHand(p) = {}

\* The job passes over a bundle without a mapping.
Skip(p, b) ==
    /\ Turn(p, b) /\ p \in Job /\ b \notin mapped
    /\ push' = [push EXCEPT ![p].todo = @ \ {b}]
    /\ UNCHANGED <<catalogue, shown, audit>>

\* The quantity is read and its row flushed.  A retry uses the listing of the
\* failed row and does not ask whether the bundle is live or mapped.
Read(p, b) ==
    /\ Turn(p, b) /\ (p \in Job => b \in mapped)
    /\ push' = [push EXCEPT
                    ![p].todo = @ \ {b},
                    ![p].rows = @ \cup {[bundle |-> b, qty |-> Available(b), status |-> "pending"]}]
    /\ UNCHANGED <<catalogue, shown, audit>>

\* The request takes effect; the adapter sends it again after an HTTP error.  It
\* never sends a negative quantity.
ChannelTakes(p, b) ==
    \E r \in InHand(p) :
        /\ r.bundle = b /\ r.qty >= 0
        /\ shown' = [shown EXCEPT ![b] = r.qty]
        /\ push' = [push EXCEPT ![p].took = @ \cup {<<b, r.qty>>}]
        /\ UNCHANGED <<catalogue, audit>>

Mark(p, r, status) ==
    /\ push' = [push EXCEPT ![p].rows = (@ \ {r}) \cup {[r EXCEPT !.status = status]}]
    /\ UNCHANGED <<catalogue, shown, audit>>

Succeed(p) ==
    \E r \in InHand(p) :
        /\ <<r.bundle, r.qty>> \in push[p].took
        /\ Mark(p, r, "succeeded")

\* The call raises, possibly after the channel took the quantity (a lost answer).
\* push_single catches everything, and the job goes on.
Fail(p) == \E r \in InHand(p) : Mark(p, r, "failed")

-----------------------------------------------------------------------------
(* What ends a transaction *)

Finish(p) ==
    /\ push[p].open /\ push[p].todo = {} /\ InHand(p) = {}
    /\ audit' = audit \cup {r \in push[p].rows : r.status = "failed"}
    /\ push' = [push EXCEPT ![p] = NoPush]
    /\ UNCHANGED <<catalogue, shown>>

\* The process dies or the database fails: every row of the transaction is
\* undone, and the channel keeps what it took.
Crash(p) ==
    /\ push[p].open
    /\ push' = [push EXCEPT ![p] = NoPush]
    /\ UNCHANGED <<catalogue, shown, audit>>

-----------------------------------------------------------------------------
Step(p) ==
    \/ Succeed(p) \/ Fail(p) \/ Finish(p) \/ Crash(p)
    \/ \E b \in Bundle : Skip(p, b) \/ Read(p, b)

Next ==
    \/ \E c \in Stocked, q \in Quantity : Move(c, q)
    \/ \E b \in Bundle : Relist(b)
    \/ \E p \in Process :
        \/ StartJob(p) \/ StartRetry(p) \/ Step(p)
        \/ \E b \in Bundle : ChannelTakes(p, b)

Spec == Init /\ [][Next]_vars

\* Cloud Scheduler starts the job again and again, and what has begun goes on or
\* dies.  Not every run dies before it reaches a bundle, and the channel does not
\* refuse a bundle for ever.
Fairness ==
    /\ \A p \in Process : WF_vars(Step(p))
    /\ \A p \in Job :
        /\ WF_vars(StartJob(p))
        /\ \A b \in Bundle : SF_vars(Read(p, b)) /\ SF_vars(ChannelTakes(p, b))

FairSpec == Spec /\ Fairness

-----------------------------------------------------------------------------
(* Properties *)

\* What the channel shows of a bundle only ever becomes a number that could be
\* made of it at some moment of the transaction that pushes it: never more, never
\* a shortage, never the number of an earlier attempt (bundle_push.py:98,
\* sync_errors.py:205, inventory.py:70-80).
ShownCouldBeMade ==
    [][\A b \in Bundle :
        shown'[b] # shown[b] =>
            \E p \in Process : \E r \in InHand(p) :
                r.bundle = b /\ shown'[b] \in push[p].seen[b]]_vars

\* Once nothing changes any more the channel shows what can be made of every live
\* bundle with a mapping, whatever pushes and retries crossed each other before
\* and go on.  Excepted is a bundle without components whose own stock is
\* negative: the adapter refuses to send that, and the old number stays.
ShownIsRight ==
    \A b \in Bundle :
        <>[](b \in live \cap mapped /\ (Parts(b) # {} \/ stock[b] >= 0) =>
                shown[b] = CanMake(b, stock))
=============================================================================
