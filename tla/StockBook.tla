------------------------------ MODULE StockBook ------------------------------
(***************************************************************************)
(* What the inventory ledger promises its callers: a book of stock in      *)
(* which whole transactions happen one at a time.  Of each SKU the book    *)
(* has the quantity and which order lines took stock and got it back;      *)
(* there are no sessions, locks, rows or snapshots.  InventoryLedger       *)
(* implements it.                                                          *)
(***************************************************************************)
EXTENDS Integers, Sequences

CONSTANTS
    Sku,
    Work        \* the transactions: sequences of calls [kind, sku, line, qty]

VARIABLE book

Account == [quantity |-> 0, taken |-> {}, credited |-> {}]

Init == book = [s \in Sku |-> Account]

\* A line takes stock once, into the negative if need be.
Consume(a, c) ==
    IF c.line \in a.taken THEN {a}
    ELSE {[a EXCEPT !.quantity = @ - c.qty, !.taken = @ \cup {c.line}]}

\* A line gets back at most once what it took.  A cancellation that runs beside
\* its order may find nothing taken and change nothing.
Return(a, c) ==
    {a} \cup IF c.line \in a.taken \ a.credited
             THEN {[a EXCEPT !.quantity = @ + c.qty, !.credited = @ \cup {c.line}]} ELSE {}

\* Refused, with its transaction, if the quantity would be negative.
Adjust(a, c) ==
    IF a.quantity + c.qty >= 0 THEN {[a EXCEPT !.quantity = @ + c.qty]} ELSE {}

Count(a, c) == {[a EXCEPT !.quantity = c.qty]}

\* The accounts a call may leave behind; none if it is refused.
Outcomes(a, c) ==
    CASE c.kind = "consume" -> Consume(a, c)
      [] c.kind = "return" -> Return(a, c)
      [] c.kind = "adjust" -> Adjust(a, c)
      [] c.kind = "count" -> Count(a, c)

\* The books the calls of a transaction, each on the outcome of the one before,
\* may leave behind.
Results(w) ==
    LET after[i \in 0..Len(w)] ==
            IF i = 0 THEN {book}
            ELSE UNION {{[b EXCEPT ![w[i].sku] = a] : a \in Outcomes(b[w[i].sku], w[i])} :
                           b \in after[i - 1]}
    IN  after[Len(w)]

Next == \E w \in Work : book' \in Results(w)

Spec == Init /\ [][Next]_book
=============================================================================
