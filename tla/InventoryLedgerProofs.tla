------------------------ MODULE InventoryLedgerProofs ------------------------
(***************************************************************************)
(* Theorems about InventoryLedger, for every set of SKUs, sessions and     *)
(* transactions, and, at the end, about SnapshotRepair, which extends it.  *)
(*                                                                         *)
(* The safety properties speak of committed logs, while everything that    *)
(* decides them happens in open transactions.  LedgerInv adds what a       *)
(* session may rely on between two of its statements: it alone holds its   *)
(* rows, its view of them is exact, and its log with its own events at the *)
(* end is in order.                                                        *)
(*                                                                         *)
(* First come lemmas about the operators that read a SKU's log.  Balance   *)
(* is a recursive function; facts about it are proved by induction in the  *)
(* form of NumberLemmas' SetInduction: a set of naturals that contains 0   *)
(* and is closed under successor contains them all.                        *)
(***************************************************************************)
EXTENDS SnapshotRepair, NumberLemmas, SequenceTheorems, TLAPS

-----------------------------------------------------------------------------
(* Appending *)

\* Appending to the second of two logs appends to both together.
LEMMA ConcatAppend ==
    ASSUME NEW st \in Seq(Event), NEW tt \in Seq(Event), NEW e \in Event
    PROVE  st \o Append(tt, e) = Append(st \o tt, e)
<1>1. <<e>> \in Seq(Event)
  OBVIOUS
<1>2. Append(tt, e) = tt \o <<e>>
  BY AppendIsConcat
<1>3. st \o tt \in Seq(Event)
  BY ConcatProperties
<1>4. Append(st \o tt, e) = (st \o tt) \o <<e>>
  BY <1>3, AppendIsConcat
<1>5. st \o (tt \o <<e>>) = (st \o tt) \o <<e>>
  BY <1>1, ConcatAssociative
<1> QED
  BY <1>2, <1>4, <1>5

-----------------------------------------------------------------------------
(* The running balance *)

\* g is a running balance of the first n events of sq.
IsBalance(g, sq, n) ==
    g = [i \in 0..n |-> IF i = 0 THEN 0 ELSE g[i - 1] + sq[i].delta]

\* Every prefix of a log has a running balance.
LEMMA BalanceExists ==
    ASSUME NEW sq \in Seq(Event)
    PROVE  \A n \in Nat : n <= Len(sq) => \E g : IsBalance(g, sq, n)
<1> DEFINE G == {n \in Nat : n <= Len(sq) => \E g : IsBalance(g, sq, n)}
<1>1. 0 \in G
  <2>1. IsBalance([i \in 0..0 |-> 0], sq, 0)
    BY DEF IsBalance
  <2> QED
    BY <2>1
<1>2. ASSUME NEW n \in Nat, n \in G, n + 1 <= Len(sq)
      PROVE  \E g : IsBalance(g, sq, n + 1)
  <2>1. PICK g : IsBalance(g, sq, n)
    BY <1>2
  <2> DEFINE h == [i \in 0..(n + 1) |-> IF i <= n THEN g[i] ELSE g[n] + sq[i].delta]
  <2>2. ASSUME NEW i \in 0..(n + 1)
        PROVE  h[i] = IF i = 0 THEN 0 ELSE h[i - 1] + sq[i].delta
    <3>1. CASE i = 0
      BY <2>1, <3>1 DEF IsBalance
    <3>2. CASE i \in 1..n
      <4>1. i \in 0..n /\ i - 1 \in 0..n
        BY <3>2
      <4>2. h[i] = g[i] /\ h[i - 1] = g[i - 1]
        BY <4>1
      <4>3. g[i] = g[i - 1] + sq[i].delta
        BY <2>1, <3>2, <4>1 DEF IsBalance
      <4> QED
        BY <3>2, <4>2, <4>3
    <3>3. CASE i = n + 1
      <4>1. h[i] = g[n] + sq[i].delta /\ h[i - 1] = g[n]
        BY <3>3
      <4> QED
        BY <3>3, <4>1
    <3> QED
      BY <3>1, <3>2, <3>3
  <2>3. IsBalance(h, sq, n + 1)
    BY <2>2 DEF IsBalance
  <2> QED
    BY <2>3
<1>3. \A n \in Nat : n \in G
  <2> HIDE DEF G
  <2>1. \A n \in Nat : n \in G => n + 1 \in G
    BY <1>2 DEF G
  <2> QED
    BY <1>1, <2>1, SetInduction
<1> QED
  BY <1>3

\* Balance satisfies its recursion: it starts at 0, each event moves it by its
\* delta, and it is an integer throughout.
LEMMA BalanceDef ==
    ASSUME NEW sq \in Seq(Event)
    PROVE  /\ Balance(sq) \in [0..Len(sq) -> Int]
           /\ Balance(sq)[0] = 0
           /\ \A i \in 1..Len(sq) : Balance(sq)[i] = Balance(sq)[i - 1] + sq[i].delta
<1> DEFINE B == Balance(sq)
<1>1. Len(sq) \in Nat
  OBVIOUS
<1>2. \E g : IsBalance(g, sq, Len(sq))
  BY <1>1, BalanceExists
<1>3. IsBalance(B, sq, Len(sq))
  BY <1>2 DEF IsBalance, Balance
<1> HIDE DEF B
<1>4. B[0] = 0 /\ \A i \in 1..Len(sq) : B[i] = B[i - 1] + sq[i].delta
  BY <1>1, <1>3 DEF IsBalance
<1> DEFINE G == {n \in Nat : n <= Len(sq) => B[n] \in Int}
<1>5. \A n \in Nat : n \in G
  <2>1. 0 \in G
    BY <1>4
  <2>2. ASSUME NEW n \in Nat, n \in G, n + 1 <= Len(sq)
        PROVE  B[n + 1] \in Int
    <3>1. n + 1 \in 1..Len(sq) /\ (n + 1) - 1 = n
      BY <1>1, <2>2
    <3>2. sq[n + 1] \in Event
      BY <3>1, ElementOfSeq
    <3>3. sq[n + 1].delta \in Int
      BY <3>2 DEF Event
    <3> QED
      BY <1>1, <1>4, <2>2, <3>1, <3>3
  <2> HIDE DEF G
  <2>3. \A n \in Nat : n \in G => n + 1 \in G
    BY <2>2 DEF G
  <2> QED
    BY <2>1, <2>3, SetInduction
<1>6. B \in [0..Len(sq) -> Int]
  BY <1>1, <1>3, <1>5 DEF IsBalance
<1> QED
  BY <1>4, <1>6 DEF B

\* A log without events adds up to 0.
LEMMA TotalEmpty == Total(<<>>) = 0
<1>1. <<>> \in Seq(Event) /\ Len(<<>>) = 0
  OBVIOUS
<1> QED
  BY <1>1, BalanceDef DEF Total

\* The total of a log is an integer.
LEMMA TotalType ==
    ASSUME NEW sq \in Seq(Event)
    PROVE  Total(sq) \in Int
<1>1. Len(sq) \in 0..Len(sq)
  OBVIOUS
<1> QED
  BY <1>1, BalanceDef DEF Total

\* Appending an event leaves the balances before it alone.
LEMMA BalanceAppend ==
    ASSUME NEW sq \in Seq(Event), NEW e \in Event
    PROVE  \A i \in 0..Len(sq) : Balance(Append(sq, e))[i] = Balance(sq)[i]
<1> DEFINE ap == Append(sq, e)
<1>1. /\ ap \in Seq(Event)
      /\ Len(ap) = Len(sq) + 1
      /\ Len(sq) \in Nat
      /\ \A i \in 1..Len(sq) : ap[i] = sq[i]
  BY AppendProperties
<1> HIDE DEF ap
<1> DEFINE G == {n \in Nat : n <= Len(sq) => Balance(ap)[n] = Balance(sq)[n]}
<1>2. 0 \in G
  BY <1>1, BalanceDef
<1>3. ASSUME NEW n \in Nat, n \in G, n + 1 <= Len(sq)
      PROVE  Balance(ap)[n + 1] = Balance(sq)[n + 1]
  <2>1. n + 1 \in 1..Len(sq) /\ n + 1 \in 1..Len(ap) /\ (n + 1) - 1 = n
    BY <1>1, <1>3
  <2>2. Balance(ap)[n + 1] = Balance(ap)[n] + ap[n + 1].delta
    BY <1>1, <2>1, BalanceDef
  <2>3. Balance(sq)[n + 1] = Balance(sq)[n] + sq[n + 1].delta
    BY <2>1, BalanceDef
  <2>4. Balance(ap)[n] = Balance(sq)[n]
    BY <1>3
  <2> QED
    BY <1>1, <2>1, <2>2, <2>3, <2>4
<1>4. \A n \in Nat : n \in G
  <2> HIDE DEF G
  <2>1. \A n \in Nat : n \in G => n + 1 \in G
    BY <1>3 DEF G
  <2> QED
    BY <1>2, <2>1, SetInduction
<1> QED
  BY <1>1, <1>4 DEF ap

\* Appending an event moves the total by its delta.
LEMMA TotalAppend ==
    ASSUME NEW sq \in Seq(Event), NEW e \in Event
    PROVE  Total(Append(sq, e)) = Total(sq) + e.delta
<1> DEFINE ap == Append(sq, e)
           n == Len(sq)
<1>1. /\ ap \in Seq(Event)
      /\ Len(ap) = n + 1
      /\ n \in Nat
      /\ ap[n + 1] = e
  BY AppendProperties
<1>2. Balance(ap)[n] = Balance(sq)[n]
  BY <1>1, BalanceAppend
<1> HIDE DEF ap
<1>3. Balance(ap)[n + 1] = Balance(ap)[n] + ap[n + 1].delta
  <2>1. n + 1 \in 1..Len(ap) /\ (n + 1) - 1 = n
    BY <1>1
  <2> QED
    BY <1>1, <2>1, BalanceDef
<1> QED
  BY <1>1, <1>2, <1>3 DEF Total, ap

-----------------------------------------------------------------------------
(* Orderly logs stay orderly *)

\* An event whose type and source are not among the rows, or that has no
\* source, keeps sourced events unique.
LEMMA OnceEachAppend ==
    ASSUME NEW sq \in Seq(Event), NEW e \in Event, OnceEach(sq),
           e.line = NoLine \/ ~ HasEvent(sq, e.type, e.line)
    PROVE  OnceEach(Append(sq, e))
<1> DEFINE ap == Append(sq, e)
<1>1. /\ Len(ap) = Len(sq) + 1
      /\ Len(sq) \in Nat
      /\ \A i \in 1..Len(sq) : ap[i] = sq[i]
      /\ ap[Len(sq) + 1] = e
  BY AppendProperties
<1> HIDE DEF ap
<1> SUFFICES ASSUME NEW i \in 1..Len(ap), NEW j \in 1..Len(ap),
                    ap[i].line # NoLine,
                    ap[i].type = ap[j].type,
                    ap[i].line = ap[j].line
             PROVE  i = j
  BY DEF OnceEach, ap
<1>2. CASE i \in 1..Len(sq) /\ j \in 1..Len(sq)
  BY <1>1, <1>2 DEF OnceEach
<1>3. CASE i \in 1..Len(sq) /\ j = Len(sq) + 1
  BY <1>1, <1>3 DEF HasEvent
<1>4. CASE i = Len(sq) + 1 /\ j \in 1..Len(sq)
  BY <1>1, <1>4 DEF HasEvent
<1>5. CASE i = Len(sq) + 1 /\ j = Len(sq) + 1
  BY <1>5
<1> QED
  BY <1>1, <1>2, <1>3, <1>4, <1>5

\* A credit whose consumption is among the rows keeps credits after consumptions.
LEMMA CreditsFollowAppend ==
    ASSUME NEW sq \in Seq(Event), NEW e \in Event, CreditsFollow(sq),
           e.type = "cancellation_returned" => HasEvent(sq, "order_consumed", e.line)
    PROVE  CreditsFollow(Append(sq, e))
<1> DEFINE ap == Append(sq, e)
<1>1. /\ Len(ap) = Len(sq) + 1
      /\ Len(sq) \in Nat
      /\ \A i \in 1..Len(sq) : ap[i] = sq[i]
      /\ ap[Len(sq) + 1] = e
  BY AppendProperties
<1> HIDE DEF ap
<1> SUFFICES ASSUME NEW i \in 1..Len(ap), ap[i].type = "cancellation_returned"
             PROVE  \E j \in 1..(i - 1) : /\ ap[j].type = "order_consumed"
                                          /\ ap[j].line = ap[i].line
  BY DEF CreditsFollow, ap
<1>2. CASE i \in 1..Len(sq)
  <2>1. PICK j \in 1..(i - 1) : /\ sq[j].type = "order_consumed"
                                /\ sq[j].line = sq[i].line
    BY <1>1, <1>2 DEF CreditsFollow
  <2> QED
    BY <1>1, <1>2, <2>1
<1>3. CASE i = Len(sq) + 1
  <2>1. PICK j \in 1..Len(sq) : /\ sq[j].type = "order_consumed"
                                /\ sq[j].line = e.line
    BY <1>1, <1>3 DEF HasEvent
  <2> QED
    BY <1>1, <1>3, <2>1
<1> QED
  BY <1>1, <1>2, <1>3

\* An adjustment that leaves the total at or above zero keeps adjustments covered.
LEMMA AdjustsCoveredAppend ==
    ASSUME NEW sq \in Seq(Event), NEW e \in Event, AdjustsCovered(sq),
           e.type = "manual_adjust" => Total(sq) + e.delta >= 0
    PROVE  AdjustsCovered(Append(sq, e))
<1> DEFINE ap == Append(sq, e)
<1>1. /\ Len(ap) = Len(sq) + 1
      /\ Len(sq) \in Nat
      /\ \A i \in 1..Len(sq) : ap[i] = sq[i]
      /\ ap[Len(sq) + 1] = e
  BY AppendProperties
<1>2. \A i \in 0..Len(sq) : Balance(ap)[i] = Balance(sq)[i]
  BY BalanceAppend
<1>3. Balance(ap)[Len(sq) + 1] = Total(sq) + e.delta
  BY <1>1, TotalAppend DEF Total
<1> HIDE DEF ap
<1> SUFFICES ASSUME NEW i \in 1..Len(ap), ap[i].type = "manual_adjust"
             PROVE  Balance(ap)[i] >= 0
  BY DEF AdjustsCovered, ap
<1>4. CASE i \in 1..Len(sq)
  BY <1>1, <1>2, <1>4 DEF AdjustsCovered
<1>5. CASE i = Len(sq) + 1
  BY <1>1, <1>3, <1>5
<1> QED
  BY <1>1, <1>4, <1>5

-----------------------------------------------------------------------------
(* The inductive invariant: what the open sessions know goes with the tables *)

LedgerInv ==
    /\ TypeOK
    /\ SnapshotMatchesLog
    /\ \A s \in Sku : InOrder(log[s])
    /\ WritersAreIsolated

-----------------------------------------------------------------------------
(* Types *)

\* The constant functions and the empty call list are typed.
LEMMA ConstantTypes ==
    /\ NoQty \in [Sku -> Int]
    /\ NoRows \in [Sku -> Seq(Event)]
    /\ <<>> \in Seq(Call)
    /\ \A s \in Sku : NoQty[s] = 0 /\ NoRows[s] = <<>>
  BY DEF NoQty, NoRows

\* The call a session is working on, and what is left after it.
LEMMA CallType ==
    ASSUME TypeOK, NEW p \in Session, todo[p] # <<>>
    PROVE  /\ call(p) \in Call
           /\ call(p).kind \in Kind
           /\ call(p).sku \in Sku
           /\ call(p).line \in Line \cup {NoLine}
           /\ call(p).qty \in Int
           /\ call(p) = todo[p][1]
           /\ Tail(todo[p]) \in Seq(Call)
           /\ Len(Tail(todo[p])) = Len(todo[p]) - 1
           /\ \A i \in 1..(Len(todo[p]) - 1) : Tail(todo[p])[i] = todo[p][i + 1]
<1>1. todo[p] \in Seq(Call)
  BY DEF TypeOK
<1>2. call(p) \in Call /\ call(p) = todo[p][1]
  BY <1>1, HeadTailProperties DEF call
<1>3. /\ Tail(todo[p]) \in Seq(Call)
      /\ Len(Tail(todo[p])) = Len(todo[p]) - 1
      /\ \A i \in 1..Len(Tail(todo[p])) : Tail(todo[p])[i] = todo[p][i + 1]
  BY <1>1, HeadTailProperties
<1> QED
  BY <1>2, <1>3 DEF Call

\* The committed, the own and the pending rows of a session are logs.
LEMMA PendingType ==
    ASSUME TypeOK, NEW p \in Session, NEW s \in Sku
    PROVE  /\ log[s] \in Seq(Event)
           /\ rows[p][s] \in Seq(Event)
           /\ Pending(p, s) \in Seq(Event)
  BY ConcatProperties DEF TypeOK, Pending

\* Ending a transaction leaves its session's variables typed.
LEMMA IdleType ==
    ASSUME TypeOK, NEW p \in Session, Idle(p)
    PROVE  /\ pc' \in [Session -> Pc]
           /\ todo' \in [Session -> Seq(Call)]
           /\ held' \in [Session -> SUBSET Sku]
           /\ work' \in [Session -> [Sku -> Int]]
           /\ rows' \in [Session -> [Sku -> Seq(Event)]]
  BY ConstantTypes DEF TypeOK, Idle, Pc

\* Appending an event with a delta in Int keeps rows and work typed.
LEMMA AppendType ==
    ASSUME TypeOK, NEW p \in Session, todo[p] # <<>>,
           NEW type \in EventType, NEW delta \in Int, Append1(p, type, delta)
    PROVE  /\ rows' \in [Session -> [Sku -> Seq(Event)]]
           /\ work' \in [Session -> [Sku -> Int]]
<1> DEFINE s == call(p).sku
           e == [type |-> type, line |-> call(p).line, delta |-> delta]
<1>1. s \in Sku /\ e \in Event
  BY CallType DEF Event
<1>2. rows' = [rows EXCEPT ![p][s] = Append(@, e)]
  BY DEF Append1
<1>3. work' = [work EXCEPT ![p][s] = @ + delta]
  BY DEF Append1
<1> HIDE DEF s, e
<1>4. Append(rows[p][s], e) \in Seq(Event)
  BY <1>1, AppendProperties DEF TypeOK
<1> QED
  BY <1>1, <1>2, <1>3, <1>4 DEF TypeOK

\* Going on to the next call keeps todo and pc typed.
LEMMA NextCallType ==
    ASSUME TypeOK, NEW p \in Session, todo[p] # <<>>, NextCall(p)
    PROVE  /\ todo' \in [Session -> Seq(Call)]
           /\ pc' \in [Session -> Pc]
  BY CallType DEF TypeOK, NextCall, Pc

-----------------------------------------------------------------------------
(* Steps inside a transaction *)

\* A step that commits nothing touches only its own session, so the invariant
\* has to be shown of that session alone.
LEMMA LocalStep ==
    ASSUME LedgerInv, TypeOK', UNCHANGED committed, NEW p \in Session,
           \A q \in Session \ {p} : /\ pc'[q] = pc[q]
                                    /\ todo'[q] = todo[q]
                                    /\ held'[q] = held[q]
                                    /\ work'[q] = work[q]
                                    /\ rows'[q] = rows[q],
           \A q \in Session \ {p} : held'[p] \cap held[q] = {},
           \A s \in Sku :
               IF s \in held'[p] THEN work'[p][s] = Total(log[s] \o rows'[p][s])
                                ELSE rows'[p][s] = <<>>,
           \A s \in Sku : InOrder(log[s] \o rows'[p][s]),
           CallIsPlaced(p)'
    PROVE  LedgerInv'
<1>1. log' = log /\ onHand' = onHand /\ hasRow' = hasRow
  BY DEF committed
<1>2. SnapshotMatchesLog' /\ \A s \in Sku : InOrder(log'[s])
  BY <1>1 DEF LedgerInv, SnapshotMatchesLog
<1>3. RowLocksExclude'
  BY DEF LedgerInv, WritersAreIsolated, RowLocksExclude
<1>4. ViewIsExact'
  BY <1>1 DEF LedgerInv, WritersAreIsolated, ViewIsExact, Pending
<1>5. PendingInOrder'
  BY <1>1 DEF LedgerInv, WritersAreIsolated, PendingInOrder, Pending
<1>6. ASSUME NEW q \in Session PROVE CallIsPlaced(q)'
  <2>1. CASE q = p
    BY <2>1
  <2>2. CASE q # p
    BY <1>1, <2>2 DEF LedgerInv, WritersAreIsolated, CallIsPlaced, call,
                       WasConsumed, Sees, Pending
  <2> QED
    BY <2>1, <2>2
<1>7. \A s \in Sku \ hasRow' : onHand'[s] = 0
  BY <1>1 DEF LedgerInv, WritersAreIsolated
<1> QED
  BY <1>2, <1>3, <1>4, <1>5, <1>6, <1>7 DEF LedgerInv, WritersAreIsolated

\* Beginning one of the transactions in Work keeps the invariant.
LEMMA BeginStep ==
    ASSUME LedgerInv, NEW p \in Session, Begin(p)
    PROVE  LedgerInv'
<1> USE DEF LedgerInv, WritersAreIsolated
<1>1. PICK w \in Work : todo' = [todo EXCEPT ![p] = w]
  BY DEF Begin
<1>2. w \in Seq(Call) /\ \A i \in 1..Len(w) : LegalCall(w[i])
  BY <1>1, WorkAssumption
<1>3. pc' = [pc EXCEPT ![p] = "stmt"] /\ UNCHANGED <<hasRow, onHand, log, held, work, rows>>
  BY DEF Begin
<1>4. TypeOK'
  BY <1>1, <1>2, <1>3 DEF TypeOK, Pc
<1>5. CallIsPlaced(p)'
  BY <1>1, <1>2, <1>3 DEF TypeOK, CallIsPlaced
<1> QED
  BY <1>1, <1>3, <1>4, <1>5, LocalStep
     DEF TypeOK, RowLocksExclude, ViewIsExact, PendingInOrder, Pending, committed

\* The step only moves the session on: nothing is locked or appended.
LEMMA ControlStep ==
    ASSUME LedgerInv, NEW p \in Session, todo[p] # <<>>,
           NEW at \in Pc, pc' = [pc EXCEPT ![p] = at],
           todo' = todo \/ todo' = [todo EXCEPT ![p] = Tail(@)],
           UNCHANGED <<hasRow, onHand, log, held, work, rows>>,
           CallIsPlaced(p)'
    PROVE  LedgerInv'
<1> USE DEF LedgerInv, WritersAreIsolated
<1>1. TypeOK'
  BY CallType DEF TypeOK
<1> QED
  BY <1>1, LocalStep
     DEF TypeOK, RowLocksExclude, ViewIsExact, PendingInOrder, Pending, committed

\* The check before a credit keeps the invariant: what it saw is recorded in pc.
LEMMA CheckReturnStep ==
    ASSUME LedgerInv, NEW p \in Session, CheckReturn(p)
    PROVE  LedgerInv'
<1> USE DEF LedgerInv, WritersAreIsolated
<1>1. CASE WasConsumed(p)
  <2>1. pc' = [pc EXCEPT ![p] = "credit"] /\ todo' = todo
    BY <1>1 DEF CheckReturn
  <2>2. CallIsPlaced(p)'
    BY <1>1, <2>1 DEF CheckReturn, CallIsPlaced, TypeOK, call, WasConsumed, Sees, Pending
  <2> QED
    BY <2>1, <2>2, ControlStep DEF CheckReturn, Pc
<1>2. CASE ~ WasConsumed(p)
  <2>1. pc' = pc /\ todo' = [todo EXCEPT ![p] = Tail(@)]
    BY <1>2 DEF CheckReturn
  <2>2. pc' = [pc EXCEPT ![p] = "stmt"]
    BY <2>1 DEF CheckReturn, TypeOK
  <2>3. CallIsPlaced(p)'
    BY <2>1, <2>2, CallType DEF CheckReturn, CallIsPlaced, TypeOK
  <2> QED
    BY <2>1, <2>2, <2>3, ControlStep DEF CheckReturn, Pc
<1> QED
  BY <1>1, <1>2

\* A SELECT FOR UPDATE that finds no row keeps the invariant.
LEMMA MissSnapshotStep ==
    ASSUME LedgerInv, NEW p \in Session, MissSnapshot(p)
    PROVE  LedgerInv'
<1> USE DEF LedgerInv, WritersAreIsolated
<1>1. todo[p] # <<>> /\ todo' = todo /\ pc' = [pc EXCEPT ![p] = "create"]
  BY DEF MissSnapshot, AtLock
<1>2. CallIsPlaced(p)'
  BY <1>1 DEF MissSnapshot, AtLock, CallIsPlaced, TypeOK, call, WasConsumed, Sees,
              Pending
<1> QED
  BY <1>1, <1>2, ControlStep DEF MissSnapshot, Pc

\* Every rollback keeps the invariant: the session holds and has appended nothing.
LEMMA RollbackStep ==
    ASSUME LedgerInv, NEW p \in Session, Rollback(p)
    PROVE  LedgerInv'
<1> USE DEF LedgerInv, WritersAreIsolated
<1>1. UNCHANGED <<hasRow, onHand, log>> /\ Idle(p)
  BY DEF Rollback, committed
<1>2. TypeOK'
  BY <1>1, IdleType DEF TypeOK
<1>3. held'[p] = {} /\ pc'[p] = "idle" /\ todo'[p] = <<>> /\ rows'[p] = NoRows
  BY <1>1 DEF Idle, TypeOK
<1>4. CallIsPlaced(p)'
  BY <1>3 DEF CallIsPlaced
<1>5. ASSUME NEW s \in Sku
      PROVE  rows'[p][s] = <<>> /\ InOrder(log[s] \o rows'[p][s])
  <2>1. rows'[p][s] = <<>> /\ log[s] \o <<>> = log[s]
    BY <1>3, ConstantTypes, PendingType, ConcatEmptySeq
  <2> QED
    BY <2>1
<1>6. \A q \in Session \ {p} : /\ pc'[q] = pc[q]
                                /\ todo'[q] = todo[q]
                                /\ held'[q] = held[q]
                                /\ work'[q] = work[q]
                                /\ rows'[q] = rows[q]
  BY <1>1 DEF Idle, TypeOK
<1>7. UNCHANGED committed
  BY <1>1 DEF committed
<1> HIDE DEF LedgerInv, WritersAreIsolated
<1> QED
  BY <1>2, <1>3, <1>4, <1>5, <1>6, <1>7, LocalStep

-----------------------------------------------------------------------------
(* Taking a row *)

\* The session adds the row of its current call to those it holds, and starts
\* from its committed quantity.
LEMMA AcquireStep ==
    ASSUME LedgerInv, NEW p \in Session, todo[p] # <<>>,
           \A q \in Session \ {p} : call(p).sku \notin held[q],
           held' = [held EXCEPT ![p] = @ \cup {call(p).sku}],
           work' = [work EXCEPT ![p][call(p).sku] =
                        IF call(p).sku \in held[p] THEN @ ELSE onHand[call(p).sku]],
           pc' = [pc EXCEPT ![p] = "locked"],
           UNCHANGED <<hasRow, onHand, log, todo, rows>>,
           call(p).kind = "return" => WasConsumed(p)
    PROVE  LedgerInv'
<1> USE DEF LedgerInv, WritersAreIsolated
<1> DEFINE k == call(p).sku
<1>1. k \in Sku
  BY CallType
<1>2. TypeOK'
  BY <1>1 DEF TypeOK, Pc
<1>3. CallIsPlaced(p)'
  BY <1>1 DEF TypeOK, CallIsPlaced, call, WasConsumed, Sees, Pending
<1>4. ASSUME NEW s \in Sku
      PROVE  /\ IF s \in held'[p] THEN work'[p][s] = Total(log[s] \o rows'[p][s])
                 ELSE rows'[p][s] = <<>>
             /\ InOrder(log[s] \o rows'[p][s])
  <2>1. rows'[p][s] = rows[p][s] /\ log[s] \o <<>> = log[s]
    BY PendingType, ConcatEmptySeq
  <2>2. InOrder(log[s] \o rows'[p][s])
    BY <2>1 DEF PendingInOrder, Pending
  <2>3. CASE s \in held[p]
    <3>1. s \in held'[p] /\ work'[p][s] = work[p][s]
      BY <1>1, <2>3 DEF TypeOK
    <3> QED
      BY <2>1, <2>2, <2>3, <3>1 DEF ViewIsExact, Pending
  <2>4. CASE s \notin held[p] /\ s = k
    <3>1. s \in held'[p] /\ work'[p][s] = onHand[s]
      BY <1>1, <2>4 DEF TypeOK
    <3>2. rows[p][s] = <<>>
      BY <2>4 DEF ViewIsExact
    <3> QED
      BY <2>1, <2>2, <3>1, <3>2 DEF SnapshotMatchesLog
  <2>5. CASE s \notin held[p] /\ s # k
    BY <2>1, <2>2, <2>5 DEF TypeOK, ViewIsExact
  <2> QED
    BY <2>3, <2>4, <2>5
<1>5. \A q \in Session \ {p} : held'[p] \cap held[q] = {}
  BY DEF TypeOK, RowLocksExclude
<1>6. \A q \in Session \ {p} : /\ pc'[q] = pc[q]
                                /\ todo'[q] = todo[q]
                                /\ held'[q] = held[q]
                                /\ work'[q] = work[q]
                                /\ rows'[q] = rows[q]
  BY DEF TypeOK
<1>7. UNCHANGED committed
  BY DEF committed
<1> HIDE DEF LedgerInv, WritersAreIsolated
<1> QED
  BY <1>2, <1>3, <1>4, <1>5, <1>6, <1>7, LocalStep

\* Locking an existing row keeps the invariant.
LEMMA LockSnapshotStep ==
    ASSUME LedgerInv, NEW p \in Session, LockSnapshot(p)
    PROVE  LedgerInv'
<1>1. /\ todo[p] # <<>>
      /\ call(p).kind = "return" => WasConsumed(p)
  BY DEF LedgerInv, WritersAreIsolated, LockSnapshot, AtLock, CallIsPlaced
<1> QED
  BY <1>1, AcquireStep DEF LockSnapshot, Unlocked

\* Inserting a missing row keeps the invariant: its committed quantity is 0.
LEMMA CreateSnapshotStep ==
    ASSUME LedgerInv, NEW p \in Session, CreateSnapshot(p)
    PROVE  LedgerInv'
<1>1. /\ todo[p] # <<>>
      /\ call(p).sku \in Sku
      /\ call(p).sku \notin held[p]
      /\ call(p).kind = "return" => WasConsumed(p)
  BY CallType DEF LedgerInv, WritersAreIsolated, CreateSnapshot, CallIsPlaced
<1>2. onHand[call(p).sku] = 0
  BY <1>1 DEF LedgerInv, WritersAreIsolated, CreateSnapshot
<1>3. work' = [work EXCEPT ![p][call(p).sku] =
                  IF call(p).sku \in held[p] THEN @ ELSE onHand[call(p).sku]]
  BY <1>1, <1>2 DEF CreateSnapshot
<1> QED
  BY <1>1, <1>3, AcquireStep DEF CreateSnapshot, Unlocked

-----------------------------------------------------------------------------
(* Appending an event *)

\* Appending an event under the row's lock keeps the invariant, if the event is
\* new, a credit follows its consumption and an adjustment is covered.
LEMMA AppendStep ==
    ASSUME LedgerInv, NEW p \in Session, pc[p] = "locked",
           NEW type \in EventType, NEW delta \in Int,
           Append1(p, type, delta), NextCall(p),
           UNCHANGED <<hasRow, onHand, log, held>>,
           \/ call(p).line = NoLine
           \/ ~ Sees(p, call(p).sku, type, call(p).line),
           type = "cancellation_returned" => WasConsumed(p),
           type = "manual_adjust" => work[p][call(p).sku] + delta >= 0
    PROVE  LedgerInv'
<1> USE DEF LedgerInv, WritersAreIsolated
<1> DEFINE k == call(p).sku
           e == [type |-> type, line |-> call(p).line, delta |-> delta]
<1>1. todo[p] # <<>> /\ k \in held[p]
  BY DEF CallIsPlaced
<1>2. k \in Sku /\ e \in Event
  BY <1>1, CallType DEF Event
<1>3. TypeOK'
  BY <1>1, AppendType, NextCallType DEF TypeOK
<1>4. /\ rows' = [rows EXCEPT ![p][k] = Append(@, e)]
      /\ work' = [work EXCEPT ![p][k] = @ + delta]
  BY DEF Append1
<1>5. /\ e.type = type
      /\ e.line = call(p).line
      /\ e.delta = delta
  OBVIOUS
<1> HIDE DEF e
<1>6. CallIsPlaced(p)'
  <2>1. pc'[p] = "stmt" /\ todo'[p] = Tail(todo[p])
    BY DEF NextCall, TypeOK
  <2> QED
    BY <1>1, <2>1, CallType DEF CallIsPlaced
<1>7. ASSUME NEW s \in Sku
      PROVE  /\ IF s \in held'[p] THEN work'[p][s] = Total(log[s] \o rows'[p][s])
                 ELSE rows'[p][s] = <<>>
             /\ InOrder(log[s] \o rows'[p][s])
  <2>1. CASE s = k
    <3>1. Pending(p, k) \in Seq(Event)
      BY <1>2, PendingType
    <3>2. log[k] \o rows'[p][k] = Append(Pending(p, k), e)
      <4>1. rows'[p][k] = Append(rows[p][k], e)
        BY <1>2, <1>4 DEF TypeOK
      <4>2. log[k] \in Seq(Event) /\ rows[p][k] \in Seq(Event)
        BY <1>2, PendingType
      <4>3. log[k] \o Append(rows[p][k], e) = Append(log[k] \o rows[p][k], e)
        BY <1>2, <4>2, ConcatAppend
      <4> QED
        BY <4>1, <4>3 DEF Pending
    <3>3. work[p][k] = Total(Pending(p, k)) /\ InOrder(Pending(p, k))
      BY <1>1, <1>2 DEF ViewIsExact, PendingInOrder
    <3>4. work'[p][k] = work[p][k] + delta
      BY <1>2, <1>4 DEF TypeOK
    <3>5. Total(Append(Pending(p, k), e)) = Total(Pending(p, k)) + delta
      BY <1>2, <1>5, <3>1, TotalAppend
    <3>6. OnceEach(Append(Pending(p, k), e))
      BY <1>2, <1>5, <3>1, <3>3, OnceEachAppend DEF InOrder, Sees
    <3>7. CreditsFollow(Append(Pending(p, k), e))
      BY <1>2, <1>5, <3>1, <3>3, CreditsFollowAppend DEF InOrder, WasConsumed, Sees
    <3>8. AdjustsCovered(Append(Pending(p, k), e))
      BY <1>2, <1>5, <3>1, <3>3, AdjustsCoveredAppend DEF InOrder
    <3> QED
      BY <1>1, <2>1, <3>2, <3>3, <3>4, <3>5, <3>6, <3>7, <3>8 DEF InOrder
  <2>2. CASE s # k
    <3>1. rows'[p][s] = rows[p][s] /\ work'[p][s] = work[p][s]
      BY <1>2, <1>4, <2>2 DEF TypeOK
    <3> QED
      BY <3>1 DEF ViewIsExact, PendingInOrder, Pending
  <2> QED
    BY <2>1, <2>2
<1>8. \A q \in Session \ {p} : held'[p] \cap held[q] = {}
  BY DEF RowLocksExclude
<1>9. \A q \in Session \ {p} : /\ pc'[q] = pc[q]
                                /\ todo'[q] = todo[q]
                                /\ held'[q] = held[q]
                                /\ work'[q] = work[q]
                                /\ rows'[q] = rows[q]
  BY <1>4 DEF TypeOK, NextCall
<1>10. UNCHANGED committed
  BY DEF committed
<1> HIDE DEF LedgerInv, WritersAreIsolated
<1> QED
  BY <1>3, <1>6, <1>7, <1>8, <1>9, <1>10, LocalStep

\* A consume or return, a duplicate one too, keeps the invariant.
LEMMA AppendSourcedStep ==
    ASSUME LedgerInv, NEW p \in Session, AppendSourced(p)
    PROVE  LedgerInv'
<1> USE DEF LedgerInv, WritersAreIsolated
<1> DEFINE type == SourcedType(p)
           delta == IF call(p).kind = "consume" THEN 0 - call(p).qty ELSE call(p).qty
<1>1. todo[p] # <<>> /\ pc[p] = "locked"
  BY DEF AppendSourced, CallIsPlaced
<1>2. type \in EventType /\ delta \in Int
  BY <1>1, CallType DEF EventType, SourcedType
<1>3. CASE Duplicate(p)
  <2>1. rows' = rows /\ work' = work
    BY <1>3 DEF AppendSourced
  <2>2. pc' = [pc EXCEPT ![p] = "stmt"] /\ todo' = [todo EXCEPT ![p] = Tail(@)]
    BY DEF AppendSourced, NextCall
  <2>3. CallIsPlaced(p)'
    BY <1>1, <2>2, CallType DEF TypeOK, CallIsPlaced
  <2> QED
    BY <1>1, <2>1, <2>2, <2>3, ControlStep DEF AppendSourced, Pc
<1>4. CASE ~ Duplicate(p)
  <2>1. Append1(p, type, delta) /\ NextCall(p)
    BY <1>4 DEF AppendSourced
  <2>2. type = "cancellation_returned" => WasConsumed(p)
    BY <1>1 DEF AppendSourced, CallIsPlaced, SourcedType
  <2>3. type # "manual_adjust" /\ ~ Sees(p, call(p).sku, type, call(p).line)
    BY <1>4 DEF SourcedType, Duplicate
  <2>4. UNCHANGED <<hasRow, onHand, log, held>>
    BY DEF AppendSourced
  <2> HIDE DEF LedgerInv, WritersAreIsolated, type, delta
  <2> QED
    BY <1>1, <1>2, <1>4, <2>1, <2>2, <2>3, <2>4, AppendStep
<1> QED
  BY <1>3, <1>4

\* An accepted adjustment keeps the invariant: it was covered under the lock.
LEMMA ManualAdjustStep ==
    ASSUME LedgerInv, NEW p \in Session, ManualAdjust(p)
    PROVE  LedgerInv'
<1>1. /\ todo[p] # <<>>
      /\ todo[p] \in Seq(Call)
      /\ \A i \in 1..Len(todo[p]) : LegalCall(todo[p][i])
  BY DEF LedgerInv, WritersAreIsolated, ManualAdjust, CallIsPlaced, TypeOK
<1>2. call(p) = todo[p][1] /\ call(p).qty \in Int
  BY <1>1, CallType DEF LedgerInv
<1>3. LegalCall(call(p))
  BY <1>1, <1>2
<1>4. call(p).line = NoLine
  BY <1>3 DEF LegalCall, ManualAdjust
<1>5. "manual_adjust" \in EventType
  BY DEF EventType
<1> QED
  BY <1>2, <1>4, <1>5, AppendStep DEF ManualAdjust, Sufficient

\* A stocktake write keeps the invariant.
LEMMA ApplyCountStep ==
    ASSUME LedgerInv, NEW p \in Session, ApplyCount(p)
    PROVE  LedgerInv'
<1>1. /\ todo[p] # <<>>
      /\ todo[p] \in Seq(Call)
      /\ \A i \in 1..Len(todo[p]) : LegalCall(todo[p][i])
  BY DEF LedgerInv, WritersAreIsolated, ApplyCount, CallIsPlaced, TypeOK
<1>2. call(p) = todo[p][1] /\ call(p).qty \in Int /\ call(p).sku \in Sku
  BY <1>1, CallType DEF LedgerInv
<1>3. LegalCall(call(p))
  BY <1>1, <1>2
<1>4. call(p).line = NoLine
  BY <1>3 DEF LegalCall, ApplyCount
<1>5. "stocktake" \in EventType /\ call(p).qty - work[p][call(p).sku] \in Int
  BY <1>2 DEF EventType, LedgerInv, TypeOK
<1> QED
  BY <1>4, <1>5, AppendStep DEF ApplyCount

-----------------------------------------------------------------------------
(* Commit *)

\* A commit replaces each row the session holds by its exact view of it and
\* each log by its pending log; nobody else has changed any of them.
LEMMA CommitStep ==
    ASSUME LedgerInv, NEW p \in Session, Commit(p)
    PROVE  LedgerInv'
<1> USE DEF LedgerInv, WritersAreIsolated
<1>1. /\ hasRow' = hasRow \cup held[p]
      /\ onHand' = [s \in Sku |-> IF s \in held[p] THEN work[p][s] ELSE onHand[s]]
      /\ log' = [s \in Sku |-> log[s] \o rows[p][s]]
      /\ Idle(p)
  BY DEF Commit
<1>2. \A s \in Sku : log'[s] = Pending(p, s) /\ log'[s] \in Seq(Event)
  BY <1>1, PendingType DEF Pending
<1>3. TypeOK'
  <2>1. hasRow' \subseteq Sku /\ onHand' \in [Sku -> Int]
    BY <1>1 DEF TypeOK
  <2>2. log' \in [Sku -> Seq(Event)]
    BY <1>1, <1>2
  <2> QED
    BY <1>1, <2>1, <2>2, IdleType DEF TypeOK
<1>4. \A q \in Session \ {p} : /\ pc'[q] = pc[q]
                                /\ todo'[q] = todo[q]
                                /\ held'[q] = held[q]
                                /\ work'[q] = work[q]
                                /\ rows'[q] = rows[q]
  BY <1>1 DEF Idle, TypeOK
<1>5. pc'[p] = "idle" /\ todo'[p] = <<>> /\ held'[p] = {} /\ rows'[p] = NoRows
  BY <1>1 DEF Idle, TypeOK
<1>6. ASSUME NEW s \in Sku, s \notin held[p]
      PROVE  log'[s] = log[s] /\ onHand'[s] = onHand[s]
  <2>1. rows[p][s] = <<>>
    BY <1>6 DEF ViewIsExact
  <2> QED
    BY <1>1, <1>6, <2>1, PendingType, ConcatEmptySeq
<1>7. ASSUME NEW s \in Sku PROVE onHand'[s] = Total(log'[s]) /\ InOrder(log'[s])
  <2>1. CASE s \in held[p]
    BY <1>1, <1>2, <2>1 DEF ViewIsExact, PendingInOrder
  <2>2. CASE s \notin held[p]
    BY <1>6, <2>2 DEF SnapshotMatchesLog
  <2> QED
    BY <2>1, <2>2
<1>8. RowLocksExclude'
  BY <1>4, <1>5 DEF RowLocksExclude
<1>9. ASSUME NEW q \in Session, NEW s \in Sku
      PROVE  /\ IF s \in held'[q] THEN work'[q][s] = Total(log'[s] \o rows'[q][s])
                 ELSE rows'[q][s] = <<>>
             /\ InOrder(log'[s] \o rows'[q][s])
  <2>1. log'[s] \o <<>> = log'[s]
    BY <1>2, ConcatEmptySeq
  <2>2. CASE q = p
    BY <1>5, <1>7, <2>1, <2>2, ConstantTypes
  <2>3. CASE q # p /\ s \in held[p]
    <3>1. s \notin held[q]
      BY <2>3 DEF RowLocksExclude
    <3>2. rows'[q][s] = <<>> /\ s \notin held'[q]
      BY <1>4, <2>3, <3>1 DEF ViewIsExact
    <3> QED
      BY <1>7, <2>1, <3>2
  <2>4. CASE q # p /\ s \notin held[p]
    BY <1>4, <1>6, <2>4 DEF ViewIsExact, PendingInOrder, Pending
  <2> QED
    BY <2>2, <2>3, <2>4
<1>10. ViewIsExact' /\ PendingInOrder'
  BY <1>9 DEF ViewIsExact, PendingInOrder, Pending
<1>11. ASSUME NEW q \in Session PROVE CallIsPlaced(q)'
  <2>1. CASE q = p
    BY <1>5, <2>1 DEF CallIsPlaced
  <2>2. CASE q # p
    <3>1. /\ pc'[q] = pc[q]
          /\ todo'[q] = todo[q]
          /\ held'[q] = held[q]
          /\ call(q)' = call(q)
      BY <1>4, <2>2 DEF call
    <3>2. ASSUME pc[q] \in {"credit", "create", "locked"}, call(q).kind = "return"
          PROVE  WasConsumed(q)'
      \* The consumption q has seen is still in the log it sees.
      <4> DEFINE k == call(q).sku
      <4>1. k \in Sku /\ WasConsumed(q)
        BY <3>2, CallType DEF CallIsPlaced
      <4>2. CASE k \notin held[p]
        <5>1. log'[k] = log[k] /\ rows'[q] = rows[q]
          BY <1>4, <1>6, <2>2, <4>1, <4>2
        <5> QED
          BY <3>1, <4>1, <5>1 DEF WasConsumed, Sees, Pending
      <4>3. CASE k \in held[p]
        <5>1. rows[q][k] = <<>> /\ rows'[q][k] = <<>>
          <6>1. k \notin held[q]
            BY <2>2, <4>3 DEF RowLocksExclude
          <6> QED
            BY <1>4, <2>2, <4>1, <6>1 DEF ViewIsExact
        <5>2. /\ Pending(q, k) = log[k]
              /\ log'[k] \o rows'[q][k] = log[k] \o rows[p][k]
          <6>1. log[k] \o <<>> = log[k]
            BY <4>1, PendingType, ConcatEmptySeq
          <6>2. log'[k] \o <<>> = log'[k]
            BY <1>2, <4>1, ConcatEmptySeq
          <6> QED
            BY <1>2, <4>1, <5>1, <6>1, <6>2 DEF Pending
        <5>3. HasEvent(log[k], "order_consumed", call(q).line)
          BY <4>1, <5>2 DEF WasConsumed, Sees
        <5>4. HasEvent(log[k] \o rows[p][k], "order_consumed", call(q).line)
          <6> DEFINE st == log[k]
                     tt == rows[p][k]
          <6>1. st \in Seq(Event) /\ tt \in Seq(Event)
            BY <4>1, PendingType
          <6>2. PICK i \in 1..Len(st) : /\ st[i].type = "order_consumed"
                                        /\ st[i].line = call(q).line
            BY <5>3 DEF HasEvent
          <6> HIDE DEF st, tt
          <6>3. i \in 1..Len(st \o tt) /\ (st \o tt)[i] = st[i]
            BY <6>1, <6>2, ConcatProperties
          <6>4. HasEvent(st \o tt, "order_consumed", call(q).line)
            BY <6>2, <6>3 DEF HasEvent
          <6> QED
            BY <6>4 DEF st, tt
        <5> QED
          BY <3>1, <5>2, <5>4 DEF WasConsumed, Sees, Pending
      <4> QED
        BY <4>2, <4>3
    <3> QED
      BY <3>1, <3>2 DEF CallIsPlaced
  <2> QED
    BY <2>1, <2>2
<1>12. ASSUME NEW s \in Sku \ hasRow' PROVE onHand'[s] = 0
  BY <1>1, <1>6
<1> QED
  BY <1>3, <1>7, <1>8, <1>10, <1>11, <1>12 DEF SnapshotMatchesLog

-----------------------------------------------------------------------------
(* The theorems *)

\* The empty database satisfies the invariant.
LEMMA LedgerInit == Init => LedgerInv
<1> SUFFICES ASSUME Init PROVE LedgerInv
  OBVIOUS
<1>1. TypeOK
  BY ConstantTypes DEF Init, TypeOK, Pc
<1>2. \A s \in Sku : log[s] = <<>> /\ onHand[s] = 0
  BY ConstantTypes DEF Init
<1>3. InOrder(<<>>)
  BY DEF InOrder, OnceEach, CreditsFollow, AdjustsCovered
<1>4. \A p \in Session, s \in Sku : rows[p][s] = <<>> /\ Pending(p, s) = <<>>
  BY ConstantTypes, <1>1, <1>2, PendingType, ConcatEmptySeq DEF Init, Pending
<1>5. SnapshotMatchesLog /\ \A s \in Sku : InOrder(log[s])
  BY <1>2, <1>3, TotalEmpty DEF SnapshotMatchesLog
<1>6. RowLocksExclude /\ ViewIsExact /\ PendingInOrder
  BY <1>3, <1>4 DEF Init, RowLocksExclude, ViewIsExact, PendingInOrder
<1>7. \A p \in Session : CallIsPlaced(p)
  BY DEF Init, CallIsPlaced
<1> QED
  BY <1>1, <1>2, <1>5, <1>6, <1>7 DEF LedgerInv, WritersAreIsolated

\* Every step, whoever takes it, keeps the invariant.
LEMMA LedgerStep == LedgerInv /\ [Next]_vars => LedgerInv'
<1> SUFFICES ASSUME LedgerInv, [Next]_vars PROVE LedgerInv'
  OBVIOUS
<1>1. CASE UNCHANGED vars
  BY <1>1 DEF vars, LedgerInv, TypeOK, SnapshotMatchesLog, WritersAreIsolated,
              RowLocksExclude, ViewIsExact, PendingInOrder, Pending, CallIsPlaced,
              call, WasConsumed, Sees
<1>2. ASSUME NEW p \in Session, Begin(p) PROVE LedgerInv'
  BY <1>2, BeginStep
<1>3. ASSUME NEW p \in Session, Step(p) PROVE LedgerInv'
  <2>1. CASE CheckReturn(p)
    BY <2>1, CheckReturnStep
  <2>2. CASE MissSnapshot(p)
    BY <2>2, MissSnapshotStep
  <2>3. CASE CreateConflict(p)
    BY <2>3, RollbackStep DEF CreateConflict
  <2>4. CASE AppendSourced(p)
    BY <2>4, AppendSourcedStep
  <2>5. CASE ManualAdjust(p)
    BY <2>5, ManualAdjustStep
  <2>6. CASE RefuseAdjust(p)
    BY <2>6, RollbackStep DEF RefuseAdjust
  <2>7. CASE ApplyCount(p)
    BY <2>7, ApplyCountStep
  <2>8. CASE Commit(p)
    BY <2>8, CommitStep
  <2> QED
    BY <1>3, <2>1, <2>2, <2>3, <2>4, <2>5, <2>6, <2>7, <2>8 DEF Step
<1>4. ASSUME NEW p \in Session, Acquire(p) PROVE LedgerInv'
  BY <1>4, LockSnapshotStep, CreateSnapshotStep DEF Acquire
<1>5. ASSUME NEW p \in Session, Fail(p) PROVE LedgerInv'
  BY <1>5, RollbackStep DEF Fail
<1>6. ASSUME NEW p \in Session, DeadlockVictim(p) PROVE LedgerInv'
  BY <1>6, RollbackStep DEF DeadlockVictim
<1> QED
  BY <1>1, <1>2, <1>3, <1>4, <1>5, <1>6 DEF Next

\* Whatever callers run and however their statements interleave, fail or roll
\* back, every table and open transaction is typed, every projection agrees
\* with its log, logs are in order and writers are isolated.
THEOREM LedgerInvariant == Spec => []LedgerInv
<1>1. Init => LedgerInv
  BY LedgerInit
<1>2. LedgerInv /\ [Next]_vars => LedgerInv'
  BY LedgerStep
<1> QED
  BY <1>1, <1>2, PTL DEF Spec

\* Every reachable state is typed.
THEOREM TypeCorrect == Spec => []TypeOK
<1>1. LedgerInv => TypeOK
  BY DEF LedgerInv
<1> QED
  BY <1>1, LedgerInvariant, PTL

\* The projection and the log never disagree in a committed state, the promise
\* the inventory service makes (inventory.py, approve_diff).
THEOREM SnapshotIsProjection == Spec => []SnapshotMatchesLog
<1>1. LedgerInv => SnapshotMatchesLog
  BY DEF LedgerInv
<1> QED
  BY <1>1, LedgerInvariant, PTL

\* One component of one order line is consumed at most once and credited at
\* most once, however often its order is delivered (_append_sourced_event).
THEOREM SourcedOnceHolds == Spec => []SourcedOnce
<1>1. LedgerInv => SourcedOnce
  BY DEF LedgerInv, InOrder, SourcedOnce
<1> QED
  BY <1>1, LedgerInvariant, PTL

\* A cancellation is credited only after the consumption it undoes
\* (return_order_line, _was_consumed).
THEOREM ReturnsFollow == Spec => []ReturnsFollowConsumption
<1>1. LedgerInv => ReturnsFollowConsumption
  BY DEF LedgerInv, InOrder, ReturnsFollowConsumption
<1> QED
  BY <1>1, LedgerInvariant, PTL

\* No manual adjustment leaves a SKU below zero (manual_adjust).
THEOREM AdjustmentsCovered == Spec => []AdjustNeverBelowZero
<1>1. LedgerInv => AdjustNeverBelowZero
  BY DEF LedgerInv, InOrder, AdjustNeverBelowZero
<1> QED
  BY <1>1, LedgerInvariant, PTL

\* Writers hold the rows they change exclusively and know their quantities
\* exactly (_lock_or_create_snapshot).
THEOREM WritersIsolated == Spec => []WritersAreIsolated
<1>1. LedgerInv => WritersAreIsolated
  BY DEF LedgerInv
<1> QED
  BY <1>1, LedgerInvariant, PTL

-----------------------------------------------------------------------------
(***************************************************************************)
(* The ledger implements StockBook, for every set of SKUs, lines,          *)
(* sessions and transactions: a commit is the whole transaction of one     *)
(* session done at once on the book as it stands at the commit, and no     *)
(* other step changes the book.                                            *)
(*                                                                         *)
(* The transaction began on an older book.  Progress says why this does    *)
(* not matter: the calls a session has made are a run of the book's        *)
(* operations from the CURRENT book to the session's own view, in which    *)
(* only rows it holds change.  When another session commits, it commits    *)
(* other rows, so the run can be replayed on the book it leaves behind;    *)
(* the only calls that hold no row are cancellations that found nothing to *)
(* give back, and the book lets those change nothing.                      *)
(***************************************************************************)
-----------------------------------------------------------------------------
(* Accounts of logs *)

AccountType == [quantity : Int, taken : SUBSET Line, credited : SUBSET Line]

BookType == [Sku -> AccountType]

\* The account that a log of one SKU makes up.
AccountOf(sq) == [quantity |-> Total(sq),
                  taken |-> LinesWith(sq, "order_consumed"),
                  credited |-> LinesWith(sq, "cancellation_returned")]

\* A log makes up an account.
LEMMA AccountOfType ==
    ASSUME NEW sq \in Seq(Event)
    PROVE  AccountOf(sq) \in AccountType
  BY TotalType DEF AccountOf, AccountType, LinesWith

\* Appending an event adds its line to the lines with its type.
LEMMA LinesWithAppend ==
    ASSUME NEW sq \in Seq(Event), NEW e \in Event, NEW type
    PROVE  LinesWith(Append(sq, e), type) =
               IF e.type = type THEN LinesWith(sq, type) \cup ({e.line} \cap Line)
                                ELSE LinesWith(sq, type)
<1> DEFINE ap == Append(sq, e)
<1>1. /\ Len(ap) = Len(sq) + 1
      /\ Len(sq) \in Nat
      /\ \A i \in 1..Len(sq) : ap[i] = sq[i]
      /\ ap[Len(sq) + 1] = e
  BY AppendProperties
<1> HIDE DEF ap
<1>2. ASSUME NEW l \in Line
      PROVE  HasEvent(ap, type, l) <=> HasEvent(sq, type, l) \/ (e.type = type /\ e.line = l)
  <2>1. ASSUME HasEvent(sq, type, l) PROVE HasEvent(ap, type, l)
    <3>1. PICK i \in 1..Len(sq) : sq[i].type = type /\ sq[i].line = l
      BY <2>1 DEF HasEvent
    <3>2. i \in 1..Len(ap) /\ ap[i] = sq[i]
      BY <1>1
    <3> QED
      BY <3>1, <3>2 DEF HasEvent
  <2>2. ASSUME e.type = type, e.line = l PROVE HasEvent(ap, type, l)
    <3>1. Len(sq) + 1 \in 1..Len(ap)
      BY <1>1
    <3> QED
      BY <1>1, <2>2, <3>1 DEF HasEvent
  <2>3. ASSUME HasEvent(ap, type, l)
        PROVE  HasEvent(sq, type, l) \/ (e.type = type /\ e.line = l)
    <3>1. PICK i \in 1..Len(ap) : ap[i].type = type /\ ap[i].line = l
      BY <2>3 DEF HasEvent
    <3>2. i \in 1..Len(sq) \/ i = Len(sq) + 1
      BY <1>1
    <3> QED
      BY <1>1, <3>1, <3>2 DEF HasEvent
  <2> QED
    BY <2>1, <2>2, <2>3
<1> QED
  BY <1>2 DEF LinesWith, ap

\* What appending an event does to the account.
LEMMA AccountAppend ==
    ASSUME NEW sq \in Seq(Event), NEW e \in Event
    PROVE  /\ AccountOf(Append(sq, e)).quantity = AccountOf(sq).quantity + e.delta
           /\ AccountOf(Append(sq, e)).taken =
                  IF e.type = "order_consumed"
                  THEN AccountOf(sq).taken \cup ({e.line} \cap Line)
                  ELSE AccountOf(sq).taken
           /\ AccountOf(Append(sq, e)).credited =
                  IF e.type = "cancellation_returned"
                  THEN AccountOf(sq).credited \cup ({e.line} \cap Line)
                  ELSE AccountOf(sq).credited
  BY TotalAppend, LinesWithAppend DEF AccountOf

\* An account is its three fields.
LEMMA AccountFields ==
    ASSUME NEW a \in AccountType, NEW b \in AccountType,
           a.quantity = b.quantity, a.taken = b.taken, a.credited = b.credited
    PROVE  a = b
  BY DEF AccountType

\* Consuming a line for the first time, as the book does it.
LEMMA ConsumeOutcome ==
    ASSUME NEW sq \in Seq(Event), NEW e \in Event, NEW c \in Call,
           c.kind = "consume", e.type = "order_consumed", e.line = c.line,
           c.line \in Line, e.delta = 0 - c.qty,
           ~ HasEvent(sq, "order_consumed", c.line)
    PROVE  AccountOf(Append(sq, e)) \in Book!Outcomes(AccountOf(sq), c)
<1> DEFINE a == AccountOf(sq)
           b == AccountOf(Append(sq, e))
<1>1. Append(sq, e) \in Seq(Event)
  BY AppendProperties
<1>2. a \in AccountType /\ b \in AccountType /\ c.qty \in Int
  BY <1>1, AccountOfType DEF Call
<1>3. /\ b.quantity = a.quantity + e.delta
      /\ b.taken = a.taken \cup ({e.line} \cap Line)
      /\ b.credited = a.credited
  BY AccountAppend
<1>4. c.line \notin a.taken
  BY DEF AccountOf, LinesWith
<1> HIDE DEF a, b
<1> DEFINE d == [a EXCEPT !.quantity = @ - c.qty, !.taken = @ \cup {c.line}]
<1>5. /\ d \in AccountType
      /\ d.quantity = a.quantity - c.qty
      /\ d.taken = a.taken \cup {c.line}
      /\ d.credited = a.credited
  <2>1. a.quantity - c.qty \in Int /\ a.taken \cup {c.line} \in SUBSET Line
    BY <1>2 DEF AccountType
  <2> QED
    BY <1>2, <2>1 DEF AccountType
<1>6. Book!Outcomes(a, c) = {d}
  BY <1>4 DEF Book!Outcomes, Book!Consume
<1> HIDE DEF d
<1>7. b = d
  <2>1. a.quantity + e.delta = a.quantity - c.qty
    BY <1>2 DEF AccountType
  <2>2. {e.line} \cap Line = {c.line}
    OBVIOUS
  <2>3. b.quantity = d.quantity
    BY <1>3, <1>5, <2>1
  <2>4. b.taken = d.taken
    BY <1>3, <1>5, <2>2
  <2> QED
    BY <1>2, <1>3, <1>5, <2>3, <2>4, AccountFields
<1> QED
  BY <1>6, <1>7 DEF a, b

\* Crediting a consumed line for the first time, as the book does it.
LEMMA ReturnOutcome ==
    ASSUME NEW sq \in Seq(Event), NEW e \in Event, NEW c \in Call,
           c.kind = "return", e.type = "cancellation_returned", e.line = c.line,
           c.line \in Line, e.delta = c.qty,
           HasEvent(sq, "order_consumed", c.line),
           ~ HasEvent(sq, "cancellation_returned", c.line)
    PROVE  AccountOf(Append(sq, e)) \in Book!Outcomes(AccountOf(sq), c)
<1> DEFINE a == AccountOf(sq)
           b == AccountOf(Append(sq, e))
<1>1. Append(sq, e) \in Seq(Event)
  BY AppendProperties
<1>2. a \in AccountType /\ b \in AccountType /\ c.qty \in Int
  BY <1>1, AccountOfType DEF Call
<1>3. /\ b.quantity = a.quantity + e.delta
      /\ b.taken = a.taken
      /\ b.credited = a.credited \cup ({e.line} \cap Line)
  BY AccountAppend
<1>4. c.line \in a.taken \ a.credited
  BY DEF AccountOf, LinesWith
<1> HIDE DEF a, b
<1> DEFINE d == [a EXCEPT !.quantity = @ + c.qty, !.credited = @ \cup {c.line}]
<1>5. /\ d \in AccountType
      /\ d.quantity = a.quantity + c.qty
      /\ d.taken = a.taken
      /\ d.credited = a.credited \cup {c.line}
  <2>1. a.quantity + c.qty \in Int /\ a.credited \cup {c.line} \in SUBSET Line
    BY <1>2 DEF AccountType
  <2> QED
    BY <1>2, <2>1 DEF AccountType
<1>6. d \in Book!Outcomes(a, c)
  BY <1>4 DEF Book!Outcomes, Book!Return
<1> HIDE DEF d
<1>7. b = d
  <2>1. {e.line} \cap Line = {c.line}
    OBVIOUS
  <2>2. b.quantity = d.quantity
    BY <1>3, <1>5
  <2>3. b.credited = d.credited
    BY <1>3, <1>5, <2>1
  <2> QED
    BY <1>2, <1>3, <1>5, <2>2, <2>3, AccountFields
<1> QED
  BY <1>6, <1>7 DEF a, b

\* An accepted adjustment, as the book does it.
LEMMA AdjustOutcome ==
    ASSUME NEW sq \in Seq(Event), NEW e \in Event, NEW c \in Call,
           c.kind = "adjust", e.type = "manual_adjust", e.delta = c.qty,
           Total(sq) + c.qty >= 0
    PROVE  AccountOf(Append(sq, e)) \in Book!Outcomes(AccountOf(sq), c)
<1> DEFINE a == AccountOf(sq)
           b == AccountOf(Append(sq, e))
<1>1. Append(sq, e) \in Seq(Event)
  BY AppendProperties
<1>2. a \in AccountType /\ b \in AccountType /\ c.qty \in Int
  BY <1>1, AccountOfType DEF Call
<1>3. b.quantity = a.quantity + e.delta /\ b.taken = a.taken /\ b.credited = a.credited
  BY AccountAppend
<1>4. a.quantity + c.qty >= 0
  BY DEF AccountOf
<1> HIDE DEF a, b
<1> DEFINE d == [a EXCEPT !.quantity = @ + c.qty]
<1>5. /\ d \in AccountType
      /\ d.quantity = a.quantity + c.qty
      /\ d.taken = a.taken
      /\ d.credited = a.credited
  BY <1>2 DEF AccountType
<1>6. Book!Outcomes(a, c) = {d}
  BY <1>4 DEF Book!Outcomes, Book!Adjust
<1> HIDE DEF d
<1>7. b = d
  BY <1>2, <1>3, <1>5, AccountFields
<1> QED
  BY <1>6, <1>7 DEF a, b

\* An approved count, as the book does it.
LEMMA CountOutcome ==
    ASSUME NEW sq \in Seq(Event), NEW e \in Event, NEW c \in Call,
           c.kind = "count", e.type = "stocktake", e.delta = c.qty - Total(sq)
    PROVE  AccountOf(Append(sq, e)) \in Book!Outcomes(AccountOf(sq), c)
<1> DEFINE a == AccountOf(sq)
           b == AccountOf(Append(sq, e))
<1>1. Append(sq, e) \in Seq(Event)
  BY AppendProperties
<1>2. a \in AccountType /\ b \in AccountType /\ c.qty \in Int
  BY <1>1, AccountOfType DEF Call
<1>3. b.quantity = a.quantity + e.delta /\ b.taken = a.taken /\ b.credited = a.credited
  BY AccountAppend
<1>4. b.quantity = c.qty
  <2>1. a.quantity = Total(sq) /\ Total(sq) \in Int
    BY TotalType DEF AccountOf
  <2> QED
    BY <1>2, <1>3, <2>1
<1> HIDE DEF a, b
<1> DEFINE d == [a EXCEPT !.quantity = c.qty]
<1>5. /\ d \in AccountType
      /\ d.quantity = c.qty
      /\ d.taken = a.taken
      /\ d.credited = a.credited
  BY <1>2 DEF AccountType
<1>6. Book!Outcomes(a, c) = {d}
  BY DEF Book!Outcomes, Book!Count
<1> HIDE DEF d
<1>7. b = d
  BY <1>2, <1>3, <1>4, <1>5, AccountFields
<1> QED
  BY <1>6, <1>7 DEF a, b

-----------------------------------------------------------------------------
(* Runs of the book *)

\* v is what call c may leave of the book b.
Steps(b, v, c) == \E a \in Book!Outcomes(b[c.sku], c) : v = [b EXCEPT ![c.sku] = a]

\* The books that the first n calls of w may leave, by StockBook's recursion.
IsReach(g, w, n) ==
    g = [i \in 0..n |->
            IF i = 0 THEN {Accounts}
            ELSE UNION {{[b EXCEPT ![w[i].sku] = a] :
                            a \in Book!Outcomes(b[w[i].sku], w[i])} : b \in g[i - 1]}]

\* Every prefix of a transaction leaves some set of books.
LEMMA ReachExists ==
    ASSUME NEW w
    PROVE  \A n \in Nat : \E g : IsReach(g, w, n)
<1> DEFINE G == {n \in Nat : \E g : IsReach(g, w, n)}
           after(i, B) == UNION {{[b EXCEPT ![w[i].sku] = a] :
                                     a \in Book!Outcomes(b[w[i].sku], w[i])} : b \in B}
<1>1. 0 \in G
  <2>1. IsReach([i \in 0..0 |-> {Accounts}], w, 0)
    BY DEF IsReach
  <2> QED
    BY <2>1
<1>2. ASSUME NEW n \in Nat, n \in G
      PROVE  n + 1 \in G
  <2>1. PICK g : IsReach(g, w, n)
    BY <1>2
  <2> DEFINE h == [i \in 0..(n + 1) |-> IF i <= n THEN g[i] ELSE after(i, g[n])]
  <2>2. \A i \in 0..n : g[i] = IF i = 0 THEN {Accounts} ELSE after(i, g[i - 1])
    BY <2>1 DEF IsReach
  <2> HIDE DEF after
  <2>3. ASSUME NEW i \in 0..(n + 1)
        PROVE  h[i] = IF i = 0 THEN {Accounts} ELSE after(i, h[i - 1])
    <3>1. CASE i = 0
      BY <2>2, <3>1
    <3>2. CASE i \in 1..n
      <4>1. i \in 0..n /\ i - 1 \in 0..n
        BY <3>2
      <4>2. h[i] = g[i] /\ h[i - 1] = g[i - 1]
        BY <4>1
      <4>3. g[i] = after(i, g[i - 1])
        BY <2>2, <3>2, <4>1
      <4> QED
        BY <3>2, <4>2, <4>3
    <3>3. CASE i = n + 1
      BY <3>3
    <3> QED
      BY <3>1, <3>2, <3>3
  <2>4. h = [i \in 0..(n + 1) |-> IF i = 0 THEN {Accounts} ELSE after(i, h[i - 1])]
    BY <2>3
  <2>5. IsReach(h, w, n + 1)
    BY <2>4 DEF IsReach, after
  <2> QED
    BY <2>5
<1>3. \A n \in Nat : n \in G
  <2> HIDE DEF G
  <2> QED
    BY <1>1, <1>2, SetInduction
<1> QED
  BY <1>3

\* The last book of a run of all calls of w is a result of w.
LEMMA RunEndsInResults ==
    ASSUME NEW w \in Seq(Call), NEW f, f[0] = Accounts,
           \A i \in 1..Len(w) : Steps(f[i - 1], f[i], w[i])
    PROVE  f[Len(w)] \in Book!Results(w)
<1> DEFINE R == CHOOSE g : IsReach(g, w, Len(w))
<1>1. Len(w) \in Nat
  OBVIOUS
<1>2. IsReach(R, w, Len(w))
  BY <1>1, ReachExists
<1>3. Book!Results(w) = R[Len(w)]
  BY DEF Book!Results, IsReach
<1> HIDE DEF R
<1> DEFINE G == {n \in Nat : n <= Len(w) => f[n] \in R[n]}
<1>4. 0 \in G
  BY <1>1, <1>2 DEF IsReach
<1>5. ASSUME NEW n \in Nat, n \in G, n + 1 <= Len(w)
      PROVE  f[n + 1] \in R[n + 1]
  <2>1. n + 1 \in 1..Len(w) /\ n + 1 \in 0..Len(w) /\ (n + 1) - 1 = n /\ n + 1 # 0
    BY <1>1, <1>5
  <2>2. f[n] \in R[n]
    BY <1>1, <1>5
  <2>3. PICK a \in Book!Outcomes(f[n][w[n + 1].sku], w[n + 1]) :
            f[n + 1] = [f[n] EXCEPT ![w[n + 1].sku] = a]
    BY <2>1 DEF Steps
  <2> DEFINE next(b) == {[b EXCEPT ![w[n + 1].sku] = c] :
                             c \in Book!Outcomes(b[w[n + 1].sku], w[n + 1])}
  <2>4. R[n + 1] = UNION {next(b) : b \in R[n]}
    BY <1>2, <2>1 DEF IsReach
  <2>5. f[n + 1] \in next(f[n])
    BY <2>3
  <2> HIDE DEF next
  <2> QED
    BY <2>2, <2>4, <2>5
<1>6. \A n \in Nat : n \in G
  <2> HIDE DEF G
  <2>1. \A n \in Nat : n \in G => n + 1 \in G
    BY <1>5 DEF G
  <2> QED
    BY <1>4, <2>1, SetInduction
<1> QED
  BY <1>1, <1>3, <1>6

-----------------------------------------------------------------------------
(* The inductive invariant *)

\* The book of the committed logs.
LogBook == [s \in Sku |-> AccountOf(log[s])]

\* The book as session p sees it: with its own events.
View(p) == [s \in Sku |-> AccountOf(Pending(p, s))]

\* f is a run of the n calls of w that p has made, from the committed book to
\* p's view, which leaves alone every account that p holds no row of.
Explains(p, w, n, f) ==
    /\ Len(todo[p]) = Len(w) - n
    /\ \A i \in 1..Len(todo[p]) : todo[p][i] = w[n + i]
    /\ f[0] = LogBook
    /\ f[n] = View(p)
    /\ \A i \in 1..n : Steps(f[i - 1], f[i], w[i])
    /\ \A i \in 1..n : w[i].sku \in held[p] \/ w[i].kind = "return"
    /\ \A i \in 0..n, s \in Sku \ held[p] : f[i][s] = LogBook[s]

\* What a session has done so far could have been done on the book as it is now.
Progress(p) ==
    IF pc[p] = "idle" THEN held[p] = {}
    ELSE \E w \in Work : \E n \in 0..Len(w) : \E f \in [0..n -> BookType] :
             Explains(p, w, n, f)

SerialInv == LedgerInv /\ \A p \in Session : Progress(p)

\* The refinement mapping reads the committed logs.
LEMMA AccountsAreLogBook ==
    ASSUME LedgerInv
    PROVE  Accounts = LogBook
  BY DEF LedgerInv, SnapshotMatchesLog, Accounts, LogBook, AccountOf

\* The committed book and a session's view are books.
LEMMA BooksTyped ==
    ASSUME LedgerInv, NEW p \in Session
    PROVE  LogBook \in BookType /\ View(p) \in BookType
  BY PendingType, AccountOfType DEF LedgerInv, LogBook, View, BookType

\* Of a SKU whose row it does not hold, a session sees the committed account.
LEMMA ViewOutsideHeld ==
    ASSUME LedgerInv, NEW p \in Session, NEW s \in Sku \ held[p]
    PROVE  View(p)[s] = LogBook[s]
<1>1. rows[p][s] = <<>>
  BY DEF LedgerInv, WritersAreIsolated, ViewIsExact
<1>2. Pending(p, s) = log[s]
  BY <1>1, PendingType, ConcatEmptySeq DEF LedgerInv, Pending
<1> QED
  BY <1>2 DEF View, LogBook

-----------------------------------------------------------------------------
(* Steps inside a transaction *)

\* A step that commits nothing keeps the progress of a session whose calls and
\* events it does not touch, even if the session locks one more row.
LEMMA ProgressKept ==
    ASSUME NEW p \in Session, Progress(p), log' = log,
           pc[p] = "idle" <=> pc'[p] = "idle",
           todo'[p] = todo[p], rows'[p] = rows[p],
           held[p] \subseteq held'[p], pc[p] = "idle" => held'[p] = held[p]
    PROVE  Progress(p)'
<1>1. CASE pc[p] = "idle"
  BY <1>1 DEF Progress
<1>2. CASE pc[p] # "idle"
  <2>1. PICK w \in Work : \E n \in 0..Len(w) : \E f \in [0..n -> BookType] :
                              Explains(p, w, n, f)
    BY <1>2 DEF Progress
  <2>2. LogBook' = LogBook /\ View(p)' = View(p)
    BY DEF LogBook, View, Pending
  <2>3. PICK n \in 0..Len(w) : \E f \in [0..n -> BookType] : Explains(p, w, n, f)
    BY <2>1
  <2>4. PICK f \in [0..n -> BookType] : Explains(p, w, n, f)
    BY <2>3
  <2>5. Explains(p, w, n, f)'
    BY <2>2, <2>4 DEF Explains
  <2> QED
    BY <1>2, <2>5 DEF Progress
<1> QED
  BY <1>1, <1>2

\* A session that begins has made no call.
LEMMA BeginProgress ==
    ASSUME SerialInv, NEW p \in Session, Begin(p)
    PROVE  Progress(p)'
<1>1. PICK w \in Work : todo' = [todo EXCEPT ![p] = w]
  BY DEF Begin
<1>2. /\ pc'[p] = "stmt"
      /\ todo'[p] = w
      /\ UNCHANGED <<log, held, rows>>
  BY <1>1 DEF Begin, SerialInv, LedgerInv, TypeOK
<1>3. held[p] = {}
  BY DEF Begin, SerialInv, Progress
<1>4. LogBook' = LogBook /\ View(p)' = View(p)
  BY <1>2 DEF LogBook, View, Pending
<1>5. View(p) = LogBook
  <2>1. \A s \in Sku : View(p)[s] = LogBook[s]
    BY <1>3, ViewOutsideHeld DEF SerialInv
  <2> QED
    BY <2>1 DEF View, LogBook
<1>6. w \in Seq(Call) /\ Len(w) \in Nat
  BY WorkAssumption
<1>7. PICK f \in [0..0 -> BookType] : f[0] = LogBook
  <2> DEFINE g == [i \in 0..0 |-> LogBook]
  <2>1. g \in [0..0 -> BookType] /\ g[0] = LogBook
    BY BooksTyped DEF SerialInv
  <2> HIDE DEF g
  <2> QED
    BY <2>1
<1>8. Explains(p, w, 0, f)'
  BY <1>2, <1>4, <1>5, <1>6, <1>7 DEF Explains
<1>9. 0 \in 0..Len(w)
  BY <1>6
<1>10. \E n \in 0..Len(w) : \E g \in [0..n -> BookType] : Explains(p, w, n, g)'
  BY <1>7, <1>8, <1>9
<1> QED
  BY <1>2, <1>10 DEF Progress

\* A session that has made its current call, as the book allows, goes on to the
\* next one.  It holds the row of the call's SKU unless the call is a return.
LEMMA CallProgress ==
    ASSUME SerialInv, LedgerInv', NEW p \in Session,
           pc[p] # "idle", pc'[p] # "idle", todo[p] # <<>>, todo'[p] = Tail(todo[p]),
           log' = log, held'[p] = held[p],
           call(p).sku \in held[p] \/ call(p).kind = "return",
           Steps(View(p), View(p)', call(p))
    PROVE  Progress(p)'
<1>a. PICK w \in Work : \E n \in 0..Len(w) : \E f \in [0..n -> BookType] :
                              Explains(p, w, n, f)
  BY DEF SerialInv, Progress
<1>b. PICK n \in 0..Len(w) : \E f \in [0..n -> BookType] : Explains(p, w, n, f)
  BY <1>a
<1>1. PICK f \in [0..n -> BookType] : Explains(p, w, n, f)
  BY <1>b
<1>2. w \in Seq(Call) /\ Len(w) \in Nat
  BY WorkAssumption
<1>3. /\ call(p) = todo[p][1]
      /\ Len(Tail(todo[p])) = Len(todo[p]) - 1
      /\ \A i \in 1..(Len(todo[p]) - 1) : Tail(todo[p])[i] = todo[p][i + 1]
  BY CallType DEF SerialInv, LedgerInv
<1>4. Len(todo[p]) \in Nat /\ Len(todo[p]) # 0
  <2>1. todo[p] \in Seq(Call)
    BY DEF SerialInv, LedgerInv, TypeOK
  <2> QED
    BY <2>1, EmptySeq
<1>5. n + 1 \in 0..Len(w) /\ w[n + 1] = call(p)
  BY <1>1, <1>2, <1>3, <1>4 DEF Explains
<1>6. LogBook' = LogBook
  BY DEF LogBook
<1>7. PICK v : v = View(p)'
  OBVIOUS
<1>8. v \in BookType
  <2>1. \A s \in Sku : log'[s] \o rows'[p][s] \in Seq(Event)
    BY ConcatProperties DEF LedgerInv, TypeOK
  <2> QED
    BY <1>7, <2>1, AccountOfType DEF View, Pending, BookType
<1>9. ASSUME NEW s \in Sku \ held[p] PROVE v[s] = LogBook[s]
  <2>1. rows'[p][s] = <<>>
    BY DEF LedgerInv, WritersAreIsolated, ViewIsExact
  <2>2. log'[s] \o rows'[p][s] = log[s]
    BY <2>1, ConcatEmptySeq DEF LedgerInv, TypeOK
  <2> QED
    BY <1>7, <2>2 DEF View, Pending, LogBook
<1> DEFINE h == [i \in 0..(n + 1) |-> IF i <= n THEN f[i] ELSE v]
<1>10. h \in [0..(n + 1) -> BookType]
  BY <1>8
<1>11. /\ \A i \in 0..n : h[i] = f[i]
       /\ h[n + 1] = v
  OBVIOUS
<1> HIDE DEF h
<1>12. \A i \in 1..(n + 1) : Steps(h[i - 1], h[i], w[i])
  <2> SUFFICES ASSUME NEW i \in 1..(n + 1) PROVE Steps(h[i - 1], h[i], w[i])
    OBVIOUS
  <2>1. CASE i <= n
    <3>1. i \in 1..n /\ h[i - 1] = f[i - 1] /\ h[i] = f[i]
      BY <1>11, <2>1
    <3> QED
      BY <1>1, <3>1 DEF Explains
  <2>2. CASE i = n + 1
    <3>1. h[i - 1] = View(p) /\ h[i] = v /\ w[i] = call(p)
      BY <1>1, <1>5, <1>11, <2>2 DEF Explains
    <3> QED
      BY <1>7, <3>1
  <2> QED
    BY <2>1, <2>2
<1>13. Explains(p, w, n + 1, h)'
  <2>1. /\ Len(todo'[p]) = Len(w) - (n + 1)
        /\ \A i \in 1..Len(todo'[p]) : todo'[p][i] = w[n + 1 + i]
    <3>1. /\ Len(todo[p]) = Len(w) - n
          /\ \A i \in 1..Len(todo[p]) : todo[p][i] = w[n + i]
      BY <1>1 DEF Explains
    <3>2. Len(todo'[p]) = Len(todo[p]) - 1
      BY <1>3
    <3>3. ASSUME NEW i \in 1..Len(todo'[p]) PROVE todo'[p][i] = w[n + 1 + i]
      <4>1. i + 1 \in 1..Len(todo[p]) /\ n + (i + 1) = n + 1 + i
        BY <1>4, <3>2
      <4>2. todo'[p][i] = todo[p][i + 1]
        BY <1>3, <1>4, <3>2
      <4> QED
        BY <3>1, <4>1, <4>2
    <3> QED
      BY <1>2, <1>4, <3>1, <3>2, <3>3
  <2>2. h[0] = LogBook' /\ h[n + 1] = View(p)'
    BY <1>1, <1>6, <1>7, <1>11 DEF Explains
  <2>3. \A i \in 1..(n + 1) : w[i].sku \in held'[p] \/ w[i].kind = "return"
    <3>1. \A i \in 1..(n + 1) : i \in 1..n \/ i = n + 1
      OBVIOUS
    <3> QED
      BY <1>1, <1>5, <3>1 DEF Explains
  <2>4. \A i \in 0..(n + 1), s \in Sku \ held'[p] : h[i][s] = LogBook'[s]
    <3>1. \A i \in 0..(n + 1) : i \in 0..n \/ i = n + 1
      OBVIOUS
    <3> QED
      BY <1>1, <1>6, <1>9, <1>11, <3>1 DEF Explains
  <2> QED
    BY <1>12, <2>1, <2>2, <2>3, <2>4 DEF Explains
<1> QED
  BY <1>5, <1>10, <1>13 DEF Progress

\* Making a call changes no other account in the session's view.
LEMMA ViewSteps ==
    ASSUME SerialInv, NEW p \in Session, todo[p] # <<>>,
           log' = log, \A s \in Sku \ {call(p).sku} : rows'[p][s] = rows[p][s],
           AccountOf(log[call(p).sku] \o rows'[p][call(p).sku])
               \in Book!Outcomes(AccountOf(Pending(p, call(p).sku)), call(p))
    PROVE  Steps(View(p), View(p)', call(p))
<1> DEFINE k == call(p).sku
<1>1. k \in Sku
  BY CallType DEF SerialInv, LedgerInv
<1>2. PICK a : a = AccountOf(log[k] \o rows'[p][k])
  OBVIOUS
<1>3. View(p)' = [s \in Sku |-> AccountOf(log[s] \o rows'[p][s])]
  BY DEF View, Pending
<1>4. View(p)' = [View(p) EXCEPT ![k] = a]
  BY <1>1, <1>2, <1>3 DEF View, Pending
<1>5. View(p)[k] = AccountOf(Pending(p, k))
  BY <1>1 DEF View
<1> QED
  BY <1>2, <1>4, <1>5 DEF Steps

\* The call appends an event, as the book allows.
LEMMA EventProgress ==
    ASSUME SerialInv, LedgerInv', NEW p \in Session, pc[p] = "locked",
           NEW type \in EventType, NEW delta \in Int,
           Append1(p, type, delta), NextCall(p), log' = log, held' = held,
           NEW e, e = [type |-> type, line |-> call(p).line, delta |-> delta],
           AccountOf(Append(Pending(p, call(p).sku), e))
               \in Book!Outcomes(AccountOf(Pending(p, call(p).sku)), call(p))
    PROVE  Progress(p)'
<1> DEFINE k == call(p).sku
<1>1. todo[p] # <<>> /\ k \in held[p]
  BY DEF SerialInv, LedgerInv, WritersAreIsolated, CallIsPlaced
<1>2. k \in Sku /\ e \in Event
  BY <1>1, CallType DEF SerialInv, LedgerInv, Event
<1>3. /\ rows'[p][k] = Append(rows[p][k], e)
      /\ \A s \in Sku \ {k} : rows'[p][s] = rows[p][s]
  <2>1. rows' = [rows EXCEPT ![p][k] = Append(@, e)]
    BY DEF Append1
  <2> QED
    BY <1>2, <2>1 DEF SerialInv, LedgerInv, TypeOK
<1>4. log[k] \o rows'[p][k] = Append(Pending(p, k), e)
  BY <1>2, <1>3, PendingType, ConcatAppend DEF SerialInv, LedgerInv, Pending
<1>5. Steps(View(p), View(p)', call(p))
  BY <1>1, <1>3, <1>4, ViewSteps
<1>6. pc'[p] = "stmt" /\ todo'[p] = Tail(todo[p])
  BY DEF NextCall, SerialInv, LedgerInv, TypeOK
<1> QED
  BY <1>1, <1>5, <1>6, CallProgress

\* The call changes nothing, as the book allows.
LEMMA NothingProgress ==
    ASSUME SerialInv, LedgerInv', NEW p \in Session, pc[p] # "idle", pc'[p] # "idle",
           todo[p] # <<>>, todo'[p] = Tail(todo[p]),
           log' = log, held' = held, rows' = rows,
           call(p).sku \in held[p] \/ call(p).kind = "return",
           AccountOf(Pending(p, call(p).sku))
               \in Book!Outcomes(AccountOf(Pending(p, call(p).sku)), call(p))
    PROVE  Progress(p)'
<1>1. Steps(View(p), View(p)', call(p))
  BY ViewSteps DEF Pending
<1> QED
  BY <1>1, CallProgress

\* The current call satisfies the callers' side of the contract.
LEMMA CallIsLegal ==
    ASSUME SerialInv, NEW p \in Session, todo[p] # <<>>
    PROVE  LegalCall(call(p))
<1>1. todo[p] \in Seq(Call) /\ \A i \in 1..Len(todo[p]) : LegalCall(todo[p][i])
  BY DEF SerialInv, LedgerInv, WritersAreIsolated, CallIsPlaced, TypeOK
<1>2. Len(todo[p]) \in Nat /\ Len(todo[p]) # 0
  BY <1>1, EmptySeq
<1> QED
  BY <1>1, <1>2, CallType DEF SerialInv, LedgerInv

\* A cancellation that finds nothing to give back is a return the book allows.
LEMMA CheckReturnProgress ==
    ASSUME SerialInv, LedgerInv', NEW p \in Session, CheckReturn(p)
    PROVE  Progress(p)'
<1>1. /\ pc[p] = "stmt" /\ todo[p] # <<>> /\ call(p).kind = "return"
      /\ UNCHANGED <<log, held, rows>>
  BY DEF CheckReturn
<1>2. CASE WasConsumed(p)
  <2>1. pc'[p] = "credit" /\ todo' = todo
    BY <1>2 DEF CheckReturn, SerialInv, LedgerInv, TypeOK
  <2> QED
    BY <1>1, <2>1, ProgressKept DEF SerialInv
<1>3. CASE ~ WasConsumed(p)
  <2>1. pc'[p] = pc[p] /\ todo'[p] = Tail(todo[p])
    BY <1>3 DEF CheckReturn, SerialInv, LedgerInv, TypeOK
  <2>2. AccountOf(Pending(p, call(p).sku))
            \in Book!Outcomes(AccountOf(Pending(p, call(p).sku)), call(p))
    BY <1>1 DEF Book!Outcomes, Book!Return
  <2> QED
    BY <1>1, <2>1, <2>2, NothingProgress
<1> QED
  BY <1>2, <1>3

\* Consuming and crediting an order line: once for each line, whoever did it.
LEMMA AppendSourcedProgress ==
    ASSUME SerialInv, LedgerInv', NEW p \in Session, AppendSourced(p)
    PROVE  Progress(p)'
<1> DEFINE sq == Pending(p, call(p).sku)
           type == SourcedType(p)
           delta == IF call(p).kind = "consume" THEN 0 - call(p).qty ELSE call(p).qty
<1>1. /\ pc[p] = "locked" /\ todo[p] # <<>>
      /\ call(p).sku \in held[p]
      /\ call(p).kind \in {"consume", "return"}
      /\ call(p).kind = "return" => WasConsumed(p)
      /\ UNCHANGED <<log, held>>
      /\ NextCall(p)
  BY DEF AppendSourced, SerialInv, LedgerInv, WritersAreIsolated, CallIsPlaced
<1>2. /\ call(p) \in Call /\ call(p).line \in Line /\ call(p).qty \in Int
      /\ sq \in Seq(Event)
  BY <1>1, CallType, CallIsLegal, PendingType DEF SerialInv, LedgerInv, LegalCall
<1>3. type \in EventType /\ delta \in Int
  BY <1>2 DEF EventType, SourcedType
<1>4. pc'[p] = "stmt" /\ todo'[p] = Tail(todo[p])
  BY <1>1 DEF NextCall, SerialInv, LedgerInv, TypeOK
<1>5. CASE Duplicate(p)
  <2>1. rows' = rows
    BY <1>5 DEF AppendSourced
  <2>2. AccountOf(sq) \in Book!Outcomes(AccountOf(sq), call(p))
    <3>1. CASE call(p).kind = "return"
      BY <3>1 DEF Book!Outcomes, Book!Return
    <3>2. CASE call(p).kind = "consume"
      <4>1. call(p).line \in AccountOf(sq).taken
        BY <1>2, <1>5, <3>2 DEF Duplicate, SourcedType, Sees, AccountOf, LinesWith
      <4> QED
        BY <3>2, <4>1 DEF Book!Outcomes, Book!Consume
    <3> QED
      BY <1>1, <3>1, <3>2
  <2> QED
    BY <1>1, <1>4, <2>1, <2>2, NothingProgress
<1>6. CASE ~ Duplicate(p)
  <2>1. Append1(p, type, delta)
    BY <1>6 DEF AppendSourced
  <2>2. PICK e : e = [type |-> type, line |-> call(p).line, delta |-> delta]
    OBVIOUS
  <2>3. e \in Event /\ e.type = type /\ e.line = call(p).line /\ e.delta = delta
    BY <1>2, <1>3, <2>2 DEF Event
  <2>4. AccountOf(Append(sq, e)) \in Book!Outcomes(AccountOf(sq), call(p))
    <3>1. CASE call(p).kind = "consume"
      <4>1. ~ HasEvent(sq, "order_consumed", call(p).line)
        BY <1>6, <3>1 DEF Duplicate, SourcedType, Sees
      <4> QED
        BY <1>2, <2>3, <3>1, <4>1, ConsumeOutcome DEF SourcedType
    <3>2. CASE call(p).kind = "return"
      <4>1. /\ HasEvent(sq, "order_consumed", call(p).line)
            /\ ~ HasEvent(sq, "cancellation_returned", call(p).line)
        BY <1>1, <1>6, <3>2 DEF Duplicate, SourcedType, Sees, WasConsumed
      <4> QED
        BY <1>2, <2>3, <3>2, <4>1, ReturnOutcome DEF SourcedType
    <3> QED
      BY <1>1, <3>1, <3>2
  <2> HIDE DEF type, delta
  <2> QED
    BY <1>1, <1>3, <2>1, <2>2, <2>4, EventProgress
<1> QED
  BY <1>5, <1>6

\* An accepted adjustment: what the session sees under the lock is the account.
LEMMA ManualAdjustProgress ==
    ASSUME SerialInv, LedgerInv', NEW p \in Session, ManualAdjust(p)
    PROVE  Progress(p)'
<1> DEFINE sq == Pending(p, call(p).sku)
<1>1. /\ pc[p] = "locked" /\ todo[p] # <<>>
      /\ call(p).kind = "adjust" /\ call(p).sku \in held[p]
      /\ Append1(p, "manual_adjust", call(p).qty) /\ NextCall(p)
      /\ UNCHANGED <<log, held>>
  BY DEF ManualAdjust, SerialInv, LedgerInv, WritersAreIsolated, CallIsPlaced
<1>2. /\ call(p) \in Call /\ call(p).qty \in Int /\ call(p).sku \in Sku
      /\ call(p).line \in Line \cup {NoLine}
      /\ sq \in Seq(Event)
  BY <1>1, CallType, PendingType DEF SerialInv, LedgerInv
<1>3. Total(sq) + call(p).qty >= 0
  BY <1>1, <1>2 DEF ManualAdjust, Sufficient, SerialInv, LedgerInv, WritersAreIsolated, ViewIsExact
<1>4. PICK e : e = [type |-> "manual_adjust", line |-> call(p).line, delta |-> call(p).qty]
  OBVIOUS
<1>5. e \in Event /\ e.type = "manual_adjust" /\ e.delta = call(p).qty
  BY <1>2, <1>4 DEF Event, EventType
<1>6. AccountOf(Append(sq, e)) \in Book!Outcomes(AccountOf(sq), call(p))
  BY <1>1, <1>2, <1>3, <1>5, AdjustOutcome
<1>7. "manual_adjust" \in EventType
  BY DEF EventType
<1> QED
  BY <1>1, <1>2, <1>4, <1>6, <1>7, EventProgress

\* An approved count: the recomputed delta leaves the counted quantity.
LEMMA ApplyCountProgress ==
    ASSUME SerialInv, LedgerInv', NEW p \in Session, ApplyCount(p)
    PROVE  Progress(p)'
<1> DEFINE sq == Pending(p, call(p).sku)
           delta == call(p).qty - work[p][call(p).sku]
<1>1. /\ pc[p] = "locked" /\ todo[p] # <<>>
      /\ call(p).kind = "count" /\ call(p).sku \in held[p]
      /\ Append1(p, "stocktake", delta) /\ NextCall(p)
      /\ UNCHANGED <<log, held>>
  BY DEF ApplyCount, SerialInv, LedgerInv, WritersAreIsolated, CallIsPlaced
<1>2. /\ call(p) \in Call /\ call(p).qty \in Int /\ call(p).sku \in Sku
      /\ call(p).line \in Line \cup {NoLine}
      /\ sq \in Seq(Event)
  BY <1>1, CallType, PendingType DEF SerialInv, LedgerInv
<1>3. delta = call(p).qty - Total(sq) /\ delta \in Int
  BY <1>1, <1>2, TotalType DEF SerialInv, LedgerInv, WritersAreIsolated, ViewIsExact
<1>4. PICK e : e = [type |-> "stocktake", line |-> call(p).line, delta |-> delta]
  OBVIOUS
<1>5. e \in Event /\ e.type = "stocktake" /\ e.delta = call(p).qty - Total(sq)
  BY <1>2, <1>3, <1>4 DEF Event, EventType
<1>6. AccountOf(Append(sq, e)) \in Book!Outcomes(AccountOf(sq), call(p))
  BY <1>1, <1>2, <1>5, CountOutcome
<1>7. "stocktake" \in EventType
  BY DEF EventType
<1> HIDE DEF delta
<1> QED
  BY <1>1, <1>3, <1>4, <1>6, <1>7, EventProgress

\* Looking for, locking or inserting a row makes no call.
LEMMA LockProgress ==
    ASSUME SerialInv, NEW p \in Session,
           LockSnapshot(p) \/ MissSnapshot(p) \/ CreateSnapshot(p)
    PROVE  Progress(p)'
<1>1. /\ pc[p] # "idle" /\ pc'[p] # "idle"
      /\ UNCHANGED <<log, todo, rows>>
      /\ held[p] \subseteq held'[p]
  <2>1. CASE LockSnapshot(p)
    BY <2>1 DEF LockSnapshot, AtLock, SerialInv, LedgerInv, TypeOK
  <2>2. CASE MissSnapshot(p)
    BY <2>2 DEF MissSnapshot, AtLock, SerialInv, LedgerInv, TypeOK
  <2>3. CASE CreateSnapshot(p)
    BY <2>3 DEF CreateSnapshot, SerialInv, LedgerInv, TypeOK
  <2> QED
    BY <2>1, <2>2, <2>3
<1> QED
  BY <1>1, ProgressKept DEF SerialInv

\* A session that ends its transaction holds nothing.
LEMMA IdleProgress ==
    ASSUME SerialInv, NEW p \in Session, Idle(p)
    PROVE  Progress(p)'
  BY DEF Idle, SerialInv, LedgerInv, TypeOK, Progress

\* No step of a session touches what another one has open.
LEMMA OthersUntouched ==
    ASSUME SerialInv, NEW p \in Session, NEW q \in Session \ {p},
           Begin(p) \/ Step(p) \/ Acquire(p) \/ Fail(p) \/ DeadlockVictim(p)
    PROVE  /\ pc'[q] = pc[q]
           /\ todo'[q] = todo[q]
           /\ held'[q] = held[q]
           /\ rows'[q] = rows[q]
<1> USE DEF SerialInv, LedgerInv, TypeOK
<1>1. CASE Begin(p)
  BY <1>1 DEF Begin
<1>2. CASE Step(p)
  <2>1. CASE CheckReturn(p) \/ MissSnapshot(p)
    BY <2>1 DEF CheckReturn, MissSnapshot
  <2>2. CASE CreateConflict(p) \/ RefuseAdjust(p) \/ Commit(p)
    BY <2>2 DEF CreateConflict, RefuseAdjust, Commit, Rollback, Idle
  <2>3. CASE AppendSourced(p)
    BY <2>3 DEF AppendSourced, Append1, NextCall
  <2>4. CASE ManualAdjust(p) \/ ApplyCount(p)
    BY <2>4 DEF ManualAdjust, ApplyCount, Append1, NextCall
  <2> QED
    BY <1>2, <2>1, <2>2, <2>3, <2>4 DEF Step
<1>3. CASE Acquire(p)
  BY <1>3 DEF Acquire, LockSnapshot, CreateSnapshot
<1>4. CASE Fail(p) \/ DeadlockVictim(p)
  BY <1>4 DEF Fail, DeadlockVictim, Rollback, Idle
<1> QED
  BY <1>1, <1>2, <1>3, <1>4

-----------------------------------------------------------------------------
(* Commit *)

\* A commit replaces the accounts of the rows it holds by its view of them.
LEMMA CommittedBook ==
    ASSUME SerialInv, NEW p \in Session, Commit(p)
    PROVE  /\ LogBook' = View(p)
           /\ \A s \in Sku \ held[p] : LogBook'[s] = LogBook[s] /\ log'[s] = log[s]
<1>1. log' = [s \in Sku |-> log[s] \o rows[p][s]]
  BY DEF Commit
<1>2. LogBook' = View(p)
  BY <1>1 DEF LogBook, View, Pending
<1>3. ASSUME NEW s \in Sku \ held[p] PROVE LogBook'[s] = LogBook[s] /\ log'[s] = log[s]
  <2>1. rows[p][s] = <<>>
    BY DEF SerialInv, LedgerInv, WritersAreIsolated, ViewIsExact
  <2>2. log'[s] = log[s]
    BY <1>1, <2>1, PendingType, ConcatEmptySeq DEF SerialInv, LedgerInv
  <2> QED
    BY <1>2, <2>2, ViewOutsideHeld DEF SerialInv
<1> QED
  BY <1>2, <1>3

\* What another session has done so far could as well be done on the book that
\* the commit leaves behind: it holds none of the committed rows.
LEMMA CommitOtherProgress ==
    ASSUME SerialInv, LedgerInv', NEW p \in Session, Commit(p),
           NEW q \in Session \ {p}
    PROVE  Progress(q)'
<1>1. /\ pc'[q] = pc[q] /\ todo'[q] = todo[q]
      /\ held'[q] = held[q] /\ rows'[q] = rows[q]
  BY OthersUntouched DEF Step
<1>2. CASE pc[q] = "idle"
  BY <1>1, <1>2 DEF SerialInv, Progress
<1>3. CASE pc[q] # "idle"
  <2>1. PICK w \in Work : \E n \in 0..Len(w) : \E f \in [0..n -> BookType] :
                              Explains(q, w, n, f)
    BY <1>3 DEF SerialInv, Progress
  <2>2. PICK n \in 0..Len(w) : \E f \in [0..n -> BookType] : Explains(q, w, n, f)
    BY <2>1
  <2>3. PICK f \in [0..n -> BookType] : Explains(q, w, n, f)
    BY <2>2
  <2>4. w \in Seq(Call) /\ Len(w) \in Nat
    BY WorkAssumption
  <2>5. \A i \in 1..n : w[i] \in Call /\ w[i].sku \in Sku
    <3> SUFFICES ASSUME NEW i \in 1..n PROVE w[i] \in Call /\ w[i].sku \in Sku
      OBVIOUS
    <3>1. i \in 1..Len(w)
      BY <2>2, <2>4
    <3>2. w[i] \in Call
      BY <2>4, <3>1, ElementOfSeq
    <3> QED
      BY <3>2 DEF Call
  <2>6. PICK b \in BookType : b = LogBook'
    BY CommittedBook, BooksTyped DEF SerialInv
  <2> DEFINE h == [i \in 0..n |-> [s \in Sku |-> IF s \in held[q] THEN f[i][s] ELSE b[s]]]
  <2>7. PICK g \in [0..n -> BookType] : g = h
    BY DEF BookType
  <2>8. \A i \in 0..n : g[i] = [s \in Sku |-> IF s \in held[q] THEN f[i][s] ELSE b[s]]
    BY <2>7
  <2> HIDE DEF h
  <2>9. \A s \in held[q] : s \in Sku \ held[p]
    BY DEF SerialInv, LedgerInv, WritersAreIsolated, RowLocksExclude, TypeOK
  <2>10. g[0] = LogBook'
    <3>1. \A s \in held[q] : f[0][s] = b[s]
      BY <2>3, <2>6, <2>9, CommittedBook DEF Explains
    <3>2. g[0] = [s \in Sku |-> b[s]]
      BY <2>2, <2>8, <3>1
    <3> QED
      BY <2>6, <3>2 DEF BookType
  <2>11. g[n] = View(q)'
    <3>1. View(q)' = [s \in Sku |-> AccountOf(log'[s] \o rows[q][s])]
      BY <1>1 DEF View, Pending
    <3>2. ASSUME NEW s \in held[q] PROVE f[n][s] = AccountOf(log'[s] \o rows[q][s])
      BY <2>3, <2>9, CommittedBook DEF Explains, View, Pending
    <3>3. ASSUME NEW s \in Sku \ held[q] PROVE b[s] = AccountOf(log'[s] \o rows[q][s])
      <4>1. rows[q][s] = <<>>
        BY DEF SerialInv, LedgerInv, WritersAreIsolated, ViewIsExact
      <4>2. log'[s] \o rows[q][s] = log'[s]
        BY <4>1, ConcatEmptySeq DEF LedgerInv, TypeOK
      <4> QED
        BY <2>6, <4>2 DEF LogBook
    <3> QED
      BY <2>2, <2>8, <3>1, <3>2, <3>3
  <2>12. ASSUME NEW i \in 1..n PROVE Steps(g[i - 1], g[i], w[i])
    <3> DEFINE k == w[i].sku
    <3>1. k \in Sku /\ i \in 0..n /\ i - 1 \in 0..n
      BY <2>2, <2>4, <2>5
    <3>2. PICK a \in Book!Outcomes(f[i - 1][k], w[i]) : f[i] = [f[i - 1] EXCEPT ![k] = a]
      BY <2>3 DEF Explains, Steps
    <3>3. f[i - 1] \in BookType /\ f[i] \in BookType
      BY <3>1
    <3>4. \A s \in Sku \ {k} : f[i][s] = f[i - 1][s]
      BY <3>2, <3>3 DEF BookType
    <3>5. f[i][k] = a
      BY <3>1, <3>2, <3>3 DEF BookType
    <3> HIDE DEF k
    <3>6. CASE k \in held[q]
      <4>1. g[i - 1][k] = f[i - 1][k]
        BY <2>8, <3>1, <3>6
      <4>2. g[i] = [g[i - 1] EXCEPT ![k] = a]
        BY <2>8, <3>1, <3>4, <3>5, <3>6
      <4> QED
        BY <3>2, <4>1, <4>2 DEF Steps, k
    <3>7. CASE k \notin held[q]
      <4>1. w[i].kind = "return"
        BY <2>3, <3>7 DEF Explains, k
      <4>2. f[i][k] = f[i - 1][k]
        BY <2>3, <3>1, <3>7 DEF Explains
      <4>3. g[i] = [g[i - 1] EXCEPT ![k] = g[i - 1][k]]
        BY <2>8, <3>1, <3>4, <4>2
      <4>4. g[i - 1][k] \in Book!Outcomes(g[i - 1][k], w[i])
        BY <4>1 DEF Book!Outcomes, Book!Return
      <4> QED
        BY <4>3, <4>4 DEF Steps, k
    <3> QED
      BY <3>6, <3>7
  <2>13. \A i \in 0..n, s \in Sku \ held'[q] : g[i][s] = LogBook'[s]
    BY <1>1, <2>6, <2>8
  <2>14. Explains(q, w, n, g)'
    BY <1>1, <2>3, <2>10, <2>11, <2>12, <2>13 DEF Explains
  <2> QED
    BY <1>1, <1>3, <2>14 DEF Progress
<1> QED
  BY <1>2, <1>3

\* A commit is a step of the book: the whole transaction, on the book as it is.
LEMMA CommitIsBookStep ==
    ASSUME SerialInv, LedgerInv', NEW p \in Session, Commit(p)
    PROVE  Book!Next
<1>1. pc[p] = "stmt" /\ todo[p] = <<>>
  BY DEF Commit, Finished
<1>2. PICK w \in Work : \E n \in 0..Len(w) : \E f \in [0..n -> BookType] :
                            Explains(p, w, n, f)
  BY <1>1 DEF SerialInv, Progress
<1>3. PICK n \in 0..Len(w) : \E f \in [0..n -> BookType] : Explains(p, w, n, f)
  BY <1>2
<1>4. PICK f \in [0..n -> BookType] : Explains(p, w, n, f)
  BY <1>3
<1>5. w \in Seq(Call) /\ Len(w) \in Nat
  BY WorkAssumption
<1>6. n = Len(w)
  <2>1. Len(todo[p]) = 0
    BY <1>1
  <2> QED
    BY <1>4, <1>5, <2>1 DEF Explains
<1>7. f[0] = Accounts
  BY <1>4, AccountsAreLogBook DEF Explains, SerialInv
<1>8. f[Len(w)] = Accounts'
  <2>1. Accounts' = LogBook'
    BY DEF LedgerInv, SnapshotMatchesLog, Accounts, LogBook, AccountOf
  <2> QED
    BY <1>4, <1>6, <2>1, CommittedBook DEF Explains
<1>9. \A i \in 1..Len(w) : Steps(f[i - 1], f[i], w[i])
  BY <1>4, <1>6 DEF Explains
<1>10. f[Len(w)] \in Book!Results(w)
  BY <1>5, <1>7, <1>9, RunEndsInResults
<1> QED
  BY <1>8, <1>10 DEF Book!Next

-----------------------------------------------------------------------------
(* The theorems *)

\* In the empty database no session has done anything.
LEMMA SerialInit == Init => SerialInv
<1>1. Init => \A p \in Session : Progress(p)
  BY DEF Init, Progress
<1> QED
  BY <1>1, LedgerInit DEF SerialInv

\* Every step keeps the progress of every session, and is a step of the book
\* or leaves it alone.
LEMMA SerialStep ==
    SerialInv /\ [Next]_vars => SerialInv' /\ [Book!Next]_Accounts
<1> SUFFICES ASSUME SerialInv, [Next]_vars
             PROVE  SerialInv' /\ [Book!Next]_Accounts
  OBVIOUS
<1>1. LedgerInv'
  BY LedgerStep DEF SerialInv
<1>2. CASE UNCHANGED vars
  <2>1. \A p \in Session : Progress(p)'
    BY <1>2, ProgressKept DEF vars, SerialInv
  <2>2. Accounts' = Accounts
    BY <1>2 DEF vars, Accounts
  <2> QED
    BY <1>1, <2>1, <2>2 DEF SerialInv
<1>3. ASSUME NEW p \in Session,
             Begin(p) \/ Step(p) \/ Acquire(p) \/ Fail(p) \/ DeadlockVictim(p)
      PROVE  SerialInv' /\ [Book!Next]_Accounts
  <2>1. CASE Commit(p)
    <3>1. Progress(p)'
      BY <2>1, IdleProgress DEF Commit
    <3>2. \A q \in Session \ {p} : Progress(q)'
      BY <1>1, <2>1, CommitOtherProgress
    <3>3. Book!Next
      BY <1>1, <2>1, CommitIsBookStep
    <3> QED
      BY <1>1, <3>1, <3>2, <3>3 DEF SerialInv
  <2>2. CASE ~ Commit(p)
    <3>1. onHand' = onHand /\ log' = log
      BY <1>3, <2>2
         DEF Begin, Step, Acquire, Fail, DeadlockVictim, CheckReturn, MissSnapshot,
             CreateConflict, AppendSourced, ManualAdjust, RefuseAdjust, ApplyCount,
             LockSnapshot, CreateSnapshot, Rollback, committed
    <3>2. Progress(p)'
      <4>1. CASE Begin(p)
        BY <4>1, BeginProgress
      <4>2. CASE Step(p)
        <5>1. CASE CheckReturn(p)
          BY <1>1, <5>1, CheckReturnProgress
        <5>2. CASE MissSnapshot(p)
          BY <5>2, LockProgress
        <5>3. CASE CreateConflict(p) \/ RefuseAdjust(p)
          BY <5>3, IdleProgress DEF CreateConflict, RefuseAdjust, Rollback
        <5>4. CASE AppendSourced(p)
          BY <1>1, <5>4, AppendSourcedProgress
        <5>5. CASE ManualAdjust(p)
          BY <1>1, <5>5, ManualAdjustProgress
        <5>6. CASE ApplyCount(p)
          BY <1>1, <5>6, ApplyCountProgress
        <5> QED
          BY <2>2, <4>2, <5>1, <5>2, <5>3, <5>4, <5>5, <5>6 DEF Step
      <4>3. CASE Acquire(p)
        BY <4>3, LockProgress DEF Acquire
      <4>4. CASE Fail(p) \/ DeadlockVictim(p)
        BY <4>4, IdleProgress DEF Fail, DeadlockVictim, Rollback
      <4> QED
        BY <1>3, <4>1, <4>2, <4>3, <4>4
    <3>3. \A q \in Session \ {p} : Progress(q)'
      BY <1>3, <3>1, OthersUntouched, ProgressKept DEF SerialInv
    <3>4. Accounts' = Accounts
      BY <3>1 DEF Accounts
    <3> QED
      BY <1>1, <3>2, <3>3, <3>4 DEF SerialInv
  <2> QED
    BY <2>1, <2>2
<1> QED
  BY <1>2, <1>3 DEF Next

\* Whatever sessions run, lock, lose or roll back beside each other, what each
\* of them has done is a run of the book's operations on the committed book.
THEOREM SessionsAreSerial == Spec => []SerialInv
<1>1. SerialInv /\ [Next]_vars => SerialInv'
  BY SerialStep
<1> QED
  BY SerialInit, <1>1, PTL DEF Spec

\* The ledger implements the book (ImplementsBook): the concurrent, locking,
\* failing sessions of inventory.py change the stock only by whole transactions,
\* each as if it ran alone on what was committed before it.
THEOREM LedgerImplementsBook == Spec => ImplementsBook
<1>1. Init => Book!Init
  <2> SUFFICES ASSUME Init PROVE Accounts = [s \in Sku |-> Book!Account]
    BY DEF Book!Init
  <2>1. \A s \in Sku : log[s] = <<>> /\ onHand[s] = 0
    BY ConstantTypes DEF Init
  <2>2. \A type : LinesWith(<<>>, type) = {}
    BY DEF LinesWith, HasEvent
  <2> QED
    BY <2>1, <2>2 DEF Accounts, Book!Account
<1>2. SerialInv /\ [Next]_vars => [Book!Next]_Accounts
  BY SerialStep
<1> QED
  BY SessionsAreSerial, <1>1, <1>2, PTL DEF Spec, ImplementsBook, Book!Spec

-----------------------------------------------------------------------------
(***************************************************************************)
(* SnapshotRepair, for every set of SKUs, sessions, transactions and       *)
(* repairs, and whatever the snapshots drifted by before.                  *)
(*                                                                         *)
(* LedgerInv does not hold here: a snapshot may disagree with its log.     *)
(* What does hold is that writers keep the disagreement as it is, that the *)
(* sum a repair has read stays the balance of a prefix of the log, and     *)
(* that a row a repair has overwritten with the sum of the whole log       *)
(* agrees with it for as long as the repair holds the row.                 *)
(***************************************************************************)

Repairing == {"sum", "relock", "insert"}

RepairType == [skus : Seq(Sku), sum : Int, of : Nat, clean : SUBSET Sku]

\* TypeOK of the ledger, with the places of a repair and its state.
RepairTypeOK ==
    /\ hasRow \subseteq Sku
    /\ onHand \in [Sku -> Int]
    /\ log \in [Sku -> Seq(Event)]
    /\ pc \in [Session -> Pc \cup Repairing]
    /\ todo \in [Session -> Seq(Call)]
    /\ held \in [Session -> SUBSET Sku]
    /\ work \in [Session -> [Sku -> Int]]
    /\ rows \in [Session -> [Sku -> Seq(Event)]]
    /\ repair \in [Session -> RepairType]
    /\ healed \subseteq Sku

\* Where a session is agrees with what it has left to do and holds.
Placed(p) ==
    /\ pc[p] = "idle" => held[p] = {}
    /\ pc[p] \in {"credit", "create", "locked"} => todo[p] # <<>>
    /\ pc[p] = "locked" => call(p).sku \in held[p]
    /\ pc[p] = "create" => call(p).sku \notin held[p]
    /\ pc[p] \in {"relock", "insert"} => repair[p].skus # <<>>

\* A writer's view of a held row is off by what the committed row is off by.
ViewKeepsDrift(p) ==
    \A s \in Sku :
        /\ pc[p] \notin Repairing /\ s \in held[p] =>
              work[p][s] - Total(Pending(p, s)) = onHand[s] - Total(log[s])
        /\ pc[p] \in Repairing \/ s \notin held[p] => rows[p][s] = <<>>

\* The log may have grown since the sum was read, but only at its end.
SumIsOfPrefix(p) ==
    pc[p] \in {"relock", "insert"} =>
        /\ repair[p].of \in 0..Len(log[target(p)])
        /\ repair[p].sum = Balance(log[target(p)])[repair[p].of]

\* A repair holds the rows it counts as clean, and has the truth for them.
CleanIsExact(p) ==
    pc[p] \in Repairing =>
        /\ repair[p].clean \subseteq held[p]
        /\ \A s \in repair[p].clean : work[p][s] = Total(log[s])

SessionInv(p) ==
    /\ Placed(p)
    /\ ViewKeepsDrift(p)
    /\ SumIsOfPrefix(p)
    /\ CleanIsExact(p)

\* The inductive invariant.
RepairInv ==
    /\ RepairTypeOK
    /\ RowLocksExclude
    /\ \A p \in Session : SessionInv(p)
    /\ \A s \in Sku \ hasRow : onHand[s] = 0
    /\ HealedAgrees

-----------------------------------------------------------------------------
(* Types and logs *)

\* A repair that has not begun is typed.
LEMMA NoRepairType == NoRepair \in RepairType
  BY DEF NoRepair, RepairType

\* The logs a session reads and writes.
LEMMA LogTypes ==
    ASSUME RepairTypeOK, NEW p \in Session, NEW s \in Sku
    PROVE  /\ log[s] \in Seq(Event)
           /\ rows[p][s] \in Seq(Event)
           /\ Pending(p, s) \in Seq(Event)
  BY ConcatProperties DEF RepairTypeOK, Pending

\* The call a writer is at, and those after it.
LEMMA WriterCallType ==
    ASSUME RepairTypeOK, NEW p \in Session, todo[p] # <<>>
    PROVE  /\ call(p) \in Call
           /\ call(p).kind \in Kind
           /\ call(p).sku \in Sku
           /\ call(p).line \in Line \cup {NoLine}
           /\ call(p).qty \in Int
           /\ Tail(todo[p]) \in Seq(Call)
<1>1. todo[p] \in Seq(Call)
  BY DEF RepairTypeOK
<1>2. call(p) \in Call /\ Tail(todo[p]) \in Seq(Call)
  BY <1>1, HeadTailProperties DEF call
<1> QED
  BY <1>2 DEF Call

\* The SKU a repair is at, and those after it.
LEMMA TargetType ==
    ASSUME RepairTypeOK, NEW p \in Session, repair[p].skus # <<>>
    PROVE  target(p) \in Sku /\ Tail(repair[p].skus) \in Seq(Sku)
<1>1. repair[p].skus \in Seq(Sku)
  BY DEF RepairTypeOK, RepairType
<1> QED
  BY <1>1, HeadTailProperties DEF target

\* Events at the end of a log leave the balances before them alone.
LEMMA BalanceConcat ==
    ASSUME NEW st \in Seq(Event), NEW tt \in Seq(Event)
    PROVE  \A i \in 0..Len(st) : Balance(st \o tt)[i] = Balance(st)[i]
<1> DEFINE ct == st \o tt
<1>1. /\ ct \in Seq(Event)
      /\ Len(ct) = Len(st) + Len(tt)
      /\ Len(st) \in Nat /\ Len(tt) \in Nat
      /\ \A i \in 1..Len(st) : ct[i] = st[i]
  BY ConcatProperties
<1> HIDE DEF ct
<1> DEFINE G == {n \in Nat : n <= Len(st) => Balance(ct)[n] = Balance(st)[n]}
<1>2. 0 \in G
  BY <1>1, BalanceDef
<1>3. ASSUME NEW n \in Nat, n \in G, n + 1 <= Len(st)
      PROVE  Balance(ct)[n + 1] = Balance(st)[n + 1]
  <2>1. n + 1 \in 1..Len(st) /\ n + 1 \in 1..Len(ct) /\ (n + 1) - 1 = n
    BY <1>1, <1>3
  <2>2. Balance(ct)[n + 1] = Balance(ct)[n] + ct[n + 1].delta
    BY <1>1, <2>1, BalanceDef
  <2>3. Balance(st)[n + 1] = Balance(st)[n] + st[n + 1].delta
    BY <2>1, BalanceDef
  <2>4. Balance(ct)[n] = Balance(st)[n]
    BY <1>3
  <2> QED
    BY <1>1, <2>1, <2>2, <2>3, <2>4
<1>4. \A n \in Nat : n \in G
  <2> HIDE DEF G
  <2>1. \A n \in Nat : n \in G => n + 1 \in G
    BY <1>3 DEF G
  <2> QED
    BY <1>2, <2>1, SetInduction
<1> QED
  BY <1>1, <1>4 DEF ct

-----------------------------------------------------------------------------
(* Steps that commit nothing *)

\* What a step of p may leave alone of another session q.
Untouched(q) ==
    /\ pc'[q] = pc[q]
    /\ todo'[q] = todo[q]
    /\ held'[q] = held[q]
    /\ work'[q] = work[q]
    /\ rows'[q] = rows[q]
    /\ pc[q] # "idle" => repair'[q] = repair[q]

\* A step that commits nothing touches only its own session, so the invariant
\* has to be shown of that session alone.
LEMMA OwnStep ==
    ASSUME RepairInv, RepairTypeOK', UNCHANGED <<committed, healed>>, NEW p \in Session,
           \A q \in Session \ {p} : Untouched(q),
           \A q \in Session \ {p} : held'[p] \cap held[q] = {},
           SessionInv(p)'
    PROVE  RepairInv'
<1>1. log' = log /\ onHand' = onHand /\ hasRow' = hasRow /\ healed' = healed
  BY DEF committed
<1>2. RowLocksExclude'
  BY DEF RepairInv, RowLocksExclude, Untouched
<1>3. ASSUME NEW q \in Session \ {p} PROVE SessionInv(q)'
  <2>1. SessionInv(q) /\ Untouched(q)
    BY DEF RepairInv
  <2>2. Placed(q)'
    BY <2>1 DEF SessionInv, Placed, Untouched, call
  <2>3. ViewKeepsDrift(q)'
    BY <1>1, <2>1 DEF SessionInv, ViewKeepsDrift, Untouched, Pending
  <2>4. SumIsOfPrefix(q)' /\ CleanIsExact(q)'
    BY <1>1, <2>1 DEF SessionInv, SumIsOfPrefix, CleanIsExact, Untouched, target, Repairing
  <2> QED
    BY <2>2, <2>3, <2>4 DEF SessionInv
<1> QED
  BY <1>1, <1>2, <1>3 DEF RepairInv, HealedAgrees

\* What happens beside a repair leaves the repair of every open session alone.
LEMMA BesideRepairs ==
    ASSUME RepairTypeOK,
           repair' = [p \in Session |-> IF pc'[p] = "idle" THEN NoRepair ELSE repair[p]]
    PROVE  /\ repair' \in [Session -> RepairType]
           /\ \A q \in Session : pc'[q] # "idle" => repair'[q] = repair[q]
  BY ConstantTypes, NoRepairType DEF RepairTypeOK

\* A rollback forgets everything the session had open.
LEMMA AbortStep ==
    ASSUME RepairInv, NEW p \in Session, Rollback(p), healed' = healed,
           repair' \in [Session -> RepairType],
           \A q \in Session \ {p} : pc[q] # "idle" => repair'[q] = repair[q]
    PROVE  RepairInv'
<1> USE DEF RepairInv, RepairTypeOK
<1>1. Idle(p) /\ UNCHANGED <<committed, healed>>
  BY DEF Rollback
<1>2. RepairTypeOK'
  BY <1>1, ConstantTypes, NoRepairType DEF Idle, committed, Pc
<1>3. \A q \in Session \ {p} : Untouched(q)
  BY <1>1 DEF Idle, Untouched
<1>4. pc'[p] = "idle" /\ held'[p] = {} /\ rows'[p] = NoRows
  BY <1>1 DEF Idle
<1>5. SessionInv(p)'
  BY <1>4, ConstantTypes, NoRepairType
     DEF SessionInv, Placed, ViewKeepsDrift, SumIsOfPrefix, CleanIsExact, Repairing
<1> QED
  BY <1>1, <1>2, <1>3, <1>4, <1>5, OwnStep

-----------------------------------------------------------------------------
(* Steps of a writer *)

\* A writer that only moves on locks and appends nothing.
LEMMA WriterControlStep ==
    ASSUME RepairInv, NEW p \in Session, pc[p] \notin Repairing, pc'[p] \notin Repairing,
           pc' \in [Session -> Pc \cup Repairing], todo' \in [Session -> Seq(Call)],
           repair' \in [Session -> RepairType],
           UNCHANGED <<hasRow, onHand, log, held, work, rows, healed>>,
           \A q \in Session \ {p} : Untouched(q),
           Placed(p)'
    PROVE  RepairInv'
<1>1. RepairTypeOK'
  BY DEF RepairInv, RepairTypeOK
<1>2. ViewKeepsDrift(p)'
  BY DEF RepairInv, SessionInv, ViewKeepsDrift, Pending
<1>3. SumIsOfPrefix(p)' /\ CleanIsExact(p)'
  BY DEF SumIsOfPrefix, CleanIsExact, Repairing
<1>4. SessionInv(p)'
  BY <1>2, <1>3 DEF SessionInv
<1> QED
  BY <1>1, <1>4, OwnStep DEF RepairInv, RowLocksExclude, committed

\* Beginning, a check before a credit and a row not found: control steps.
LEMMA WriterControlSteps ==
    ASSUME RepairInv, NEW p \in Session, healed' = healed,
           repair' \in [Session -> RepairType],
           \A q \in Session : pc'[q] # "idle" => repair'[q] = repair[q],
           Begin(p) \/ CheckReturn(p) \/ MissSnapshot(p)
    PROVE  RepairInv'
<1> USE DEF RepairInv, RepairTypeOK
<1>1. CASE Begin(p)
  <2>1. PICK w \in Work : todo' = [todo EXCEPT ![p] = w]
    BY <1>1 DEF Begin
  <2>2. w \in Seq(Call)
    BY WorkAssumption
  <2>3. /\ pc[p] = "idle" /\ pc' = [pc EXCEPT ![p] = "stmt"]
        /\ UNCHANGED <<hasRow, onHand, log, held, work, rows>>
    BY <1>1 DEF Begin
  <2>4. /\ pc' \in [Session -> Pc \cup Repairing]
        /\ todo' \in [Session -> Seq(Call)]
        /\ pc'[p] = "stmt"
        /\ \A q \in Session \ {p} : Untouched(q)
    BY <2>1, <2>2, <2>3 DEF Untouched, Pc
  <2>5. Placed(p)'
    BY <2>4 DEF Placed
  <2> HIDE DEF RepairInv, RepairTypeOK
  <2> QED
    BY <2>3, <2>4, <2>5, WriterControlStep DEF Repairing
<1>2. CASE CheckReturn(p)
  <2>1. /\ pc[p] = "stmt" /\ todo[p] # <<>>
        /\ UNCHANGED <<hasRow, onHand, log, held, work, rows>>
        /\ \/ pc' = [pc EXCEPT ![p] = "credit"] /\ todo' = todo
           \/ pc' = pc /\ todo' = [todo EXCEPT ![p] = Tail(@)]
    BY <1>2 DEF CheckReturn
  <2>2. /\ pc' \in [Session -> Pc \cup Repairing]
        /\ todo' \in [Session -> Seq(Call)]
        /\ \A q \in Session \ {p} : Untouched(q)
    BY <2>1, WriterCallType DEF Untouched, Pc
  <2>3. pc'[p] = "stmt" \/ (pc'[p] = "credit" /\ todo' = todo)
    BY <2>1
  <2>4. Placed(p)'
    BY <2>1, <2>3 DEF Placed
  <2> HIDE DEF RepairInv, RepairTypeOK
  <2> QED
    BY <2>1, <2>2, <2>3, <2>4, WriterControlStep DEF Repairing
<1>3. CASE MissSnapshot(p)
  <2>1. /\ pc[p] \in {"stmt", "credit"} /\ todo[p] # <<>>
        /\ call(p).sku \notin held[p]
        /\ pc' = [pc EXCEPT ![p] = "create"]
        /\ UNCHANGED <<hasRow, onHand, log, todo, held, work, rows>>
    BY <1>3 DEF MissSnapshot, AtLock
  <2>2. /\ pc' \in [Session -> Pc \cup Repairing]
        /\ pc'[p] = "create"
        /\ \A q \in Session \ {p} : Untouched(q)
    BY <2>1 DEF Untouched, Pc
  <2>3. Placed(p)'
    BY <2>1, <2>2 DEF Placed, call
  <2> HIDE DEF RepairInv, RepairTypeOK
  <2>4. todo' \in [Session -> Seq(Call)]
    BY <2>1 DEF RepairInv, RepairTypeOK
  <2> QED
    BY <2>1, <2>2, <2>3, <2>4, WriterControlStep DEF Repairing
<1> QED
  BY <1>1, <1>2, <1>3

\* A writer that locks or inserts a row starts from what is committed: it is off
\* by what the row is off by.
LEMMA WriterLockStep ==
    ASSUME RepairInv, NEW p \in Session, healed' = healed,
           repair' \in [Session -> RepairType],
           \A q \in Session : pc'[q] # "idle" => repair'[q] = repair[q],
           Acquire(p)
    PROVE  RepairInv'
<1> USE DEF RepairInv, RepairTypeOK
<1>1. PICK k : k = call(p).sku
  OBVIOUS
<1>2. /\ pc[p] \in {"stmt", "credit", "create"} /\ todo[p] # <<>>
      /\ \A q \in Session \ {p} : k \notin held[q]
      /\ held' = [held EXCEPT ![p] = @ \cup {k}]
      /\ pc' = [pc EXCEPT ![p] = "locked"]
      /\ UNCHANGED <<hasRow, onHand, log, todo, rows>>
  <2>1. CASE LockSnapshot(p)
    BY <1>1, <2>1 DEF LockSnapshot, AtLock, Unlocked
  <2>2. CASE CreateSnapshot(p)
    BY <1>1, <2>2 DEF CreateSnapshot, Unlocked, SessionInv, Placed
  <2> QED
    BY <2>1, <2>2 DEF Acquire
<1>3. k \in Sku
  BY <1>1, <1>2, WriterCallType
<1>4. PICK v \in Int : /\ work' = [work EXCEPT ![p][k] = v]
                       /\ IF k \in held[p] THEN v = work[p][k] ELSE v = onHand[k]
  <2>1. CASE LockSnapshot(p)
    BY <1>1, <1>3, <2>1 DEF LockSnapshot
  <2>2. CASE CreateSnapshot(p)
    <3>1. k \notin hasRow /\ work' = [work EXCEPT ![p][k] = 0]
      BY <1>1, <2>2 DEF CreateSnapshot
    <3>2. k \notin held[p]
      BY <1>1, <2>2 DEF CreateSnapshot, SessionInv, Placed
    <3> QED
      BY <1>3, <3>1, <3>2
  <2> QED
    BY <2>1, <2>2 DEF Acquire
<1>5. RepairTypeOK'
  BY <1>2, <1>3, <1>4 DEF Pc
<1>6. \A q \in Session \ {p} : Untouched(q)
  BY <1>2, <1>4 DEF Untouched
<1>7. /\ held'[p] = held[p] \cup {k} /\ pc'[p] = "locked" /\ rows'[p] = rows[p]
      /\ work'[p][k] = v
      /\ \A s \in Sku \ {k} : work'[p][s] = work[p][s]
  BY <1>2, <1>3, <1>4
<1>8. ViewKeepsDrift(p)'
  <2> SUFFICES ASSUME NEW s \in Sku
               PROVE  IF s \in held'[p]
                      THEN work'[p][s] - Total(Pending(p, s)) = onHand[s] - Total(log[s])
                      ELSE rows[p][s] = <<>>
    BY <1>2, <1>7 DEF ViewKeepsDrift, Pending, Repairing
  <2>1. pc[p] \notin Repairing
    BY <1>2 DEF Repairing
  <2>2. CASE s # k \/ s \in held[p]
    BY <1>4, <1>7, <2>1, <2>2 DEF SessionInv, ViewKeepsDrift
  <2>3. CASE s = k /\ s \notin held[p]
    <3>1. rows[p][s] = <<>>
      BY <2>3 DEF SessionInv, ViewKeepsDrift
    <3>2. Pending(p, s) = log[s]
      BY <3>1, LogTypes, ConcatEmptySeq DEF Pending
    <3> QED
      BY <1>4, <1>7, <2>3, <3>2
  <2> QED
    BY <2>2, <2>3
<1>9. Placed(p)'
  BY <1>1, <1>2, <1>7 DEF Placed, call
<1>10. SessionInv(p)'
  BY <1>7, <1>8, <1>9 DEF SessionInv, SumIsOfPrefix, CleanIsExact, Repairing
<1> HIDE DEF RepairInv, RepairTypeOK
<1>11. \A q \in Session \ {p} : held'[p] \cap held[q] = {}
  BY <1>2, <1>7 DEF RepairInv, RowLocksExclude
<1> QED
  BY <1>2, <1>5, <1>6, <1>10, <1>11, OwnStep DEF committed

\* An event moves the writer's view and its log alike.
LEMMA WriterAppendStep ==
    ASSUME RepairInv, NEW p \in Session, healed' = healed,
           repair' \in [Session -> RepairType],
           \A q \in Session : pc'[q] # "idle" => repair'[q] = repair[q],
           pc[p] = "locked", NEW type \in EventType, NEW delta \in Int,
           Append1(p, type, delta), NextCall(p), UNCHANGED <<hasRow, onHand, log, held>>
    PROVE  RepairInv'
<1> USE DEF RepairInv, RepairTypeOK
<1>1. PICK k : k = call(p).sku
  OBVIOUS
<1>2. PICK e : e = [type |-> type, line |-> call(p).line, delta |-> delta]
  OBVIOUS
<1>3. todo[p] # <<>> /\ k \in held[p] /\ k \in Sku
  BY <1>1, WriterCallType DEF SessionInv, Placed
<1>4. e \in Event /\ e.delta = delta
  BY <1>2, <1>3, WriterCallType DEF Event
<1>5. /\ rows' = [rows EXCEPT ![p][k] = Append(@, e)]
      /\ work' = [work EXCEPT ![p][k] = @ + delta]
  BY <1>1, <1>2 DEF Append1
<1>6. /\ todo' = [todo EXCEPT ![p] = Tail(@)]
      /\ pc' = [pc EXCEPT ![p] = "stmt"]
  BY DEF NextCall
<1>7. Append(rows[p][k], e) \in Seq(Event)
  BY <1>3, <1>4, AppendProperties
<1>8. RepairTypeOK'
  BY <1>3, <1>5, <1>6, <1>7, WriterCallType DEF Pc
<1>9. \A q \in Session \ {p} : Untouched(q)
  BY <1>5, <1>6 DEF Untouched
<1>10. /\ rows'[p][k] = Append(rows[p][k], e)
       /\ work'[p][k] = work[p][k] + delta
       /\ \A s \in Sku \ {k} : rows'[p][s] = rows[p][s] /\ work'[p][s] = work[p][s]
       /\ pc'[p] = "stmt"
  BY <1>3, <1>5, <1>6
<1>11. ViewKeepsDrift(p)'
  <2> SUFFICES ASSUME NEW s \in Sku
               PROVE  IF s \in held[p]
                      THEN work'[p][s] - Total(log[s] \o rows'[p][s]) = onHand[s] - Total(log[s])
                      ELSE rows'[p][s] = <<>>
    BY <1>10 DEF ViewKeepsDrift, Pending, Repairing
  <2>1. CASE s # k
    BY <1>10, <2>1 DEF SessionInv, ViewKeepsDrift, Pending, Repairing
  <2>2. CASE s = k
    <3>1. work[p][k] - Total(Pending(p, k)) = onHand[k] - Total(log[k])
      BY <1>3 DEF SessionInv, ViewKeepsDrift, Repairing
    <3>2. log[k] \o rows'[p][k] = Append(Pending(p, k), e)
      BY <1>3, <1>4, <1>10, LogTypes, ConcatAppend DEF Pending
    <3>3. Total(log[k] \o rows'[p][k]) = Total(Pending(p, k)) + delta
      BY <1>3, <1>4, <3>2, LogTypes, TotalAppend
    <3>4. /\ Total(Pending(p, k)) \in Int /\ Total(log[k]) \in Int
          /\ work[p][k] \in Int /\ onHand[k] \in Int
      BY <1>3, LogTypes, TotalType
    <3>5. work'[p][k] - Total(log[k] \o rows'[p][k])
              = work[p][k] - Total(Pending(p, k))
      <4> HIDE DEF RepairInv, RepairTypeOK
      <4> QED
        BY <1>10, <3>3, <3>4
    <3> QED
      BY <1>3, <2>2, <3>1, <3>5
  <2> QED
    BY <2>1, <2>2
<1>12. Placed(p)'
  BY <1>10 DEF Placed
<1>13. SessionInv(p)'
  BY <1>10, <1>11, <1>12 DEF SessionInv, SumIsOfPrefix, CleanIsExact, Repairing
<1> HIDE DEF RepairInv, RepairTypeOK
<1>14. \A q \in Session \ {p} : held'[p] \cap held[q] = {}
  BY DEF RepairInv, RowLocksExclude
<1> QED
  BY <1>8, <1>9, <1>13, <1>14, OwnStep DEF committed

\* The calls that may append: sourced events, adjustments and counts.
LEMMA WriterAppendSteps ==
    ASSUME RepairInv, NEW p \in Session, healed' = healed,
           repair' \in [Session -> RepairType],
           \A q \in Session : pc'[q] # "idle" => repair'[q] = repair[q],
           AppendSourced(p) \/ ManualAdjust(p) \/ ApplyCount(p)
    PROVE  RepairInv'
<1>1. /\ pc[p] = "locked" /\ todo[p] # <<>>
      /\ NextCall(p)
      /\ UNCHANGED <<hasRow, onHand, log, held>>
  BY DEF AppendSourced, ManualAdjust, ApplyCount, RepairInv, SessionInv, Placed
<1>2. call(p).sku \in Sku /\ call(p).qty \in Int /\ work[p][call(p).sku] \in Int
  BY <1>1, WriterCallType DEF RepairInv, RepairTypeOK
<1>3. CASE AppendSourced(p) /\ Duplicate(p)
  <2>1. rows' = rows /\ work' = work
    BY <1>3 DEF AppendSourced
  <2>2. /\ pc' \in [Session -> Pc \cup Repairing]
        /\ todo' \in [Session -> Seq(Call)]
        /\ pc'[p] = "stmt"
        /\ \A q \in Session \ {p} : Untouched(q)
    BY <1>1, <2>1, WriterCallType DEF NextCall, Untouched, RepairInv, RepairTypeOK, Pc
  <2>3. Placed(p)'
    BY <2>2 DEF Placed
  <2> QED
    BY <1>1, <2>1, <2>2, <2>3, WriterControlStep DEF Repairing
<1>4. CASE AppendSourced(p) /\ ~ Duplicate(p)
  <2> DEFINE delta == IF call(p).kind = "consume" THEN 0 - call(p).qty ELSE call(p).qty
  <2>1. Append1(p, SourcedType(p), delta)
    BY <1>4 DEF AppendSourced
  <2>2. SourcedType(p) \in EventType /\ delta \in Int
    BY <1>2 DEF SourcedType, EventType
  <2> HIDE DEF delta
  <2> QED
    BY <1>1, <2>1, <2>2, WriterAppendStep
<1>5. CASE ManualAdjust(p)
  <2>1. Append1(p, "manual_adjust", call(p).qty) /\ "manual_adjust" \in EventType
    BY <1>5 DEF ManualAdjust, EventType
  <2> QED
    BY <1>1, <1>2, <2>1, WriterAppendStep
<1>6. CASE ApplyCount(p)
  <2> DEFINE delta == call(p).qty - work[p][call(p).sku]
  <2>1. Append1(p, "stocktake", delta) /\ "stocktake" \in EventType
    BY <1>6 DEF ApplyCount, EventType
  <2>2. delta \in Int
    BY <1>2
  <2> HIDE DEF delta
  <2> QED
    BY <1>1, <2>1, <2>2, WriterAppendStep
<1> QED
  BY <1>3, <1>4, <1>5, <1>6

-----------------------------------------------------------------------------
(* Commits *)

\* A commit changes only rows that its session holds, and adds events only at
\* the end of their logs: every other session keeps what it relies on.
LEMMA OthersAtCommit ==
    ASSUME RepairInv, NEW p \in Session, NEW q \in Session \ {p}, Untouched(q),
           \A s \in Sku \ held[p] : onHand'[s] = onHand[s] /\ log'[s] = log[s],
           \A s \in Sku : \E tt \in Seq(Event) : log'[s] = log[s] \o tt
    PROVE  SessionInv(q)'
<1>1. SessionInv(q)
  BY DEF RepairInv
<1>2. ASSUME NEW s \in held[q] PROVE s \in Sku \ held[p]
  BY DEF RepairInv, RepairTypeOK, RowLocksExclude
<1>3. Placed(q)'
  BY <1>1 DEF SessionInv, Placed, Untouched, call
<1>4. ViewKeepsDrift(q)'
  BY <1>1, <1>2 DEF SessionInv, ViewKeepsDrift, Untouched, Pending
<1>5. CleanIsExact(q)'
  BY <1>1, <1>2 DEF SessionInv, CleanIsExact, Untouched, Repairing
<1>6. SumIsOfPrefix(q)'
  <2> SUFFICES ASSUME pc[q] \in {"relock", "insert"}
               PROVE  /\ repair[q].of \in 0..Len(log'[target(q)])
                      /\ repair[q].sum = Balance(log'[target(q)])[repair[q].of]
    BY DEF SumIsOfPrefix, Untouched, target
  <2>1. PICK k \in Sku : k = target(q)
    BY <1>1, TargetType DEF SessionInv, Placed, RepairInv
  <2>2. PICK tt \in Seq(Event) : log'[k] = log[k] \o tt
    BY <2>1
  <2>3. log[k] \in Seq(Event)
    BY DEF RepairInv, RepairTypeOK
  <2>4. /\ repair[q].of \in 0..Len(log[k])
        /\ repair[q].sum = Balance(log[k])[repair[q].of]
    BY <1>1, <2>1 DEF SessionInv, SumIsOfPrefix
  <2>5. Len(log'[k]) = Len(log[k]) + Len(tt) /\ Len(log[k]) \in Nat /\ Len(tt) \in Nat
    BY <2>2, <2>3, ConcatProperties
  <2>6. Balance(log'[k])[repair[q].of] = Balance(log[k])[repair[q].of]
    BY <2>2, <2>3, <2>4, BalanceConcat
  <2> QED
    BY <2>1, <2>4, <2>5, <2>6
<1> QED
  BY <1>3, <1>4, <1>5, <1>6 DEF SessionInv

\* A session that has ended its transaction.
LEMMA IdleSession ==
    ASSUME RepairInv, NEW p \in Session, Idle(p)
    PROVE  SessionInv(p)' /\ held'[p] = {}
<1>1. pc'[p] = "idle" /\ held'[p] = {} /\ rows'[p] = NoRows
  BY DEF Idle, RepairInv, RepairTypeOK
<1> QED
  BY <1>1, ConstantTypes, NoRepairType
     DEF SessionInv, Placed, ViewKeepsDrift, SumIsOfPrefix, CleanIsExact, Repairing

\* A writer that commits leaves each row off by what it was off by before.
LEMMA WriterCommitStep ==
    ASSUME RepairInv, NEW p \in Session, healed' = healed,
           repair' \in [Session -> RepairType],
           \A q \in Session : pc'[q] # "idle" => repair'[q] = repair[q],
           Commit(p)
    PROVE  RepairInv'
<1> USE DEF RepairInv, RepairTypeOK
<1>1. /\ pc[p] = "stmt"
      /\ hasRow' = hasRow \cup held[p]
      /\ onHand' = [s \in Sku |-> IF s \in held[p] THEN work[p][s] ELSE onHand[s]]
      /\ log' = [s \in Sku |-> log[s] \o rows[p][s]]
      /\ Idle(p)
  BY DEF Commit
<1>2. \A s \in Sku : /\ log'[s] = log[s] \o rows[p][s]
                      /\ log'[s] = Pending(p, s)
                      /\ log'[s] \in Seq(Event)
  BY <1>1, LogTypes DEF Pending
<1>3. RepairTypeOK'
  <2>1. log' \in [Sku -> Seq(Event)]
    BY <1>1, <1>2
  <2>2. onHand' \in [Sku -> Int] /\ hasRow' \subseteq Sku
    BY <1>1
  <2> QED
    BY <1>1, <2>1, <2>2, ConstantTypes, NoRepairType DEF Idle, Pc
<1>4. \A q \in Session \ {p} : Untouched(q)
  BY <1>1 DEF Idle, Untouched
<1>5. ASSUME NEW s \in Sku \ held[p] PROVE onHand'[s] = onHand[s] /\ log'[s] = log[s]
  <2>1. rows[p][s] = <<>>
    BY DEF SessionInv, ViewKeepsDrift
  <2> QED
    BY <1>1, <1>2, <2>1, LogTypes, ConcatEmptySeq
<1>6. \A s \in Sku : \E tt \in Seq(Event) : log'[s] = log[s] \o tt
  BY <1>2, LogTypes
<1>7. ASSUME NEW s \in healed PROVE onHand'[s] = Total(log'[s])
  <2>1. onHand[s] = Total(log[s]) /\ s \in Sku
    BY DEF HealedAgrees
  <2>2. CASE s \in held[p]
    <3>1. work[p][s] - Total(Pending(p, s)) = onHand[s] - Total(log[s])
      BY <1>1, <2>1, <2>2 DEF SessionInv, ViewKeepsDrift, Repairing
    <3>2. /\ Total(Pending(p, s)) \in Int /\ Total(log[s]) \in Int
          /\ work[p][s] \in Int /\ onHand[s] \in Int
      BY <2>1, LogTypes, TotalType
    <3>3. onHand'[s] = work[p][s]
      BY <1>1, <2>1, <2>2
    <3>4. work[p][s] = Total(Pending(p, s))
      <4> HIDE DEF RepairInv, RepairTypeOK
      <4> QED
        BY <2>1, <3>1, <3>2
    <3> QED
      BY <1>2, <2>1, <3>3, <3>4
  <2>3. CASE s \notin held[p]
    BY <1>5, <2>1, <2>3
  <2> QED
    BY <2>2, <2>3
<1>8. \A s \in Sku \ hasRow' : onHand'[s] = 0
  BY <1>1, <1>5
<1> HIDE DEF RepairInv, RepairTypeOK
<1>9. \A q \in Session \ {p} : SessionInv(q)'
  BY <1>4, <1>5, <1>6, OthersAtCommit
<1>10. SessionInv(p)' /\ held'[p] = {}
  BY <1>1, IdleSession
<1>11. RowLocksExclude'
  BY <1>4, <1>10 DEF RepairInv, RowLocksExclude, Untouched
<1> QED
  BY <1>3, <1>7, <1>8, <1>9, <1>10, <1>11 DEF RepairInv, HealedAgrees

\* A repair that commits makes the rows right that it counts as clean, and
\* claims nothing of the others.
LEMMA CommitRepairStep ==
    ASSUME RepairInv, NEW p \in Session, CommitRepair(p)
    PROVE  RepairInv'
<1> USE DEF RepairInv, RepairTypeOK
<1>1. /\ pc[p] = "sum"
      /\ hasRow' = hasRow \cup held[p]
      /\ onHand' = [s \in Sku |-> IF s \in held[p] THEN work[p][s] ELSE onHand[s]]
      /\ healed' = (healed \ held[p]) \cup repair[p].clean
      /\ Idle(p)
      /\ repair' = [repair EXCEPT ![p] = NoRepair]
      /\ log' = log
  BY DEF CommitRepair
<1>2. /\ repair[p].clean \subseteq held[p]
      /\ \A s \in repair[p].clean : work[p][s] = Total(log[s])
  BY <1>1 DEF SessionInv, CleanIsExact, Repairing
<1>3. RepairTypeOK'
  <2>1. onHand' \in [Sku -> Int] /\ hasRow' \subseteq Sku
    BY <1>1
  <2>2. healed' \subseteq Sku /\ repair' \in [Session -> RepairType]
    BY <1>1, <1>2, ConstantTypes, NoRepairType
  <2> QED
    BY <1>1, <2>1, <2>2, ConstantTypes, NoRepairType DEF Idle, Pc
<1>4. \A q \in Session \ {p} : Untouched(q)
  BY <1>1 DEF Idle, Untouched
<1>5. \A s \in Sku \ held[p] : onHand'[s] = onHand[s] /\ log'[s] = log[s]
  BY <1>1
<1>6. \A s \in Sku : \E tt \in Seq(Event) : log'[s] = log[s] \o tt
  <2>1. \A s \in Sku : log[s] \o <<>> = log[s]
    BY ConcatEmptySeq
  <2>2. <<>> \in Seq(Event)
    OBVIOUS
  <2> QED
    BY <1>1, <2>1, <2>2
<1>7. ASSUME NEW s \in healed' PROVE onHand'[s] = Total(log'[s])
  <2>1. CASE s \in repair[p].clean
    BY <1>1, <1>2, <2>1
  <2>2. CASE s \in healed \ held[p]
    BY <1>1, <2>2 DEF HealedAgrees
  <2> QED
    BY <1>1, <2>1, <2>2
<1>8. \A s \in Sku \ hasRow' : onHand'[s] = 0
  BY <1>1, <1>5
<1> HIDE DEF RepairInv, RepairTypeOK
<1>9. \A q \in Session \ {p} : SessionInv(q)'
  BY <1>4, <1>5, <1>6, OthersAtCommit
<1>10. SessionInv(p)' /\ held'[p] = {}
  BY <1>1, IdleSession
<1>11. RowLocksExclude'
  BY <1>4, <1>10 DEF RepairInv, RowLocksExclude, Untouched
<1> QED
  BY <1>3, <1>7, <1>8, <1>9, <1>10, <1>11 DEF RepairInv, HealedAgrees

-----------------------------------------------------------------------------
(* Steps of a repair *)

\* A repair begins with nothing locked and nothing claimed.
LEMMA BeginRepairStep ==
    ASSUME RepairInv, NEW p \in Session, BeginRepair(p)
    PROVE  RepairInv'
<1> USE DEF RepairInv, RepairTypeOK
<1>1. PICK sq \in Targets : repair' = [repair EXCEPT ![p] = [NoRepair EXCEPT !.skus = sq]]
  BY DEF BeginRepair
<1>2. PICK new : new = [NoRepair EXCEPT !.skus = sq]
  OBVIOUS
<1>3. new \in RepairType /\ new.clean = {}
  BY <1>2, TargetsAssumption DEF NoRepair, RepairType
<1>4. /\ pc[p] = "idle"
      /\ pc' = [pc EXCEPT ![p] = "sum"]
      /\ repair' = [repair EXCEPT ![p] = new]
      /\ UNCHANGED <<committed, todo, held, work, rows, healed>>
  BY <1>1, <1>2 DEF BeginRepair
<1>5. RepairTypeOK'
  BY <1>3, <1>4 DEF Repairing, committed
<1>6. \A q \in Session \ {p} : Untouched(q)
  BY <1>4 DEF Untouched
<1>7. pc'[p] = "sum" /\ repair'[p] = new
  BY <1>4
<1>8. \A s \in Sku : rows[p][s] = <<>>
  BY <1>4 DEF SessionInv, Placed, ViewKeepsDrift
<1>9. SessionInv(p)'
  BY <1>3, <1>4, <1>7, <1>8
     DEF SessionInv, Placed, ViewKeepsDrift, SumIsOfPrefix, CleanIsExact, Repairing
<1> HIDE DEF RepairInv, RepairTypeOK
<1>10. \A q \in Session \ {p} : held'[p] \cap held[q] = {}
  BY <1>4 DEF RepairInv, RowLocksExclude
<1> QED
  BY <1>4, <1>5, <1>6, <1>9, <1>10, OwnStep

\* The sum is the balance of the whole log as it is when it is read.
LEMMA SumEventsStep ==
    ASSUME RepairInv, NEW p \in Session, SumEvents(p)
    PROVE  RepairInv'
<1> USE DEF RepairInv, RepairTypeOK
<1>1. PICK k \in Sku : k = target(p)
  BY TargetType DEF SumEvents
<1>2. PICK new : new = [repair[p] EXCEPT !.sum = Total(log[k]), !.of = Len(log[k])]
  OBVIOUS
<1>3. Total(log[k]) \in Int /\ Len(log[k]) \in Nat
  BY TotalType
<1>4. /\ new \in RepairType
      /\ new.skus = repair[p].skus /\ new.clean = repair[p].clean
      /\ new.sum = Total(log[k]) /\ new.of = Len(log[k])
  <2>1. repair[p] \in RepairType
    OBVIOUS
  <2> HIDE DEF RepairInv, RepairTypeOK
  <2> QED
    BY <1>2, <1>3, <2>1 DEF RepairType
<1>5. /\ pc[p] = "sum" /\ repair[p].skus # <<>>
      /\ pc' = [pc EXCEPT ![p] = "relock"]
      /\ repair' = [repair EXCEPT ![p] = new]
      /\ UNCHANGED <<committed, todo, held, work, rows, healed>>
  BY <1>1, <1>2 DEF SumEvents
<1>6. RepairTypeOK'
  BY <1>4, <1>5 DEF Repairing, committed
<1>7. \A q \in Session \ {p} : Untouched(q)
  BY <1>5 DEF Untouched
<1>8. pc'[p] = "relock" /\ repair'[p] = new /\ log' = log
  BY <1>5 DEF committed
<1>9. SessionInv(p)
  OBVIOUS
<1>10. Placed(p)' /\ ViewKeepsDrift(p)' /\ CleanIsExact(p)'
  BY <1>4, <1>5, <1>8, <1>9
     DEF SessionInv, Placed, ViewKeepsDrift, CleanIsExact, Repairing
<1>11. SumIsOfPrefix(p)'
  <2>1. target(p)' = k
    BY <1>1, <1>4, <1>8 DEF target
  <2> QED
    BY <1>3, <1>4, <1>8, <2>1 DEF SumIsOfPrefix, Total
<1> HIDE DEF RepairInv, RepairTypeOK
<1>12. \A q \in Session \ {p} : held'[p] \cap held[q] = {}
  BY <1>5 DEF RepairInv, RowLocksExclude
<1> QED
  BY <1>5, <1>6, <1>7, <1>10, <1>11, <1>12, OwnStep DEF SessionInv

\* A row that is not there is inserted next.
LEMMA MissRowStep ==
    ASSUME RepairInv, NEW p \in Session, MissRow(p)
    PROVE  RepairInv'
<1> USE DEF RepairInv, RepairTypeOK
<1>1. /\ pc[p] = "relock"
      /\ pc' = [pc EXCEPT ![p] = "insert"]
      /\ UNCHANGED <<committed, todo, held, work, rows, repair, healed>>
  BY DEF MissRow
<1>2. RepairTypeOK'
  BY <1>1 DEF Repairing, committed
<1>3. \A q \in Session \ {p} : Untouched(q)
  BY <1>1 DEF Untouched
<1>4. pc'[p] = "insert" /\ log' = log
  BY <1>1 DEF committed
<1>5. SessionInv(p)
  OBVIOUS
<1>6. SessionInv(p)'
  BY <1>1, <1>4, <1>5
     DEF SessionInv, Placed, ViewKeepsDrift, SumIsOfPrefix, CleanIsExact, Repairing, target
<1> HIDE DEF RepairInv, RepairTypeOK
<1>7. \A q \in Session \ {p} : held'[p] \cap held[q] = {}
  BY <1>1 DEF RepairInv, RowLocksExclude
<1> QED
  BY <1>1, <1>2, <1>3, <1>6, <1>7, OwnStep

\* Under the lock, a log as long as when it was summed is the log that was
\* summed, and the row is right.
LEMMA OverwriteStep ==
    ASSUME RepairInv, NEW p \in Session, pc[p] \in {"relock", "insert"}, Overwrite(p)
    PROVE  RepairInv'
<1> USE DEF RepairInv, RepairTypeOK
<1>1. repair[p].skus # <<>> /\ SessionInv(p)
  BY DEF SessionInv, Placed
<1>2. PICK k \in Sku : k = target(p)
  BY <1>1, TargetType
<1>3. PICK clean : clean = IF repair[p].of = Len(log[k]) THEN repair[p].clean \cup {k}
                                                        ELSE repair[p].clean \ {k}
  OBVIOUS
<1>4. PICK new : new = [repair[p] EXCEPT !.skus = Tail(@), !.clean = clean]
  OBVIOUS
<1>5. new \in RepairType /\ new.clean = clean
  <2>1. repair[p] \in RepairType /\ Tail(repair[p].skus) \in Seq(Sku)
    BY <1>1, TargetType
  <2> HIDE DEF RepairInv, RepairTypeOK
  <2>2. clean \in SUBSET Sku
    BY <1>3, <2>1 DEF RepairType
  <2> QED
    BY <1>4, <2>1, <2>2 DEF RepairType
<1>6. repair' = [repair EXCEPT ![p] = new]
  BY <1>2, <1>3, <1>4 DEF Overwrite
<1>7. PICK sum \in Int : sum = repair[p].sum
  BY DEF RepairType
<1>8. /\ \A q \in Session \ {p} : k \notin held[q]
      /\ held' = [held EXCEPT ![p] = @ \cup {k}]
      /\ work' = [work EXCEPT ![p][k] = sum]
      /\ pc' = [pc EXCEPT ![p] = "sum"]
      /\ UNCHANGED <<committed, todo, rows, healed>>
  BY <1>2, <1>7 DEF Overwrite, Unlocked
<1>9. RepairTypeOK'
  BY <1>5, <1>6, <1>8 DEF Repairing, committed
<1>10. \A q \in Session \ {p} : Untouched(q)
  BY <1>6, <1>8 DEF Untouched
<1>11. /\ pc'[p] = "sum" /\ repair'[p] = new /\ log' = log
       /\ held'[p] = held[p] \cup {k} /\ rows'[p] = rows[p]
       /\ work'[p][k] = sum
       /\ \A s \in Sku \ {k} : work'[p][s] = work[p][s]
  BY <1>6, <1>8 DEF committed
<1>12. Placed(p)' /\ ViewKeepsDrift(p)' /\ SumIsOfPrefix(p)'
  BY <1>1, <1>11
     DEF SessionInv, Placed, ViewKeepsDrift, SumIsOfPrefix, Repairing
<1>13. CleanIsExact(p)'
  <2>1. /\ repair[p].clean \subseteq held[p]
        /\ \A s \in repair[p].clean : work[p][s] = Total(log[s])
    BY <1>1 DEF SessionInv, CleanIsExact, Repairing
  <2>2. repair[p].of = Len(log[k]) => sum = Total(log[k])
    BY <1>1, <1>2, <1>7 DEF SessionInv, SumIsOfPrefix, Total
  <2>3. \A s \in clean : work'[p][s] = Total(log[s])
    BY <1>3, <1>11, <2>1, <2>2
  <2>4. clean \subseteq held'[p]
    BY <1>3, <1>11, <2>1
  <2> QED
    BY <1>5, <1>11, <2>3, <2>4 DEF CleanIsExact
<1> HIDE DEF RepairInv, RepairTypeOK
<1>14. \A q \in Session \ {p} : held'[p] \cap held[q] = {}
  BY <1>8, <1>11 DEF RepairInv, RowLocksExclude
<1> QED
  BY <1>8, <1>9, <1>10, <1>12, <1>13, <1>14, OwnStep DEF SessionInv

-----------------------------------------------------------------------------
(* The theorems *)

\* Before anybody begins, a snapshot may be wrong, and nothing is claimed.
LEMMA RepairInitially == RepairInit => RepairInv
<1> SUFFICES ASSUME RepairInit PROVE RepairInv
  OBVIOUS
<1>1. RepairTypeOK
  <2>1. onHand \in [Sku -> Int]
    BY DriftAssumption DEF RepairInit
  <2> QED
    BY <2>1, ConstantTypes, NoRepairType DEF RepairInit, RepairTypeOK, Pc
<1>2. \A p \in Session : pc[p] = "idle" /\ held[p] = {} /\ rows[p] = NoRows
  BY DEF RepairInit
<1>3. \A p \in Session : SessionInv(p)
  BY <1>2, ConstantTypes, NoRepairType
     DEF SessionInv, Placed, ViewKeepsDrift, SumIsOfPrefix, CleanIsExact, Repairing
<1> QED
  BY <1>1, <1>2, <1>3 DEF RepairInit, RepairInv, RowLocksExclude, HealedAgrees

\* Every step of a writer or a repair keeps the invariant.
LEMMA RepairStepKeeps == RepairInv /\ [RepairNext]_repairVars => RepairInv'
<1> SUFFICES ASSUME RepairInv, [RepairNext]_repairVars PROVE RepairInv'
  OBVIOUS
<1>1. CASE UNCHANGED repairVars
  BY <1>1 DEF repairVars, vars, RepairInv, RepairTypeOK, RowLocksExclude, SessionInv,
              Placed, ViewKeepsDrift, SumIsOfPrefix, CleanIsExact, HealedAgrees,
              Pending, call, target
<1>2. CASE Beside(Next)
  <2>1. /\ healed' = healed
        /\ repair' \in [Session -> RepairType]
        /\ \A q \in Session : pc'[q] # "idle" => repair'[q] = repair[q]
    BY <1>2, BesideRepairs DEF Beside, RepairInv
  <2>2. PICK p \in Session :
            Begin(p) \/ Step(p) \/ Acquire(p) \/ Fail(p) \/ DeadlockVictim(p)
    BY <1>2 DEF Beside, Next
  <2>3. ASSUME Rollback(p) PROVE RepairInv'
    <3>1. \A q \in Session \ {p} : pc'[q] = pc[q]
      BY <2>3 DEF Rollback, Idle, RepairInv, RepairTypeOK
    <3> QED
      BY <2>1, <2>3, <3>1, AbortStep
  <2>4. CASE Begin(p) \/ CheckReturn(p) \/ MissSnapshot(p)
    BY <2>1, <2>4, WriterControlSteps
  <2>5. CASE Acquire(p)
    BY <2>1, <2>5, WriterLockStep
  <2>6. CASE AppendSourced(p) \/ ManualAdjust(p) \/ ApplyCount(p)
    BY <2>1, <2>6, WriterAppendSteps
  <2>7. CASE Commit(p)
    BY <2>1, <2>7, WriterCommitStep
  <2>8. CASE CreateConflict(p) \/ RefuseAdjust(p) \/ Fail(p) \/ DeadlockVictim(p)
    BY <2>3, <2>8 DEF CreateConflict, RefuseAdjust, Fail, DeadlockVictim
  <2> QED
    BY <2>2, <2>4, <2>5, <2>6, <2>7, <2>8 DEF Step
<1>3. ASSUME NEW p \in Session, Beside(CycleVictim(p)) PROVE RepairInv'
  <2>1. /\ healed' = healed /\ Rollback(p)
        /\ repair' \in [Session -> RepairType]
        /\ \A q \in Session : pc'[q] # "idle" => repair'[q] = repair[q]
    BY <1>3, BesideRepairs DEF Beside, CycleVictim, RepairInv
  <2>2. \A q \in Session \ {p} : pc'[q] = pc[q]
    BY <2>1 DEF Rollback, Idle, RepairInv, RepairTypeOK
  <2> QED
    BY <2>1, <2>2, AbortStep
<1>4. ASSUME NEW p \in Session, RepairStep(p) PROVE RepairInv'
  <2>1. CASE SumEvents(p)
    BY <2>1, SumEventsStep
  <2>2. CASE MissRow(p)
    BY <2>2, MissRowStep
  <2>3. CASE InsertRowConflict(p)
    <3>1. /\ Rollback(p) /\ healed' = healed
          /\ repair' = [repair EXCEPT ![p] = NoRepair]
      BY <2>3 DEF InsertRowConflict
    <3>2. /\ repair' \in [Session -> RepairType]
          /\ \A q \in Session \ {p} : repair'[q] = repair[q]
      BY <3>1, ConstantTypes, NoRepairType DEF RepairInv, RepairTypeOK
    <3> QED
      BY <3>1, <3>2, AbortStep
  <2>4. CASE CommitRepair(p)
    BY <2>4, CommitRepairStep
  <2> QED
    BY <1>4, <2>1, <2>2, <2>3, <2>4 DEF RepairStep
<1>5. ASSUME NEW p \in Session, RepairAcquire(p) PROVE RepairInv'
  BY <1>5, OverwriteStep DEF RepairAcquire, LockAndOverwrite, InsertRow
<1> QED
  BY <1>1, <1>2, <1>3, <1>4, <1>5, BeginRepairStep DEF RepairNext

\* However wrong the snapshots were and whoever writes beside a repair: writers
\* carry a drift on unchanged, sums stay sums of a prefix, and what a repair
\* counts as clean it holds and has right.
THEOREM RepairsAreSound == RepairSpec => []RepairInv
<1>1. RepairInv /\ [RepairNext]_repairVars => RepairInv'
  BY RepairStepKeeps
<1> QED
  BY RepairInitially, <1>1, PTL DEF RepairSpec

\* A snapshot whose last repair nobody overtook agrees with its log from then
\* on (HealedAgrees), although writers go on before, during and after it.
THEOREM RepairsHeal == RepairSpec => []HealedAgrees
<1>1. RepairInv => HealedAgrees
  BY DEF RepairInv
<1> QED
  BY RepairsAreSound, <1>1, PTL
=============================================================================
