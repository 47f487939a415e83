------------------------ MODULE OrderLifecycleProofs ------------------------
(***************************************************************************)
(* Theorems about OrderLifecycle, for every set of orders, lines, channel  *)
(* SKUs, masters and operators' choices.                                   *)
(*                                                                         *)
(* Nothing locks the rows an open transaction has loaded, so what can be   *)
(* relied on depends on what runs beside it:                               *)
(*  - no unmapped line is lost from sight, with any sessions, as long as   *)
(*    no mapping is deleted (ReachInv);                                    *)
(*  - stock is booked on the master its line shows, with any sessions, as  *)
(*    long as a channel SKU means one master (AttributionInv);             *)
(*  - the status of an order tells what is true of it if transactions run  *)
(*    one at a time (SerialInv).  Each session is then in the middle of    *)
(*    an insert, an update or a pass over unmapped lines, and the tables   *)
(*    are as it loaded them.                                               *)
(***************************************************************************)
EXTENDS OrderLifecycle, TLAPS

-----------------------------------------------------------------------------
(* Types *)

NoMaster == Master \cup {NULL}
NoStatus == Status \cup {"none"}

TxType == [job : {"none", "ingest", "resolve", "reresolve"},
           at : {"idle", "insert", "update", "credit", "lines", "settle", "commit"},
           order : Order \cup {NULL}, status : ChannelStatus \cup {"none"},
           stale : BOOLEAN, key : Key \cup {NULL}, pick : NoMaster, stock : BOOLEAN,
           was : [Order -> NoStatus], lines : SUBSET Line, items : [Line -> NoMaster],
           put : [Order -> NoStatus], fills : [Line -> NoMaster],
           parked : SUBSET Key, reopened : SUBSET Key,
           want : SUBSET Event, events : SUBSET Event]

LifeTypeOK ==
    /\ channel \in [Order -> ChannelStatus \cup {"none"}]
    /\ reported \in [Order -> SUBSET ChannelStatus]
    /\ status \in [Order -> NoStatus]
    /\ master \in [Line -> NoMaster]
    /\ mapping \in [Key -> NoMaster]
    /\ alert \in [Key -> AlertStatus]
    /\ events \in SUBSET Event
    /\ settled \in SUBSET Line
    /\ late \in SUBSET Order
    /\ tx \in [Session -> TxType]

\* The events a transaction has appended or is about to append.
Taken(t) == t.want \cup t.events

\* The lines of its order that an insert has dealt with.
Visited(t) == LinesOf(t.order) \ t.lines

\* Only an ingestion has a payload, and only resolve_alert a channel SKU.
JobInPlace(t) ==
    /\ t.at = "idle" => t.put = [o \in Order |-> "none"]
    /\ t.at \in {"insert", "update", "credit"} => t.job = "ingest"
    /\ t.at = "settle" => t.job \in {"resolve", "reresolve"}
    /\ t.job = "ingest" => t.order \in Order /\ t.status \in ChannelStatus
    /\ t.job = "resolve" => t.key \in Key \ BlankKey /\ t.pick \in Choice[t.key]
    /\ t.job # "resolve" => t.key = NULL
    /\ t.stale => t.job = "ingest"

\* What Commit needs to be typed, whatever runs beside.
LifeInv == LifeTypeOK /\ \A p \in Session : JobInPlace(tx[p])

-----------------------------------------------------------------------------
(* Unmapped lines stay in sight *)

\* A resolved alert has left a mapping, and never was that of a blank channel SKU.
ResolvedIsMapped ==
    \A k \in Key : alert[k] = "resolved" => mapping[k] # NULL /\ k \notin BlankKey

\* An open insert has filled or parked the lines it has visited, and an order that is
\* written is there already or is the one inserted.
ReachTx(t) ==
    LET inserts == t.job = "ingest" /\ t.was[t.order] = "none" IN
    /\ inserts /\ t.at \in {"lines", "commit"} =>
          \A l \in Visited(t) : t.fills[l] # NULL \/ KeyOf[l] \in t.parked
    /\ inserts /\ t.at = "commit" => t.lines = {}
    /\ t.at \in {"update", "credit"} => t.was[t.order] # "none"
    /\ \A o \in Order : t.was[o] # "none" => status[o] # "none"
    /\ \A o \in Order : t.put[o] # "none" =>
          status[o] # "none" \/ (inserts /\ o = t.order /\ t.at = "commit")

ReachInv ==
    /\ LifeInv
    /\ ResolvedIsMapped
    /\ UnmappedIsReachable
    /\ \A p \in Session : ReachTx(tx[p])

-----------------------------------------------------------------------------
(* Stock goes where lines are attributed *)

\* A channel SKU means one master for good.
FixedChoice == \A k \in Key : \A m, n \in Choice[k] : m = n

\* Masters are among those that may be picked for their channel SKU.
Chosen(items) == \A l \in Line : items[l] # NULL => items[l] \in Choice[KeyOf[l]]

\* What an open transaction takes, it attributes, or it is attributed already.
AttributionTx(t) ==
    /\ Chosen(t.fills)
    /\ t.job = "resolve" => \A l \in t.lines : KeyOf[l] = t.key
    /\ t.at = "insert" => t.fills = NoItems
    /\ t.at = "lines" => \A l \in t.lines : t.fills[l] = NULL
    /\ \A e \in Taken(t) : t.fills[e.line] = e.master \/ master[e.line] = e.master

AttributionInv ==
    /\ LifeInv
    /\ Chosen(master)
    /\ \A k \in Key : mapping[k] # NULL => mapping[k] \in Choice[k]
    /\ ConsumptionIsAttributed
    /\ \A p \in Session : AttributionTx(tx[p])

-----------------------------------------------------------------------------
(* One transaction at a time *)

Alone == \A p, q \in Session : p = q

\* The payload told the truth about the channel unless it was stale.
PayloadIsTrue(t) ==
    ~t.stale =>
        /\ t.status = "cancelled" => channel[t.order] = "cancelled"
        /\ status[t.order] = "cancelled" /\ t.order \notin late => t.status = "cancelled"

\* _ingest_new: every visited line is filled and consumed, or filled only, if the order
\* arrived cancelled, or parked.
Inserts(t) ==
    /\ t.job = "ingest"
    /\ t.at \in {"insert", "lines", "commit"}
    /\ t.was[t.order] = "none" /\ status[t.order] = "none"
    /\ t.lines \subseteq LinesOf(t.order)
    /\ t.at = "insert" => t.fills = NoItems /\ t.parked = {} /\ Taken(t) = {}
    /\ \A l \in Line : t.fills[l] # NULL =>
          /\ OrderOf[l] = t.order /\ l \notin t.lines
          /\ t.status \in CancelStatus \/ Consumed(l, t.fills[l]) \in Taken(t)
    /\ \A e \in Taken(t) :
          /\ e.type = "order_consumed" /\ t.status \notin CancelStatus
          /\ OrderOf[e.line] = t.order /\ t.fills[e.line] = e.master
    /\ t.at # "insert" => \A l \in Visited(t) : t.fills[l] # NULL \/ KeyOf[l] \in t.parked
    /\ t.parked # {} => \E l \in Visited(t) : t.fills[l] = NULL
    /\ \A k \in t.parked : alert[k] = "resolved" => k \in t.reopened
    /\ \A o \in Order : t.put[o] # "none" => o = t.order /\ t.at = "commit"
    /\ t.at = "commit" =>
          /\ t.lines = {} /\ t.want = {}
          /\ t.put[t.order] = IF t.parked # {} /\ t.status \notin CancelStatus
                              THEN "pending_mapping" ELSE t.status

\* The update turns a live order into a cancelled one.
Cancels(t) == t.status \in CancelStatus /\ t.was[t.order] \notin CancelStatus

\* _ingest_update: of the consumptions of an order that is being cancelled, those of the
\* lines still to visit are not credited yet.
Updates(t) ==
    /\ t.job = "ingest"
    /\ t.at \in {"update", "credit", "commit"}
    /\ t.was[t.order] = status[t.order] /\ status[t.order] # "none"
    /\ t.lines \subseteq LinesOf(t.order)
    /\ t.fills = NoItems /\ t.parked = {} /\ t.reopened = {}
    /\ t.at = "update" => Taken(t) = {} /\ t.put = [o \in Order |-> "none"]
    /\ t.at = "credit" => t.items = master /\ Cancels(t)
    /\ t.at = "commit" => t.want = {}
    /\ t.at # "update" =>
          t.put[t.order] = IF t.status = status[t.order] THEN "none" ELSE t.status
    /\ \A o \in Order : t.put[o] # "none" => o = t.order
    /\ \A e \in Taken(t) :
          /\ e.type = "cancellation_returned" /\ Cancels(t)
          /\ OrderOf[e.line] = t.order /\ master[e.line] = e.master
    /\ \A l \in LinesOf(t.order), m \in Master :
          Cancels(t) /\ t.at # "update" /\ Consumed(l, m) \in events =>
              \/ t.at = "credit" /\ l \in t.lines
              \/ Returned(l, m) \in events \cup Taken(t)

\* The orders that are confirmed: those parked when they were loaded, of which a line was
\* filled and none is left.
Confirms(t, o) ==
    /\ \E l \in LinesOf(o) : t.fills[l] # NULL
    /\ \A l \in LinesOf(o) : master[l] # NULL \/ t.fills[l] # NULL
    /\ t.was[o] = "pending_mapping"

\* resolve_alert and reresolve_unmapped_lines: the lines still to visit are unmapped;
\* the others are filled, or were passed over, and a live one is consumed.
Fills(t) ==
    /\ t.job \in {"resolve", "reresolve"}
    /\ t.at \in {"lines", "settle", "commit"}
    /\ t.parked = {} /\ t.reopened = {}
    /\ \A o \in Order : t.was[o] # "none" => t.was[o] = status[o]
    /\ \A l \in Line : l \in t.lines \/ t.fills[l] # NULL =>
          /\ master[l] = NULL
          /\ t.was[OrderOf[l]] # "none"
          /\ t.job = "resolve" => t.was[OrderOf[l]] = "pending_mapping"
    /\ \A l \in Line : t.fills[l] # NULL =>
          /\ l \notin t.lines
          /\ t.job = "resolve" \/ (t.stock /\ t.was[OrderOf[l]] \notin CancelStatus) =>
                Consumed(l, t.fills[l]) \in Taken(t)
    /\ \A e \in Taken(t) :
          /\ e.type = "order_consumed" /\ t.fills[e.line] = e.master
          /\ t.was[OrderOf[e.line]] \notin CancelStatus
    /\ t.job = "resolve" =>
          \A l \in Line : KeyOf[l] = t.key /\ master[l] = NULL
                          /\ status[OrderOf[l]] = "pending_mapping" =>
              l \in t.lines \/ t.fills[l] # NULL
    /\ t.at # "lines" => t.lines = {} /\ t.want = {}
    /\ \A o \in Order : t.put[o] # "none" =>
          t.at = "commit" /\ t.put[o] = "confirmed" /\ t.was[o] = "pending_mapping"
    /\ t.at = "commit" => \A o \in Order : Confirms(t, o) => t.put[o] = "confirmed"

SerialTx(t) ==
    \/ t = NoTx
    \/ Inserts(t) /\ PayloadIsTrue(t)
    \/ Updates(t) /\ PayloadIsTrue(t)
    \/ Fills(t)

\* What is true of orders that did not hear of an older state of the channel.
OrdersFollow ==
    /\ \A l \in Line : status[OrderOf[l]] = "none" => master[l] = NULL
    /\ \A o \in Order : status[o] = "cancelled" /\ o \notin late => channel[o] = "cancelled"
    /\ \A l \in Line, m \in Master :
          Returned(l, m) \in events => OrderOf[l] \in late \/ status[OrderOf[l]] = "cancelled"

SerialInv ==
    /\ LifeInv
    /\ ConsumptionIsAttributed
    /\ StatusIsTrue
    /\ OrdersFollow
    /\ \A p \in Session : SerialTx(tx[p])

-----------------------------------------------------------------------------
(* Steps of one session *)

\* A session that is not in a transaction.
LEMMA NoTxType == NoTx \in TxType /\ JobInPlace(NoTx)
  BY NullAssumption DEF NoTx, TxType, JobInPlace, NoItems, NoMaster, NoStatus

\* A step that changes one session's own transaction.
LEMMA LocalStep ==
    ASSUME LifeInv, NEW p \in Session, NEW t \in TxType, JobInPlace(t), Local(p, t)
    PROVE  /\ LifeInv'
           /\ tx'[p] = t
           /\ \A q \in Session \ {p} : tx'[q] = tx[q]
           /\ UNCHANGED <<channel, reported, status, master, mapping, alert, events, settled, late>>
<1>1. tx' = [tx EXCEPT ![p] = t]
  BY DEF Local
<1>2. UNCHANGED <<channel, reported, status, master, mapping, alert, events, settled, late>>
  BY DEF Local, tables
<1>3. tx' \in [Session -> TxType] /\ tx'[p] = t /\ \A q \in Session \ {p} : tx'[q] = tx[q]
  BY <1>1 DEF LifeInv, LifeTypeOK
<1>4. LifeTypeOK'
  BY <1>2, <1>3 DEF LifeInv, LifeTypeOK
<1>5. \A q \in Session : JobInPlace(tx'[q])
  BY <1>3 DEF LifeInv
<1> QED
  BY <1>2, <1>3, <1>4, <1>5 DEF LifeInv, JobInPlace

\* What the types say of one session's transaction.
LEMMA SessionParts ==
    ASSUME LifeInv, NEW p \in Session
    PROVE  tx[p] \in TxType /\ JobInPlace(tx[p])
  BY DEF LifeInv, LifeTypeOK

\* Two transactions have the same payload and have loaded the same orders.
SamePayload(t, u) ==
    /\ t.job = u.job /\ t.order = u.order /\ t.status = u.status /\ t.stale = u.stale
    /\ t.key = u.key /\ t.pick = u.pick /\ t.stock = u.stock /\ t.was = u.was

\* They raise the same alerts.
SameAlerts(t, u) == t.parked = u.parked /\ t.reopened = u.reopened

\* Each action below that works on a transaction in hand gives it a new state t.
LEMMA LockAndAppendStep ==
    ASSUME LifeInv, NEW p \in Session, LockAndAppend(p)
    PROVE  \E t \in TxType :
              /\ Local(p, t) /\ JobInPlace(t)
              /\ SamePayload(t, tx[p]) /\ SameAlerts(t, tx[p])
              /\ t.at = tx[p].at /\ t.lines = tx[p].lines /\ t.items = tx[p].items
              /\ t.put = tx[p].put /\ t.fills = tx[p].fills
              /\ t.want = {} /\ Taken(t) = Taken(tx[p])
<1>1. PICK u : u = tx[p]
  OBVIOUS
<1>2. u \in TxType /\ JobInPlace(u)
  BY <1>1, SessionParts
<1>3. PICK t : t = [u EXCEPT !.events = u.events \cup u.want, !.want = {}]
  OBVIOUS
<1>4. [u EXCEPT !.events = u.events \cup u.want, !.want = {}] \in TxType
  BY <1>2 DEF TxType
<1>5. /\ SamePayload(t, u) /\ SameAlerts(t, u)
      /\ t.at = u.at /\ t.lines = u.lines /\ t.items = u.items
      /\ t.put = u.put /\ t.fills = u.fills
      /\ t.want = {} /\ Taken(t) = Taken(u)
  BY <1>2, <1>3 DEF TxType, SamePayload, SameAlerts, Taken
<1>6. JobInPlace(t)
  BY <1>2, <1>5 DEF JobInPlace, SamePayload
<1>7. Local(p, t)
  BY <1>1, <1>3 DEF LockAndAppend
<1> QED
  BY <1>1, <1>3, <1>4, <1>5, <1>6, <1>7

LEMMA FindOrderStep ==
    ASSUME LifeInv, NEW p \in Session, NEW o \in Order, NEW st \in ChannelStatus,
           FindOrder(p, o, st)
    PROVE  \E t \in TxType :
              /\ Local(p, t) /\ JobInPlace(t)
              /\ t.job = "ingest" /\ t.order = o /\ t.status = st
              /\ t.stale = (st # channel[o])
              /\ t.at = IF status[o] = "none" THEN "insert" ELSE "update"
              /\ t.was[o] = status[o]
              /\ \A x \in Order \ {o} : t.was[x] = "none"
              /\ t.put = [x \in Order |-> "none"] /\ t.fills = NoItems /\ t.lines = {}
              /\ t.parked = {} /\ t.reopened = {} /\ Taken(t) = {}
<1>1. PICK w : w = [NoTx.was EXCEPT ![o] = status[o]]
  OBVIOUS
<1>2. w \in [Order -> NoStatus] /\ w[o] = status[o] /\ \A x \in Order \ {o} : w[x] = "none"
  BY <1>1 DEF NoTx, NoStatus, LifeInv, LifeTypeOK
<1>3. PICK t : t = [NoTx EXCEPT !.job = "ingest", !.order = o, !.status = st,
                                !.stale = st # channel[o],
                                !.at = IF status[o] = "none" THEN "insert" ELSE "update",
                                !.was = w]
  OBVIOUS
<1>4. t \in TxType
  BY <1>2, <1>3, NullAssumption DEF NoTx, TxType, NoItems, NoMaster, NoStatus
<1>5. /\ t.job = "ingest" /\ t.order = o /\ t.status = st
      /\ t.stale = (st # channel[o])
      /\ t.at = IF status[o] = "none" THEN "insert" ELSE "update"
      /\ t.was = w
      /\ t.put = [x \in Order |-> "none"] /\ t.fills = NoItems /\ t.lines = {}
      /\ t.parked = {} /\ t.reopened = {} /\ Taken(t) = {}
      /\ t.key = NULL
  BY <1>3 DEF NoTx, Taken
<1>6. JobInPlace(t)
  BY <1>5 DEF JobInPlace
<1>7. Local(p, t)
  BY <1>1, <1>3 DEF FindOrder
<1> QED
  BY <1>2, <1>4, <1>5, <1>6, <1>7

LEMMA InsertOrderStep ==
    ASSUME LifeInv, NEW p \in Session, InsertOrder(p)
    PROVE  \E t \in TxType :
              /\ Local(p, t) /\ JobInPlace(t)
              /\ SamePayload(t, tx[p]) /\ SameAlerts(t, tx[p])
              /\ t.at = "lines" /\ t.lines = LinesOf(t.order) /\ t.items = tx[p].items
              /\ t.put = tx[p].put /\ t.fills = tx[p].fills /\ Taken(t) = Taken(tx[p])
<1>1. PICK u : u = tx[p]
  OBVIOUS
<1>2. u \in TxType /\ JobInPlace(u)
  BY <1>1, SessionParts
<1>3. PICK t : t = [u EXCEPT !.at = "lines", !.lines = LinesOf(u.order)]
  OBVIOUS
<1>4. LinesOf(u.order) \in SUBSET Line
  BY DEF LinesOf
<1>5. [u EXCEPT !.at = "lines", !.lines = LinesOf(u.order)] \in TxType
  BY <1>2, <1>4 DEF TxType
<1>6. /\ SamePayload(t, u) /\ SameAlerts(t, u)
      /\ t.at = "lines" /\ t.lines = LinesOf(t.order) /\ t.items = u.items
      /\ t.put = u.put /\ t.fills = u.fills /\ Taken(t) = Taken(u)
  BY <1>2, <1>3 DEF TxType, SamePayload, SameAlerts, Taken
<1>7. JobInPlace(t)
  BY <1>2, <1>6 DEF JobInPlace, SamePayload
<1>8. Local(p, t)
  BY <1>1, <1>3 DEF InsertOrder
<1> QED
  BY <1>1, <1>3, <1>5, <1>6, <1>7, <1>8

\* An insert in hand, u, has dealt with line l and goes on as t.
LineIngested(t, u, l) ==
    LET m == mapping[KeyOf[l]] IN
    /\ SamePayload(t, u)
    /\ t.at = u.at /\ t.items = u.items /\ t.put = u.put
    /\ t.lines = u.lines \ {l}
    /\ t.fills = [u.fills EXCEPT ![l] = m]
    /\ IF m = NULL
       THEN /\ t.parked = u.parked \cup {KeyOf[l]}
            /\ t.reopened = u.reopened
                   \cup (IF alert[KeyOf[l]] = "resolved" THEN {KeyOf[l]} ELSE {})
            /\ Taken(t) = Taken(u)
       ELSE /\ SameAlerts(t, u)
            /\ Taken(t) = Taken(u)
                   \cup (IF t.status \in CancelStatus THEN {} ELSE Consume(l, m))

LEMMA IngestLineStep ==
    ASSUME LifeInv, NEW p \in Session, IngestLine(p)
    PROVE  \E t \in TxType, l \in tx[p].lines :
              Local(p, t) /\ JobInPlace(t) /\ LineIngested(t, tx[p], l)
<1>1. PICK u : u = tx[p]
  OBVIOUS
<1>2. u \in TxType /\ JobInPlace(u) /\ u.job = "ingest" /\ u.at = "lines" /\ u.want = {}
  BY <1>1, SessionParts DEF IngestLine, Ready
<1>3. PICK l \in u.lines :
        LET t == [u EXCEPT !.lines = @ \ {l}, !.fills[l] = mapping[KeyOf[l]]]
        IN  Local(p,
              IF mapping[KeyOf[l]] = NULL
              THEN RecordAlert(t, KeyOf[l])
              ELSE IF u.status \in CancelStatus
              THEN t
              ELSE [t EXCEPT !.want = Consume(l, mapping[KeyOf[l]])])
  BY <1>1 DEF IngestLine
<1>4. PICK m : m = mapping[KeyOf[l]]
  OBVIOUS
<1>5. PICK k : k = KeyOf[l]
  OBVIOUS
<1>6. l \in Line /\ k \in Key /\ m \in NoMaster
  BY <1>2, <1>4, <1>5, LineAssumption DEF TxType, LifeInv, LifeTypeOK
<1>7. PICK f : f = [u.fills EXCEPT ![l] = m]
  OBVIOUS
<1>8. PICK v : v = [u EXCEPT !.lines = @ \ {l}, !.fills = f]
  OBVIOUS
<1>9. f \in [Line -> NoMaster]
  BY <1>2, <1>6, <1>7 DEF TxType
<1>10. [u EXCEPT !.lines = @ \ {l}, !.fills = f] \in TxType
  BY <1>2, <1>9 DEF TxType
<1>11. /\ SamePayload(v, u) /\ SameAlerts(v, u) /\ v.at = u.at /\ v.items = u.items
       /\ v.put = u.put /\ v.lines = u.lines \ {l} /\ v.fills = f
       /\ v.want = u.want /\ v.events = u.events
  BY <1>2, <1>8, <1>10 DEF TxType, SamePayload, SameAlerts
<1>12. v = [u EXCEPT !.lines = @ \ {l}, !.fills[l] = m]
  BY <1>7, <1>8
<1>13. CASE m = NULL
  <2>1. PICK t : t = RecordAlert(v, k)
    OBVIOUS
  <2>2. RecordAlert(v, k) \in TxType
    BY <1>6, <1>8, <1>10 DEF TxType, RecordAlert
  <2>3. /\ SamePayload(t, v) /\ t.at = v.at /\ t.items = v.items /\ t.put = v.put
        /\ t.lines = v.lines /\ t.fills = v.fills /\ Taken(t) = Taken(v)
        /\ t.parked = v.parked \cup {k}
        /\ t.reopened = v.reopened \cup (IF alert[k] = "resolved" THEN {k} ELSE {})
    BY <2>1, <2>2, <1>8, <1>10 DEF TxType, SamePayload, RecordAlert, Taken
  <2>4. Local(p, t)
    BY <1>3, <1>4, <1>5, <1>12, <1>13, <2>1
  <2>5. JobInPlace(t)
    BY <1>2, <1>11, <2>3 DEF JobInPlace, SamePayload
  <2>6. LineIngested(t, u, l)
    BY <1>4, <1>5, <1>7, <1>11, <1>13, <2>3 DEF LineIngested, SamePayload, SameAlerts, Taken
  <2> QED
    BY <1>1, <2>1, <2>2, <2>4, <2>5, <2>6
<1>14. CASE m # NULL /\ u.status \in CancelStatus
  <2>1. Local(p, v)
    BY <1>3, <1>4, <1>12, <1>14
  <2>2. JobInPlace(v)
    BY <1>2, <1>11 DEF JobInPlace, SamePayload
  <2>3. LineIngested(v, u, l)
    BY <1>4, <1>5, <1>7, <1>11, <1>14 DEF LineIngested, SamePayload, SameAlerts, Taken
  <2> QED
    BY <1>1, <1>8, <1>10, <2>1, <2>2, <2>3
<1>15. CASE m # NULL /\ u.status \notin CancelStatus
  <2>1. PICK t : t = [v EXCEPT !.want = Consume(l, m)]
    OBVIOUS
  <2>2. Consume(l, m) \in SUBSET Event
    BY <1>6, <1>15 DEF Consume, Consumed, Event, NoMaster
  <2>3. [v EXCEPT !.want = Consume(l, m)] \in TxType
    BY <1>8, <1>10, <2>2 DEF TxType
  <2>4. /\ SamePayload(t, v) /\ t.at = v.at /\ t.items = v.items /\ t.put = v.put
        /\ t.lines = v.lines /\ t.fills = v.fills /\ SameAlerts(t, v)
        /\ t.want = Consume(l, m) /\ t.events = v.events
    BY <2>1, <2>3, <1>8, <1>10 DEF TxType, SamePayload, SameAlerts
  <2>5. Local(p, t)
    BY <1>3, <1>4, <1>12, <1>15, <2>1
  <2>6. JobInPlace(t)
    BY <1>2, <1>11, <2>4 DEF JobInPlace, SamePayload
  <2>7. Taken(t) = Taken(u) \cup Consume(l, m)
    BY <1>2, <1>11, <2>4 DEF Taken
  <2>8. LineIngested(t, u, l)
    BY <1>4, <1>5, <1>7, <1>11, <1>15, <2>4, <2>7 DEF LineIngested, SamePayload, SameAlerts
  <2> QED
    BY <1>1, <2>1, <2>3, <2>5, <2>6, <2>8
<1> QED
  BY <1>13, <1>14, <1>15

LEMMA FinishNewStep ==
    ASSUME LifeInv, NEW p \in Session, FinishNew(p)
    PROVE  \E t \in TxType :
              /\ Local(p, t) /\ JobInPlace(t)
              /\ SamePayload(t, tx[p]) /\ SameAlerts(t, tx[p])
              /\ t.at = "commit" /\ t.lines = tx[p].lines /\ t.items = tx[p].items
              /\ t.put = [tx[p].put EXCEPT ![t.order] = NewStatus(p)]
              /\ t.fills = tx[p].fills /\ t.want = tx[p].want /\ Taken(t) = Taken(tx[p])
<1>1. PICK u : u = tx[p]
  OBVIOUS
<1>2. u \in TxType /\ JobInPlace(u) /\ u.job = "ingest"
  BY <1>1, SessionParts DEF FinishNew
<1>3. PICK w : w = [u.put EXCEPT ![u.order] = NewStatus(p)]
  OBVIOUS
<1>4. w \in [Order -> NoStatus]
  BY <1>1, <1>2, <1>3 DEF TxType, NewStatus, NoStatus, Status, ChannelStatus
<1>5. PICK t : t = [u EXCEPT !.at = "commit", !.put = w]
  OBVIOUS
<1>6. [u EXCEPT !.at = "commit", !.put = w] \in TxType
  BY <1>2, <1>4 DEF TxType
<1>7. /\ SamePayload(t, u) /\ SameAlerts(t, u)
      /\ t.at = "commit" /\ t.lines = u.lines /\ t.items = u.items
      /\ t.put = w /\ t.fills = u.fills /\ t.want = u.want /\ Taken(t) = Taken(u)
  BY <1>2, <1>5 DEF TxType, SamePayload, SameAlerts, Taken
<1>8. JobInPlace(t)
  BY <1>2, <1>7 DEF JobInPlace, SamePayload
<1>9. Local(p, t)
  BY <1>1, <1>3, <1>5 DEF FinishNew
<1>10. t.put = [u.put EXCEPT ![t.order] = NewStatus(p)]
  BY <1>3, <1>7 DEF SamePayload
<1> QED
  BY <1>1, <1>5, <1>6, <1>7, <1>8, <1>9, <1>10

\* An update, u, has loaded the lines it compensates, if it does, and goes on as t.
Updated(t, u) ==
    /\ SamePayload(t, u) /\ SameAlerts(t, u)
    /\ t.fills = u.fills /\ t.want = u.want /\ Taken(t) = Taken(u)
    /\ t.put = [u.put EXCEPT ![u.order] =
                   IF u.status = u.was[u.order] THEN "none" ELSE u.status]
    /\ IF Cancels(u)
       THEN t.at = "credit" /\ t.lines = MappedLines(u.order) /\ t.items = master
       ELSE t.at = "commit" /\ t.lines = {} /\ t.items = NoItems

LEMMA IngestUpdateStep ==
    ASSUME LifeInv, NEW p \in Session, IngestUpdate(p)
    PROVE  \E t \in TxType : Local(p, t) /\ JobInPlace(t) /\ Updated(t, tx[p])
<1>1. PICK u : u = tx[p]
  OBVIOUS
<1>2. u \in TxType /\ JobInPlace(u) /\ u.job = "ingest" /\ u.at = "update"
  BY <1>1, SessionParts DEF IngestUpdate, JobInPlace
<1>3. PICK at : at = IF Cancels(u) THEN "credit" ELSE "commit"
  OBVIOUS
<1>4. PICK ls : ls = IF Cancels(u) THEN MappedLines(u.order) ELSE {}
  OBVIOUS
<1>5. PICK is : is = IF Cancels(u) THEN master ELSE NoItems
  OBVIOUS
<1>6. PICK w : w = [u.put EXCEPT ![u.order] =
                       IF u.status = u.was[u.order] THEN "none" ELSE u.status]
  OBVIOUS
<1>7. at \in {"credit", "commit"} /\ ls \in SUBSET Line /\ is \in [Line -> NoMaster]
  BY <1>3, <1>4, <1>5 DEF LifeInv, LifeTypeOK, NoItems, NoMaster, MappedLines, LinesOf
<1>8. w \in [Order -> NoStatus]
  BY <1>2, <1>6 DEF TxType, NoStatus, Status
<1>9. PICK t : t = [u EXCEPT !.at = at, !.lines = ls, !.items = is, !.put = w]
  OBVIOUS
<1>10. [u EXCEPT !.at = at, !.lines = ls, !.items = is, !.put = w] \in TxType
  BY <1>2, <1>7, <1>8 DEF TxType
<1>11. /\ SamePayload(t, u) /\ SameAlerts(t, u)
       /\ t.fills = u.fills /\ t.want = u.want /\ Taken(t) = Taken(u)
       /\ t.put = w /\ t.at = at /\ t.lines = ls /\ t.items = is
  BY <1>2, <1>9 DEF TxType, SamePayload, SameAlerts, Taken
<1>12. JobInPlace(t)
  BY <1>2, <1>7, <1>11 DEF JobInPlace, SamePayload
<1>13. Local(p, t)
  BY <1>1, <1>3, <1>4, <1>5, <1>6, <1>9 DEF IngestUpdate, Cancels
<1>14. Updated(t, u)
  BY <1>3, <1>4, <1>5, <1>6, <1>11 DEF Updated
<1> QED
  BY <1>1, <1>9, <1>10, <1>12, <1>13, <1>14

\* A cancellation, u, has reached line l, and goes on as t.
LineCredited(t, u, l) ==
    /\ SamePayload(t, u) /\ SameAlerts(t, u)
    /\ t.at = u.at /\ t.items = u.items /\ t.put = u.put /\ t.fills = u.fills
    /\ t.lines = u.lines \ {l}
    /\ Taken(t) = Taken(u) \cup (IF Consumed(l, u.items[l]) \in events
                                 THEN {Returned(l, u.items[l])} ELSE {})

LEMMA CreditLineStep ==
    ASSUME LifeInv, NEW p \in Session, CreditLine(p)
    PROVE  \E t \in TxType, l \in tx[p].lines :
              Local(p, t) /\ JobInPlace(t) /\ LineCredited(t, tx[p], l)
<1>1. PICK u : u = tx[p]
  OBVIOUS
<1>2. u \in TxType /\ JobInPlace(u) /\ u.at = "credit" /\ u.want = {}
  BY <1>1, SessionParts DEF CreditLine, Ready
<1>3. PICK l \in u.lines :
        Local(p, [u EXCEPT
              !.lines = @ \ {l},
              !.want = IF Consumed(l, u.items[l]) \in events
                       THEN {Returned(l, u.items[l])} ELSE {}])
  BY <1>1 DEF CreditLine
<1>4. PICK w : w = IF Consumed(l, u.items[l]) \in events
                   THEN {Returned(l, u.items[l])} ELSE {}
  OBVIOUS
<1>5. w \in SUBSET Event
  BY <1>4 DEF LifeInv, LifeTypeOK, Event, Consumed, Returned
<1>6. PICK t : t = [u EXCEPT !.lines = @ \ {l}, !.want = w]
  OBVIOUS
<1>7. [u EXCEPT !.lines = @ \ {l}, !.want = w] \in TxType
  BY <1>2, <1>5 DEF TxType
<1>8. /\ SamePayload(t, u) /\ SameAlerts(t, u)
      /\ t.at = u.at /\ t.items = u.items /\ t.put = u.put /\ t.fills = u.fills
      /\ t.lines = u.lines \ {l} /\ t.want = w /\ t.events = u.events
  BY <1>2, <1>6, <1>7 DEF TxType, SamePayload, SameAlerts
<1>9. JobInPlace(t)
  BY <1>2, <1>8 DEF JobInPlace, SamePayload
<1>10. Local(p, t)
  BY <1>3, <1>4, <1>6
<1>11. LineCredited(t, u, l)
  BY <1>2, <1>4, <1>8 DEF LineCredited, Taken
<1> QED
  BY <1>1, <1>6, <1>7, <1>9, <1>10, <1>11

LEMMA FinishCreditStep ==
    ASSUME LifeInv, NEW p \in Session, FinishCredit(p)
    PROVE  \E t \in TxType :
              /\ Local(p, t) /\ JobInPlace(t)
              /\ SamePayload(t, tx[p]) /\ SameAlerts(t, tx[p])
              /\ t.at = "commit" /\ t.lines = tx[p].lines /\ t.put = tx[p].put
              /\ t.fills = tx[p].fills /\ t.want = tx[p].want /\ Taken(t) = Taken(tx[p])
<1>1. PICK u : u = tx[p]
  OBVIOUS
<1>2. u \in TxType /\ JobInPlace(u)
  BY <1>1, SessionParts
<1>3. PICK t : t = [u EXCEPT !.at = "commit", !.items = NoItems]
  OBVIOUS
<1>4. NoItems \in [Line -> NoMaster]
  BY DEF NoItems, NoMaster
<1>5. [u EXCEPT !.at = "commit", !.items = NoItems] \in TxType
  BY <1>2, <1>4 DEF TxType
<1>6. /\ SamePayload(t, u) /\ SameAlerts(t, u)
      /\ t.at = "commit" /\ t.lines = u.lines /\ t.put = u.put
      /\ t.fills = u.fills /\ t.want = u.want /\ Taken(t) = Taken(u)
  BY <1>2, <1>3 DEF TxType, SamePayload, SameAlerts, Taken
<1>7. JobInPlace(t)
  BY <1>2, <1>6 DEF JobInPlace, SamePayload
<1>8. Local(p, t)
  BY <1>1, <1>3 DEF FinishCredit
<1> QED
  BY <1>1, <1>3, <1>5, <1>6, <1>7, <1>8

\* A pass has loaded the lines it is to visit, with their orders, and begins as t.
PassBegun(t, found) ==
    /\ t.lines = found /\ t.fills = NoItems /\ t.put = [o \in Order |-> "none"]
    /\ t.parked = {} /\ t.reopened = {} /\ t.want = {} /\ Taken(t) = {} /\ t.stale = FALSE
    /\ \A o \in Order : t.was[o] = IF \E l \in found : OrderOf[l] = o THEN status[o] ELSE "none"

LEMMA ResolveAlertStep ==
    ASSUME LifeInv, NEW p \in Session, NEW k \in Key, NEW m \in Choice[k], ResolveAlert(p, k, m)
    PROVE  \E t \in TxType, found \in SUBSET Line :
              /\ Local(p, t) /\ JobInPlace(t)
              /\ found = {l \in Line : KeyOf[l] = k /\ master[l] = NULL
                                       /\ status[OrderOf[l]] = "pending_mapping"}
              /\ t.job = "resolve" /\ t.key = k /\ t.pick = m
              /\ t.at = IF found = {} THEN "commit" ELSE "lines"
              /\ PassBegun(t, found)
<1>1. PICK found \in SUBSET Line :
        found = {l \in Line : KeyOf[l] = k /\ master[l] = NULL
                              /\ status[OrderOf[l]] = "pending_mapping"}
  OBVIOUS
<1>2. PICK w : w = [o \in Order |-> IF \E l \in found : OrderOf[l] = o
                                    THEN status[o] ELSE "none"]
  OBVIOUS
<1>3. w \in [Order -> NoStatus]
  BY <1>2 DEF LifeInv, LifeTypeOK, NoStatus
<1>4. PICK at : at = IF found = {} THEN "commit" ELSE "lines"
  OBVIOUS
<1>5. m \in Master /\ at \in {"commit", "lines"} /\ k \notin BlankKey
  BY <1>4, KeyAssumption DEF ResolveAlert
<1>6. PICK t : t = [NoTx EXCEPT !.job = "resolve", !.key = k, !.pick = m,
                                !.at = at, !.lines = found, !.was = w]
  OBVIOUS
<1>7. t \in TxType
  BY <1>3, <1>5, <1>6 DEF NoTx, TxType, NoItems, NoMaster, NoStatus
<1>8. /\ t.job = "resolve" /\ t.key = k /\ t.pick = m /\ t.at = at /\ t.was = w
      /\ t.lines = found /\ t.fills = NoItems /\ t.put = [o \in Order |-> "none"]
      /\ t.parked = {} /\ t.reopened = {} /\ t.want = {} /\ t.events = {} /\ t.stale = FALSE
  BY <1>6 DEF NoTx
<1>9. JobInPlace(t)
  BY <1>5, <1>8 DEF JobInPlace
<1>10. Local(p, t)
  BY <1>1, <1>2, <1>4, <1>6 DEF ResolveAlert
<1>11. PassBegun(t, found)
  BY <1>2, <1>8 DEF PassBegun, Taken
<1> QED
  BY <1>1, <1>4, <1>7, <1>8, <1>9, <1>10, <1>11

LEMMA SelectUnmappedStep ==
    ASSUME LifeInv, NEW p \in Session, NEW stock \in BOOLEAN, SelectUnmapped(p, stock)
    PROVE  \E t \in TxType, found \in SUBSET Line :
              /\ Local(p, t) /\ JobInPlace(t)
              /\ found = {l \in Line : status[OrderOf[l]] # "none" /\ master[l] = NULL}
              /\ t.job = "reresolve" /\ t.stock = stock /\ t.at = "lines"
              /\ PassBegun(t, found)
<1>1. PICK found \in SUBSET Line :
        found = {l \in Line : status[OrderOf[l]] # "none" /\ master[l] = NULL}
  OBVIOUS
<1>2. PICK w : w = [o \in Order |-> IF \E l \in found : OrderOf[l] = o
                                    THEN status[o] ELSE "none"]
  OBVIOUS
<1>3. w \in [Order -> NoStatus]
  BY <1>2 DEF LifeInv, LifeTypeOK, NoStatus
<1>4. PICK t : t = [NoTx EXCEPT !.job = "reresolve", !.at = "lines", !.stock = stock,
                                !.lines = found, !.was = w]
  OBVIOUS
<1>5. t \in TxType
  BY <1>3, <1>4 DEF NoTx, TxType, NoItems, NoMaster, NoStatus
<1>6. /\ t.job = "reresolve" /\ t.stock = stock /\ t.at = "lines" /\ t.was = w
      /\ t.lines = found /\ t.fills = NoItems /\ t.put = [o \in Order |-> "none"]
      /\ t.parked = {} /\ t.reopened = {} /\ t.want = {} /\ t.events = {} /\ t.stale = FALSE
      /\ t.key = NULL
  BY <1>4 DEF NoTx
<1>7. JobInPlace(t)
  BY <1>6 DEF JobInPlace
<1>8. Local(p, t)
  BY <1>1, <1>2, <1>4 DEF SelectUnmapped
<1>9. PassBegun(t, found)
  BY <1>2, <1>6 DEF PassBegun, Taken
<1> QED
  BY <1>1, <1>5, <1>6, <1>7, <1>8, <1>9

\* A pass, u, has filled line l with m, or passed it over, and goes on as t.
LineFilled(t, u, l, m, takes) ==
    /\ SamePayload(t, u) /\ SameAlerts(t, u)
    /\ t.at = u.at /\ t.put = u.put
    /\ t.lines = u.lines \ {l}
    /\ t.fills = [u.fills EXCEPT ![l] = m]
    /\ Taken(t) = Taken(u) \cup (IF takes THEN Consume(l, m) ELSE {})

\* The part that resolve_alert and reresolve_unmapped_lines share.
LEMMA LineFilledStep ==
    ASSUME NEW u \in TxType, JobInPlace(u), u.want = {}, u.at = "lines",
           NEW l \in u.lines, NEW m \in NoMaster, NEW takes \in BOOLEAN, takes => m # NULL
    PROVE  \E t \in TxType :
              /\ t = [u EXCEPT !.lines = @ \ {l}, !.fills[l] = m,
                               !.want = IF takes THEN Consume(l, m) ELSE {}]
              /\ JobInPlace(t)
              /\ LineFilled(t, u, l, m, takes)
<1>1. PICK w : w = IF takes THEN Consume(l, m) ELSE {}
  OBVIOUS
<1>2. l \in Line
  BY DEF TxType
<1>3. w \in SUBSET Event
  BY <1>1, <1>2 DEF Consume, Consumed, Event, NoMaster
<1>4. PICK f : f = [u.fills EXCEPT ![l] = m]
  OBVIOUS
<1>5. f \in [Line -> NoMaster]
  BY <1>2, <1>4 DEF TxType
<1>6. PICK t : t = [u EXCEPT !.lines = @ \ {l}, !.fills = f, !.want = w]
  OBVIOUS
<1>7. [u EXCEPT !.lines = @ \ {l}, !.fills = f, !.want = w] \in TxType
  BY <1>3, <1>5 DEF TxType
<1>8. /\ SamePayload(t, u) /\ SameAlerts(t, u)
      /\ t.at = u.at /\ t.put = u.put /\ t.lines = u.lines \ {l} /\ t.fills = f
      /\ t.want = w /\ t.events = u.events
  BY <1>6, <1>7 DEF TxType, SamePayload, SameAlerts
<1>9. JobInPlace(t)
  BY <1>8 DEF JobInPlace, SamePayload
<1>10. LineFilled(t, u, l, m, takes)
  BY <1>1, <1>4, <1>8 DEF LineFilled, Taken
<1>11. t = [u EXCEPT !.lines = @ \ {l}, !.fills[l] = m,
                     !.want = IF takes THEN Consume(l, m) ELSE {}]
  BY <1>1, <1>4, <1>6
<1> QED
  BY <1>6, <1>7, <1>9, <1>10, <1>11

LEMMA ReplayLineStep ==
    ASSUME LifeInv, NEW p \in Session, ReplayLine(p)
    PROVE  \E t \in TxType, l \in tx[p].lines :
              Local(p, t) /\ JobInPlace(t) /\ LineFilled(t, tx[p], l, tx[p].pick, TRUE)
<1>1. PICK u : u = tx[p]
  OBVIOUS
<1>2. u \in TxType /\ JobInPlace(u) /\ u.at = "lines" /\ u.want = {} /\ u.job = "resolve"
  BY <1>1, SessionParts DEF ReplayLine, Ready
<1>3. PICK l \in u.lines :
        Local(p, [u EXCEPT !.lines = @ \ {l}, !.fills[l] = u.pick, !.want = Consume(l, u.pick)])
  BY <1>1 DEF ReplayLine
<1>4. u.pick \in NoMaster /\ u.pick # NULL
  BY <1>2, KeyAssumption, NullAssumption DEF JobInPlace, NoMaster
<1>5. PICK t \in TxType :
        /\ t = [u EXCEPT !.lines = @ \ {l}, !.fills[l] = u.pick,
                         !.want = IF TRUE THEN Consume(l, u.pick) ELSE {}]
        /\ JobInPlace(t) /\ LineFilled(t, u, l, u.pick, TRUE)
  BY <1>2, <1>4, LineFilledStep
<1> QED
  BY <1>1, <1>3, <1>5

LEMMA ResolveLineStep ==
    ASSUME LifeInv, NEW p \in Session, ResolveLine(p)
    PROVE  \E t \in TxType, l \in tx[p].lines :
              /\ Local(p, t) /\ JobInPlace(t)
              /\ LineFilled(t, tx[p], l, Found(l), Found(l) # NULL /\ Live(p, l))
<1>1. PICK u : u = tx[p]
  OBVIOUS
<1>2. u \in TxType /\ JobInPlace(u) /\ u.at = "lines" /\ u.want = {}
  BY <1>1, SessionParts DEF ResolveLine, Ready
<1>3. PICK l \in u.lines :
        Local(p, [u EXCEPT
              !.lines = @ \ {l},
              !.fills[l] = Found(l),
              !.want = IF Found(l) # NULL /\ Live(p, l) THEN Consume(l, Found(l)) ELSE {}])
  BY <1>1 DEF ResolveLine
<1>4. PICK takes \in BOOLEAN : takes = (Found(l) # NULL /\ Live(p, l))
  OBVIOUS
<1>5. PICK m : m = Found(l)
  OBVIOUS
<1>6. m \in NoMaster
  BY <1>2, <1>5, LineAssumption DEF Found, NoMaster, TxType, LifeInv, LifeTypeOK
<1>7. PICK t \in TxType :
        /\ t = [u EXCEPT !.lines = @ \ {l}, !.fills[l] = m,
                         !.want = IF takes THEN Consume(l, m) ELSE {}]
        /\ JobInPlace(t) /\ LineFilled(t, u, l, m, takes)
  BY <1>2, <1>4, <1>5, <1>6, LineFilledStep
<1>8. Local(p, t)
  BY <1>3, <1>4, <1>5, <1>7
<1> QED
  BY <1>1, <1>4, <1>5, <1>7, <1>8

LEMMA FinishLinesStep ==
    ASSUME LifeInv, NEW p \in Session, FinishLines(p)
    PROVE  \E t \in TxType :
              /\ Local(p, t) /\ JobInPlace(t)
              /\ SamePayload(t, tx[p]) /\ SameAlerts(t, tx[p])
              /\ t.at = "settle" /\ t.lines = tx[p].lines /\ t.put = tx[p].put
              /\ t.fills = tx[p].fills /\ t.want = tx[p].want /\ Taken(t) = Taken(tx[p])
<1>1. PICK u : u = tx[p]
  OBVIOUS
<1>2. u \in TxType /\ JobInPlace(u) /\ u.job \in {"resolve", "reresolve"}
  BY <1>1, SessionParts DEF FinishLines
<1>3. PICK t : t = [u EXCEPT !.at = "settle"]
  OBVIOUS
<1>4. [u EXCEPT !.at = "settle"] \in TxType
  BY <1>2 DEF TxType
<1>5. /\ SamePayload(t, u) /\ SameAlerts(t, u)
      /\ t.at = "settle" /\ t.lines = u.lines /\ t.put = u.put
      /\ t.fills = u.fills /\ t.want = u.want /\ Taken(t) = Taken(u)
  BY <1>2, <1>3 DEF TxType, SamePayload, SameAlerts, Taken
<1>6. JobInPlace(t)
  BY <1>2, <1>5 DEF JobInPlace, SamePayload
<1>7. Local(p, t)
  BY <1>1, <1>3 DEF FinishLines
<1> QED
  BY <1>1, <1>3, <1>4, <1>5, <1>6, <1>7

LEMMA SettleStep ==
    ASSUME LifeInv, NEW p \in Session, Settle(p)
    PROVE  \E t \in TxType :
              /\ Local(p, t) /\ JobInPlace(t)
              /\ SamePayload(t, tx[p]) /\ SameAlerts(t, tx[p])
              /\ t.at = "commit" /\ t.lines = tx[p].lines
              /\ t.fills = tx[p].fills /\ t.want = tx[p].want /\ Taken(t) = Taken(tx[p])
              /\ \A o \in Order : t.put[o] = IF Confirms(t, o) THEN "confirmed" ELSE "none"
<1>1. PICK u : u = tx[p]
  OBVIOUS
<1>2. u \in TxType /\ JobInPlace(u)
  BY <1>1, SessionParts
<1>3. PICK w : w = [o \in Order |->
                  IF /\ \E l \in LinesOf(o) : u.fills[l] # NULL
                     /\ Left(p, o) = {}
                     /\ u.was[o] = "pending_mapping"
                  THEN "confirmed" ELSE "none"]
  OBVIOUS
<1>4. w \in [Order -> NoStatus]
  BY <1>3 DEF NoStatus, Status, ChannelStatus
<1>5. PICK t : t = [u EXCEPT !.at = "commit", !.put = w]
  OBVIOUS
<1>6. [u EXCEPT !.at = "commit", !.put = w] \in TxType
  BY <1>2, <1>4 DEF TxType
<1>7. /\ SamePayload(t, u) /\ SameAlerts(t, u)
      /\ t.at = "commit" /\ t.lines = u.lines /\ t.put = w
      /\ t.fills = u.fills /\ t.want = u.want /\ Taken(t) = Taken(u)
  BY <1>2, <1>5 DEF TxType, SamePayload, SameAlerts, Taken
<1>8. JobInPlace(t)
  BY <1>2, <1>7 DEF JobInPlace, SamePayload
<1>9. Local(p, t)
  BY <1>1, <1>3, <1>5 DEF Settle
<1>10. \A o \in Order : Left(p, o) = {} <=>
          \A l \in LinesOf(o) : master[l] # NULL \/ u.fills[l] # NULL
  BY <1>1 DEF Left
<1>11. \A o \in Order : t.put[o] = IF Confirms(t, o) THEN "confirmed" ELSE "none"
  BY <1>3, <1>7, <1>10 DEF Confirms, SamePayload
<1> QED
  BY <1>1, <1>5, <1>6, <1>7, <1>8, <1>9, <1>11

-----------------------------------------------------------------------------
(* Types, whatever runs beside *)

LEMMA CommitTypes ==
    ASSUME LifeInv, NEW p \in Session, Commit(p)
    PROVE  LifeInv' /\ tx'[p] = NoTx /\ \A q \in Session \ {p} : tx'[q] = tx[q]
<1>1. PICK t : t = tx[p]
  OBVIOUS
<1>2. t \in TxType /\ JobInPlace(t)
  BY <1>1, SessionParts
<1>3. tx' = [tx EXCEPT ![p] = NoTx]
  BY DEF Commit
<1>4. /\ tx' \in [Session -> TxType] /\ tx'[p] = NoTx
      /\ \A q \in Session \ {p} : tx'[q] = tx[q]
  BY <1>3, NoTxType DEF LifeInv, LifeTypeOK
<1>5. status' \in [Order -> NoStatus]
  BY <1>1, <1>2 DEF Commit, TxType, LifeInv, LifeTypeOK
<1>6. master' \in [Line -> NoMaster]
  BY <1>1, <1>2 DEF Commit, TxType, LifeInv, LifeTypeOK
<1>7. mapping' \in [Key -> NoMaster]
  BY <1>1, <1>2 DEF Commit, TxType, LifeInv, LifeTypeOK
<1>8. alert' \in [Key -> AlertStatus]
  BY DEF Commit, LifeInv, LifeTypeOK, AlertStatus, Outstanding
<1>9. events' \in SUBSET Event
  BY <1>1, <1>2 DEF Commit, TxType, LifeInv, LifeTypeOK
<1>10. settled' \in SUBSET Line
  BY DEF Commit, LifeInv, LifeTypeOK
<1>11. late' \in SUBSET Order
  BY <1>1, <1>2 DEF Commit, JobInPlace, LifeInv, LifeTypeOK
<1>12. UNCHANGED <<channel, reported>>
  BY DEF Commit
<1>13. LifeTypeOK'
  BY <1>4, <1>5, <1>6, <1>7, <1>8, <1>9, <1>10, <1>11, <1>12 DEF LifeInv, LifeTypeOK
<1>14. \A q \in Session : JobInPlace(tx'[q])
  BY <1>4, NoTxType DEF LifeInv
<1> QED
  BY <1>4, <1>13, <1>14 DEF LifeInv, JobInPlace

\* The steps of an open transaction, and of one that begins.
Works(p) ==
    \/ \E o \in Order, st \in ChannelStatus : FindOrder(p, o, st)
    \/ LockAndAppend(p)
    \/ InsertOrder(p) \/ InsertConflict(p) \/ IngestLine(p) \/ FinishNew(p)
    \/ IngestUpdate(p) \/ CreditLine(p) \/ FinishCredit(p)
    \/ \E k \in Key : \E m \in Choice[k] : ResolveAlert(p, k, m)
    \/ \E stock \in BOOLEAN : SelectUnmapped(p, stock)
    \/ ReplayLine(p) \/ ResolveLine(p) \/ FinishLines(p) \/ Settle(p)
    \/ Fail(p)

\* The steps of the channel and of the screens.
Outside ==
    \/ \E o \in Order : Place(o) \/ Ship(o) \/ CancelOrder(o)
    \/ \E k \in Key :
        \/ StartAlert(k)
        \/ DeleteMapping(k)
        \/ \E m \in Choice[k] : AddMapping(k, m)

LEMMA NextParts == Next <=> Outside \/ \E p \in Session : Works(p) \/ Commit(p)
  BY DEF Next, Outside, Works

LEMMA WorksTypes ==
    ASSUME LifeInv, NEW p \in Session, Works(p)
    PROVE  LifeInv'
<1>1. CASE Fail(p) \/ InsertConflict(p)
  BY <1>1, NoTxType, LocalStep DEF Fail, InsertConflict, Rollback
<1>2. CASE ~Fail(p) /\ ~InsertConflict(p)
  <2> SUFFICES \E t \in TxType : Local(p, t) /\ JobInPlace(t)
    BY LocalStep
  <2>1. CASE \E o \in Order, st \in ChannelStatus : FindOrder(p, o, st)
    BY <2>1, FindOrderStep
  <2>2. CASE LockAndAppend(p)
    BY <2>2, LockAndAppendStep
  <2>3. CASE InsertOrder(p)
    BY <2>3, InsertOrderStep
  <2>4. CASE IngestLine(p)
    BY <2>4, IngestLineStep
  <2>5. CASE FinishNew(p)
    BY <2>5, FinishNewStep
  <2>6. CASE IngestUpdate(p)
    BY <2>6, IngestUpdateStep
  <2>7. CASE CreditLine(p)
    BY <2>7, CreditLineStep
  <2>8. CASE FinishCredit(p)
    BY <2>8, FinishCreditStep
  <2>9. CASE \E k \in Key : \E m \in Choice[k] : ResolveAlert(p, k, m)
    BY <2>9, ResolveAlertStep
  <2>10. CASE \E stock \in BOOLEAN : SelectUnmapped(p, stock)
    BY <2>10, SelectUnmappedStep
  <2>11. CASE ReplayLine(p)
    BY <2>11, ReplayLineStep
  <2>12. CASE ResolveLine(p)
    BY <2>12, ResolveLineStep
  <2>13. CASE FinishLines(p)
    BY <2>13, FinishLinesStep
  <2>14. CASE Settle(p)
    BY <2>14, SettleStep
  <2> QED
    BY <1>2, <2>1, <2>2, <2>3, <2>4, <2>5, <2>6, <2>7, <2>8, <2>9, <2>10, <2>11, <2>12, <2>13, <2>14 DEF Works
<1> QED
  BY <1>1, <1>2

LEMMA OutsideTypes ==
    ASSUME LifeInv, Outside
    PROVE  LifeInv' /\ tx' = tx /\ UNCHANGED <<status, master, events, settled, late>>
<1>1. tx' = tx /\ UNCHANGED <<status, master, events, settled, late>>
  BY DEF Outside, Place, Ship, CancelOrder, Reports, tables, StartAlert, DeleteMapping, AddMapping
<1>2. CASE \E o \in Order : Place(o) \/ Ship(o) \/ CancelOrder(o)
  <2>1. PICK o \in Order, st \in ChannelStatus : Reports(o, st)
    BY <1>2 DEF Place, Ship, CancelOrder, ChannelStatus
  <2>2. LifeTypeOK'
    BY <2>1, <1>1 DEF Reports, tables, LifeInv, LifeTypeOK
  <2> QED
    BY <1>1, <2>2 DEF LifeInv, JobInPlace
<1>3. CASE \E k \in Key : StartAlert(k) \/ DeleteMapping(k) \/ \E m \in Choice[k] : AddMapping(k, m)
  <2>1. UNCHANGED <<channel, reported>>
    BY <1>3 DEF StartAlert, DeleteMapping, AddMapping
  <2>2. mapping' \in [Key -> NoMaster]
    BY <1>3, KeyAssumption DEF StartAlert, DeleteMapping, AddMapping, LifeInv, LifeTypeOK, NoMaster
  <2>3. alert' \in [Key -> AlertStatus]
    BY <1>3 DEF StartAlert, DeleteMapping, AddMapping, LifeInv, LifeTypeOK, AlertStatus
  <2>4. LifeTypeOK'
    BY <1>1, <2>1, <2>2, <2>3 DEF LifeInv, LifeTypeOK
  <2> QED
    BY <1>1, <2>4 DEF LifeInv, JobInPlace
<1> QED
  BY <1>1, <1>2, <1>3 DEF Outside

LEMMA LifeInit == ASSUME Init PROVE LifeInv
<1>1. LifeTypeOK
  BY NoTxType DEF Init, LifeTypeOK, NoStatus, NoMaster, NoItems, AlertStatus
<1> QED
  BY <1>1, NoTxType DEF Init, LifeInv

-----------------------------------------------------------------------------
(* Unmapped lines stay in sight *)

LEMMA ReachLocal ==
    ASSUME ReachInv, NEW p \in Session, NEW t \in TxType, JobInPlace(t), Local(p, t), ReachTx(t)
    PROVE  ReachInv'
<1>1. /\ LifeInv' /\ tx'[p] = t /\ \A q \in Session \ {p} : tx'[q] = tx[q]
      /\ UNCHANGED <<status, master, mapping, alert>>
  BY LocalStep DEF ReachInv
<1>2. ResolvedIsMapped' /\ UnmappedIsReachable'
  BY <1>1 DEF ReachInv, ResolvedIsMapped, UnmappedIsReachable, Found
<1>3. \A q \in Session : ReachTx(tx'[q])
  BY <1>1 DEF ReachInv
<1>4. \A q \in Session : ReachTx(tx[q])'
  BY <1>1, <1>3 DEF ReachTx, Visited, LinesOf
<1> QED
  BY <1>1, <1>2, <1>4 DEF ReachInv

LEMMA ReachNoTx == ReachTx(NoTx)
  BY DEF ReachTx, NoTx

LEMMA ReachWorks ==
    ASSUME ReachInv, NEW p \in Session, Works(p)
    PROVE  ReachInv'
<1> SUFFICES \E t \in TxType : Local(p, t) /\ JobInPlace(t) /\ ReachTx(t)
  BY ReachLocal
<1>0. LifeInv /\ ReachTx(tx[p]) /\ tx[p] \in TxType /\ JobInPlace(tx[p])
  BY SessionParts DEF ReachInv
<1>1. CASE \E o \in Order, st \in ChannelStatus : FindOrder(p, o, st)
  <2>1. PICK o \in Order, st \in ChannelStatus : FindOrder(p, o, st)
    BY <1>1
  <2>2. PICK t \in TxType :
          /\ Local(p, t) /\ JobInPlace(t)
          /\ t.order = o /\ t.at = IF status[o] = "none" THEN "insert" ELSE "update"
          /\ t.was[o] = status[o]
          /\ \A x \in Order \ {o} : t.was[x] = "none"
          /\ t.put = [x \in Order |-> "none"]
    BY <1>0, <2>1, FindOrderStep
  <2>3. ReachTx(t)
    BY <2>2 DEF ReachTx
  <2> QED
    BY <2>2, <2>3
<1>2. CASE LockAndAppend(p)
  <2>1. PICK t \in TxType :
          /\ Local(p, t) /\ JobInPlace(t)
          /\ SamePayload(t, tx[p]) /\ SameAlerts(t, tx[p])
          /\ t.at = tx[p].at /\ t.lines = tx[p].lines /\ t.put = tx[p].put /\ t.fills = tx[p].fills
    BY <1>0, <1>2, LockAndAppendStep
  <2>2. ReachTx(t)
    BY <1>0, <1>2, <2>1 DEF ReachTx, SamePayload, SameAlerts, Visited
  <2> QED
    BY <2>1, <2>2
<1>3. CASE InsertOrder(p)
  <2>1. PICK t \in TxType :
          /\ Local(p, t) /\ JobInPlace(t)
          /\ SamePayload(t, tx[p]) /\ SameAlerts(t, tx[p])
          /\ t.at = "lines" /\ t.lines = LinesOf(t.order) /\ t.put = tx[p].put
    BY <1>0, <1>3, InsertOrderStep
  <2>2. ReachTx(t)
    BY <1>0, <1>3, <2>1 DEF ReachTx, SamePayload, Visited, InsertOrder
  <2> QED
    BY <2>1, <2>2
<1>4. CASE IngestLine(p)
  <2>1. PICK t \in TxType, l \in tx[p].lines :
          Local(p, t) /\ JobInPlace(t) /\ LineIngested(t, tx[p], l)
    BY <1>0, <1>4, IngestLineStep
  <2>2. tx[p].at = "lines"
    BY <1>4 DEF IngestLine, Ready
  <2>3. \A x \in Line : x # l => t.fills[x] = tx[p].fills[x]
    BY <1>0, <2>1 DEF LineIngested, TxType
  <2>4. t.fills[l] # NULL \/ KeyOf[l] \in t.parked
    BY <1>0, <2>1 DEF LineIngested, TxType
  <2>5. tx[p].parked \subseteq t.parked
    BY <2>1 DEF LineIngested, SameAlerts
  <2>6. t.order = tx[p].order /\ Visited(t) \subseteq Visited(tx[p]) \cup {l} /\ Visited(t) \subseteq Line
    BY <2>1 DEF LineIngested, SamePayload, Visited, LinesOf
  <2>7. ReachTx(t)
    BY <1>0, <2>1, <2>2, <2>3, <2>4, <2>5, <2>6 DEF ReachTx, LineIngested, SamePayload
  <2> QED
    BY <2>1, <2>7
<1>5. CASE FinishNew(p)
  <2>1. PICK t \in TxType :
          /\ Local(p, t) /\ JobInPlace(t)
          /\ SamePayload(t, tx[p]) /\ SameAlerts(t, tx[p])
          /\ t.at = "commit" /\ t.lines = tx[p].lines /\ t.fills = tx[p].fills
          /\ t.put = [tx[p].put EXCEPT ![t.order] = NewStatus(p)]
    BY <1>0, <1>5, FinishNewStep
  <2>2. tx[p].at = "lines" /\ tx[p].lines = {} /\ tx[p].job = "ingest"
    BY <1>5 DEF FinishNew, Ready
  <2>3. \A o \in Order : o # t.order => t.put[o] = tx[p].put[o]
    BY <1>0, <2>1 DEF TxType
  <2>4. t.was[t.order] # "none" => status[t.order] # "none"
    BY <1>0, <2>1, <2>2 DEF ReachTx, SamePayload, JobInPlace
  <2>5. ReachTx(t)
    BY <1>0, <2>1, <2>2, <2>3, <2>4 DEF ReachTx, SamePayload, SameAlerts, Visited
  <2> QED
    BY <2>1, <2>5
<1>6. CASE IngestUpdate(p)
  <2>1. PICK t \in TxType : Local(p, t) /\ JobInPlace(t) /\ Updated(t, tx[p])
    BY <1>0, <1>6, IngestUpdateStep
  <2>2. tx[p].at = "update" /\ tx[p].job = "ingest" /\ tx[p].order \in Order
    BY <1>0, <1>6 DEF IngestUpdate, JobInPlace
  <2>3. tx[p].was[tx[p].order] # "none" /\ status[tx[p].order] # "none"
    BY <1>0, <2>2 DEF ReachTx
  <2>4. SamePayload(t, tx[p]) /\ \A o \in Order : o # t.order => t.put[o] = tx[p].put[o]
    BY <1>0, <2>1 DEF TxType, Updated, SamePayload
  <2>5. ReachTx(t)
    BY <1>0, <2>2, <2>3, <2>4 DEF ReachTx, SamePayload
  <2> QED
    BY <2>1, <2>5
<1>7. CASE CreditLine(p)
  <2>1. PICK t \in TxType, l \in tx[p].lines :
          Local(p, t) /\ JobInPlace(t) /\ LineCredited(t, tx[p], l)
    BY <1>0, <1>7, CreditLineStep
  <2>2. ReachTx(t)
    BY <1>0, <1>7, <2>1 DEF ReachTx, LineCredited, SamePayload, CreditLine, Ready
  <2> QED
    BY <2>1, <2>2
<1>8. CASE FinishCredit(p)
  <2>1. PICK t \in TxType :
          /\ Local(p, t) /\ JobInPlace(t)
          /\ SamePayload(t, tx[p]) /\ SameAlerts(t, tx[p])
          /\ t.at = "commit" /\ t.lines = tx[p].lines /\ t.put = tx[p].put
    BY <1>0, <1>8, FinishCreditStep
  <2>2. ReachTx(t)
    BY <1>0, <1>8, <2>1 DEF ReachTx, SamePayload, FinishCredit, Ready
  <2> QED
    BY <2>1, <2>2
<1>9. CASE \E k \in Key : \E m \in Choice[k] : ResolveAlert(p, k, m)
  <2>1. PICK k \in Key : \E m \in Choice[k] : ResolveAlert(p, k, m)
    BY <1>9
  <2>2. PICK m \in Choice[k] : ResolveAlert(p, k, m)
    BY <2>1
  <2>3. PICK t \in TxType, found \in SUBSET Line :
          /\ Local(p, t) /\ JobInPlace(t)
          /\ t.job = "resolve" /\ t.at = IF found = {} THEN "commit" ELSE "lines"
          /\ PassBegun(t, found)
    BY <1>0, <2>2, ResolveAlertStep
  <2>4. ReachTx(t)
    BY <2>3 DEF ReachTx, PassBegun
  <2> QED
    BY <2>3, <2>4
<1>10. CASE \E stock \in BOOLEAN : SelectUnmapped(p, stock)
  <2>1. PICK t \in TxType, found \in SUBSET Line :
          /\ Local(p, t) /\ JobInPlace(t)
          /\ t.job = "reresolve" /\ t.at = "lines"
          /\ PassBegun(t, found)
    BY <1>0, <1>10, SelectUnmappedStep
  <2>2. ReachTx(t)
    BY <2>1 DEF ReachTx, PassBegun
  <2> QED
    BY <2>1, <2>2
<1>11. CASE ReplayLine(p) \/ ResolveLine(p)
  <2>1. PICK t \in TxType :
          Local(p, t) /\ JobInPlace(t) /\ \E l, m, takes : LineFilled(t, tx[p], l, m, takes)
    BY <1>0, <1>11, ReplayLineStep, ResolveLineStep
  <2>2. ReachTx(t)
    BY <1>0, <1>11, <2>1 DEF ReachTx, LineFilled, SamePayload, ReplayLine, ResolveLine
  <2> QED
    BY <2>1, <2>2
<1>12. CASE FinishLines(p)
  <2>1. PICK t \in TxType :
          /\ Local(p, t) /\ JobInPlace(t)
          /\ SamePayload(t, tx[p]) /\ SameAlerts(t, tx[p])
          /\ t.at = "settle" /\ t.put = tx[p].put
    BY <1>0, <1>12, FinishLinesStep
  <2>2. ReachTx(t)
    BY <1>0, <1>12, <2>1 DEF ReachTx, SamePayload, FinishLines
  <2> QED
    BY <2>1, <2>2
<1>13. CASE Settle(p)
  <2>1. PICK t \in TxType :
          /\ Local(p, t) /\ JobInPlace(t)
          /\ SamePayload(t, tx[p]) /\ SameAlerts(t, tx[p])
          /\ t.at = "commit"
          /\ \A o \in Order : t.put[o] = IF Confirms(t, o) THEN "confirmed" ELSE "none"
    BY <1>0, <1>13, SettleStep
  <2>2. ReachTx(t)
    BY <1>0, <1>13, <2>1 DEF ReachTx, SamePayload, Confirms, Settle, JobInPlace
  <2> QED
    BY <2>1, <2>2
<1>14. CASE Fail(p) \/ InsertConflict(p)
  BY <1>14, NoTxType, ReachNoTx DEF Fail, InsertConflict, Rollback
<1> QED
  BY <1>1, <1>2, <1>3, <1>4, <1>5, <1>6, <1>7, <1>8, <1>9, <1>10, <1>11, <1>12, <1>13,
     <1>14 DEF Works

LEMMA ReachCommit ==
    ASSUME ReachInv, NEW p \in Session, Commit(p)
    PROVE  ReachInv'
<1>1. PICK t : t = tx[p]
  OBVIOUS
<1>2. LifeInv /\ t \in TxType /\ JobInPlace(t) /\ ReachTx(t) /\ t.at = "commit"
  BY <1>1, SessionParts DEF ReachInv, Commit
<1>3. LifeInv' /\ tx'[p] = NoTx /\ \A q \in Session \ {p} : tx'[q] = tx[q]
  BY <1>2, CommitTypes
<1>4. /\ \A o \in Order : status'[o] = IF t.put[o] = "none" THEN status[o] ELSE t.put[o]
      /\ \A l \in Line : master'[l] = IF t.fills[l] = NULL THEN master[l] ELSE t.fills[l]
      /\ \A k \in Key : mapping'[k] = IF t.key = k THEN t.pick ELSE mapping[k]
  BY <1>1 DEF Commit
<1>5. \A k \in Key : alert'[k] =
          CASE t.key = k /\ alert[k] \in Outstanding -> "resolved"
            [] k \in t.reopened -> "open"
            [] k \in t.parked /\ alert[k] = "none" -> "open"
            [] OTHER -> alert[k]
  BY <1>1 DEF Commit
<1>6. \A k \in Key : t.key = k => mapping'[k] # NULL /\ k \notin BlankKey
  BY <1>2, <1>4, KeyAssumption, NullAssumption DEF JobInPlace
<1>7. \A k \in Key : mapping[k] # NULL => mapping'[k] # NULL
  BY <1>4, <1>6
<1>8. ResolvedIsMapped'
  <2>1. \A k \in Key : alert'[k] = "resolved" => t.key = k \/ alert[k] = "resolved"
    BY <1>5
  <2> QED
    BY <1>6, <1>7, <2>1 DEF ReachInv, ResolvedIsMapped
<1>9. UnmappedIsReachable'
  <2> SUFFICES ASSUME NEW l \in Line, status'[OrderOf[l]] # "none", master'[l] = NULL
               PROVE  alert'[KeyOf[l]] \in Outstanding \/ Found(l)' # NULL
    BY DEF UnmappedIsReachable
  <2>1. OrderOf[l] \in Order /\ KeyOf[l] \in Key
    BY LineAssumption
  <2>2. master[l] = NULL /\ t.fills[l] = NULL
    BY <1>4
  <2>3. Found(l) # NULL => Found(l)' # NULL
    BY <1>7, <2>1 DEF Found
  <2>4. t.key = KeyOf[l] => Found(l)' # NULL
    BY <1>6, <2>1 DEF Found
  <2>5. CASE status[OrderOf[l]] # "none"
    <3>1. alert[KeyOf[l]] \in Outstanding \/ Found(l) # NULL
      BY <2>2, <2>5 DEF ReachInv, UnmappedIsReachable
    <3>2. alert[KeyOf[l]] \in Outstanding /\ t.key # KeyOf[l] => alert'[KeyOf[l]] \in Outstanding
      BY <1>5, <2>1 DEF Outstanding
    <3> QED
      BY <2>3, <2>4, <3>1, <3>2
  <2>6. CASE status[OrderOf[l]] = "none"
    <3>1. t.job = "ingest" /\ t.was[t.order] = "none" /\ OrderOf[l] = t.order /\ t.lines = {}
      BY <1>2, <1>4, <2>1, <2>6 DEF ReachTx
    <3>2. l \in Visited(t)
      BY <3>1 DEF Visited, LinesOf
    <3>3. KeyOf[l] \in t.parked
      BY <1>2, <2>2, <3>1, <3>2 DEF ReachTx
    <3>4. t.key # KeyOf[l]
      BY <1>2, <2>1, <3>1, NullAssumption DEF JobInPlace
    <3>5. alert[KeyOf[l]] = "resolved" => Found(l) # NULL
      BY <2>1 DEF ReachInv, ResolvedIsMapped, Found
    <3>6. alert[KeyOf[l]] \in AlertStatus
      BY <1>2, <2>1 DEF LifeInv, LifeTypeOK
    <3>7. alert'[KeyOf[l]] \in Outstanding \/ alert[KeyOf[l]] = "resolved"
      BY <1>5, <2>1, <3>3, <3>4, <3>6 DEF Outstanding, AlertStatus
    <3> QED
      BY <2>3, <3>5, <3>7
  <2> QED
    BY <2>5, <2>6
<1>10. \A o \in Order : status[o] # "none" => status'[o] # "none"
  BY <1>4
<1>11. ASSUME NEW q \in Session PROVE ReachTx(tx[q])'
  <2>1. CASE q = p
    BY <1>3, <2>1 DEF ReachTx, NoTx
  <2>2. CASE q # p
    <3>1. tx'[q] = tx[q] /\ ReachTx(tx[q])
      BY <1>3, <2>2 DEF ReachInv
    <3> QED
      BY <1>10, <3>1 DEF ReachTx, Visited, LinesOf
  <2> QED
    BY <2>1, <2>2
<1> QED
  BY <1>3, <1>8, <1>9, <1>11 DEF ReachInv

LEMMA ReachOutside ==
    ASSUME ReachInv, Outside, ~Unmap
    PROVE  ReachInv'
<1>1. LifeInv' /\ tx' = tx /\ UNCHANGED <<status, master>>
  BY OutsideTypes DEF ReachInv
<1>2. \A k \in Key : mapping[k] # NULL => mapping'[k] # NULL
  <2>1. ASSUME NEW k \in Key, NEW m \in Choice[k], AddMapping(k, m)
        PROVE  \A x \in Key : mapping[x] # NULL => mapping'[x] # NULL
    BY <2>1, KeyAssumption, NullAssumption DEF AddMapping, ReachInv, LifeInv, LifeTypeOK
  <2>2. (\E k \in Key : \E m \in Choice[k] : AddMapping(k, m)) \/ mapping' = mapping
    BY DEF Outside, Place, Ship, CancelOrder, Reports, tables, StartAlert, DeleteMapping
  <2> QED
    BY <2>1, <2>2
<1>3. \A k \in Key : alert'[k] = alert[k] \/ (alert[k] = "open" /\ alert'[k] = "in_progress")
  <2>1. ASSUME NEW k \in Key, StartAlert(k)
        PROVE  \A x \in Key : alert'[x] = alert[x] \/ (alert[x] = "open" /\ alert'[x] = "in_progress")
    BY <2>1 DEF StartAlert, ReachInv, LifeInv, LifeTypeOK
  <2>2. (\E k \in Key : StartAlert(k)) \/ alert' = alert
    BY DEF Outside, Place, Ship, CancelOrder, Reports, tables, AddMapping, DeleteMapping
  <2> QED
    BY <2>1, <2>2
<1>4. ResolvedIsMapped'
  BY <1>2, <1>3 DEF ReachInv, ResolvedIsMapped
<1>5. UnmappedIsReachable'
  BY <1>1, <1>2, <1>3, LineAssumption DEF ReachInv, UnmappedIsReachable, Found, Outstanding
<1>6. \A q \in Session : ReachTx(tx[q])'
  BY <1>1 DEF ReachInv, ReachTx, Visited, LinesOf
<1> QED
  BY <1>1, <1>4, <1>5, <1>6 DEF ReachInv

LEMMA ReachInit == ASSUME Init PROVE ReachInv
<1>1. ResolvedIsMapped /\ UnmappedIsReachable
  BY LineAssumption DEF Init, ResolvedIsMapped, UnmappedIsReachable
<1>2. \A p \in Session : ReachTx(tx[p])
  BY ReachNoTx DEF Init
<1> QED
  BY <1>1, <1>2, LifeInit DEF ReachInv

\* With any sessions beside each other, any choices of the operators and late payloads, an
\* unmapped line stays in sight: its channel SKU has an alert that is outstanding, or a
\* mapping a pass will find.  Nobody may delete a mapping: the line of a parked order that
\* a payload moved on is left behind when its alert is resolved, and then depends on it.
THEOREM UnmappedStaysReachable == ASSUME ~Unmap PROVE Spec => []UnmappedIsReachable
<1>1. Init => ReachInv
  BY ReachInit
<1>2. ReachInv /\ [Next]_vars => ReachInv'
  <2> SUFFICES ASSUME ReachInv, [Next]_vars PROVE ReachInv'
    OBVIOUS
  <2>1. CASE UNCHANGED vars
    BY <2>1 DEF vars, ReachInv, LifeInv, LifeTypeOK, JobInPlace, ResolvedIsMapped,
                UnmappedIsReachable, Found, ReachTx, Visited, LinesOf
  <2>2. CASE Next
    BY <2>2, NextParts, ReachOutside, ReachWorks, ReachCommit
  <2> QED
    BY <2>1, <2>2
<1>3. ReachInv => UnmappedIsReachable
  BY DEF ReachInv
<1> QED
  BY <1>1, <1>2, <1>3, PTL DEF Spec

-----------------------------------------------------------------------------
(* Stock goes where lines are attributed *)

LEMMA AttributionLocal ==
    ASSUME AttributionInv, NEW p \in Session, NEW t \in TxType, JobInPlace(t), Local(p, t),
           AttributionTx(t)
    PROVE  AttributionInv'
<1>1. /\ LifeInv' /\ tx'[p] = t /\ \A q \in Session \ {p} : tx'[q] = tx[q]
      /\ UNCHANGED <<master, mapping, events>>
  BY LocalStep DEF AttributionInv
<1>2. \A q \in Session : AttributionTx(tx'[q])
  BY <1>1 DEF AttributionInv
<1>3. \A q \in Session : AttributionTx(tx[q])'
  BY <1>1, <1>2 DEF AttributionTx, Chosen, Taken
<1> QED
  BY <1>1, <1>3 DEF AttributionInv, Chosen, ConsumptionIsAttributed

LEMMA AttributionNoTx == AttributionTx(NoTx)
  BY DEF AttributionTx, NoTx, Chosen, NoItems, Taken

\* A line is filled with one of its channel SKU's masters, and what it takes goes there.
LEMMA FilledAttribution ==
    ASSUME NEW u \in TxType, AttributionTx(u), u.at = "lines",
           NEW l \in u.lines, NEW m \in NoMaster, m # NULL => m \in Choice[KeyOf[l]],
           NEW t \in TxType, t.job = u.job, t.key = u.key, t.lines = u.lines \ {l},
           t.fills = [u.fills EXCEPT ![l] = m], t.at = u.at,
           NEW new \in {{}, Consume(l, m)}, Taken(t) = Taken(u) \cup new
    PROVE  AttributionTx(t)
<1>1. l \in Line /\ u.fills[l] = NULL /\ u.fills \in [Line -> NoMaster]
  BY DEF AttributionTx, TxType
<1>2. t.fills[l] = m /\ \A x \in Line : x # l => t.fills[x] = u.fills[x]
  BY <1>1
<1>3. Chosen(t.fills)
  BY <1>2 DEF AttributionTx, Chosen
<1>4. ASSUME NEW e \in Taken(u) PROVE t.fills[e.line] = e.master \/ master[e.line] = e.master
  <2>1. e \in Event
    BY DEF Taken, TxType
  <2>2. e.line \in Line /\ e.master \in Master
    BY <2>1 DEF Event
  <2>3. e.line # l \/ master[e.line] = e.master
    BY <1>1, <2>2, NullAssumption DEF AttributionTx
  <2> QED
    BY <1>2, <2>2, <2>3 DEF AttributionTx
<1>5. ASSUME NEW e \in new PROVE t.fills[e.line] = e.master
  BY <1>2 DEF Consume, Consumed
<1>6. t.lines \subseteq u.lines /\ l \notin t.lines /\ t.lines \subseteq Line
  BY DEF TxType
<1>7. t.job = "resolve" => \A x \in t.lines : KeyOf[x] = t.key
  BY <1>6 DEF AttributionTx
<1>8. \A x \in t.lines : t.fills[x] = NULL
  BY <1>2, <1>6 DEF AttributionTx
<1> QED
  BY <1>3, <1>4, <1>5, <1>7, <1>8 DEF AttributionTx

LEMMA AttributionWorks ==
    ASSUME AttributionInv, NEW p \in Session, Works(p)
    PROVE  AttributionInv'
<1> SUFFICES \E t \in TxType : Local(p, t) /\ JobInPlace(t) /\ AttributionTx(t)
  BY AttributionLocal
<1>0. LifeInv /\ AttributionTx(tx[p]) /\ tx[p] \in TxType /\ JobInPlace(tx[p])
  BY SessionParts DEF AttributionInv
<1>1. CASE \E o \in Order, st \in ChannelStatus : FindOrder(p, o, st)
  <2>1. PICK o \in Order, st \in ChannelStatus : FindOrder(p, o, st)
    BY <1>1
  <2>2. PICK t \in TxType :
          /\ Local(p, t) /\ JobInPlace(t)
          /\ t.job = "ingest" /\ t.fills = NoItems /\ t.lines = {} /\ Taken(t) = {}
    BY <1>0, <2>1, FindOrderStep
  <2>3. AttributionTx(t)
    BY <2>2 DEF AttributionTx, Chosen, NoItems
  <2> QED
    BY <2>2, <2>3
<1>2. CASE LockAndAppend(p)
  <2>1. PICK t \in TxType :
          /\ Local(p, t) /\ JobInPlace(t) /\ SamePayload(t, tx[p])
          /\ t.at = tx[p].at /\ t.lines = tx[p].lines /\ t.fills = tx[p].fills
          /\ Taken(t) = Taken(tx[p])
    BY <1>0, <1>2, LockAndAppendStep
  <2>2. AttributionTx(t)
    BY <1>0, <2>1 DEF AttributionTx, SamePayload
  <2> QED
    BY <2>1, <2>2
<1>3. CASE InsertOrder(p)
  <2>1. PICK t \in TxType :
          /\ Local(p, t) /\ JobInPlace(t) /\ SamePayload(t, tx[p])
          /\ t.at = "lines" /\ t.lines \subseteq Line
          /\ t.fills = tx[p].fills /\ Taken(t) = Taken(tx[p])
    BY <1>0, <1>3, InsertOrderStep DEF LinesOf
  <2>2. tx[p].job = "ingest" /\ tx[p].at = "insert"
    BY <1>0, <1>3 DEF InsertOrder, JobInPlace
  <2>3. AttributionTx(t)
    BY <1>0, <2>1, <2>2 DEF AttributionTx, SamePayload, NoItems
  <2> QED
    BY <2>1, <2>3
<1>4. CASE IngestLine(p)
  <2>1. PICK t \in TxType, l \in tx[p].lines :
          Local(p, t) /\ JobInPlace(t) /\ LineIngested(t, tx[p], l)
    BY <1>0, <1>4, IngestLineStep
  <2>2. PICK m : m = mapping[KeyOf[l]]
    OBVIOUS
  <2>3. m \in NoMaster /\ (m # NULL => m \in Choice[KeyOf[l]])
    BY <1>0, <2>2, LineAssumption DEF AttributionInv, LifeInv, LifeTypeOK, TxType
  <2>4. PICK new \in {{}, Consume(l, m)} : Taken(t) = Taken(tx[p]) \cup new
    BY <2>1, <2>2 DEF LineIngested
  <2>5. /\ t.job = tx[p].job /\ t.key = tx[p].key /\ t.lines = tx[p].lines \ {l}
        /\ t.fills = [tx[p].fills EXCEPT ![l] = m] /\ t.at = tx[p].at
    BY <2>1, <2>2 DEF LineIngested, SamePayload
  <2>6. tx[p].at = "lines"
    BY <1>4 DEF IngestLine, Ready
  <2>7. AttributionTx(t)
    <3>1. PICK u \in TxType : u = tx[p]
      BY <1>0
    <3>2. AttributionTx(u) /\ u.at = "lines" /\ l \in u.lines
      BY <1>0, <2>1, <2>6, <3>1
    <3>3. /\ t.job = u.job /\ t.key = u.key /\ t.lines = u.lines \ {l}
          /\ t.fills = [u.fills EXCEPT ![l] = m] /\ t.at = u.at
          /\ Taken(t) = Taken(u) \cup new
      BY <2>4, <2>5, <3>1
    <3> QED
      BY <2>1, <2>3, <2>4, <3>2, <3>3, FilledAttribution
  <2> QED
    BY <2>1, <2>7
<1>5. CASE FinishNew(p) \/ FinishCredit(p) \/ FinishLines(p) \/ Settle(p)
  <2>1. PICK t \in TxType :
          /\ Local(p, t) /\ JobInPlace(t) /\ SamePayload(t, tx[p])
          /\ t.at \in {"settle", "commit"} /\ t.lines = tx[p].lines /\ t.fills = tx[p].fills
          /\ Taken(t) = Taken(tx[p])
    BY <1>0, <1>5, FinishNewStep, FinishCreditStep, FinishLinesStep, SettleStep
  <2>2. AttributionTx(t)
    BY <1>0, <2>1 DEF AttributionTx, SamePayload
  <2> QED
    BY <2>1, <2>2
<1>6. CASE IngestUpdate(p)
  <2>1. PICK t \in TxType : Local(p, t) /\ JobInPlace(t) /\ Updated(t, tx[p])
    BY <1>0, <1>6, IngestUpdateStep
  <2>2. tx[p].job = "ingest"
    BY <1>0, <1>6 DEF IngestUpdate, JobInPlace
  <2>3. AttributionTx(t)
    BY <1>0, <2>1, <2>2 DEF AttributionTx, Updated, SamePayload
  <2> QED
    BY <2>1, <2>3
<1>7. CASE CreditLine(p)
  <2>1. PICK t \in TxType, l \in tx[p].lines :
          Local(p, t) /\ JobInPlace(t) /\ LineCredited(t, tx[p], l)
    BY <1>0, <1>7, CreditLineStep
  <2>2. tx[p].job = "ingest" /\ tx[p].at = "credit"
    BY <1>0, <1>7 DEF CreditLine, Ready, JobInPlace
  <2>3. \A e \in Taken(t) : e \in Taken(tx[p]) \/ master[e.line] = e.master
    BY <2>1 DEF LineCredited, AttributionInv, ConsumptionIsAttributed, Consumed, Returned
  <2>4. AttributionTx(t)
    BY <1>0, <2>1, <2>2, <2>3 DEF AttributionTx, LineCredited, SamePayload
  <2> QED
    BY <2>1, <2>4
<1>8. CASE \E k \in Key : \E m \in Choice[k] : ResolveAlert(p, k, m)
  <2>1. PICK k \in Key : \E m \in Choice[k] : ResolveAlert(p, k, m)
    BY <1>8
  <2>2. PICK m \in Choice[k] : ResolveAlert(p, k, m)
    BY <2>1
  <2>3. PICK t \in TxType, found \in SUBSET Line :
          /\ Local(p, t) /\ JobInPlace(t)
          /\ found = {l \in Line : KeyOf[l] = k /\ master[l] = NULL
                                   /\ status[OrderOf[l]] = "pending_mapping"}
          /\ t.key = k
          /\ PassBegun(t, found)
    BY <1>0, <2>2, ResolveAlertStep
  <2>4. AttributionTx(t)
    BY <2>3 DEF AttributionTx, PassBegun, Chosen, NoItems
  <2> QED
    BY <2>3, <2>4
<1>9. CASE \E stock \in BOOLEAN : SelectUnmapped(p, stock)
  <2>1. PICK t \in TxType, found \in SUBSET Line :
          /\ Local(p, t) /\ JobInPlace(t) /\ t.job = "reresolve"
          /\ PassBegun(t, found)
    BY <1>0, <1>9, SelectUnmappedStep
  <2>2. AttributionTx(t)
    BY <2>1 DEF AttributionTx, PassBegun, Chosen, NoItems
  <2> QED
    BY <2>1, <2>2
<1>10. CASE ReplayLine(p)
  <2>1. PICK t \in TxType, l \in tx[p].lines :
          Local(p, t) /\ JobInPlace(t) /\ LineFilled(t, tx[p], l, tx[p].pick, TRUE)
    BY <1>0, <1>10, ReplayLineStep
  <2>2. tx[p].at = "lines" /\ tx[p].job = "resolve"
    BY <1>10 DEF ReplayLine, Ready
  <2>3. PICK m : m = tx[p].pick
    OBVIOUS
  <2>4. m \in NoMaster /\ m \in Choice[KeyOf[l]]
    BY <1>0, <2>2, <2>3 DEF AttributionTx, JobInPlace, TxType
  <2>5. AttributionTx(t)
    BY <1>0, <2>1, <2>2, <2>3, <2>4, FilledAttribution DEF LineFilled, SamePayload
  <2> QED
    BY <2>1, <2>5
<1>11. CASE ResolveLine(p)
  <2>1. PICK t \in TxType, l \in tx[p].lines :
          /\ Local(p, t) /\ JobInPlace(t)
          /\ LineFilled(t, tx[p], l, Found(l), Found(l) # NULL /\ Live(p, l))
    BY <1>0, <1>11, ResolveLineStep
  <2>2. tx[p].at = "lines"
    BY <1>11 DEF ResolveLine, Ready
  <2>3. PICK m : m = Found(l)
    OBVIOUS
  <2>4. m \in NoMaster /\ (m # NULL => m \in Choice[KeyOf[l]])
    BY <1>0, <2>3, LineAssumption
       DEF Found, NoMaster, AttributionInv, LifeInv, LifeTypeOK, TxType
  <2>5. PICK new \in {{}, Consume(l, m)} : Taken(t) = Taken(tx[p]) \cup new
    BY <2>1, <2>3 DEF LineFilled
  <2>6. AttributionTx(t)
    BY <1>0, <2>1, <2>2, <2>3, <2>4, <2>5, FilledAttribution DEF LineFilled, SamePayload
  <2> QED
    BY <2>1, <2>6
<1>12. CASE Fail(p) \/ InsertConflict(p)
  BY <1>12, NoTxType, AttributionNoTx DEF Fail, InsertConflict, Rollback
<1> QED
  BY <1>1, <1>2, <1>3, <1>4, <1>5, <1>6, <1>7, <1>8, <1>9, <1>10, <1>11, <1>12 DEF Works

\* A commit may fill a line that another session, or the table, attributes already: with
\* one master for each channel SKU it is the same.
LEMMA AttributionCommit ==
    ASSUME AttributionInv, FixedChoice, NEW p \in Session, Commit(p)
    PROVE  AttributionInv'
<1>1. PICK t : t = tx[p]
  OBVIOUS
<1>2. LifeInv /\ t \in TxType /\ JobInPlace(t) /\ AttributionTx(t)
  BY <1>1, SessionParts DEF AttributionInv
<1>3. LifeInv' /\ tx'[p] = NoTx /\ \A q \in Session \ {p} : tx'[q] = tx[q]
  BY <1>2, CommitTypes
<1>4. /\ \A l \in Line : master'[l] = IF t.fills[l] = NULL THEN master[l] ELSE t.fills[l]
      /\ \A k \in Key : mapping'[k] = IF t.key = k THEN t.pick ELSE mapping[k]
      /\ events' = events \cup t.events
  BY <1>1 DEF Commit
<1>5. \A l \in Line : master[l] # NULL => master'[l] = master[l]
  <2> SUFFICES ASSUME NEW l \in Line, master[l] # NULL, t.fills[l] # NULL
               PROVE  t.fills[l] = master[l]
    BY <1>4
  <2>1. t.fills[l] \in Choice[KeyOf[l]] /\ master[l] \in Choice[KeyOf[l]]
    BY <1>2 DEF AttributionInv, AttributionTx, Chosen
  <2> QED
    BY <2>1, LineAssumption DEF FixedChoice
<1>6. \A e \in Event : master[e.line] = e.master => master'[e.line] = e.master
  BY <1>5, NullAssumption DEF Event
<1>7. \A e \in Event : t.fills[e.line] = e.master => master'[e.line] = e.master
  BY <1>4, NullAssumption DEF Event
<1>8. Chosen(master)'
  BY <1>2, <1>4 DEF AttributionInv, AttributionTx, Chosen
<1>9. \A k \in Key : mapping'[k] # NULL => mapping'[k] \in Choice[k]
  BY <1>2, <1>4, NullAssumption DEF AttributionInv, JobInPlace
<1>10. ConsumptionIsAttributed'
  <2>1. events \subseteq Event /\ t.events \subseteq Event
    BY <1>2 DEF LifeInv, LifeTypeOK, TxType
  <2>2. \A e \in events' : master'[e.line] = e.master
    BY <1>2, <1>4, <1>6, <1>7, <2>1
       DEF AttributionInv, AttributionTx, ConsumptionIsAttributed, Taken
  <2> QED
    BY <2>2 DEF ConsumptionIsAttributed
<1>11. ASSUME NEW q \in Session PROVE AttributionTx(tx[q])'
  <2>1. CASE q = p
    BY <1>3, <2>1 DEF AttributionTx, NoTx, Chosen, NoItems, Taken
  <2>2. CASE q # p
    <3>1. tx'[q] = tx[q] /\ AttributionTx(tx[q]) /\ tx[q] \in TxType
      BY <1>2, <1>3, <2>2, SessionParts DEF AttributionInv
    <3>2. Taken(tx[q]) \subseteq Event
      BY <3>1 DEF Taken, TxType
    <3>3. \A e \in Taken(tx[q]) : tx[q].fills[e.line] = e.master \/ master'[e.line] = e.master
      BY <1>6, <3>1, <3>2 DEF AttributionTx
    <3> QED
      BY <3>1, <3>3 DEF AttributionTx, Chosen, Taken
  <2> QED
    BY <2>1, <2>2
<1> QED
  BY <1>3, <1>8, <1>9, <1>10, <1>11 DEF AttributionInv

LEMMA AttributionOutside ==
    ASSUME AttributionInv, Outside
    PROVE  AttributionInv'
<1>1. LifeInv' /\ tx' = tx /\ UNCHANGED <<master, events>>
  BY OutsideTypes DEF AttributionInv
<1>2. \A k \in Key : mapping'[k] # NULL => mapping'[k] \in Choice[k]
  <2>1. ASSUME NEW k \in Key, (\E m \in Choice[k] : AddMapping(k, m)) \/ DeleteMapping(k)
        PROVE  \A x \in Key : mapping'[x] # NULL => mapping'[x] \in Choice[x]
    BY <2>1 DEF AddMapping, DeleteMapping, AttributionInv, LifeInv, LifeTypeOK
  <2>2. \/ \E k \in Key : (\E m \in Choice[k] : AddMapping(k, m)) \/ DeleteMapping(k)
        \/ mapping' = mapping
    BY DEF Outside, Place, Ship, CancelOrder, Reports, tables, StartAlert
  <2> QED
    BY <2>1, <2>2 DEF AttributionInv
<1> QED
  BY <1>1, <1>2 DEF AttributionInv, Chosen, ConsumptionIsAttributed, AttributionTx, Taken

\* With any sessions beside each other, late payloads and deleted mappings, stock is only
\* ever booked on the master its line shows.  A channel SKU must mean one master for good:
\* a line that a pass fills with another one takes the stock of both.
THEOREM StockFollowsLines == ASSUME FixedChoice PROVE Spec => []ConsumptionIsAttributed
<1>1. Init => AttributionInv
  BY LifeInit, AttributionNoTx
     DEF Init, AttributionInv, Chosen, NoItems, ConsumptionIsAttributed
<1>2. AttributionInv /\ [Next]_vars => AttributionInv'
  <2> SUFFICES ASSUME AttributionInv, [Next]_vars PROVE AttributionInv'
    OBVIOUS
  <2>1. CASE UNCHANGED vars
    BY <2>1 DEF vars, AttributionInv, LifeInv, LifeTypeOK, JobInPlace, Chosen,
                ConsumptionIsAttributed, AttributionTx, Taken
  <2>2. CASE Next
    BY <2>2, NextParts, AttributionOutside, AttributionWorks, AttributionCommit
  <2> QED
    BY <2>1, <2>2
<1>3. AttributionInv => ConsumptionIsAttributed
  BY DEF AttributionInv
<1> QED
  BY <1>1, <1>2, <1>3, PTL DEF Spec

-----------------------------------------------------------------------------
(* One transaction at a time *)

LEMMA SerialLocal ==
    ASSUME SerialInv, NEW p \in Session, NEW t \in TxType, JobInPlace(t), Local(p, t),
           SerialTx(t)
    PROVE  SerialInv'
<1>1. /\ LifeInv' /\ tx'[p] = t /\ \A q \in Session \ {p} : tx'[q] = tx[q]
      /\ UNCHANGED <<channel, status, master, alert, events, settled, late>>
  BY LocalStep DEF SerialInv
<1>2. ConsumptionIsAttributed'
  BY <1>1 DEF SerialInv, ConsumptionIsAttributed
<1>3. StatusIsTrue'
  BY <1>1 DEF SerialInv, StatusIsTrue, CancelledHoldsNoStock, LiveOrderHoldsStock, Holds,
              ParkedHasUnmappedLine, ParkedIsOnAlert, LinesOf
<1>4. OrdersFollow'
  BY <1>1 DEF SerialInv, OrdersFollow
<1>5. ASSUME NEW q \in Session PROVE SerialTx(tx[q])'
  <2>1. PICK u : u = tx'[q]
    OBVIOUS
  <2>2. SerialTx(u)
    BY <1>1, <2>1 DEF SerialInv
  <2>3. CASE u = NoTx
    BY <2>1, <2>3 DEF SerialTx, NoTx, NoItems
  <2>4. PayloadIsTrue(u) => PayloadIsTrue(tx[q])'
    BY <1>1, <2>1 DEF PayloadIsTrue
  <2>5. Inserts(u) => Inserts(tx[q])'
    BY <1>1, <2>1 DEF Inserts, Taken, Visited, LinesOf
  <2>6. Updates(u) => Updates(tx[q])'
    BY <1>1, <2>1 DEF Updates, Taken, Cancels, LinesOf
  <2>7. Fills(u) => Fills(tx[q])'
    BY <1>1, <2>1 DEF Fills, Taken, Confirms, LinesOf
  <2> QED
    BY <2>2, <2>3, <2>4, <2>5, <2>6, <2>7 DEF SerialTx
<1> QED
  BY <1>1, <1>2, <1>3, <1>4, <1>5 DEF SerialInv

\* A line of an insert is parked, or filled and consumed, or filled only.
LEMMA LineInserted ==
    ASSUME LifeInv, NEW u \in TxType, NEW t \in TxType, NEW l \in u.lines,
           Inserts(u), u.at = "lines", LineIngested(t, u, l)
    PROVE  Inserts(t)
<1>1. PICK m \in NoMaster : m = mapping[KeyOf[l]]
  BY LineAssumption DEF LifeInv, LifeTypeOK, TxType
<1>2. PICK k : k = KeyOf[l]
  OBVIOUS
<1>3. SamePayload(t, u) /\ t.at = "lines" /\ t.put = u.put /\ t.lines = u.lines \ {l}
  BY DEF LineIngested
<1>4. l \in Line /\ u.fills[l] = NULL /\ OrderOf[l] = t.order /\ u.fills \in [Line -> NoMaster]
  BY <1>3 DEF Inserts, TxType, LinesOf, SamePayload
<1>5. t.fills[l] = m /\ \A x \in Line : x # l => t.fills[x] = u.fills[x]
  BY <1>1, <1>4 DEF LineIngested
<1>6. IF m = NULL
      THEN /\ t.parked = u.parked \cup {k}
           /\ t.reopened = u.reopened \cup (IF alert[k] = "resolved" THEN {k} ELSE {})
           /\ Taken(t) = Taken(u)
      ELSE /\ SameAlerts(t, u)
           /\ Taken(t) = Taken(u) \cup (IF t.status \in CancelStatus THEN {} ELSE {Consumed(l, m)})
  BY <1>1, <1>2 DEF LineIngested, Consume
<1>7. Visited(t) = Visited(u) \cup {l} /\ l \notin Visited(u) /\ Visited(u) \subseteq Line
  BY <1>3, <1>4 DEF Visited, LinesOf, SamePayload
<1>8. \A x \in Line : t.fills[x] # NULL =>
          /\ OrderOf[x] = t.order /\ x \notin t.lines
          /\ t.status \in CancelStatus \/ Consumed(x, t.fills[x]) \in Taken(t)
  <2> TAKE x \in Line
  <2>1. CASE x = l
    BY <1>3, <1>4, <1>5, <1>6, <2>1
  <2>2. CASE x # l
    BY <1>3, <1>5, <1>6, <2>2 DEF Inserts, SamePayload
  <2> QED
    BY <2>1, <2>2
<1>9. \A e \in Taken(t) :
          /\ e.type = "order_consumed" /\ t.status \notin CancelStatus
          /\ OrderOf[e.line] = t.order /\ t.fills[e.line] = e.master
  <2> TAKE e \in Taken(t)
  <2>1. CASE e \in Taken(u)
    <3>1. e \in Event
      BY <2>1 DEF Taken, TxType
    <3>2. e.line \in Line /\ e.master # NULL
      BY <3>1, NullAssumption DEF Event
    <3>3. e.line # l
      BY <1>4, <2>1, <3>2 DEF Inserts
    <3> QED
      BY <1>3, <1>5, <2>1, <3>2, <3>3 DEF Inserts, SamePayload
  <2>2. CASE e \notin Taken(u)
    <3>1. e = Consumed(l, m) /\ t.status \notin CancelStatus
      BY <1>6, <2>2
    <3> QED
      BY <1>4, <1>5, <3>1 DEF Consumed
  <2> QED
    BY <2>1, <2>2
<1>10. \A x \in Visited(t) : t.fills[x] # NULL \/ KeyOf[x] \in t.parked
  BY <1>2, <1>5, <1>6, <1>7 DEF Inserts, SameAlerts
<1>11. t.parked # {} => \E x \in Visited(t) : t.fills[x] = NULL
  BY <1>5, <1>6, <1>7 DEF Inserts, SameAlerts
<1>12. \A x \in t.parked : alert[x] = "resolved" => x \in t.reopened
  BY <1>6 DEF Inserts, SameAlerts
<1> QED
  BY <1>3, <1>8, <1>9, <1>10, <1>11, <1>12 DEF Inserts, SamePayload

\* The lines of a cancellation that are visited have no stock left.
LEMMA LineCompensated ==
    ASSUME ConsumptionIsAttributed, NEW u \in TxType, NEW t \in TxType, NEW l \in u.lines,
           Updates(u), u.at = "credit", LineCredited(t, u, l)
    PROVE  Updates(t)
<1>1. /\ SamePayload(t, u) /\ SameAlerts(t, u) /\ t.at = "credit" /\ t.put = u.put
      /\ t.lines = u.lines \ {l} /\ t.fills = u.fills /\ t.items = u.items
  BY DEF LineCredited
<1>2. OrderOf[l] = t.order /\ u.items = master /\ Cancels(t)
  BY <1>1 DEF Updates, LinesOf, SamePayload, Cancels
<1>3. Taken(t) = Taken(u) \cup (IF Consumed(l, master[l]) \in events
                                THEN {Returned(l, master[l])} ELSE {})
  BY <1>2 DEF LineCredited
<1>4. \A e \in Taken(t) :
          /\ e.type = "cancellation_returned" /\ Cancels(t)
          /\ OrderOf[e.line] = t.order /\ master[e.line] = e.master
  BY <1>1, <1>2, <1>3 DEF Updates, Returned, SamePayload
<1>5. \A x \in LinesOf(t.order), m \in Master : Consumed(x, m) \in events =>
          x \in t.lines \/ Returned(x, m) \in events \cup Taken(t)
  <2> TAKE x \in LinesOf(t.order), m \in Master
  <2> HAVE Consumed(x, m) \in events
  <2>1. CASE x = l
    <3>1. master[l] = m
      BY <2>1 DEF ConsumptionIsAttributed, Consumed
    <3> QED
      BY <1>3, <2>1, <3>1
  <2>2. CASE x # l
    BY <1>1, <1>2, <1>3, <2>2 DEF Updates, SamePayload, Cancels
  <2> QED
    BY <2>1, <2>2
<1> QED
  BY <1>1, <1>2, <1>4, <1>5 DEF Updates, SamePayload, SameAlerts

\* A line of a pass is filled and consumed, or filled only, or passed over.
LEMMA LinePassed ==
    ASSUME NEW u \in TxType, NEW t \in TxType, NEW l \in u.lines, NEW m \in NoMaster,
           NEW takes \in BOOLEAN, Fills(u), u.at = "lines", LineFilled(t, u, l, m, takes),
           takes => m # NULL /\ u.was[OrderOf[l]] \notin CancelStatus,
           m # NULL /\ (u.job = "resolve" \/ (u.stock /\ u.was[OrderOf[l]] \notin CancelStatus))
              => takes,
           u.job = "resolve" => m # NULL
    PROVE  Fills(t)
<1>1. /\ SamePayload(t, u) /\ SameAlerts(t, u) /\ t.at = "lines" /\ t.put = u.put
      /\ t.lines = u.lines \ {l}
  BY DEF LineFilled
<1>2. l \in Line /\ u.fills[l] = NULL /\ u.fills \in [Line -> NoMaster]
  BY DEF Fills, TxType
<1>3. t.fills[l] = m /\ \A x \in Line : x # l => t.fills[x] = u.fills[x]
  BY <1>2 DEF LineFilled
<1>4. Taken(t) = Taken(u) \cup (IF takes THEN {Consumed(l, m)} ELSE {})
  BY DEF LineFilled, Consume
<1>5. \A x \in Line : x \in t.lines \/ t.fills[x] # NULL =>
          /\ master[x] = NULL
          /\ t.was[OrderOf[x]] # "none"
          /\ t.job = "resolve" => t.was[OrderOf[x]] = "pending_mapping"
  BY <1>1, <1>3 DEF Fills, SamePayload
<1>6. \A x \in Line : t.fills[x] # NULL =>
          /\ x \notin t.lines
          /\ t.job = "resolve" \/ (t.stock /\ t.was[OrderOf[x]] \notin CancelStatus) =>
                Consumed(x, t.fills[x]) \in Taken(t)
  <2> TAKE x \in Line
  <2>1. CASE x = l
    BY <1>1, <1>3, <1>4, <2>1 DEF SamePayload
  <2>2. CASE x # l
    BY <1>1, <1>3, <1>4, <2>2 DEF Fills, SamePayload
  <2> QED
    BY <2>1, <2>2
<1>7. \A e \in Taken(t) :
          /\ e.type = "order_consumed" /\ t.fills[e.line] = e.master
          /\ t.was[OrderOf[e.line]] \notin CancelStatus
  <2> TAKE e \in Taken(t)
  <2>1. CASE e \in Taken(u)
    <3>1. e \in Event
      BY <2>1 DEF Taken, TxType
    <3>2. e.line \in Line /\ e.master # NULL
      BY <3>1, NullAssumption DEF Event
    <3>3. e.line # l
      BY <1>2, <2>1, <3>2 DEF Fills
    <3> QED
      BY <1>1, <1>3, <2>1, <3>2, <3>3 DEF Fills, SamePayload
  <2>2. CASE e \notin Taken(u)
    <3>1. e = Consumed(l, m) /\ takes
      BY <1>4, <2>2
    <3> QED
      BY <1>1, <1>3, <3>1 DEF Consumed, SamePayload
  <2> QED
    BY <2>1, <2>2
<1>8. t.job = "resolve" =>
          \A x \in Line : KeyOf[x] = t.key /\ master[x] = NULL
                          /\ status[OrderOf[x]] = "pending_mapping" =>
              x \in t.lines \/ t.fills[x] # NULL
  BY <1>1, <1>3 DEF Fills, SamePayload
<1> QED
  BY <1>1, <1>5, <1>6, <1>7, <1>8 DEF Fills, SamePayload, SameAlerts

\* Which transaction is at work shows in what it is about to do.
LEMMA SerialAt ==
    ASSUME NEW t \in TxType, JobInPlace(t), SerialTx(t)
    PROVE  /\ t.at = "idle" => t = NoTx
           /\ t.at # "idle" /\ t.job # "ingest" => Fills(t)
           /\ t.at # "idle" /\ t.job = "ingest" => PayloadIsTrue(t) /\ (Inserts(t) \/ Updates(t))
           /\ t.at \in {"insert", "lines"} /\ t.job = "ingest" => Inserts(t)
           /\ t.at \in {"update", "credit"} => Updates(t)
<1>1. NoTx.at = "idle"
  BY DEF NoTx
<1>2. Fills(t) => t.job # "ingest" /\ t.at \in {"lines", "settle", "commit"}
  BY DEF Fills
<1>3. Inserts(t) => t.job = "ingest" /\ t.at \in {"insert", "lines", "commit"}
  BY DEF Inserts
<1>4. Updates(t) => t.job = "ingest" /\ t.at \in {"update", "credit", "commit"}
  BY DEF Updates
<1> QED
  BY <1>1, <1>2, <1>3, <1>4 DEF SerialTx

LEMMA SerialIngest ==
    ASSUME SerialInv, NEW p \in Session,
           \/ \E o \in Order, st \in ChannelStatus : FindOrder(p, o, st)
           \/ InsertOrder(p) \/ IngestLine(p) \/ FinishNew(p)
           \/ IngestUpdate(p) \/ CreditLine(p) \/ FinishCredit(p)
    PROVE  SerialInv'
<1> SUFFICES \E t \in TxType : Local(p, t) /\ JobInPlace(t) /\ SerialTx(t)
  BY SerialLocal
<1>0. LifeInv /\ SerialTx(tx[p]) /\ tx[p] \in TxType /\ JobInPlace(tx[p])
  BY SessionParts DEF SerialInv
<1>1. CASE \E o \in Order, st \in ChannelStatus : FindOrder(p, o, st)
  <2>1. PICK o \in Order, st \in ChannelStatus : FindOrder(p, o, st)
    BY <1>1
  <2>2. PICK t \in TxType :
          /\ Local(p, t) /\ JobInPlace(t)
          /\ t.job = "ingest" /\ t.order = o /\ t.status = st
          /\ t.stale = (st # channel[o])
          /\ t.at = IF status[o] = "none" THEN "insert" ELSE "update"
          /\ t.was[o] = status[o]
          /\ t.put = [x \in Order |-> "none"] /\ t.fills = NoItems /\ t.lines = {}
          /\ t.parked = {} /\ t.reopened = {} /\ Taken(t) = {}
    BY <1>0, <2>1, FindOrderStep
  <2>3. PayloadIsTrue(t)
    BY <2>2 DEF PayloadIsTrue, SerialInv, OrdersFollow
  <2>4. CASE status[o] = "none"
    <3>1. Inserts(t)
      BY <2>2, <2>4 DEF Inserts, NoItems
    <3> QED
      BY <2>2, <2>3, <3>1 DEF SerialTx
  <2>5. CASE status[o] # "none"
    <3>1. Updates(t)
      BY <2>2, <2>5 DEF Updates
    <3> QED
      BY <2>2, <2>3, <3>1 DEF SerialTx
  <2> QED
    BY <2>4, <2>5
<1>2. CASE InsertOrder(p)
  <2>1. PICK t \in TxType :
          /\ Local(p, t) /\ JobInPlace(t) /\ SamePayload(t, tx[p]) /\ SameAlerts(t, tx[p])
          /\ t.at = "lines" /\ t.lines = LinesOf(t.order)
          /\ t.put = tx[p].put /\ t.fills = tx[p].fills /\ Taken(t) = Taken(tx[p])
    BY <1>0, <1>2, InsertOrderStep
  <2>2. tx[p].at = "insert" /\ tx[p].job = "ingest"
    BY <1>0, <1>2 DEF InsertOrder, JobInPlace
  <2>3. Inserts(tx[p]) /\ PayloadIsTrue(tx[p])
    BY <1>0, <2>2, SerialAt
  <2>4. Visited(t) = {}
    BY <2>1 DEF Visited
  <2>5. Inserts(t)
    BY <2>1, <2>2, <2>3, <2>4 DEF Inserts, SamePayload, SameAlerts, NoItems
  <2>6. PayloadIsTrue(t)
    BY <2>1, <2>3 DEF PayloadIsTrue, SamePayload
  <2> QED
    BY <2>1, <2>5, <2>6 DEF SerialTx
<1>3. CASE IngestLine(p)
  <2>1. PICK t \in TxType, l \in tx[p].lines :
          Local(p, t) /\ JobInPlace(t) /\ LineIngested(t, tx[p], l)
    BY <1>0, <1>3, IngestLineStep
  <2>2. tx[p].at = "lines" /\ tx[p].job = "ingest"
    BY <1>3 DEF IngestLine, Ready
  <2>3. Inserts(tx[p]) /\ PayloadIsTrue(tx[p])
    BY <1>0, <2>2, SerialAt
  <2>4. Inserts(t)
    BY <1>0, <2>1, <2>2, <2>3, LineInserted
  <2>5. PayloadIsTrue(t)
    BY <2>1, <2>3 DEF PayloadIsTrue, SamePayload, LineIngested
  <2> QED
    BY <2>1, <2>4, <2>5 DEF SerialTx
<1>4. CASE FinishNew(p)
  <2>1. PICK t \in TxType :
          /\ Local(p, t) /\ JobInPlace(t) /\ SamePayload(t, tx[p]) /\ SameAlerts(t, tx[p])
          /\ t.at = "commit" /\ t.lines = tx[p].lines
          /\ t.put = [tx[p].put EXCEPT ![t.order] = NewStatus(p)]
          /\ t.fills = tx[p].fills /\ t.want = tx[p].want /\ Taken(t) = Taken(tx[p])
    BY <1>0, <1>4, FinishNewStep
  <2>2. tx[p].at = "lines" /\ tx[p].job = "ingest" /\ tx[p].lines = {} /\ tx[p].want = {}
    BY <1>4 DEF FinishNew, Ready
  <2>3. Inserts(tx[p]) /\ PayloadIsTrue(tx[p])
    BY <1>0, <2>2, SerialAt
  <2>4. t.order \in Order /\ t.put[t.order] = NewStatus(p)
        /\ \A o \in Order : o # t.order => t.put[o] = "none"
    BY <1>0, <2>1, <2>2, <2>3 DEF JobInPlace, TxType, SamePayload, Inserts
  <2>5. Visited(t) = Visited(tx[p])
    BY <2>1 DEF Visited, SamePayload
  <2>6. Inserts(t)
    BY <2>1, <2>2, <2>3, <2>4, <2>5 DEF Inserts, SamePayload, SameAlerts, NewStatus
  <2>7. PayloadIsTrue(t)
    BY <2>1, <2>3 DEF PayloadIsTrue, SamePayload
  <2> QED
    BY <2>1, <2>6, <2>7 DEF SerialTx
<1>5. CASE IngestUpdate(p)
  <2>1. PICK t \in TxType : Local(p, t) /\ JobInPlace(t) /\ Updated(t, tx[p])
    BY <1>0, <1>5, IngestUpdateStep
  <2>2. PICK u \in TxType : u = tx[p]
    BY <1>0
  <2>3. u.at = "update"
    BY <1>5, <2>2 DEF IngestUpdate
  <2>4. Updates(u) /\ PayloadIsTrue(u) /\ u.job = "ingest" /\ u.order \in Order
    BY <1>0, <2>2, <2>3, SerialAt DEF JobInPlace
  <2>5. /\ SamePayload(t, u) /\ SameAlerts(t, u) /\ t.fills = u.fills /\ Taken(t) = {}
        /\ t.want = {}
    BY <2>1, <2>2, <2>3, <2>4 DEF Updated, Updates, Taken
  <2>6. t.put[t.order] = (IF t.status = status[t.order] THEN "none" ELSE t.status)
        /\ \A o \in Order : o # t.order => t.put[o] = "none"
    BY <2>1, <2>2, <2>3, <2>4 DEF Updated, Updates, SamePayload
  <2>7. CASE Cancels(u)
    <3>1. t.at = "credit" /\ t.lines = MappedLines(t.order) /\ t.items = master /\ Cancels(t)
      BY <2>1, <2>2, <2>5, <2>7 DEF Updated, SamePayload, Cancels
    <3>2. \A l \in LinesOf(t.order), m \in Master : Consumed(l, m) \in events => l \in t.lines
      BY <3>1, NullAssumption
         DEF SerialInv, ConsumptionIsAttributed, Consumed, MappedLines
    <3>3. Updates(t)
      BY <2>4, <2>5, <2>6, <3>1, <3>2 DEF Updates, SamePayload, SameAlerts, MappedLines
    <3> QED
      BY <2>1, <2>4, <2>5, <3>3 DEF SerialTx, PayloadIsTrue, SamePayload
  <2>8. CASE ~Cancels(u)
    <3>1. t.at = "commit" /\ t.lines = {} /\ ~Cancels(t)
      BY <2>1, <2>2, <2>5, <2>8 DEF Updated, SamePayload, Cancels
    <3>2. Updates(t)
      BY <2>4, <2>5, <2>6, <3>1 DEF Updates, SamePayload, SameAlerts
    <3> QED
      BY <2>1, <2>4, <2>5, <3>2 DEF SerialTx, PayloadIsTrue, SamePayload
  <2> QED
    BY <2>7, <2>8
<1>6. CASE CreditLine(p)
  <2>1. PICK t \in TxType, l \in tx[p].lines :
          Local(p, t) /\ JobInPlace(t) /\ LineCredited(t, tx[p], l)
    BY <1>0, <1>6, CreditLineStep
  <2>2. tx[p].at = "credit"
    BY <1>6 DEF CreditLine, Ready
  <2>3. Updates(tx[p]) /\ PayloadIsTrue(tx[p])
    BY <1>0, <2>2, SerialAt DEF JobInPlace
  <2>4. Updates(t)
    BY <1>0, <2>1, <2>2, <2>3, LineCompensated DEF SerialInv
  <2>5. PayloadIsTrue(t)
    BY <2>1, <2>3 DEF PayloadIsTrue, SamePayload, LineCredited
  <2> QED
    BY <2>1, <2>4, <2>5 DEF SerialTx
<1>7. CASE FinishCredit(p)
  <2>1. PICK t \in TxType :
          /\ Local(p, t) /\ JobInPlace(t) /\ SamePayload(t, tx[p]) /\ SameAlerts(t, tx[p])
          /\ t.at = "commit" /\ t.lines = tx[p].lines /\ t.put = tx[p].put
          /\ t.fills = tx[p].fills /\ t.want = tx[p].want /\ Taken(t) = Taken(tx[p])
    BY <1>0, <1>7, FinishCreditStep
  <2>2. tx[p].at = "credit" /\ tx[p].lines = {} /\ tx[p].want = {}
    BY <1>7 DEF FinishCredit, Ready
  <2>3. Updates(tx[p]) /\ PayloadIsTrue(tx[p])
    BY <1>0, <2>2, SerialAt DEF JobInPlace
  <2>4. Updates(t)
    BY <2>1, <2>2, <2>3 DEF Updates, SamePayload, SameAlerts, Cancels
  <2>5. PayloadIsTrue(t)
    BY <2>1, <2>3 DEF PayloadIsTrue, SamePayload
  <2> QED
    BY <2>1, <2>4, <2>5 DEF SerialTx
<1> QED
  BY <1>1, <1>2, <1>3, <1>4, <1>5, <1>6, <1>7

LEMMA SerialPass ==
    ASSUME SerialInv, NEW p \in Session,
           \/ \E k \in Key : \E m \in Choice[k] : ResolveAlert(p, k, m)
           \/ \E stock \in BOOLEAN : SelectUnmapped(p, stock)
           \/ ReplayLine(p) \/ ResolveLine(p) \/ FinishLines(p) \/ Settle(p)
    PROVE  SerialInv'
<1> SUFFICES \E t \in TxType : Local(p, t) /\ JobInPlace(t) /\ Fills(t)
  BY SerialLocal DEF SerialTx
<1>0. LifeInv /\ SerialTx(tx[p]) /\ tx[p] \in TxType /\ JobInPlace(tx[p])
  BY SessionParts DEF SerialInv
<1>1. CASE \E k \in Key : \E m \in Choice[k] : ResolveAlert(p, k, m)
  <2>1. PICK k \in Key : \E m \in Choice[k] : ResolveAlert(p, k, m)
    BY <1>1
  <2>2. PICK m \in Choice[k] : ResolveAlert(p, k, m)
    BY <2>1
  <2>3. PICK t \in TxType, found \in SUBSET Line :
          /\ Local(p, t) /\ JobInPlace(t)
          /\ found = {l \in Line : KeyOf[l] = k /\ master[l] = NULL
                                   /\ status[OrderOf[l]] = "pending_mapping"}
          /\ t.job = "resolve" /\ t.key = k
          /\ t.at = IF found = {} THEN "commit" ELSE "lines"
          /\ PassBegun(t, found)
    BY <1>0, <2>2, ResolveAlertStep
  <2>4. Fills(t)
    BY <2>3, LineAssumption DEF Fills, PassBegun, NoItems, Confirms, LinesOf
  <2> QED
    BY <2>3, <2>4
<1>2. CASE \E stock \in BOOLEAN : SelectUnmapped(p, stock)
  <2>1. PICK t \in TxType, found \in SUBSET Line :
          /\ Local(p, t) /\ JobInPlace(t)
          /\ found = {l \in Line : status[OrderOf[l]] # "none" /\ master[l] = NULL}
          /\ t.job = "reresolve" /\ t.at = "lines"
          /\ PassBegun(t, found)
    BY <1>0, <1>2, SelectUnmappedStep
  <2>2. Fills(t)
    BY <2>1, LineAssumption DEF Fills, PassBegun, NoItems
  <2> QED
    BY <2>1, <2>2
<1>3. CASE ReplayLine(p)
  <2>1. PICK t \in TxType, l \in tx[p].lines :
          Local(p, t) /\ JobInPlace(t) /\ LineFilled(t, tx[p], l, tx[p].pick, TRUE)
    BY <1>0, <1>3, ReplayLineStep
  <2>2. PICK u \in TxType : u = tx[p]
    BY <1>0
  <2>3. u.at = "lines" /\ u.job = "resolve"
    BY <1>3, <2>2 DEF ReplayLine, Ready
  <2>4. Fills(u)
    BY <1>0, <2>2, <2>3, SerialAt
  <2>5. u.pick \in NoMaster /\ u.pick # NULL
    BY <1>0, <2>2, <2>3, KeyAssumption, NullAssumption DEF JobInPlace, TxType
  <2>6. u.was[OrderOf[l]] \notin CancelStatus
    BY <2>1, <2>2, <2>3, <2>4 DEF Fills, CancelStatus, TxType
  <2>7. Fills(t)
    BY <2>1, <2>2, <2>3, <2>4, <2>5, <2>6, LinePassed
  <2> QED
    BY <2>1, <2>7
<1>4. CASE ResolveLine(p)
  <2>1. PICK t \in TxType, l \in tx[p].lines :
          /\ Local(p, t) /\ JobInPlace(t)
          /\ LineFilled(t, tx[p], l, Found(l), Found(l) # NULL /\ Live(p, l))
    BY <1>0, <1>4, ResolveLineStep
  <2>2. PICK u \in TxType : u = tx[p]
    BY <1>0
  <2>3. u.at = "lines" /\ u.job = "reresolve"
    BY <1>4, <2>2 DEF ResolveLine, Ready
  <2>4. Fills(u)
    BY <1>0, <2>2, <2>3, SerialAt
  <2>5. PICK m : m = Found(l)
    OBVIOUS
  <2>6. m \in NoMaster
    BY <1>0, <2>1, <2>2, <2>5, LineAssumption DEF Found, NoMaster, LifeInv, LifeTypeOK, TxType
  <2>7. PICK takes \in BOOLEAN :
           takes = (m # NULL /\ u.stock /\ u.was[OrderOf[l]] \notin CancelStatus)
    OBVIOUS
  <2>8. LineFilled(t, u, l, m, takes)
    BY <2>1, <2>2, <2>5, <2>7 DEF Live
  <2>9. Fills(t)
    BY <2>1, <2>2, <2>3, <2>4, <2>6, <2>7, <2>8, LinePassed
  <2> QED
    BY <2>1, <2>9
<1>5. CASE FinishLines(p)
  <2>1. PICK t \in TxType :
          /\ Local(p, t) /\ JobInPlace(t) /\ SamePayload(t, tx[p]) /\ SameAlerts(t, tx[p])
          /\ t.at = "settle" /\ t.lines = tx[p].lines /\ t.put = tx[p].put
          /\ t.fills = tx[p].fills /\ t.want = tx[p].want /\ Taken(t) = Taken(tx[p])
    BY <1>0, <1>5, FinishLinesStep
  <2>2. tx[p].at = "lines" /\ tx[p].job # "ingest" /\ tx[p].lines = {} /\ tx[p].want = {}
    BY <1>5 DEF FinishLines, Ready
  <2>3. Fills(tx[p])
    BY <1>0, <2>2, SerialAt
  <2>4. Fills(t)
    BY <2>1, <2>2, <2>3 DEF Fills, SamePayload, SameAlerts
  <2> QED
    BY <2>1, <2>4
<1>6. CASE Settle(p)
  <2>1. PICK t \in TxType :
          /\ Local(p, t) /\ JobInPlace(t) /\ SamePayload(t, tx[p]) /\ SameAlerts(t, tx[p])
          /\ t.at = "commit" /\ t.lines = tx[p].lines
          /\ t.fills = tx[p].fills /\ t.want = tx[p].want /\ Taken(t) = Taken(tx[p])
          /\ \A o \in Order : t.put[o] = IF Confirms(t, o) THEN "confirmed" ELSE "none"
    BY <1>0, <1>6, SettleStep
  <2>2. tx[p].at = "settle" /\ tx[p].job # "ingest"
    BY <1>0, <1>6 DEF Settle, JobInPlace
  <2>3. Fills(tx[p])
    BY <1>0, <2>2, SerialAt
  <2>4. \A o \in Order : Confirms(t, o) => t.was[o] = "pending_mapping"
    BY DEF Confirms
  <2>5. Fills(t)
    BY <2>1, <2>2, <2>3, <2>4 DEF Fills, SamePayload, SameAlerts
  <2> QED
    BY <2>1, <2>5
<1> QED
  BY <1>1, <1>2, <1>3, <1>4, <1>5, <1>6

LEMMA SerialLock ==
    ASSUME SerialInv, NEW p \in Session, LockAndAppend(p)
    PROVE  SerialInv'
<1>1. LifeInv /\ SerialTx(tx[p]) /\ tx[p] \in TxType /\ JobInPlace(tx[p])
  BY SessionParts DEF SerialInv
<1>2. PICK t \in TxType :
        /\ Local(p, t) /\ JobInPlace(t) /\ SamePayload(t, tx[p]) /\ SameAlerts(t, tx[p])
        /\ t.at = tx[p].at /\ t.lines = tx[p].lines /\ t.items = tx[p].items
        /\ t.put = tx[p].put /\ t.fills = tx[p].fills
        /\ t.want = {} /\ Taken(t) = Taken(tx[p])
  BY <1>1, LockAndAppendStep
<1>3. PICK u : u = tx[p]
  OBVIOUS
<1>4. u # NoTx
  BY <1>3 DEF LockAndAppend, NoTx
<1>5. Visited(t) = Visited(u)
  BY <1>2, <1>3 DEF Visited, SamePayload
<1>6. Inserts(u) => Inserts(t)
  BY <1>2, <1>3, <1>5 DEF Inserts, SamePayload, SameAlerts
<1>7. Updates(u) => Updates(t)
  BY <1>2, <1>3 DEF Updates, SamePayload, SameAlerts, Cancels
<1>8. Fills(u) => Fills(t)
  BY <1>2, <1>3 DEF Fills, SamePayload, SameAlerts, Confirms
<1>9. PayloadIsTrue(u) => PayloadIsTrue(t)
  BY <1>2, <1>3 DEF PayloadIsTrue, SamePayload
<1>10. SerialTx(t)
  BY <1>1, <1>3, <1>4, <1>6, <1>7, <1>8, <1>9 DEF SerialTx
<1> QED
  BY <1>2, <1>10, SerialLocal

LEMMA SerialWorks ==
    ASSUME SerialInv, NEW p \in Session, Works(p)
    PROVE  SerialInv'
<1>1. CASE Fail(p) \/ InsertConflict(p)
  BY <1>1, NoTxType, SerialLocal DEF Fail, InsertConflict, Rollback, SerialTx
<1> QED
  BY <1>1, SerialIngest, SerialPass, SerialLock DEF Works

\* What a commit does to the tables, as far as the status of orders goes.
Committed(t) ==
    /\ t \in TxType /\ JobInPlace(t) /\ t.at = "commit"
    /\ \A o \in Order : status'[o] = IF t.put[o] = "none" THEN status[o] ELSE t.put[o]
    /\ \A l \in Line : master'[l] = IF t.fills[l] = NULL THEN master[l] ELSE t.fills[l]
    /\ events' = events \cup t.events
    /\ \A k \in Key : alert'[k] =
          CASE t.key = k /\ alert[k] \in Outstanding -> "resolved"
            [] k \in t.reopened -> "open"
            [] k \in t.parked /\ alert[k] = "none" -> "open"
            [] OTHER -> alert[k]
    /\ settled' = IF t.job = "reresolve" /\ ~t.stock
                  THEN settled \cup {l \in Line : t.fills[l] # NULL} ELSE settled
    /\ late' = IF t.stale THEN late \cup {t.order} ELSE late
    /\ channel' = channel

\* The tables are sound.
TablesAreTrue == LifeTypeOK /\ ConsumptionIsAttributed /\ StatusIsTrue /\ OrdersFollow

\* A new order is written: nothing was booked on its lines before.
LEMMA InsertCommits ==
    ASSUME TablesAreTrue, NEW t, Committed(t), Inserts(t), PayloadIsTrue(t)
    PROVE  ConsumptionIsAttributed' /\ StatusIsTrue' /\ OrdersFollow'
<1>1. /\ t \in TxType /\ JobInPlace(t) /\ t.at = "commit" /\ t.job = "ingest"
      /\ t.order \in Order /\ t.status \in ChannelStatus /\ t.want = {} /\ t.lines = {}
  BY DEF Committed, Inserts, JobInPlace
<1>2. status[t.order] = "none" /\ \A l \in LinesOf(t.order) : master[l] = NULL
  BY DEF Inserts, TablesAreTrue, OrdersFollow, LinesOf
<1>3. \A o \in Order : o # t.order => status'[o] = status[o]
  BY DEF Committed, Inserts
<1>4. /\ status'[t.order] = IF t.parked # {} /\ t.status \notin CancelStatus
                            THEN "pending_mapping" ELSE t.status
      /\ status'[t.order] # "none"
  BY <1>1 DEF Committed, Inserts, ChannelStatus
<1>5. \A l \in Line : OrderOf[l] # t.order => master'[l] = master[l]
  BY DEF Committed, Inserts
<1>6. \A l \in LinesOf(t.order) : master'[l] = t.fills[l]
  BY <1>2 DEF Committed, LinesOf
<1>7. events' = events \cup Taken(t) /\ Taken(t) \subseteq Event
  BY <1>1 DEF Committed, Taken, TxType
<1>8. \A e \in events : e \in Event /\ OrderOf[e.line] # t.order
  <2>1. \A e \in events : e \in Event /\ e.line \in Line /\ master[e.line] # NULL
    BY NullAssumption DEF TablesAreTrue, LifeTypeOK, ConsumptionIsAttributed, Event
  <2> QED
    BY <1>2, <2>1 DEF LinesOf
<1>9. late' = late \/ (late' = late \cup {t.order} /\ t.stale)
  BY DEF Committed
<1>10. settled' = settled
  BY <1>1 DEF Committed
<1>11. ConsumptionIsAttributed'
  <2>1. ASSUME NEW e \in events PROVE master'[e.line] = e.master
    BY <1>5, <1>8 DEF TablesAreTrue, ConsumptionIsAttributed, Event
  <2>2. ASSUME NEW e \in Taken(t) PROVE master'[e.line] = e.master
    <3>1. e.line \in LinesOf(t.order) /\ t.fills[e.line] = e.master
      BY <1>7 DEF Inserts, Event, LinesOf
    <3> QED
      BY <1>6, <3>1
  <2> QED
    BY <1>7, <2>1, <2>2 DEF ConsumptionIsAttributed
<1>12. ASSUME NEW l \in Line, NEW m, OrderOf[l] # t.order
       PROVE  Holds(l, m)' = Holds(l, m)
  <2>1. Consumed(l, m) \notin Taken(t) /\ Returned(l, m) \notin Taken(t)
    BY <1>12 DEF Inserts, Consumed, Returned
  <2> QED
    BY <1>7, <2>1 DEF Holds
<1>13. ASSUME NEW l \in LinesOf(t.order), NEW m
       PROVE  /\ Consumed(l, m) \notin events /\ Returned(l, m) \notin events'
  <2>1. OrderOf[l] = t.order
    BY DEF LinesOf
  <2>2. Consumed(l, m) \notin events /\ Returned(l, m) \notin events
    BY <1>8, <2>1 DEF Consumed, Returned
  <2>3. Returned(l, m) \notin Taken(t)
    BY DEF Inserts, Returned
  <2> QED
    BY <1>7, <2>2, <2>3
<1>14. CancelledHoldsNoStock'
  <2> SUFFICES ASSUME NEW l \in Line, status'[OrderOf[l]] \in CancelStatus, NEW m \in Master
               PROVE  ~Holds(l, m)'
    BY DEF CancelledHoldsNoStock
  <2>1. CASE OrderOf[l] # t.order
    BY <1>3, <1>12, <2>1, LineAssumption
       DEF TablesAreTrue, StatusIsTrue, CancelledHoldsNoStock
  <2>2. CASE OrderOf[l] = t.order
    <3>1. t.status \in CancelStatus
      BY <1>4, <2>2 DEF CancelStatus
    <3>2. Consumed(l, m) \notin events'
      BY <1>7, <1>13, <2>2, <3>1 DEF Inserts, LinesOf
    <3> QED
      BY <3>2 DEF Holds
  <2> QED
    BY <2>1, <2>2
<1>15. LiveOrderHoldsStock'
  <2> SUFFICES ASSUME NEW l \in Line, OrderOf[l] \notin late',
                      status'[OrderOf[l]] \notin CancelStatus, master'[l] # NULL, l \notin settled'
               PROVE  Holds(l, master[l])'
    BY DEF LiveOrderHoldsStock
  <2>1. CASE OrderOf[l] # t.order
    <3>1. Holds(l, master[l])
      BY <1>3, <1>5, <1>9, <1>10, <2>1, LineAssumption
         DEF TablesAreTrue, StatusIsTrue, LiveOrderHoldsStock
    <3> QED
      BY <1>5, <1>7, <1>12, <2>1, <3>1 DEF Holds, Inserts, Returned
  <2>2. CASE OrderOf[l] = t.order
    <3>1. l \in LinesOf(t.order)
      BY <2>2 DEF LinesOf
    <3>2. t.fills[l] # NULL /\ master'[l] = t.fills[l]
      BY <1>6, <3>1
    <3>3. t.status \notin CancelStatus
      BY <1>4, <2>2
    <3>4. Consumed(l, t.fills[l]) \in events'
      BY <1>7, <3>2, <3>3 DEF Inserts
    <3>5. Returned(l, t.fills[l]) \notin events'
      BY <1>13, <3>1
    <3> QED
      BY <3>2, <3>4, <3>5 DEF Holds
  <2> QED
    BY <2>1, <2>2
<1>16. ParkedHasUnmappedLine'
  <2> SUFFICES ASSUME NEW o \in Order, status'[o] = "pending_mapping"
               PROVE  \E l \in LinesOf(o) : master'[l] = NULL
    BY DEF ParkedHasUnmappedLine, LinesOf
  <2>1. CASE o # t.order
    BY <1>3, <1>5, <2>1
       DEF TablesAreTrue, StatusIsTrue, ParkedHasUnmappedLine, LinesOf
  <2>2. CASE o = t.order
    <3>1. t.parked # {}
      BY <1>1, <1>4, <2>2 DEF ChannelStatus
    <3>2. PICK l \in Visited(t) : t.fills[l] = NULL
      BY <3>1 DEF Inserts
    <3> QED
      BY <1>6, <2>2, <3>2 DEF Visited
  <2> QED
    BY <2>1, <2>2
<1>17. ParkedIsOnAlert'
  <2> SUFFICES ASSUME NEW l \in Line, status'[OrderOf[l]] = "pending_mapping",
                      master'[l] = NULL
               PROVE  alert'[KeyOf[l]] \in Outstanding
    BY DEF ParkedIsOnAlert
  <2>1. KeyOf[l] \in Key /\ alert[KeyOf[l]] \in AlertStatus
    BY LineAssumption DEF TablesAreTrue, LifeTypeOK
  <2>2. t.key # KeyOf[l]
    BY <1>1, <2>1, NullAssumption DEF JobInPlace
  <2>3. CASE OrderOf[l] # t.order
    <3>1. alert[KeyOf[l]] \in Outstanding
      BY <1>3, <1>5, <2>3, LineAssumption DEF TablesAreTrue, StatusIsTrue, ParkedIsOnAlert
    <3> QED
      BY <2>1, <2>2, <3>1 DEF Committed, Outstanding
  <2>4. CASE OrderOf[l] = t.order
    <3>1. l \in Visited(t) /\ t.fills[l] = NULL
      BY <1>1, <1>6, <2>4 DEF Visited, LinesOf
    <3>2. KeyOf[l] \in t.parked
      BY <1>1, <3>1 DEF Inserts
    <3>3. alert[KeyOf[l]] = "resolved" => KeyOf[l] \in t.reopened
      BY <3>2 DEF Inserts
    <3> QED
      BY <2>1, <2>2, <3>2, <3>3 DEF Committed, Outstanding, AlertStatus
  <2> QED
    BY <2>3, <2>4
<1>18. OrdersFollow'
  <2>1. \A l \in Line : status'[OrderOf[l]] = "none" => master'[l] = NULL
    BY <1>3, <1>4, <1>5, LineAssumption DEF TablesAreTrue, OrdersFollow
  <2>2. \A o \in Order : status'[o] = "cancelled" /\ o \notin late' => channel'[o] = "cancelled"
    <3> TAKE o \in Order
    <3>1. CASE o # t.order
      BY <1>3, <1>9, <3>1 DEF TablesAreTrue, OrdersFollow, Committed
    <3>2. CASE o = t.order
      BY <1>4, <3>2 DEF Committed, PayloadIsTrue
    <3> QED
      BY <3>1, <3>2
  <2>3. \A l \in Line, m \in Master :
          Returned(l, m) \in events' => OrderOf[l] \in late' \/ status'[OrderOf[l]] = "cancelled"
    <3> TAKE l \in Line, m \in Master
    <3> HAVE Returned(l, m) \in events'
    <3>1. OrderOf[l] # t.order
      BY <1>13 DEF LinesOf
    <3>2. Returned(l, m) \in events
      BY <1>7, <3>1 DEF Inserts, Returned
    <3> QED
      BY <1>3, <1>9, <3>1, <3>2, LineAssumption DEF TablesAreTrue, OrdersFollow
  <2> QED
    BY <2>1, <2>2, <2>3 DEF OrdersFollow
<1> QED
  BY <1>11, <1>14, <1>15, <1>16, <1>17, <1>18 DEF StatusIsTrue

\* An order moves on, and what it held is returned if it moves into cancellation.
LEMMA UpdateCommits ==
    ASSUME TablesAreTrue, NEW t, Committed(t), Updates(t), PayloadIsTrue(t)
    PROVE  ConsumptionIsAttributed' /\ StatusIsTrue' /\ OrdersFollow'
<1>1. /\ t \in TxType /\ JobInPlace(t) /\ t.at = "commit" /\ t.job = "ingest"
      /\ t.order \in Order /\ t.status \in ChannelStatus /\ t.want = {}
  BY DEF Committed, Updates, JobInPlace
<1>2. \A l \in Line : master'[l] = master[l]
  BY DEF Committed, Updates, NoItems
<1>3. \A o \in Order : o # t.order => status'[o] = status[o]
  BY DEF Committed, Updates
<1>4. status'[t.order] = t.status /\ status[t.order] # "none"
  BY <1>1 DEF Committed, Updates, ChannelStatus
<1>5. \A k \in Key : alert'[k] = alert[k]
  <2>1. \A k \in Key : t.key # k
    BY <1>1, NullAssumption DEF JobInPlace
  <2> QED
    BY <2>1 DEF Committed, Updates
<1>6. events' = events \cup Taken(t) /\ Taken(t) \subseteq Event
  BY <1>1 DEF Committed, Taken, TxType
<1>7. late \subseteq late' /\ (t.stale => t.order \in late')
  BY DEF Committed
<1>8. settled' = settled
  BY <1>1 DEF Committed
<1>9. ConsumptionIsAttributed'
  <2>1. ASSUME NEW e \in events PROVE master'[e.line] = e.master
    <3>1. e \in Event
      BY DEF TablesAreTrue, LifeTypeOK
    <3> QED
      BY <1>2, <3>1 DEF TablesAreTrue, ConsumptionIsAttributed, Event
  <2>2. ASSUME NEW e \in Taken(t) PROVE master'[e.line] = e.master
    BY <1>2, <1>6 DEF Updates, Event
  <2> QED
    BY <1>6, <2>1, <2>2 DEF ConsumptionIsAttributed
<1>10. ASSUME NEW l, NEW m PROVE Consumed(l, m) \in events' <=> Consumed(l, m) \in events
  BY <1>6 DEF Updates, Consumed
<1>11. ASSUME NEW l, NEW m, Returned(l, m) \in events', Returned(l, m) \notin events
       PROVE  OrderOf[l] = t.order /\ Cancels(t)
  BY <1>6, <1>11 DEF Updates, Returned
<1>12. CancelledHoldsNoStock'
  <2> SUFFICES ASSUME NEW l \in Line, status'[OrderOf[l]] \in CancelStatus, NEW m \in Master,
                      Consumed(l, m) \in events
               PROVE  Returned(l, m) \in events'
    BY <1>10 DEF CancelledHoldsNoStock, Holds
  <2>1. CASE status[OrderOf[l]] \in CancelStatus
    BY <1>6, <2>1 DEF TablesAreTrue, StatusIsTrue, CancelledHoldsNoStock, Holds
  <2>2. CASE status[OrderOf[l]] \notin CancelStatus
    <3>1. OrderOf[l] = t.order
      BY <1>3, <2>2, LineAssumption
    <3>2. Cancels(t) /\ l \in LinesOf(t.order)
      BY <1>4, <2>2, <3>1 DEF Cancels, Updates, LinesOf
    <3> QED
      BY <1>1, <1>6, <3>2 DEF Updates
  <2> QED
    BY <2>1, <2>2
<1>13. ASSUME t.order \notin late', t.status \notin CancelStatus
       PROVE  status[t.order] \notin CancelStatus
  <2>1. status[t.order] # "cancelled"
    BY <1>7, <1>13 DEF PayloadIsTrue, CancelStatus
  <2>2. status[t.order] \in NoStatus
    BY <1>1 DEF TablesAreTrue, LifeTypeOK
  <2> QED
    BY <2>1, <2>2 DEF NoStatus, Status, ChannelStatus, CancelStatus
<1>14. LiveOrderHoldsStock'
  <2> SUFFICES ASSUME NEW l \in Line, OrderOf[l] \notin late',
                      status'[OrderOf[l]] \notin CancelStatus, master'[l] # NULL, l \notin settled'
               PROVE  Holds(l, master[l])'
    BY DEF LiveOrderHoldsStock
  <2>1. status[OrderOf[l]] \notin CancelStatus
    BY <1>3, <1>4, <1>13, LineAssumption
  <2>2. Holds(l, master[l])
    BY <1>2, <1>7, <1>8, <2>1 DEF TablesAreTrue, StatusIsTrue, LiveOrderHoldsStock
  <2>3. Returned(l, master[l]) \notin events'
    BY <1>4, <1>11, <2>2 DEF Holds, Cancels
  <2> QED
    BY <1>2, <1>6, <2>2, <2>3 DEF Holds
<1>15. \A o \in Order : status'[o] = "pending_mapping" => status[o] = "pending_mapping"
  BY <1>1, <1>3, <1>4 DEF ChannelStatus
<1>16. ParkedHasUnmappedLine' /\ ParkedIsOnAlert'
  BY <1>2, <1>5, <1>15, LineAssumption
     DEF TablesAreTrue, StatusIsTrue, ParkedHasUnmappedLine, ParkedIsOnAlert, LinesOf
<1>17. OrdersFollow'
  <2>1. \A l \in Line : status'[OrderOf[l]] = "none" => master'[l] = NULL
    BY <1>1, <1>2, <1>3, <1>4, LineAssumption DEF TablesAreTrue, OrdersFollow, ChannelStatus
  <2>2. \A o \in Order : status'[o] = "cancelled" /\ o \notin late' => channel'[o] = "cancelled"
    <3> TAKE o \in Order
    <3>1. CASE o # t.order
      BY <1>3, <1>7, <3>1 DEF TablesAreTrue, OrdersFollow, Committed
    <3>2. CASE o = t.order
      BY <1>4, <1>7, <3>2 DEF Committed, PayloadIsTrue
    <3> QED
      BY <3>1, <3>2
  <2>3. \A l \in Line, m \in Master :
          Returned(l, m) \in events' => OrderOf[l] \in late' \/ status'[OrderOf[l]] = "cancelled"
    <3> TAKE l \in Line, m \in Master
    <3> HAVE Returned(l, m) \in events'
    <3>1. CASE Returned(l, m) \in events
      <4>1. OrderOf[l] \in late \/ status[OrderOf[l]] = "cancelled"
        BY <3>1 DEF TablesAreTrue, OrdersFollow
      <4> QED
        BY <1>3, <1>4, <1>7, <4>1, LineAssumption DEF PayloadIsTrue
    <3>2. CASE Returned(l, m) \notin events
      BY <1>1, <1>4, <1>11, <3>2 DEF Cancels, CancelStatus, ChannelStatus
    <3> QED
      BY <3>1, <3>2
  <2> QED
    BY <2>1, <2>2, <2>3 DEF OrdersFollow
<1> QED
  BY <1>9, <1>12, <1>14, <1>16, <1>17 DEF StatusIsTrue

\* A pass fills lines of orders that are parked or, if it is the CLI's, of any.
LEMMA PassCommits ==
    ASSUME TablesAreTrue, NEW t, Committed(t), Fills(t)
    PROVE  ConsumptionIsAttributed' /\ StatusIsTrue' /\ OrdersFollow'
<1>1. /\ t \in TxType /\ JobInPlace(t) /\ t.at = "commit" /\ t.want = {} /\ t.lines = {}
      /\ ~t.stale
  BY DEF Committed, Fills, JobInPlace
<1>2. \A l \in Line : t.fills[l] # NULL =>
          /\ master[l] = NULL /\ master'[l] = t.fills[l]
          /\ status[OrderOf[l]] # "none" /\ t.was[OrderOf[l]] = status[OrderOf[l]]
  BY LineAssumption DEF Committed, Fills
<1>3. \A l \in Line : t.fills[l] = NULL => master'[l] = master[l]
  BY DEF Committed
<1>4. \A o \in Order : status'[o] # status[o] =>
          status[o] = "pending_mapping" /\ status'[o] = "confirmed"
  BY DEF Committed, Fills
<1>5. events' = events \cup Taken(t) /\ Taken(t) \subseteq Event
  BY <1>1 DEF Committed, Taken, TxType
<1>6. late' = late
  BY <1>1 DEF Committed
<1>7. settled \subseteq settled'
  BY DEF Committed
<1>8. \A o \in Order : status[o] \in CancelStatus <=> status'[o] \in CancelStatus
  BY <1>4 DEF CancelStatus
<1>9. ConsumptionIsAttributed'
  <2>1. ASSUME NEW e \in events PROVE master'[e.line] = e.master
    <3>1. e \in Event /\ e.line \in Line /\ master[e.line] = e.master /\ e.master # NULL
      BY NullAssumption DEF TablesAreTrue, LifeTypeOK, ConsumptionIsAttributed, Event
    <3> QED
      BY <1>2, <1>3, <3>1
  <2>2. ASSUME NEW e \in Taken(t) PROVE master'[e.line] = e.master
    <3>1. e \in Event /\ e.line \in Line /\ t.fills[e.line] = e.master /\ e.master # NULL
      BY <1>5, NullAssumption DEF Fills, Event
    <3> QED
      BY <1>2, <3>1
  <2> QED
    BY <1>5, <2>1, <2>2 DEF ConsumptionIsAttributed
<1>10. ASSUME NEW l, NEW m PROVE Returned(l, m) \in events' <=> Returned(l, m) \in events
  BY <1>5 DEF Fills, Returned
<1>11. CancelledHoldsNoStock'
  <2> SUFFICES ASSUME NEW l \in Line, status'[OrderOf[l]] \in CancelStatus, NEW m \in Master
               PROVE  ~Holds(l, m)'
    BY DEF CancelledHoldsNoStock
  <2>1. status[OrderOf[l]] \in CancelStatus
    BY <1>8, LineAssumption
  <2>2. ~Holds(l, m)
    BY <2>1 DEF TablesAreTrue, StatusIsTrue, CancelledHoldsNoStock
  <2>3. Consumed(l, m) \notin Taken(t)
    <3> SUFFICES ASSUME Consumed(l, m) \in Taken(t) PROVE FALSE
      OBVIOUS
    <3>1. t.fills[l] = m /\ t.was[OrderOf[l]] \notin CancelStatus
      BY DEF Fills, Consumed
    <3>2. m # NULL
      BY NullAssumption
    <3> QED
      BY <1>2, <2>1, <3>1, <3>2
  <2> QED
    BY <1>5, <1>10, <2>2, <2>3 DEF Holds
<1>12. LiveOrderHoldsStock'
  <2> SUFFICES ASSUME NEW l \in Line, OrderOf[l] \notin late',
                      status'[OrderOf[l]] \notin CancelStatus, master'[l] # NULL, l \notin settled'
               PROVE  Holds(l, master[l])'
    BY DEF LiveOrderHoldsStock
  <2>1. status[OrderOf[l]] \notin CancelStatus
    BY <1>8, LineAssumption
  <2>2. CASE t.fills[l] = NULL
    <3>1. Holds(l, master[l])
      BY <1>3, <1>6, <1>7, <2>1, <2>2 DEF TablesAreTrue, StatusIsTrue, LiveOrderHoldsStock
    <3> QED
      BY <1>3, <1>5, <1>10, <2>2, <3>1 DEF Holds
  <2>3. CASE t.fills[l] # NULL
    <3>1. t.was[OrderOf[l]] \notin CancelStatus /\ master'[l] = t.fills[l]
      BY <1>2, <2>1, <2>3
    <3>2. t.job = "resolve" \/ t.stock
      BY <2>3 DEF Committed, Fills
    <3>3. Consumed(l, t.fills[l]) \in events'
      BY <1>5, <2>3, <3>1, <3>2 DEF Fills
    <3>4. t.fills[l] \in Master
      BY <1>1, <2>3 DEF TxType, NoMaster
    <3>5. Returned(l, t.fills[l]) \notin events
      BY <1>6, <2>1, <3>4 DEF TablesAreTrue, OrdersFollow, CancelStatus
    <3> QED
      BY <1>10, <3>1, <3>3, <3>5 DEF Holds
  <2> QED
    BY <2>2, <2>3
<1>13. ParkedHasUnmappedLine'
  <2> SUFFICES ASSUME NEW o \in Order, status'[o] = "pending_mapping",
                      \A l \in LinesOf(o) : master'[l] # NULL
               PROVE  FALSE
    BY DEF ParkedHasUnmappedLine, LinesOf
  <2>1. status[o] = "pending_mapping" /\ t.put[o] = "none"
    BY <1>4 DEF Committed, Fills
  <2>2. PICK l \in LinesOf(o) : master[l] = NULL
    BY <2>1 DEF TablesAreTrue, StatusIsTrue, ParkedHasUnmappedLine
  <2>3. t.fills[l] # NULL /\ t.was[o] = "pending_mapping"
    BY <1>2, <1>3, <2>1, <2>2 DEF LinesOf
  <2>4. \A x \in LinesOf(o) : master[x] # NULL \/ t.fills[x] # NULL
    BY <1>3 DEF LinesOf
  <2>5. Confirms(t, o)
    BY <2>2, <2>3, <2>4 DEF Confirms
  <2> QED
    BY <1>1, <2>1, <2>5 DEF Fills
<1>14. ParkedIsOnAlert'
  <2> SUFFICES ASSUME NEW l \in Line, status'[OrderOf[l]] = "pending_mapping",
                      master'[l] = NULL
               PROVE  alert'[KeyOf[l]] \in Outstanding
    BY DEF ParkedIsOnAlert
  <2>1. status[OrderOf[l]] = "pending_mapping"
    BY <1>4, LineAssumption
  <2>2. master[l] = NULL /\ t.fills[l] = NULL
    BY <1>2, <1>3
  <2>3. alert[KeyOf[l]] \in Outstanding /\ KeyOf[l] \in Key
    BY <2>1, <2>2, LineAssumption DEF TablesAreTrue, StatusIsTrue, ParkedIsOnAlert
  <2>4. t.key # KeyOf[l]
    <3>1. CASE t.job = "resolve"
      BY <1>1, <2>1, <2>2, <3>1 DEF Fills
    <3>2. CASE t.job # "resolve"
      BY <1>1, <2>3, <3>2, NullAssumption DEF JobInPlace
    <3> QED
      BY <3>1, <3>2
  <2> QED
    BY <2>3, <2>4 DEF Committed, Fills
<1>15. OrdersFollow'
  <2>1. \A l \in Line : status'[OrderOf[l]] = "none" => master'[l] = NULL
    BY <1>2, <1>3, <1>4, LineAssumption DEF TablesAreTrue, OrdersFollow
  <2>2. \A o \in Order : status'[o] = "cancelled" /\ o \notin late' => channel'[o] = "cancelled"
    BY <1>4, <1>6 DEF TablesAreTrue, OrdersFollow, Committed
  <2>3. \A l \in Line, m \in Master :
          Returned(l, m) \in events' => OrderOf[l] \in late' \/ status'[OrderOf[l]] = "cancelled"
    BY <1>4, <1>6, <1>10, LineAssumption DEF TablesAreTrue, OrdersFollow
  <2> QED
    BY <2>1, <2>2, <2>3 DEF OrdersFollow
<1> QED
  BY <1>9, <1>11, <1>12, <1>13, <1>14, <1>15 DEF StatusIsTrue

LEMMA SerialCommit ==
    ASSUME SerialInv, Alone, NEW p \in Session, Commit(p)
    PROVE  SerialInv'
<1>1. PICK t : t = tx[p]
  OBVIOUS
<1>2. LifeInv /\ t \in TxType /\ JobInPlace(t) /\ SerialTx(t) /\ t.at = "commit"
  BY <1>1, SessionParts DEF SerialInv, Commit
<1>3. LifeInv' /\ tx'[p] = NoTx
  BY <1>2, CommitTypes
<1>4. Committed(t)
  BY <1>1, <1>2 DEF Commit, Committed
<1>5. TablesAreTrue
  BY DEF TablesAreTrue, SerialInv, LifeInv
<1>6. t # NoTx
  BY <1>2 DEF NoTx
<1>7. ConsumptionIsAttributed' /\ StatusIsTrue' /\ OrdersFollow'
  BY <1>2, <1>4, <1>5, <1>6, InsertCommits, UpdateCommits, PassCommits DEF SerialTx
<1>8. \A q \in Session : SerialTx(tx[q])'
  BY <1>3 DEF Alone, SerialTx, NoTx, NoItems
<1> QED
  BY <1>3, <1>7, <1>8 DEF SerialInv

\* What the channel and the screens do leaves the order tables alone.
LEMMA SerialOutside ==
    ASSUME SerialInv, Outside
    PROVE  SerialInv'
<1>1. LifeInv' /\ tx' = tx /\ UNCHANGED <<status, master, events, settled, late>>
  BY OutsideTypes DEF SerialInv
<1>2. \A o \in Order : channel[o] = "cancelled" => channel'[o] = "cancelled"
  BY DEF Outside, Place, Ship, CancelOrder, Reports, StartAlert, AddMapping, DeleteMapping,
         SerialInv, LifeInv, LifeTypeOK
<1>3. \A k \in Key : alert'[k] = alert[k] \/ (alert[k] = "open" /\ alert'[k] = "in_progress")
  <2>1. ASSUME NEW k \in Key, StartAlert(k)
        PROVE  \A x \in Key : alert'[x] = alert[x] \/ (alert[x] = "open" /\ alert'[x] = "in_progress")
    BY <2>1 DEF StartAlert, SerialInv, LifeInv, LifeTypeOK
  <2>2. (\E k \in Key : StartAlert(k)) \/ alert' = alert
    BY DEF Outside, Place, Ship, CancelOrder, Reports, tables, AddMapping, DeleteMapping
  <2> QED
    BY <2>1, <2>2
<1>4. ConsumptionIsAttributed' /\ OrdersFollow'
  BY <1>1, <1>2 DEF SerialInv, ConsumptionIsAttributed, OrdersFollow
<1>5. StatusIsTrue'
  BY <1>1, <1>3, LineAssumption
     DEF SerialInv, StatusIsTrue, CancelledHoldsNoStock, LiveOrderHoldsStock, Holds,
         ParkedHasUnmappedLine, ParkedIsOnAlert, LinesOf, Outstanding
<1>6. ASSUME NEW q \in Session PROVE SerialTx(tx[q])'
  <2>1. PICK u \in TxType : u = tx[q] /\ u = tx'[q] /\ SerialTx(u) /\ JobInPlace(u)
    BY <1>1, SessionParts DEF SerialInv
  <2>2. CASE u = NoTx
    BY <2>1, <2>2 DEF SerialTx, NoTx, NoItems
  <2>3. PayloadIsTrue(u) /\ u.order \in Order => PayloadIsTrue(tx[q])'
    BY <1>1, <1>2, <2>1 DEF PayloadIsTrue
  <2>4. Inserts(u) => Inserts(tx[q])' /\ u.order \in Order
    BY <1>1, <1>3, <2>1 DEF Inserts, Taken, Visited, LinesOf, JobInPlace, TxType
  <2>5. Updates(u) => Updates(tx[q])' /\ u.order \in Order
    BY <1>1, <2>1 DEF Updates, Taken, Cancels, LinesOf, JobInPlace
  <2>6. Fills(u) => Fills(tx[q])'
    BY <1>1, <2>1 DEF Fills, Taken, Confirms, LinesOf
  <2> QED
    BY <2>1, <2>2, <2>3, <2>4, <2>5, <2>6 DEF SerialTx
<1> QED
  BY <1>1, <1>4, <1>5, <1>6 DEF SerialInv

LEMMA SerialInit == ASSUME Init PROVE SerialInv
<1>1. ConsumptionIsAttributed /\ OrdersFollow
  BY LineAssumption DEF Init, ConsumptionIsAttributed, OrdersFollow, NoItems
<1>2. StatusIsTrue
  BY LineAssumption
     DEF Init, StatusIsTrue, CancelledHoldsNoStock, LiveOrderHoldsStock, Holds, NoItems,
         ParkedHasUnmappedLine, ParkedIsOnAlert, CancelStatus
<1>3. \A p \in Session : SerialTx(tx[p])
  BY DEF Init, SerialTx
<1> QED
  BY <1>1, <1>2, <1>3, LifeInit DEF SerialInv

\* As long as transactions run one at a time, the status of an order tells what is true of
\* it, whatever the channel redelivers, the operators map and unmap and the CLIs pass over:
\* a cancelled order holds no stock, a live one holds that of each line it can attribute, a
\* parked one has an unmapped line, and an alert is outstanding for each of these.
THEOREM StatusIsTrueOneAtATime == ASSUME Alone PROVE Spec => []StatusIsTrue
<1>1. Init => SerialInv
  BY SerialInit
<1>2. SerialInv /\ [Next]_vars => SerialInv'
  <2> SUFFICES ASSUME SerialInv, [Next]_vars PROVE SerialInv'
    OBVIOUS
  <2>1. CASE UNCHANGED vars
    <3>1. LifeInv'
      BY <2>1 DEF vars, SerialInv, LifeInv, LifeTypeOK, JobInPlace
    <3>2. ConsumptionIsAttributed' /\ OrdersFollow' /\ StatusIsTrue'
      BY <2>1 DEF vars, SerialInv, ConsumptionIsAttributed, OrdersFollow, StatusIsTrue,
                  CancelledHoldsNoStock, LiveOrderHoldsStock, Holds, ParkedHasUnmappedLine,
                  ParkedIsOnAlert, LinesOf
    <3>3. ASSUME NEW q \in Session PROVE SerialTx(tx[q])'
      <4>1. PICK u : u = tx[q] /\ u = tx'[q] /\ SerialTx(u)
        BY <2>1 DEF vars, SerialInv
      <4>2. CASE u = NoTx
        BY <4>1, <4>2 DEF SerialTx, NoTx, NoItems
      <4>3. PayloadIsTrue(u) => PayloadIsTrue(tx[q])'
        BY <2>1, <4>1 DEF vars, PayloadIsTrue
      <4>4. Inserts(u) => Inserts(tx[q])'
        BY <2>1, <4>1 DEF vars, Inserts, Taken, Visited, LinesOf
      <4>5. Updates(u) => Updates(tx[q])'
        BY <2>1, <4>1 DEF vars, Updates, Taken, Cancels, LinesOf
      <4>6. Fills(u) => Fills(tx[q])'
        BY <2>1, <4>1 DEF vars, Fills, Taken, Confirms, LinesOf
      <4> QED
        BY <4>1, <4>2, <4>3, <4>4, <4>5, <4>6 DEF SerialTx
    <3> QED
      BY <3>1, <3>2, <3>3 DEF SerialInv
  <2>2. CASE Next
    BY <2>2, NextParts, SerialOutside, SerialWorks, SerialCommit
  <2> QED
    BY <2>1, <2>2
<1>3. SerialInv => StatusIsTrue
  BY DEF SerialInv
<1> QED
  BY <1>1, <1>2, <1>3, PTL DEF Spec
=============================================================================
