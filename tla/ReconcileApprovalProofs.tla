----------------------- MODULE ReconcileApprovalProofs -----------------------
(***************************************************************************)
(* Theorems about ReconcileApproval, for every set of runs, diffs, SKUs,   *)
(* sessions and requests.                                                  *)
(*                                                                         *)
(* What decides the properties is what a request knows while it is open.   *)
(* SessionInv says it: the rows a request has locked are as it read them,  *)
(* so a diff it will approve is still pending, and a run it will close is  *)
(* still open.  What a screen loaded before the lock may be stale, and     *)
(* nothing is said of it but that a tally grows.                           *)
(*                                                                         *)
(* And about CountSheets, for all that Worksheets does to a sheet, and     *)
(* about RateLimit and AdapterCalls, for all that ChannelCalls does with   *)
(* the adapters.                                                           *)
(***************************************************************************)
EXTENDS ReconcileApproval, CountSheets, AdapterCalls,
        NumberLemmas, SequenceTheorems, TLAPS

\* Every table and every open request holds values of its columns' types.
ApprovalTypeOK ==
    /\ kind \in [Run -> Kind \cup {"none"}]
    /\ status \in [Run -> RunStatus]
    /\ count \in [Run -> Nat]
    /\ decision \in [Diff -> Decision]
    /\ applied \in [Diff -> Nat]
    /\ pc \in [Session -> {"idle", "run", "diff", "decide", "snapshot", "apply",
                           "close", "commit"}]
    /\ req \in [Session -> Request \cup {None}]
    /\ todo \in [Session -> Seq(Diff)]
    /\ seen \in [Session -> [status : RunStatus, count : Nat]]
    /\ held \in [Session -> SUBSET (Run \cup Diff \cup Sku)]
    /\ put \in [Session -> [Diff -> {"none", "approved", "skipped"}]]

\* The committed rows agree with each other.  A tally may be too small, as a stale
\* one overwrites it, but an approval leaves it above zero.
TablesAgree ==
    /\ AppliedIffApproved
    /\ \A d \in Diff : decision[d] # "none" => status[RunOf[d]] # "none"
    /\ \A d \in Diff : decision[d] = "approved" => count[RunOf[d]] > 0
    /\ \A r \in Run : status[r] = "applied" => ~HasPending(r)

LocksExclude == \A p, q \in Session : p # q => held[p] \cap held[q] = {}

\* Where a request is, what it still has to do, and which rows it has locked by then.
RequestInPlace(p) ==
    /\ req[p] \in Request
    /\ status[req[p].run] # "none"
    /\ \A i \in 1..Len(todo[p]) :
          RunOf[todo[p][i]] = req[p].run /\ decision[todo[p][i]] # "none"
    /\ pc[p] = "run" => req[p].op # "skip" /\ put[p] = NoPut
    /\ pc[p] = "close" => req[p].op \in {"finalize", "cancel"}
    /\ pc[p] \in {"diff", "decide", "snapshot", "apply"} => req[p].op \in {"approve", "skip"}
    /\ pc[p] \in {"run", "diff", "decide", "snapshot", "apply"} =>
          todo[p] # <<>> \/ req[p].op \notin {"approve", "skip"}
    /\ pc[p] # "run" /\ req[p].op # "skip" => req[p].run \in held[p]
    /\ pc[p] \in {"decide", "snapshot", "apply"} => Head(todo[p]) \in held[p]
    /\ pc[p] \in {"snapshot", "apply"} =>
          /\ req[p].op = "approve"
          /\ put[p][Head(todo[p])] = "none"
          /\ decision[Head(todo[p])] = "pending"

\* What a request is going to write about a diff, it may write.
PutIsSound(p) ==
    \A d \in Diff : put[p][d] # "none" =>
        /\ d \in held[p]
        /\ RunOf[d] = req[p].run
        /\ put[p][d] = "approved" =>
              decision[d] = "pending" /\ req[p].op = "approve" /\ seen[p].count > 0
        /\ put[p][d] = "skipped" => decision[d] \in {"pending", "skipped"}

\* What a request that closes a run knows of it.  Only a run of the reconcile screen is
\* loaded under its lock; of any other the status may be stale.
ClosingKnows(p) ==
    LET r == req[p].run IN
    req[p].op \in {"finalize", "cancel"} =>
        /\ pc[p] = "commit" =>
              /\ seen[p].status = IF req[p].op = "finalize" THEN "applied" ELSE "cancelled"
              /\ req[p].op = "finalize" => ~HasPending(r)
        /\ kind[r] = "reconcile" =>
              /\ pc[p] = "run" => seen[p] = Unseen
              /\ pc[p] = "close" => seen[p] = [status |-> status[r], count |-> count[r]]
              /\ pc[p] = "commit" => status[r] \notin {"applied", "cancelled"}
              /\ pc[p] = "commit" /\ req[p].op = "cancel" => count[r] = 0

SessionInv(p) ==
    IF pc[p] = "idle"
    THEN req[p] = None /\ seen[p] = Unseen /\ held[p] = {} /\ put[p] = NoPut
    ELSE RequestInPlace(p) /\ PutIsSound(p) /\ ClosingKnows(p)

\* The inductive invariant.
ApprovalInv ==
    /\ ApprovalTypeOK
    /\ TablesAgree
    /\ LocksExclude
    /\ \A p \in Session : SessionInv(p)

-----------------------------------------------------------------------------
(* Types *)

\* A legal request names a run and diffs of that run.
LEMMA RequestParts ==
    ASSUME NEW r \in Request
    PROVE  /\ r.by \in Kind \cup {"script"} /\ r.op \in Op /\ r.run \in Run
           /\ r.diffs \in Seq(Diff)
           /\ r.op \in {"approve", "skip"} => r.diffs # <<>>
           /\ \A i \in 1..Len(r.diffs) : RunOf[r.diffs[i]] = r.run
  BY RequestAssumption DEF RequestType

\* The diff a request is about to decide, and those after it.
LEMMA CurrentDiff ==
    ASSUME ApprovalTypeOK, NEW p \in Session, todo[p] # <<>>
    PROVE  /\ Head(todo[p]) \in Diff
           /\ Head(todo[p]) = todo[p][1]
           /\ 1 \in 1..Len(todo[p])
           /\ Tail(todo[p]) \in Seq(Diff)
           /\ \A i \in 1..Len(Tail(todo[p])) :
                 i + 1 \in 1..Len(todo[p]) /\ Tail(todo[p])[i] = todo[p][i + 1]
<1>1. todo[p] \in Seq(Diff)
  BY DEF ApprovalTypeOK
<1>2. /\ Head(todo[p]) \in Diff /\ Head(todo[p]) = todo[p][1]
      /\ Tail(todo[p]) \in Seq(Diff)
      /\ Len(Tail(todo[p])) = Len(todo[p]) - 1
      /\ \A i \in 1..Len(Tail(todo[p])) : Tail(todo[p])[i] = todo[p][i + 1]
  BY <1>1, HeadTailProperties
<1>3. Len(todo[p]) \in Nat /\ Len(todo[p]) # 0
  BY <1>1, EmptySeq
<1> QED
  BY <1>2, <1>3

\* A request that has ended leaves its session's variables typed and empty.
LEMMA EndType ==
    ASSUME ApprovalTypeOK, NEW p \in Session, End(p)
    PROVE  /\ pc' \in [Session -> {"idle", "run", "diff", "decide", "snapshot", "apply",
                                   "close", "commit"}]
           /\ req' \in [Session -> Request \cup {None}]
           /\ todo' \in [Session -> Seq(Diff)]
           /\ seen' \in [Session -> [status : RunStatus, count : Nat]]
           /\ held' \in [Session -> SUBSET (Run \cup Diff \cup Sku)]
           /\ put' \in [Session -> [Diff -> {"none", "approved", "skipped"}]]
           /\ held'[p] = {}
           /\ SessionInv(p)'
<1>1. <<>> \in Seq(Diff)
  OBVIOUS
<1> QED
  BY <1>1 DEF ApprovalTypeOK, End, SessionInv, Unseen, RunStatus, NoPut

-----------------------------------------------------------------------------
(* Steps inside a request *)

Untouched(q) ==
    /\ pc'[q] = pc[q] /\ req'[q] = req[q] /\ todo'[q] = todo[q]
    /\ seen'[q] = seen[q] /\ held'[q] = held[q] /\ put'[q] = put[q]

\* A step that commits nothing touches only its own session, so the invariant has to
\* be shown of that session alone.
LEMMA LocalStep ==
    ASSUME ApprovalInv, ApprovalTypeOK', UNCHANGED tables, NEW p \in Session,
           \A q \in Session \ {p} : Untouched(q),
           \A q \in Session \ {p} : held'[p] \cap held[q] = {},
           SessionInv(p)'
    PROVE  ApprovalInv'
<1>1. TablesAgree'
  BY DEF ApprovalInv, TablesAgree, tables, AppliedIffApproved, HasPending
<1>2. LocksExclude'
  BY DEF ApprovalInv, LocksExclude, Untouched
<1>3. ASSUME NEW q \in Session, q # p PROVE SessionInv(q)'
  <2>1. SessionInv(q) /\ Untouched(q)
    BY <1>3 DEF ApprovalInv
  <2> QED
    BY <2>1 DEF SessionInv, Untouched, tables, RequestInPlace, PutIsSound, ClosingKnows,
                HasPending
<1> QED
  BY <1>1, <1>2, <1>3 DEF ApprovalInv

\* Every rollback keeps the invariant: the session holds nothing and writes nothing.
LEMMA RollbackStep ==
    ASSUME ApprovalInv, NEW p \in Session, Rollback(p)
    PROVE  ApprovalInv'
<1>1. ApprovalTypeOK /\ End(p) /\ UNCHANGED tables
  BY DEF ApprovalInv, Rollback
<1>2. ApprovalTypeOK' /\ held'[p] = {} /\ SessionInv(p)'
  BY <1>1, EndType DEF ApprovalTypeOK, tables
<1>3. \A q \in Session \ {p} : Untouched(q)
  BY <1>1 DEF End, Untouched, ApprovalTypeOK
<1> QED
  BY <1>1, <1>2, <1>3, LocalStep

\* A request about rows that exist begins: it knows nothing yet, or what may be stale.
LEMMA BeginStep ==
    ASSUME ApprovalInv, NEW p \in Session, NEW r \in Request, Begin(p, r)
    PROVE  ApprovalInv'
<1> USE DEF ApprovalInv
<1>1. /\ r.op \in Op /\ r.run \in Run /\ r.diffs \in Seq(Diff)
      /\ r.op \in {"approve", "skip"} => r.diffs # <<>>
      /\ \A i \in 1..Len(r.diffs) : RunOf[r.diffs[i]] = r.run
  BY RequestParts
<1>2. pc[p] = "idle" /\ seen[p] = Unseen /\ held[p] = {} /\ put[p] = NoPut
  BY DEF Begin, SessionInv
<1>3. /\ req'[p] = r /\ todo'[p] = r.diffs /\ held'[p] = {} /\ put'[p] = NoPut
      /\ pc'[p] = IF r.op = "skip" THEN "diff" ELSE "run"
      /\ ~Preloads(r) => seen'[p] = Unseen
      /\ \A q \in Session \ {p} : Untouched(q)
  BY <1>2 DEF Begin, ApprovalTypeOK, Untouched
<1>4. ApprovalTypeOK'
  <2>1. seen' \in [Session -> [status : RunStatus, count : Nat]]
    BY <1>1 DEF Begin, ApprovalTypeOK
  <2> QED
    BY <1>1, <2>1 DEF Begin, ApprovalTypeOK, tables
<1>5. RequestInPlace(p)'
  BY <1>1, <1>3 DEF Begin, RequestInPlace, Op, tables, NoPut
<1>6. PutIsSound(p)'
  BY <1>3 DEF PutIsSound, NoPut
<1>7. kind[r.run] = "reconcile" /\ r.op \in {"finalize", "cancel"} => ~Preloads(r)
  BY DEF Begin, Preloads
<1>8. ClosingKnows(p)'
  BY <1>3, <1>7 DEF Begin, ClosingKnows, tables
<1>9. SessionInv(p)' /\ UNCHANGED tables
  BY <1>3, <1>5, <1>6, <1>8 DEF SessionInv, Begin
<1> HIDE DEF ApprovalInv
<1> QED
  BY <1>3, <1>4, <1>9, LocalStep

\* What SessionInv says of a session that is not idle.
LEMMA Underway ==
    ASSUME ApprovalInv, NEW p \in Session, pc[p] # "idle"
    PROVE  /\ ApprovalTypeOK /\ req[p] \in Request
           /\ req[p].run \in Run /\ req[p].op \in Op
           /\ RequestInPlace(p) /\ PutIsSound(p) /\ ClosingKnows(p)
  BY RequestParts DEF ApprovalInv, SessionInv, RequestInPlace

\* The locks a session takes exclude those of the others.
LEMMA LockExcludes ==
    ASSUME ApprovalInv, NEW p \in Session, NEW next, Lock(p, next)
    PROVE  /\ held'[p] = held[p] \cup {Wants(p)}
           /\ \A q \in Session \ {p} : held'[p] \cap held[q] = {}
           /\ pc' = [pc EXCEPT ![p] = next]
           /\ \A q \in Session \ {p} : held'[q] = held[q] /\ pc'[q] = pc[q]
  BY DEF ApprovalInv, LocksExclude, Lock, Free, ApprovalTypeOK

\* _get_run: from here on the run is as its holder read it, if it read it here.
LEMMA LockRunStep ==
    ASSUME ApprovalInv, NEW p \in Session, LockRun(p)
    PROVE  ApprovalInv'
<1> DEFINE r == req[p].run
           next == IF req[p].op = "approve" THEN "diff" ELSE "close"
<1>1. pc[p] = "run" /\ Lock(p, next) /\ UNCHANGED <<tables, req, todo, put>>
  BY DEF LockRun
<1>2. /\ ApprovalTypeOK /\ req[p] \in Request /\ r \in Run /\ req[p].op \in Op
      /\ RequestInPlace(p) /\ PutIsSound(p) /\ ClosingKnows(p)
  BY <1>1, Underway
<1>3. Wants(p) = r
  BY <1>1 DEF Wants
<1>4. /\ held'[p] = held[p] \cup {r} /\ pc'[p] = next
      /\ \A q \in Session \ {p} : held'[p] \cap held[q] = {} /\ Untouched(q)
  BY <1>1, <1>2, <1>3, LockExcludes DEF LockRun, Untouched, ApprovalTypeOK
<1>5. seen'[p] = IF seen[p].status = "none"
                 THEN [status |-> status[r], count |-> count[r]] ELSE seen[p]
  BY <1>2 DEF LockRun, ApprovalTypeOK
<1>6. ApprovalTypeOK'
  <2>1. seen' \in [Session -> [status : RunStatus, count : Nat]]
    BY <1>2, <1>5 DEF LockRun, ApprovalTypeOK
  <2>2. held' = [held EXCEPT ![p] = @ \cup {r}] /\ pc' = [pc EXCEPT ![p] = next]
    BY <1>1, <1>3 DEF Lock
  <2>3. next \in {"diff", "close"}
    OBVIOUS
  <2> HIDE DEF next
  <2> QED
    BY <1>1, <1>2, <2>1, <2>2, <2>3 DEF ApprovalTypeOK, tables
<1>7. RequestInPlace(p)'
  BY <1>1, <1>2, <1>4 DEF RequestInPlace, tables, Op
<1>8. PutIsSound(p)'
  BY <1>1, <1>2 DEF PutIsSound, RequestInPlace, NoPut
<1>9. ClosingKnows(p)'
  BY <1>1, <1>2, <1>4, <1>5 DEF ClosingKnows, tables, Unseen
<1> QED
  BY <1>1, <1>4, <1>6, <1>7, <1>8, <1>9, LocalStep DEF SessionInv

\* _get_diff and the snapshot row: taking another lock keeps the invariant.
LEMMA LockRowStep ==
    ASSUME ApprovalInv, NEW p \in Session, LockDiff(p) \/ LockSnapshot(p)
    PROVE  ApprovalInv'
<1> DEFINE next == IF pc[p] = "diff" THEN "decide" ELSE "apply"
<1>1. /\ pc[p] \in {"diff", "snapshot"} /\ Lock(p, next)
      /\ UNCHANGED <<tables, req, todo, seen, put>>
  BY DEF LockDiff, LockSnapshot
<1>2. /\ ApprovalTypeOK /\ req[p] \in Request /\ req[p].op \in Op
      /\ RequestInPlace(p) /\ PutIsSound(p) /\ ClosingKnows(p)
  BY <1>1, Underway
<1>3. todo[p] # <<>>
  BY <1>1, <1>2 DEF RequestInPlace
<1>4. /\ Wants(p) \in Diff \cup Sku
      /\ pc[p] = "diff" => Wants(p) = Head(todo[p])
  BY <1>1, <1>2, <1>3, CurrentDiff, DiffAssumption DEF Wants
<1>5. /\ held'[p] = held[p] \cup {Wants(p)} /\ pc'[p] = next
      /\ \A q \in Session \ {p} : held'[p] \cap held[q] = {} /\ Untouched(q)
  BY <1>1, <1>2, LockExcludes DEF Untouched, ApprovalTypeOK
<1>6. ApprovalTypeOK'
  <2>1. held' = [held EXCEPT ![p] = @ \cup {Wants(p)}] /\ pc' = [pc EXCEPT ![p] = next]
    BY <1>1 DEF Lock
  <2>2. next \in {"decide", "apply"}
    OBVIOUS
  <2> HIDE DEF next
  <2> QED
    BY <1>1, <1>2, <1>4, <2>1, <2>2 DEF ApprovalTypeOK, tables
<1>7. RequestInPlace(p)'
  BY <1>1, <1>2, <1>4, <1>5 DEF RequestInPlace, tables, Op
<1>8. PutIsSound(p)'
  BY <1>1, <1>2, <1>5 DEF PutIsSound, tables
<1>9. ClosingKnows(p)'
  BY <1>1, <1>2, <1>5 DEF ClosingKnows, RequestInPlace
<1> QED
  BY <1>1, <1>5, <1>6, <1>7, <1>8, <1>9, LocalStep DEF SessionInv

\* The next diff of the form is again one of the run, or the request commits.
LEMMA NextDiffParts ==
    ASSUME ApprovalInv, NEW p \in Session, pc[p] \in {"decide", "apply"}, NextDiff(p)
    PROVE  /\ todo' \in [Session -> Seq(Diff)]
           /\ pc' \in [Session -> {"idle", "run", "diff", "decide", "snapshot", "apply",
                                   "close", "commit"}]
           /\ pc'[p] \in {"diff", "commit"}
           /\ pc'[p] = "diff" => todo'[p] # <<>>
           /\ \A i \in 1..Len(todo'[p]) :
                 RunOf[todo'[p][i]] = req[p].run /\ decision[todo'[p][i]] # "none"
           /\ \A q \in Session \ {p} : pc'[q] = pc[q] /\ todo'[q] = todo[q]
<1>1. ApprovalTypeOK /\ RequestInPlace(p)
  BY Underway
<1>2. todo[p] # <<>>
  BY <1>1 DEF RequestInPlace
<1>3. /\ Tail(todo[p]) \in Seq(Diff)
      /\ \A i \in 1..Len(Tail(todo[p])) :
            i + 1 \in 1..Len(todo[p]) /\ Tail(todo[p])[i] = todo[p][i + 1]
  BY <1>1, <1>2, CurrentDiff
<1>4. todo'[p] = Tail(todo[p]) /\ todo' \in [Session -> Seq(Diff)]
  BY <1>1, <1>3 DEF NextDiff, ApprovalTypeOK
<1>5. \A i \in 1..Len(todo'[p]) :
         RunOf[todo'[p][i]] = req[p].run /\ decision[todo'[p][i]] # "none"
  BY <1>1, <1>3, <1>4 DEF RequestInPlace
<1> QED
  BY <1>1, <1>4, <1>5 DEF NextDiff, ApprovalTypeOK

\* approve_diff before it moves stock: an approved diff is passed over, and only a
\* pending one goes on to the snapshot row.
LEMMA ApproveDiffStep ==
    ASSUME ApprovalInv, NEW p \in Session, ApproveDiff(p)
    PROVE  ApprovalInv'
<1>1. /\ pc[p] = "decide" /\ req[p].op = "approve" /\ Current(p) # "skipped"
      /\ UNCHANGED <<tables, req, seen, held, put>>
  BY DEF ApproveDiff
<1>2. /\ ApprovalTypeOK /\ req[p] \in Request
      /\ RequestInPlace(p) /\ PutIsSound(p) /\ ClosingKnows(p)
  BY <1>1, Underway
<1>3. todo[p] # <<>>
  BY <1>1, <1>2 DEF RequestInPlace
<1>4. Head(todo[p]) \in Diff /\ Head(todo[p]) = todo[p][1] /\ 1 \in 1..Len(todo[p])
  BY <1>2, <1>3, CurrentDiff
<1>5. CASE Current(p) = "approved"
  <2>1. NextDiff(p)
    BY <1>5 DEF ApproveDiff
  <2>2. /\ todo' \in [Session -> Seq(Diff)]
        /\ pc' \in [Session -> {"idle", "run", "diff", "decide", "snapshot", "apply",
                                "close", "commit"}]
        /\ pc'[p] \in {"diff", "commit"}
        /\ pc'[p] = "diff" => todo'[p] # <<>>
        /\ \A i \in 1..Len(todo'[p]) :
              RunOf[todo'[p][i]] = req[p].run /\ decision[todo'[p][i]] # "none"
        /\ \A q \in Session \ {p} : pc'[q] = pc[q] /\ todo'[q] = todo[q]
    BY <1>1, <2>1, NextDiffParts
  <2>3. ApprovalTypeOK'
    BY <1>1, <1>2, <2>2 DEF ApprovalTypeOK, tables
  <2>4. RequestInPlace(p)'
    BY <1>1, <1>2, <2>2 DEF RequestInPlace, tables
  <2>5. PutIsSound(p)' /\ ClosingKnows(p)'
    BY <1>1, <1>2 DEF PutIsSound, ClosingKnows, tables
  <2>6. \A q \in Session \ {p} : Untouched(q) /\ held'[p] \cap held[q] = {}
    BY <1>1, <2>2 DEF Untouched, ApprovalInv, LocksExclude
  <2> QED
    BY <1>1, <2>2, <2>3, <2>4, <2>5, <2>6, LocalStep DEF SessionInv
<1>6. CASE Current(p) # "approved"
  <2>1. pc' = [pc EXCEPT ![p] = "snapshot"] /\ todo' = todo
    BY <1>6 DEF ApproveDiff
  <2>2. put[p][Head(todo[p])] = "none" /\ decision[Head(todo[p])] = "pending"
    BY <1>1, <1>2, <1>4, <1>6 DEF Current, ApprovalTypeOK, RequestInPlace, Decision
  <2>3. ApprovalTypeOK' /\ pc'[p] = "snapshot"
    BY <1>1, <1>2, <2>1 DEF ApprovalTypeOK, tables
  <2>4. RequestInPlace(p)'
    BY <1>1, <1>2, <2>1, <2>2, <2>3 DEF RequestInPlace, tables
  <2>5. PutIsSound(p)' /\ ClosingKnows(p)'
    BY <1>1, <1>2 DEF PutIsSound, ClosingKnows, tables
  <2>6. \A q \in Session \ {p} : Untouched(q) /\ held'[p] \cap held[q] = {}
    BY <1>1, <1>2, <2>1 DEF Untouched, ApprovalInv, LocksExclude, ApprovalTypeOK
  <2> QED
    BY <1>1, <2>3, <2>4, <2>5, <2>6, LocalStep DEF SessionInv
<1> QED
  BY <1>5, <1>6

\* The write of one decision, which the lock and the diff's own decision allow.
LEMMA DecideStep ==
    ASSUME ApprovalInv, NEW p \in Session, ApplyDiff(p) \/ SkipDiff(p)
    PROVE  ApprovalInv'
<1> DEFINE d == Head(todo[p])
           new == IF pc[p] = "apply" THEN "approved" ELSE "skipped"
<1>1. /\ pc[p] \in {"decide", "apply"} /\ NextDiff(p)
      /\ put' = [put EXCEPT ![p][d] = new]
      /\ UNCHANGED <<tables, req, held>>
  BY DEF ApplyDiff, SkipDiff
<1>2. /\ ApprovalTypeOK /\ req[p] \in Request
      /\ RequestInPlace(p) /\ PutIsSound(p) /\ ClosingKnows(p)
  BY <1>1, Underway
<1>3. todo[p] # <<>>
  BY <1>1, <1>2 DEF RequestInPlace
<1>4. d \in Diff /\ d = todo[p][1] /\ 1 \in 1..Len(todo[p])
  BY <1>2, <1>3, CurrentDiff
<1>5. /\ todo' \in [Session -> Seq(Diff)]
      /\ pc' \in [Session -> {"idle", "run", "diff", "decide", "snapshot", "apply",
                              "close", "commit"}]
      /\ pc'[p] \in {"diff", "commit"}
      /\ pc'[p] = "diff" => todo'[p] # <<>>
      /\ \A i \in 1..Len(todo'[p]) :
            RunOf[todo'[p][i]] = req[p].run /\ decision[todo'[p][i]] # "none"
      /\ \A q \in Session \ {p} : pc'[q] = pc[q] /\ todo'[q] = todo[q]
  BY <1>1, NextDiffParts
<1>6. /\ put'[p] = [put[p] EXCEPT ![d] = new]
      /\ put' \in [Session -> [Diff -> {"none", "approved", "skipped"}]]
      /\ \A q \in Session \ {p} : put'[q] = put[q]
  <2>1. new \in {"none", "approved", "skipped"}
    OBVIOUS
  <2>2. put[p] \in [Diff -> {"none", "approved", "skipped"}]
    BY <1>2 DEF ApprovalTypeOK
  <2> HIDE DEF new, d
  <2> QED
    BY <1>1, <1>2, <1>4, <2>1, <2>2 DEF ApprovalTypeOK
<1>7. /\ seen' \in [Session -> [status : RunStatus, count : Nat]]
      /\ seen'[p].status = seen[p].status
      /\ seen'[p].count \in Nat
      /\ pc[p] = "apply" => seen'[p].count > 0
      /\ pc[p] = "decide" => seen' = seen
      /\ seen[p].count > 0 => seen'[p].count > 0
      /\ \A q \in Session \ {p} : seen'[q] = seen[q]
  <2>1. CASE ApplyDiff(p)
    <3>1. pc[p] = "apply" /\ seen' = [seen EXCEPT ![p].count = @ + 1]
      BY <2>1 DEF ApplyDiff
    <3>2. seen[p] \in [status : RunStatus, count : Nat] /\ seen[p].count \in Nat
      BY <1>2 DEF ApprovalTypeOK
    <3>3. /\ seen'[p] = [seen[p] EXCEPT !.count = seen[p].count + 1]
          /\ \A q \in Session \ {p} : seen'[q] = seen[q]
      BY <1>2, <3>1 DEF ApprovalTypeOK
    <3>4. /\ seen'[p].status = seen[p].status /\ seen'[p].count = seen[p].count + 1
          /\ seen'[p] \in [status : RunStatus, count : Nat]
      BY <3>2, <3>3
    <3>5. seen' \in [Session -> [status : RunStatus, count : Nat]]
      BY <1>2, <3>1, <3>2, <3>4 DEF ApprovalTypeOK
    <3> QED
      BY <3>1, <3>2, <3>3, <3>4, <3>5
  <2>2. CASE SkipDiff(p)
    BY <1>2, <2>2 DEF SkipDiff, ApprovalTypeOK
  <2> QED
    BY <2>1, <2>2
<1>8. ApprovalTypeOK'
  BY <1>1, <1>2, <1>5, <1>6, <1>7 DEF ApprovalTypeOK, tables
<1>9. RequestInPlace(p)'
  BY <1>1, <1>2, <1>5 DEF RequestInPlace, tables
<1>10. PutIsSound(p)'
  <2>1. /\ d \in held[p] /\ RunOf[d] = req[p].run
        /\ new = "approved" => decision[d] = "pending" /\ req[p].op = "approve"
        /\ new = "skipped" => decision[d] \in {"pending", "skipped"}
    <3>1. d \in held[p] /\ RunOf[d] = req[p].run /\ decision[d] # "none"
      BY <1>1, <1>2, <1>4 DEF RequestInPlace
    <3>2. pc[p] = "apply" => decision[d] = "pending" /\ req[p].op = "approve"
      BY <1>2 DEF RequestInPlace
    <3>3. pc[p] = "decide" => Current(p) # "approved"
      BY DEF SkipDiff, ApplyDiff, Skippable
    <3>4. pc[p] = "decide" => decision[d] \in {"pending", "skipped"}
      BY <1>2, <1>4, <3>1, <3>3 DEF Current, PutIsSound, ApprovalTypeOK, Decision
    <3> QED
      BY <1>1, <3>1, <3>2, <3>4
  <2>2. new \in {"approved", "skipped"} /\ (new = "approved" => seen'[p].count > 0)
    BY <1>7
  <2>3. \A e \in Diff : put'[p][e] = IF e = d THEN new ELSE put[p][e]
    BY <1>2, <1>4, <1>6 DEF ApprovalTypeOK
  <2> HIDE DEF d, new
  <2> QED
    BY <1>1, <1>2, <1>7, <2>1, <2>2, <2>3 DEF PutIsSound, tables
<1>11. ClosingKnows(p)'
  BY <1>1, <1>2, <1>5 DEF ClosingKnows, RequestInPlace, tables
<1>12. \A q \in Session \ {p} : Untouched(q) /\ held'[p] \cap held[q] = {}
  BY <1>1, <1>5, <1>6, <1>7 DEF Untouched, ApprovalInv, LocksExclude
<1> QED
  BY <1>1, <1>5, <1>8, <1>9, <1>10, <1>11, <1>12, LocalStep DEF SessionInv

\* finalize_run and cancel_run assign the status they will commit.
LEMMA CloseStep ==
    ASSUME ApprovalInv, NEW p \in Session, FinalizeRun(p) \/ CancelRun(p)
    PROVE  ApprovalInv'
<1> DEFINE new == IF req[p].op = "finalize" THEN "applied" ELSE "cancelled"
<1>1. /\ pc[p] = "close" /\ pc' = [pc EXCEPT ![p] = "commit"]
      /\ req[p].op \in {"finalize", "cancel"}
      /\ seen' = [seen EXCEPT ![p].status = new]
      /\ seen[p].status \notin {"applied", "cancelled"}
      /\ req[p].op = "finalize" => ~HasPending(req[p].run)
      /\ req[p].op = "cancel" => seen[p].count = 0
      /\ UNCHANGED <<tables, req, todo, held, put>>
  BY DEF FinalizeRun, CancelRun, Cancellable
<1>2. /\ ApprovalTypeOK /\ req[p] \in Request
      /\ RequestInPlace(p) /\ PutIsSound(p) /\ ClosingKnows(p)
  BY <1>1, Underway
<1>3. /\ pc'[p] = "commit" /\ seen'[p] = [seen[p] EXCEPT !.status = new]
      /\ \A q \in Session \ {p} : pc'[q] = pc[q] /\ seen'[q] = seen[q]
  BY <1>1, <1>2 DEF ApprovalTypeOK
<1>4. /\ seen'[p].status = new /\ seen'[p].count = seen[p].count
      /\ seen'[p] \in [status : RunStatus, count : Nat]
  <2>1. seen[p] \in [status : RunStatus, count : Nat] /\ new \in RunStatus
    BY <1>2 DEF ApprovalTypeOK, RunStatus
  <2> HIDE DEF new
  <2> QED
    BY <1>3, <2>1
<1>5. ApprovalTypeOK'
  BY <1>1, <1>2, <1>4 DEF ApprovalTypeOK, tables
<1>6. RequestInPlace(p)'
  BY <1>1, <1>2, <1>3 DEF RequestInPlace, tables
<1>7. PutIsSound(p)'
  BY <1>1, <1>2, <1>4 DEF PutIsSound, tables
<1>8. ClosingKnows(p)'
  BY <1>1, <1>2, <1>3, <1>4 DEF ClosingKnows, HasPending, tables
<1>9. \A q \in Session \ {p} : Untouched(q) /\ held'[p] \cap held[q] = {}
  BY <1>1, <1>3 DEF Untouched, ApprovalInv, LocksExclude
<1> QED
  BY <1>1, <1>3, <1>5, <1>6, <1>7, <1>8, <1>9, LocalStep DEF SessionInv

-----------------------------------------------------------------------------
(* Steps that change the tables *)

\* A new run concerns no request that is open, and its diffs are rows that were not
\* there.
LEMMA StartRunStep ==
    ASSUME ApprovalInv, NEW r \in Run, NEW k \in Kind, NEW differing \in SUBSET DiffsOf(r),
           StartRun(r, k, differing)
    PROVE  ApprovalInv'
<1>1. /\ status[r] = "none" /\ kind' = [kind EXCEPT ![r] = k]
      /\ decision' = [d \in Diff |-> IF d \in differing THEN "pending" ELSE decision[d]]
      /\ status' = [status EXCEPT ![r] = NewStatus(differing)]
      /\ UNCHANGED <<count, applied, pc, req, todo, seen, held, put>>
  BY DEF StartRun
<1>2. ApprovalTypeOK /\ TablesAgree /\ RunOf \in [Diff -> Run]
  BY DiffAssumption DEF ApprovalInv
<1>3. /\ \A d \in Diff : RunOf[d] = r => decision[d] = "none"
      /\ \A d \in differing : d \in Diff /\ RunOf[d] = r
  BY <1>1, <1>2 DEF TablesAgree, ApprovalTypeOK, DiffsOf
<1>4. /\ \A d \in Diff : decision'[d] = IF d \in differing THEN "pending" ELSE decision[d]
      /\ \A d \in Diff : RunOf[d] # r => decision'[d] = decision[d]
      /\ \A s \in Run \ {r} : status'[s] = status[s] /\ kind'[s] = kind[s]
      /\ status'[r] = IF differing = {} THEN "applied" ELSE "pending_approval"
  BY <1>1, <1>2, <1>3 DEF ApprovalTypeOK, NewStatus
<1>5. ApprovalTypeOK'
  BY <1>1, <1>2 DEF ApprovalTypeOK, NewStatus, RunStatus, Decision
<1>6. TablesAgree'
  <2>1. AppliedIffApproved'
    BY <1>1, <1>2, <1>3, <1>4 DEF TablesAgree, AppliedIffApproved
  <2>2. \A d \in Diff : decision'[d] # "none" => status'[RunOf[d]] # "none"
    BY <1>2, <1>3, <1>4 DEF TablesAgree
  <2>3. \A d \in Diff : decision'[d] = "approved" => count'[RunOf[d]] > 0
    BY <1>1, <1>2, <1>4 DEF TablesAgree
  <2>4. \A s \in Run : status'[s] = "applied" => ~HasPending(s)'
    <3>1. ASSUME NEW s \in Run \ {r}, status'[s] = "applied" PROVE ~HasPending(s)'
      BY <1>2, <1>4, <3>1 DEF TablesAgree, HasPending, DiffsOf
    <3>2. ASSUME status'[r] = "applied" PROVE ~HasPending(r)'
      BY <1>3, <1>4, <3>2 DEF HasPending, DiffsOf
    <3> QED
      BY <3>1, <3>2
  <2> QED
    BY <2>1, <2>2, <2>3, <2>4 DEF TablesAgree
<1>7. LocksExclude'
  BY <1>1 DEF ApprovalInv, LocksExclude
<1>8. ASSUME NEW p \in Session PROVE SessionInv(p)'
  <2>1. CASE pc[p] = "idle"
    BY <1>1, <2>1 DEF ApprovalInv, SessionInv
  <2>2. CASE pc[p] # "idle"
    <3>1. /\ req[p] \in Request /\ req[p].run \in Run
          /\ RequestInPlace(p) /\ PutIsSound(p) /\ ClosingKnows(p)
      BY <2>2, Underway
    <3>2. req[p].run # r
      BY <1>1, <3>1 DEF RequestInPlace
    <3>3. /\ status'[req[p].run] = status[req[p].run]
          /\ kind'[req[p].run] = kind[req[p].run]
          /\ \A d \in Diff : RunOf[d] = req[p].run => decision'[d] = decision[d]
      BY <1>4, <3>1, <3>2
    <3>4. \A i \in 1..Len(todo[p]) : todo[p][i] \in Diff
      BY <1>2, ElementOfSeq DEF ApprovalTypeOK
    <3>5. RequestInPlace(p)'
      <4>1. pc[p] \in {"snapshot", "apply"} =>
               Head(todo[p]) \in Diff /\ Head(todo[p]) = todo[p][1] /\ 1 \in 1..Len(todo[p])
        BY <1>2, <3>1, CurrentDiff DEF RequestInPlace
      <4> QED
        BY <1>1, <3>1, <3>3, <3>4, <4>1 DEF RequestInPlace
    <3>6. PutIsSound(p)'
      BY <1>1, <3>1, <3>3 DEF PutIsSound
    <3>7. ClosingKnows(p)'
      BY <1>1, <3>1, <3>3 DEF ClosingKnows, HasPending, DiffsOf
    <3> QED
      BY <1>1, <2>2, <3>5, <3>6, <3>7 DEF SessionInv
  <2> QED
    BY <2>1, <2>2
<1> QED
  BY <1>5, <1>6, <1>7, <1>8 DEF ApprovalInv

\* What a commit writes: each decision it puts was one it may put, the tally is that of
\* an approval, the status that of a close, and all of them are of the run it is about.
LEMMA CommitWrites ==
    ASSUME ApprovalInv, NEW p \in Session, Commit(p)
    PROVE  /\ \A d \in Diff :
                 /\ decision'[d] = IF put[p][d] = "none" THEN decision[d] ELSE put[p][d]
                 /\ applied'[d] = IF put[p][d] = "approved" THEN applied[d] + 1 ELSE applied[d]
                 /\ decision'[d] = "pending" => decision[d] = "pending"
                 /\ decision[d] # "none" => decision'[d] # "none"
           /\ \A r \in Run \ {req[p].run} : count'[r] = count[r] /\ status'[r] = status[r]
           /\ req[p].op = "skip" => count' = count /\ status' = status
           /\ IF req[p].op \in {"finalize", "cancel"}
              THEN status'[req[p].run] = seen[p].status
              ELSE status' = status
           /\ count' # count => count'[req[p].run] > 0
           /\ \A d \in Diff : put[p][d] = "approved" => count'[RunOf[d]] > 0
           /\ ApprovalTypeOK'
<1> DEFINE r == req[p].run
           new == {d \in Diff : put[p][d] = "approved"}
<1>1. /\ ApprovalTypeOK /\ pc[p] = "commit" /\ req[p].op \in Op
      /\ r \in Run /\ PutIsSound(p) /\ ClosingKnows(p) /\ End(p)
  BY Underway DEF Commit
<1>2. /\ decision' = [d \in Diff |-> IF put[p][d] = "none" THEN decision[d] ELSE put[p][d]]
      /\ applied' = [d \in Diff |-> IF d \in new THEN applied[d] + 1 ELSE applied[d]]
      /\ count' = IF new # {} THEN [count EXCEPT ![r] = seen[p].count] ELSE count
      /\ status' = IF req[p].op \in {"finalize", "cancel"}
                   THEN [status EXCEPT ![r] = seen[p].status] ELSE status
      /\ kind' = kind
  BY DEF Commit
<1>3. \A d \in new : seen[p].count > 0 /\ RunOf[d] = r /\ req[p].op = "approve"
  BY <1>1 DEF PutIsSound
<1>4. seen[p] \in [status : RunStatus, count : Nat] /\ put[p] \in [Diff -> {"none", "approved", "skipped"}]
  BY <1>1 DEF ApprovalTypeOK
<1>5. \A d \in Diff :
         /\ decision'[d] = IF put[p][d] = "none" THEN decision[d] ELSE put[p][d]
         /\ applied'[d] = IF put[p][d] = "approved" THEN applied[d] + 1 ELSE applied[d]
         /\ decision'[d] = "pending" => decision[d] = "pending"
         /\ decision[d] # "none" => decision'[d] # "none"
  BY <1>2, <1>4
<1>6. /\ \A s \in Run \ {r} : count'[s] = count[s] /\ status'[s] = status[s]
      /\ count' # count => count'[r] > 0
      /\ new # {} => count'[r] > 0
      /\ req[p].op = "skip" => count' = count /\ status' = status
      /\ IF req[p].op \in {"finalize", "cancel"}
         THEN status'[r] = seen[p].status
         ELSE status' = status
  <2> HIDE DEF r, new
  <2>1. \A d \in new : seen[p].count > 0 /\ req[p].op = "approve"
    BY <1>3
  <2> QED
    BY <1>1, <1>2, <2>1 DEF ApprovalTypeOK
<1>7. ApprovalTypeOK'
  <2>1. decision' \in [Diff -> Decision] /\ applied' \in [Diff -> Nat]
    BY <1>1, <1>2, <1>4 DEF ApprovalTypeOK, Decision
  <2>2. count' \in [Run -> Nat] /\ status' \in [Run -> RunStatus] /\ kind' = kind
    <3> HIDE DEF r, new
    <3> QED
      BY <1>1, <1>2, <1>4 DEF ApprovalTypeOK
  <2> QED
    BY <1>1, <2>1, <2>2, EndType DEF ApprovalTypeOK
<1>8. \A d \in Diff : put[p][d] = "approved" => count'[RunOf[d]] > 0
  BY <1>3, <1>6
<1> QED
  BY <1>5, <1>6, <1>7, <1>8

\* A commit leaves the rows that other requests hold as they are, and the tables in
\* agreement: it moves stock for the diffs it approves, which were pending until now.
LEMMA CommitStep ==
    ASSUME ApprovalInv, NEW p \in Session, Commit(p)
    PROVE  ApprovalInv'
<1>1. /\ ApprovalTypeOK /\ pc[p] = "commit" /\ req[p].op \in Op /\ req[p].run \in Run
      /\ RequestInPlace(p) /\ PutIsSound(p) /\ ClosingKnows(p) /\ End(p)
  BY Underway DEF Commit
<1>2. TablesAgree /\ LocksExclude /\ kind' = kind /\ RunOf \in [Diff -> Run]
  BY DiffAssumption DEF ApprovalInv, Commit
<1>3. /\ \A d \in Diff :
            /\ decision'[d] = IF put[p][d] = "none" THEN decision[d] ELSE put[p][d]
            /\ applied'[d] = IF put[p][d] = "approved" THEN applied[d] + 1 ELSE applied[d]
            /\ decision'[d] = "pending" => decision[d] = "pending"
            /\ decision[d] # "none" => decision'[d] # "none"
      /\ \A r \in Run \ {req[p].run} : count'[r] = count[r] /\ status'[r] = status[r]
      /\ req[p].op = "skip" => count' = count /\ status' = status
      /\ IF req[p].op \in {"finalize", "cancel"}
         THEN status'[req[p].run] = seen[p].status
         ELSE status' = status
      /\ count' # count => count'[req[p].run] > 0
      /\ \A d \in Diff : put[p][d] = "approved" => count'[RunOf[d]] > 0
      /\ ApprovalTypeOK'
  BY CommitWrites
<1>4. \A d \in Diff :
         /\ put[p][d] = "approved" => decision[d] = "pending"
         /\ put[p][d] = "skipped" => decision[d] \in {"pending", "skipped"}
         /\ put[p][d] \in {"none", "approved", "skipped"}
  BY <1>1 DEF PutIsSound, ApprovalTypeOK
<1>5. req[p].op \in {"finalize", "cancel"} =>
         /\ seen[p].status \in {"applied", "cancelled"}
         /\ seen[p].status = "applied" => ~HasPending(req[p].run)
  BY <1>1 DEF ClosingKnows
<1>6. \A r \in Run : status[r] # "none" => status'[r] # "none"
  BY <1>1, <1>3, <1>5
<1>7. TablesAgree'
  <2>1. AppliedIffApproved'
    <3>1. \A d \in Diff : applied[d] = IF decision[d] = "approved" THEN 1 ELSE 0
      BY <1>2 DEF TablesAgree, AppliedIffApproved
    <3>2. ASSUME NEW d \in Diff
          PROVE  applied'[d] = IF decision'[d] = "approved" THEN 1 ELSE 0
      BY <1>3, <1>4, <3>1
    <3> QED
      BY <3>2 DEF AppliedIffApproved
  <2>2. \A d \in Diff : decision'[d] # "none" => status'[RunOf[d]] # "none"
    BY <1>2, <1>3, <1>4, <1>6 DEF TablesAgree
  <2>3. \A d \in Diff : decision'[d] = "approved" => count'[RunOf[d]] > 0
    BY <1>1, <1>2, <1>3, <1>4 DEF TablesAgree
  <2>4. \A r \in Run : status'[r] = "applied" => ~HasPending(r)'
    <3>1. ASSUME NEW r \in Run, status'[r] = "applied" PROVE ~HasPending(r)
      BY <1>1, <1>2, <1>3, <1>5, <3>1 DEF TablesAgree
    <3> QED
      BY <1>3, <3>1 DEF HasPending, DiffsOf
  <2> QED
    BY <2>1, <2>2, <2>3, <2>4 DEF TablesAgree
<1>8. \A q \in Session \ {p} : Untouched(q)
  BY <1>1 DEF End, Untouched, ApprovalTypeOK
<1>9. held'[p] = {} /\ SessionInv(p)'
  BY <1>1, EndType
<1>10. LocksExclude'
  BY <1>2, <1>8, <1>9 DEF LocksExclude, Untouched
<1>11. ASSUME NEW q \in Session \ {p} PROVE SessionInv(q)'
  <2>1. CASE pc[q] = "idle"
    BY <1>8, <2>1 DEF ApprovalInv, SessionInv, Untouched
  <2>2. CASE pc[q] # "idle"
    <3>1. /\ req[q] \in Request /\ req[q].run \in Run /\ Untouched(q)
          /\ RequestInPlace(q) /\ PutIsSound(q) /\ ClosingKnows(q)
      BY <1>8, <2>2, Underway
    <3>2. \A d \in Diff : d \in held[q] => put[p][d] = "none" /\ decision'[d] = decision[d]
      BY <1>1, <1>2, <1>3 DEF LocksExclude, PutIsSound
    <3>3. req[q].run \in held[q] =>
             count'[req[q].run] = count[req[q].run] /\ status'[req[q].run] = status[req[q].run]
      <4>1. CASE req[p].op = "skip"
        BY <1>3, <4>1
      <4>2. CASE req[p].op # "skip"
        <5>1. req[p].run \in held[p]
          BY <1>1, <4>2 DEF RequestInPlace
        <5>2. req[q].run \in held[q] => req[q].run # req[p].run
          BY <1>2, <5>1 DEF LocksExclude
        <5> QED
          BY <1>3, <3>1, <5>2
      <4> QED
        BY <4>1, <4>2
    <3>4. \A i \in 1..Len(todo[q]) : todo[q][i] \in Diff
      BY <1>1, ElementOfSeq DEF ApprovalTypeOK
    <3>5. RequestInPlace(q)'
      <4>1. pc[q] \in {"snapshot", "apply"} =>
               /\ Head(todo[q]) \in Diff
               /\ decision'[Head(todo[q])] = decision[Head(todo[q])]
        <5>1. pc[q] \in {"snapshot", "apply"} => Head(todo[q]) \in held[q] /\ todo[q] # <<>>
          BY <3>1 DEF RequestInPlace
        <5> QED
          BY <1>1, <3>2, <5>1, CurrentDiff
      <4>2. /\ req[q] \in Request /\ status'[req[q].run] # "none"
            /\ \A i \in 1..Len(todo[q]) :
                  RunOf[todo[q][i]] = req[q].run /\ decision'[todo[q][i]] # "none"
        BY <1>3, <1>6, <3>1, <3>4 DEF RequestInPlace
      <4> QED
        BY <3>1, <4>1, <4>2 DEF RequestInPlace, Untouched
    <3>6. PutIsSound(q)'
      BY <3>1, <3>2 DEF PutIsSound, Untouched
    <3>7. ClosingKnows(q)'
      <4>1. ~HasPending(req[q].run) => ~HasPending(req[q].run)'
        BY <1>3, <3>1 DEF HasPending, DiffsOf, Untouched
      <4>2. pc[q] \in {"close", "commit"} /\ req[q].op \in {"finalize", "cancel"} =>
               req[q].run \in held[q]
        BY <3>1 DEF RequestInPlace
      <4> QED
        BY <1>2, <3>1, <3>3, <4>1, <4>2 DEF ClosingKnows, Untouched
    <3> QED
      BY <2>2, <3>1, <3>5, <3>6, <3>7 DEF SessionInv, Untouched
  <2> QED
    BY <2>1, <2>2
<1> QED
  BY <1>3, <1>7, <1>9, <1>10, <1>11 DEF ApprovalInv

-----------------------------------------------------------------------------
(* The invariant and what follows from it *)

LEMMA ApprovalInit == ASSUME Init PROVE ApprovalInv
<1>1. ApprovalTypeOK
  BY DEF Init, ApprovalTypeOK, RunStatus, Decision, Unseen, NoPut
<1> QED
  BY <1>1 DEF Init, ApprovalInv, TablesAgree, AppliedIffApproved, HasPending, LocksExclude,
              SessionInv

LEMMA ApprovalStep == ASSUME ApprovalInv, [Next]_vars PROVE ApprovalInv'
<1>1. ASSUME NEW r \in Run, NEW k \in Kind, NEW differing \in SUBSET DiffsOf(r),
             StartRun(r, k, differing)
      PROVE  ApprovalInv'
  BY <1>1, StartRunStep
<1>2. ASSUME NEW p \in Session, NEW r \in Request, Begin(p, r) PROVE ApprovalInv'
  BY <1>2, BeginStep
<1>3. ASSUME NEW p \in Session, Step(p) PROVE ApprovalInv'
  <2>1. CASE LockRun(p)
    BY <2>1, LockRunStep
  <2>2. CASE LockDiff(p) \/ LockSnapshot(p)
    BY <2>2, LockRowStep
  <2>3. CASE ApproveDiff(p)
    BY <2>3, ApproveDiffStep
  <2>4. CASE ApplyDiff(p) \/ SkipDiff(p)
    BY <2>4, DecideStep
  <2>5. CASE FinalizeRun(p) \/ CancelRun(p)
    BY <2>5, CloseStep
  <2>6. CASE RefuseDiff(p) \/ LeaveClosed(p) \/ RefuseClose(p)
    BY <2>6, RollbackStep DEF RefuseDiff, LeaveClosed, RefuseClose
  <2>7. CASE Commit(p)
    BY <2>7, CommitStep
  <2> QED
    BY <1>3, <2>1, <2>2, <2>3, <2>4, <2>5, <2>6, <2>7 DEF Step
<1>4. ASSUME NEW p \in Session, Fail(p) PROVE ApprovalInv'
  BY <1>4, RollbackStep DEF Fail
<1>5. CASE UNCHANGED vars
  <2>1. UNCHANGED <<kind, status, count, decision, applied, pc, req, todo, seen, held, put>>
    BY <1>5 DEF vars
  <2>2. ApprovalTypeOK' /\ TablesAgree' /\ LocksExclude'
    BY <2>1 DEF ApprovalInv, ApprovalTypeOK, TablesAgree, AppliedIffApproved, HasPending,
                LocksExclude
  <2>3. \A p \in Session : SessionInv(p)'
    BY <2>1 DEF ApprovalInv, SessionInv, RequestInPlace, PutIsSound, ClosingKnows, HasPending
  <2> QED
    BY <2>2, <2>3 DEF ApprovalInv
<1> QED
  BY <1>1, <1>2, <1>3, <1>4, <1>5 DEF Next

\* In every reachable state of any number of concurrent requests, crashes included,
\* the rows are typed, locks exclude each other, and each open request knows what
\* SessionInv says.
THEOREM ApprovalCorrect == Spec => []ApprovalInv
<1>1. Init => ApprovalInv
  BY ApprovalInit
<1>2. ApprovalInv /\ [Next]_vars => ApprovalInv'
  BY ApprovalStep
<1> QED
  BY <1>1, <1>2, PTL DEF Spec

\* approve_diff: a diff has moved stock exactly once if it is approved and never
\* otherwise, whatever approvals, skips and double clicks overlap.
THEOREM ApprovalMovesStockOnce == Spec => []AppliedIffApproved
<1>1. ApprovalInv => AppliedIffApproved
  BY DEF ApprovalInv, TablesAgree
<1> QED
  BY <1>1, ApprovalCorrect, PTL

\* start_run to cancel_run: decisions that moved stock or were skipped stand, an applied
\* run has nothing left to decide, and a run of the reconcile screen that is closed
\* stays closed, cancelled only with none of its diffs approved.
THEOREM ClosedRunsStayClosed == Spec => ClosedStaysClosed
<1> DEFINE Kept ==
    /\ \A d \in Diff :
            /\ decision[d] = "approved" => decision'[d] = "approved"
            /\ decision[d] = "skipped" => decision'[d] # "approved"
    /\ \A r \in Run :
            /\ status'[r] = "applied" => \A d \in DiffsOf(r) : decision'[d] # "pending"
            /\ kind[r] = "reconcile" /\ status[r] \in {"applied", "cancelled"} =>
                   status'[r] = status[r]
            /\ kind[r] = "reconcile" /\ status[r] # "cancelled" /\ status'[r] = "cancelled" =>
                   Approved(r) = {}
<1>1. ASSUME ApprovalInv, Next PROVE Kept
  <2> USE <1>1
  <2>1. \A r \in Run : status'[r] = "applied" => \A d \in DiffsOf(r) : decision'[d] # "pending"
    BY ApprovalStep DEF ApprovalInv, TablesAgree, HasPending, DiffsOf
  <2>2. CASE UNCHANGED tables
    <3>1. UNCHANGED <<kind, status, count, decision, applied>>
      BY <2>2 DEF tables
    <3> QED
      BY <2>1, <3>1
  <2>3. ASSUME NEW r \in Run, NEW k \in Kind, NEW differing \in SUBSET DiffsOf(r),
               StartRun(r, k, differing)
        PROVE  Kept
    <3>1. /\ ApprovalTypeOK /\ TablesAgree /\ RunOf \in [Diff -> Run]
      BY DiffAssumption DEF ApprovalInv
    <3>2. \A d \in differing : d \in Diff /\ decision[d] = "none"
      BY <2>3, <3>1 DEF StartRun, TablesAgree, DiffsOf, ApprovalTypeOK
    <3>3. \A d \in Diff : decision[d] # "none" => decision'[d] = decision[d]
      BY <2>3, <3>2 DEF StartRun
    <3>4. \A s \in Run : status[s] # "none" => status'[s] = status[s]
      BY <2>3, <3>1 DEF StartRun, ApprovalTypeOK
    <3>5. \A s \in Run : status[s] = "none" => status'[s] # "cancelled"
      BY <2>3, <3>1 DEF StartRun, ApprovalTypeOK, NewStatus
    <3> QED
      BY <2>1, <3>3, <3>4, <3>5
  <2>4. ASSUME NEW p \in Session, Commit(p) PROVE Kept
    <3>1. /\ ApprovalTypeOK /\ TablesAgree /\ pc[p] = "commit" /\ req[p].run \in Run
          /\ PutIsSound(p) /\ ClosingKnows(p)
      BY <2>4, Underway DEF ApprovalInv, Commit
    <3>2. /\ \A d \in Diff :
                decision'[d] = IF put[p][d] = "none" THEN decision[d] ELSE put[p][d]
          /\ \A r \in Run \ {req[p].run} : status'[r] = status[r]
          /\ IF req[p].op \in {"finalize", "cancel"}
             THEN status'[req[p].run] = seen[p].status
             ELSE status' = status
      BY <2>4, CommitWrites
    <3>3. \A d \in Diff :
            /\ decision[d] = "approved" => decision'[d] = "approved"
            /\ decision[d] = "skipped" => decision'[d] # "approved"
      BY <3>1, <3>2 DEF PutIsSound, ApprovalTypeOK
    <3>4. ASSUME NEW r \in Run, kind[r] = "reconcile", status[r] \in {"applied", "cancelled"}
          PROVE  status'[r] = status[r]
      BY <3>1, <3>2, <3>4 DEF ClosingKnows
    <3>5. ASSUME NEW r \in Run, kind[r] = "reconcile", status[r] # "cancelled",
                 status'[r] = "cancelled"
          PROVE  Approved(r) = {}
      <4>1. r = req[p].run /\ req[p].op = "cancel"
        BY <3>1, <3>2, <3>5 DEF ClosingKnows
      <4>2. count[r] = 0
        BY <3>1, <3>5, <4>1 DEF ClosingKnows
      <4> QED
        BY <3>1, <4>2 DEF TablesAgree, Approved, DiffsOf
    <3> QED
      BY <2>1, <3>3, <3>4, <3>5
  <2>5. ASSUME NEW p \in Session, Step(p) PROVE UNCHANGED tables \/ Commit(p)
    BY <2>5 DEF Step, LockRun, LockDiff, LockSnapshot, ApproveDiff, ApplyDiff, SkipDiff,
                RefuseDiff, FinalizeRun, CancelRun, LeaveClosed, RefuseClose, Rollback
  <2>6. ASSUME NEW p \in Session, NEW r \in Request, Begin(p, r) \/ Fail(p)
        PROVE  UNCHANGED tables
    BY <2>6 DEF Begin, Fail, Rollback
  <2>7. ASSUME NEW p \in Session, Fail(p) PROVE UNCHANGED tables
    BY <2>7 DEF Fail, Rollback
  <2> HIDE DEF Kept
  <2> QED
    BY <2>2, <2>3, <2>4, <2>5, <2>6, <2>7 DEF Next
<1>2. ApprovalInv /\ [Next]_vars => [Kept]_vars
  BY <1>1
<1>3. [][Kept]_vars => ClosedStaysClosed
  BY PTL DEF ClosedStaysClosed
<1> QED
  BY <1>2, <1>3, ApprovalCorrect, PTL DEF Spec

-----------------------------------------------------------------------------
(***************************************************************************)
(* The sheets those runs are made from.  A sum of entries that are not     *)
(* negative is zero only if an entry is; the rest is that differences,     *)
(* once found, are what they were when they are approved.                  *)
(***************************************************************************)
CONSTANTS ChannelKey, File, Stocked, Mappings, MaxQty, MaxRuns, MaxChanges
VARIABLES desk, changes

Sheet == INSTANCE Worksheets

-----------------------------------------------------------------------------
(* Sheets of figures *)

\* A sheet is a sequence of rows, and none has a negative figure.
Countable(file) ==
    /\ \E n \in Nat : DOMAIN file = 1 .. n
    /\ \A i \in DOMAIN file : file[i].qty \in Nat

\* The two sums of CountSheets, as sums over functions.
LEMMA RowsAreSummed ==
    ASSUME NEW file, NEW S
    PROVE  /\ MapThenSumSet(LAMBDA i : Entry(file[i]), S) = SumOver([i \in S |-> Entry(file[i])], S)
           /\ Sheet!MapThenSumSet(LAMBDA i : Sheet!Entry(file[i]), S)
                = SumOver([i \in S |-> Sheet!Entry(file[i])], S)
  BY DEF MapThenSumSet, MapThenFoldSet, Sheet!MapThenSumSet, Sheet!MapThenFoldSet, SumOver, IsSum

LEMMA KeysAreSummed ==
    ASSUME NEW q, NEW S
    PROVE  MapThenSumSet(LAMBDA k : q[k], S) = SumOver([k \in S |-> q[k]], S)
  BY DEF MapThenSumSet, MapThenFoldSet, SumOver, IsSum

\* A sheet has finitely many rows and keys.
LEMMA KeysAreFinite ==
    ASSUME NEW tool, NEW file, Countable(file)
    PROVE  IsFiniteSet(DOMAIN file) /\ IsFiniteSet(Keys(tool, file))
<1> DEFINE D == {j \in DOMAIN file : Entered(tool, file[j])}
           f == [i \in D |-> file[i].key]
<1>1. IsFiniteSet(DOMAIN file)
  BY FS_Interval DEF Countable
<1>2. IsFiniteSet(D)
  BY <1>1, FS_Subset
<1>3. f \in Surjection(D, Keys(tool, file))
  BY DEF Surjection, Keys
<1> QED
  BY <1>1, <1>2, <1>3, FS_Surjection

\* What a row that takes part enters is zero only if its cell says so.
LEMMA EntryNamesZero ==
    ASSUME NEW tool, NEW file, Countable(file), NEW i \in DOMAIN file, Entered(tool, file[i])
    PROVE  /\ Entry(file[i]) \in Nat
           /\ Entry(file[i]) = 0 => SaysZero(tool, file)
  BY DEF Countable, Entered, Readable, Entry, SaysZero

\* A key's quantity is zero only if one of its rows says so.
LEMMA QuantityNamesZero ==
    ASSUME NEW tool, NEW file, Countable(file), NEW k \in Keys(tool, file)
    PROVE  /\ Quantities(tool, file)[k] \in Nat
           /\ Quantities(tool, file)[k] = 0 => SaysZero(tool, file)
<1> DEFINE R == RowsOf(tool, file, k)
           w == [i \in R |-> Entry(file[i])]
<1>1. R \in SUBSET DOMAIN file /\ R # {}
  BY DEF RowsOf, Keys
<1>2. \A i \in R : w[i] \in Nat /\ (w[i] = 0 => SaysZero(tool, file))
  BY EntryNamesZero DEF RowsOf
<1>3. IsFiniteSet(R)
  BY <1>1, KeysAreFinite, FS_Subset
<1>4. Quantities(tool, file)[k] = SumOver(w, R)
  BY RowsAreSummed DEF Quantities
<1>5. SumOver(w, R) \in Nat /\ \A i \in R : SumOver(w, R) >= w[i]
  <2> HIDE DEF w, R
  <2> QED
    BY <1>2, <1>3, SumOfNats
<1>6. PICK i \in R : TRUE
  BY <1>1
<1> HIDE DEF w, R
<1> QED
  BY <1>2, <1>4, <1>5, <1>6

\* So does the target of a master, whatever the aliases of its keys.
LEMMA TargetNamesZero ==
    ASSUME NEW ch, NEW file, Countable(file), NEW m \in Named(ch, file)
    PROVE  TargetOf(ch, file, m) = 0 => SaysZero(ch, file)
<1> DEFINE K == {k \in MappedKeys(ch, file) : mapping[ch][k] = m}
           q == Quantities(ch, file)
           w == [k \in K |-> q[k]]
<1>1. K \in SUBSET Keys(ch, file) /\ K # {}
  BY DEF MappedKeys, Named
<1>2. IsFiniteSet(K)
  BY <1>1, KeysAreFinite, FS_Subset
<1>3. \A k \in K : w[k] = Quantities(ch, file)[k]
  OBVIOUS
<1>4. \A k \in K : w[k] \in Nat /\ (w[k] = 0 => SaysZero(ch, file))
  <2> HIDE DEF K, w, q
  <2> QED
    BY <1>1, <1>3, QuantityNamesZero
<1>5. TargetOf(ch, file, m) = SumOver(w, K)
  BY KeysAreSummed DEF TargetOf
<1>6. \A k \in K : SumOver(w, K) \in Nat /\ SumOver(w, K) >= w[k]
  <2> HIDE DEF K, w
  <2> QED
    BY <1>2, <1>4, SumOfNats
<1> HIDE DEF K, w
<1> QED
  BY <1>1, <1>4, <1>5, <1>6

-----------------------------------------------------------------------------
(* The invariant *)

\* What a tool makes of a sheet: only masters the sheet names, and a stocktake
\* proposes the figure it read.
SoundDiffs(tool, file, named, diffs) ==
    \A m \in DOMAIN diffs :
        /\ m \in named
        /\ Countable(file) /\ diffs[m].target = 0 => SaysZero(tool, file)
        /\ tool = "stocktake" => /\ m \in Keys("stocktake", file) \cap Master
                                 /\ diffs[m].target = Counts(file)[m]

\* Differences are sound when they are found, and stay as they were found; an
\* approval that stands has its target in stock.
SheetInv ==
    /\ \E S : runs \in Seq(S)
    /\ desk # Sheet!Idle =>
          /\ desk.tool \in Sheet!Tool /\ desk.file \in File[desk.tool]
          /\ SoundDiffs(desk.tool, desk.file, desk.named, desk.diffs)
    /\ \A r \in DOMAIN runs :
          /\ runs[r].tool \in Sheet!Tool /\ runs[r].file \in File[runs[r].tool]
          /\ SoundDiffs(runs[r].tool, runs[r].file, runs[r].named, runs[r].diffs)
    /\ \A s \in standing :
          /\ s[1] \in DOMAIN runs /\ s[2] \in DOMAIN runs[s[1]].diffs
          /\ OnHand(s[2]) = runs[s[1]].diffs[s[2]].target

\* Whatever tool reads whatever sheet, with the mappings and the stock of the moment.
LEMMA DiffsAreSound ==
    ASSUME NEW tool \in Sheet!Tool, NEW file
    PROVE  SoundDiffs(tool, file, NamedBy(tool, file), Diffs(tool, file))
<1>1. CASE tool = "stocktake"
  <2>1. ASSUME NEW m \in DOMAIN StocktakeDiffs(file)
        PROVE  /\ m \in Keys("stocktake", file) \cap Master
               /\ StocktakeDiffs(file)[m].target = Counts(file)[m]
    BY <2>1 DEF StocktakeDiffs, Differing, Counts
  <2>2. ASSUME NEW m \in Keys("stocktake", file), Counts(file)[m] = 0, Countable(file)
        PROVE  SaysZero("stocktake", file)
    <3> DEFINE R == RowsOf("stocktake", file, m)
    <3>1. R # {} /\ R \in SUBSET DOMAIN file
      BY DEF RowsOf, Keys
    <3>2. Min(R) \in R
      <4>1. R \in SUBSET Nat
        BY <2>2, <3>1 DEF Countable
      <4> HIDE DEF R
      <4> QED
        BY <3>1, <4>1, MinOfNats
    <3>3. Entry(file[Min(R)]) = 0
      BY <2>2 DEF Counts
    <3>4. PICK i : i = Min(R)
      OBVIOUS
    <3>5. i \in DOMAIN file /\ Entered("stocktake", file[i]) /\ Entry(file[i]) = 0
      BY <3>2, <3>3, <3>4 DEF RowsOf
    <3> QED
      BY <2>2, <3>5, EntryNamesZero
  <2> QED
    BY <1>1, <2>1, <2>2 DEF SoundDiffs, Diffs, NamedBy
<1>2. CASE tool \in {"crossmall", "shopify"}
  <2>1. \A m \in DOMAIN ChannelDiffs(tool, file) :
           m \in Named(tool, file) /\ ChannelDiffs(tool, file)[m].target = TargetOf(tool, file, m)
    BY DEF ChannelDiffs, Differing, Matched
  <2>2. Diffs(tool, file) = ChannelDiffs(tool, file) /\ NamedBy(tool, file) = Named(tool, file)
    BY <1>2 DEF Diffs, NamedBy, AuditDiffs
  <2> QED
    BY <1>2, <2>1, <2>2, TargetNamesZero DEF SoundDiffs
<1> QED
  BY <1>1, <1>2 DEF Sheet!Tool, Sheet!Channel

\* SheetInv is inductive.
LEMMA SheetInit == Sheet!Init => SheetInv
<1> SUFFICES ASSUME Sheet!Init PROVE SheetInv
  OBVIOUS
<1>1. runs = <<>> /\ runs \in Seq({})
  BY DEF Sheet!Init
<1>2. DOMAIN runs = {}
  BY <1>1
<1> QED
  BY <1>1, <1>2 DEF Sheet!Init, SheetInv

\* The operators of CountSheets that Worksheets uses are the same ones.
LEMMA SheetIsSame ==
    ASSUME NEW tool, NEW file
    PROVE  /\ Sheet!Diffs(tool, file) = Diffs(tool, file)
           /\ Sheet!NamedBy(tool, file) = NamedBy(tool, file)
           /\ \A m : Sheet!OnHand(m) = OnHand(m)
<1>1. \A m : Sheet!OnHand(m) = OnHand(m)
  BY DEF Sheet!OnHand, OnHand
<1>2. \A any : /\ \A k : Sheet!RowsOf(any, file, k) = RowsOf(any, file, k)
               /\ Sheet!Keys(any, file) = Keys(any, file)
  BY DEF Sheet!RowsOf, RowsOf, Sheet!Keys, Keys, Sheet!Entered, Entered, Sheet!Readable, Readable
<1>3. \A targets : Sheet!Differing(targets) = Differing(targets)
  BY <1>1 DEF Sheet!Differing, Differing
<1>4. Sheet!StocktakeDiffs(file) = StocktakeDiffs(file)
  BY <1>2, <1>3 DEF Sheet!StocktakeDiffs, StocktakeDiffs, Sheet!Counts, Counts, Sheet!Min, Min,
              Sheet!Entry, Entry
<1>5. ASSUME NEW ch PROVE Sheet!Quantities(ch, file) = Quantities(ch, file)
  <2>1. ASSUME NEW k \in Keys(ch, file) PROVE Sheet!Quantities(ch, file)[k] = Quantities(ch, file)[k]
    <3> DEFINE R == RowsOf(ch, file, k)
               S == Sheet!RowsOf(ch, file, k)
    <3>1. Quantities(ch, file)[k] = MapThenSumSet(LAMBDA i : Entry(file[i]), R)
      BY DEF Quantities
    <3>2. Sheet!Quantities(ch, file)[k] = Sheet!MapThenSumSet(LAMBDA i : Sheet!Entry(file[i]), S)
      BY <1>2 DEF Sheet!Quantities
    <3>3. R = S /\ [i \in R |-> Entry(file[i])] = [i \in S |-> Sheet!Entry(file[i])]
      BY <1>2 DEF Sheet!Entry, Entry
    <3> HIDE DEF R, S
    <3>4. MapThenSumSet(LAMBDA i : Entry(file[i]), R) = SumOver([i \in R |-> Entry(file[i])], R)
      BY RowsAreSummed
    <3>5. Sheet!MapThenSumSet(LAMBDA i : Sheet!Entry(file[i]), S)
             = SumOver([i \in S |-> Sheet!Entry(file[i])], S)
      BY RowsAreSummed
    <3> QED
      BY <3>1, <3>2, <3>3, <3>4, <3>5
  <2> QED
    BY <1>2, <2>1 DEF Sheet!Quantities, Quantities
<1>6. \A ch : /\ Sheet!MappedKeys(ch, file) = MappedKeys(ch, file)
             /\ Sheet!Named(ch, file) = Named(ch, file)
             /\ Sheet!Matched(ch, file) = Matched(ch, file)
  BY <1>2 DEF Sheet!MappedKeys, MappedKeys, Sheet!Named, Named, Sheet!Matched, Matched,
              Sheet!Analysable, Analysable
<1>7. ASSUME NEW ch, NEW m PROVE Sheet!TargetOf(ch, file, m) = TargetOf(ch, file, m)
  <2>1. ASSUME NEW S
        PROVE  MapThenSumSet(LAMBDA k : Quantities(ch, file)[k], S)
                 = Sheet!MapThenSumSet(LAMBDA k : Sheet!Quantities(ch, file)[k], S)
    <3>1. PICK q : q = Quantities(ch, file) /\ q = Sheet!Quantities(ch, file)
      BY <1>5
    <3>2. MapThenSumSet(LAMBDA k : q[k], S) = Sheet!MapThenSumSet(LAMBDA k : q[k], S)
      BY DEF MapThenSumSet, MapThenFoldSet, Sheet!MapThenSumSet, Sheet!MapThenFoldSet
    <3> QED
      BY <3>1, <3>2
  <2> QED
    BY <1>6, <2>1 DEF Sheet!TargetOf, TargetOf
<1>8. \A ch : Sheet!ChannelDiffs(ch, file) = ChannelDiffs(ch, file)
  BY <1>3, <1>6, <1>7 DEF Sheet!ChannelDiffs, ChannelDiffs
<1> QED
  BY <1>1, <1>2, <1>4, <1>6, <1>8
     DEF Sheet!Diffs, Diffs, Sheet!AuditDiffs, AuditDiffs, Sheet!NamedBy, NamedBy

\* A decision changes nothing else of a run.
RunsKeepDiffs ==
    /\ \E S : runs' \in Seq(S)
    /\ DOMAIN runs' = DOMAIN runs
    /\ \A q \in DOMAIN runs : /\ runs'[q].tool = runs[q].tool /\ runs'[q].file = runs[q].file
                              /\ runs'[q].named = runs[q].named /\ runs'[q].diffs = runs[q].diffs

LEMMA DecisionKeepsDiffs ==
    ASSUME \E S : runs \in Seq(S), NEW r \in DOMAIN runs, NEW m, NEW d,
           runs' = [runs EXCEPT ![r].decision[m] = d]
    PROVE  RunsKeepDiffs
<1>1. PICK S : runs \in Seq(S)
  OBVIOUS
<1>2. PICK e : e = runs'[r]
  OBVIOUS
<1>3. runs' \in Seq(S \cup {e})
  <2>1. runs' = [runs EXCEPT ![r] = e]
    BY <1>1, <1>2
  <2>2. runs \in Seq(S \cup {e}) /\ r \in 1 .. Len(runs)
    BY <1>1
  <2> QED
    BY <2>1, <2>2, ExceptSeq
<1> QED
  BY <1>3 DEF RunsKeepDiffs

\* Every step of Worksheets keeps SheetInv.
LEMMA SheetStep ==
    ASSUME SheetInv, [Sheet!Next]_Sheet!vars
    PROVE  SheetInv'
<1> USE DEF SheetInv
<1>1. ASSUME NEW tool \in Sheet!Tool, NEW by \in {"screen", "command"}, NEW file \in File[tool],
             Sheet!Read(tool, by, file)
      PROVE  SheetInv'
  <2> QED
    BY <1>1, SheetIsSame, DiffsAreSound DEF Sheet!Read, OnHand
<1>2. CASE Sheet!Start
  <2>1. PICK e : /\ runs' = Append(runs, e)
                 /\ e.tool \in Sheet!Tool /\ e.file \in File[e.tool]
                 /\ SoundDiffs(e.tool, e.file, e.named, e.diffs)
    <3> DEFINE fresh == desk.by = "screen"
               diffs == IF fresh THEN Diffs(desk.tool, desk.file) ELSE desk.diffs
               named == IF fresh THEN NamedBy(desk.tool, desk.file) ELSE desk.named
               e == [tool |-> desk.tool, file |-> desk.file, named |-> named, diffs |-> diffs,
                     decision |-> [m \in DOMAIN diffs |-> "pending"]]
    <3>1. SoundDiffs(desk.tool, desk.file, named, diffs)
      BY <1>2, DiffsAreSound DEF Sheet!Start
    <3>2. runs' = Append(runs, e)
      BY <1>2, SheetIsSame DEF Sheet!Start
    <3>3. e.tool \in Sheet!Tool /\ e.file \in File[e.tool]
      BY <1>2 DEF Sheet!Start
    <3>4. e.tool = desk.tool /\ e.file = desk.file /\ e.named = named /\ e.diffs = diffs
      OBVIOUS
    <3> HIDE DEF e, named, diffs
    <3> QED
      BY <3>1, <3>2, <3>3, <3>4
  <2>2. PICK S : runs \in Seq(S)
    OBVIOUS
  <2>3. /\ runs' \in Seq(S \cup {e})
        /\ DOMAIN runs' = DOMAIN runs \cup {Len(runs) + 1}
        /\ \A r \in DOMAIN runs : runs'[r] = runs[r]
        /\ runs'[Len(runs) + 1] = e
    <3>1. runs \in Seq(S \cup {e})
      BY <2>2
    <3>2. /\ Append(runs, e) \in Seq(S \cup {e})
          /\ Len(Append(runs, e)) = Len(runs) + 1
          /\ \A i \in 1 .. Len(runs) : Append(runs, e)[i] = runs[i]
          /\ Append(runs, e)[Len(runs) + 1] = e
      BY <3>1, AppendProperties
    <3> QED
      BY <2>1, <3>1, <3>2
  <2>4. \A r \in DOMAIN runs' :
           /\ runs'[r].tool \in Sheet!Tool /\ runs'[r].file \in File[runs'[r].tool]
           /\ SoundDiffs(runs'[r].tool, runs'[r].file, runs'[r].named, runs'[r].diffs)
    BY <2>1, <2>3
  <2>5. \A s \in standing' :
           /\ s[1] \in DOMAIN runs' /\ s[2] \in DOMAIN runs'[s[1]].diffs
           /\ OnHand(s[2])' = runs'[s[1]].diffs[s[2]].target
    BY <1>2, <2>3 DEF Sheet!Start, OnHand
  <2>6. desk' = Sheet!Idle
    BY <1>2 DEF Sheet!Start
  <2> QED
    BY <2>3, <2>4, <2>5, <2>6
<1>3. CASE Sheet!Leave
  BY <1>3 DEF Sheet!Leave, OnHand
<1>4. ASSUME NEW r \in DOMAIN runs, NEW m \in Master, Sheet!Approve(r, m) PROVE SheetInv'
  <2>1. /\ m \in DOMAIN runs[r].diffs
        /\ runs' = [runs EXCEPT ![r].decision[m] = "approved"]
        /\ stock' = With(stock, m, runs[r].diffs[m].target)
        /\ standing' = {s \in standing : s[2] # m} \cup {<<r, m>>}
        /\ desk' = desk
    BY <1>4 DEF Sheet!Approve, Sheet!Pending, Sheet!Result, Sheet!With, With
  <2>2. RunsKeepDiffs
    BY <2>1, DecisionKeepsDiffs DEF RunsKeepDiffs
  <2>3. OnHand(m)' = runs[r].diffs[m].target /\ \A n : n # m => OnHand(n)' = OnHand(n)
    BY <2>1 DEF OnHand, With
  <2> QED
    BY <2>1, <2>2, <2>3 DEF RunsKeepDiffs
<1>5. ASSUME NEW r \in DOMAIN runs, NEW m \in Master, Sheet!Skip(r, m) PROVE SheetInv'
  <2>1. runs' = [runs EXCEPT ![r].decision[m] = "skipped"] /\ UNCHANGED <<stock, standing, desk>>
    BY <1>5 DEF Sheet!Skip
  <2>2. RunsKeepDiffs
    BY <2>1, DecisionKeepsDiffs
  <2> QED
    BY <2>1, <2>2 DEF RunsKeepDiffs, OnHand
<1>6. ASSUME NEW m \in Master, Sheet!Move(m) PROVE SheetInv'
  BY <1>6 DEF Sheet!Move, Sheet!Changed, Sheet!OnHand, OnHand, Sheet!With
<1>7. ASSUME NEW ch \in Sheet!Channel, NEW k \in ChannelKey, Sheet!Remap(ch, k) PROVE SheetInv'
  BY <1>7 DEF Sheet!Remap, Sheet!Changed, OnHand
<1>8. ASSUME NEW m \in Master, NEW f \in {"bundle", "unmanaged", "archived"}, Sheet!Flag(m, f) PROVE SheetInv'
  BY <1>8 DEF Sheet!Flag, Sheet!Changed, OnHand
<1>9. CASE UNCHANGED Sheet!vars
  BY <1>9 DEF Sheet!vars, OnHand
<1> QED
  BY <1>1, <1>2, <1>3, <1>4, <1>5, <1>6, <1>7, <1>8, <1>9 DEF Sheet!Next

\* SheetInv is an invariant.
LEMMA SheetsAreKept == Sheet!Spec => []SheetInv
<1>1. Sheet!Init => SheetInv
  BY SheetInit
<1>2. SheetInv /\ [Sheet!Next]_Sheet!vars => SheetInv'
  BY SheetStep
<1> QED
  BY <1>1, <1>2, PTL DEF Sheet!Spec

\* audit_shopify_stock, reconcile_inventory and stocktake through start_run: whatever is
\* on the sheets, as long as no figure is negative, a run corrects only masters that a
\* row that takes part names, and proposes zero only from a sheet with a cell that says
\* zero; on a CROSS MALL export that includes the cells that cannot be read.
THEOREM AbsentStaysUntouched ==
    ASSUME \A tool \in Sheet!Tool : \A file \in File[tool] : Countable(file)
    PROVE  Sheet!Spec => []AbsentIsNotZero
<1>1. SheetInv => AbsentIsNotZero
  BY DEF SheetInv, SoundDiffs, AbsentIsNotZero
<1> QED
  BY <1>1, SheetsAreKept, PTL

\* approve_diff on a count: the stock is the approved figure until something else moves
\* the SKU, and the same stocktake sheet does not propose it again.
THEOREM CountsStand == Sheet!Spec => []ApprovedCountStands
<1>1. SheetInv => ApprovedCountStands
  <2>1. SUFFICES ASSUME SheetInv, NEW s \in standing
                 PROVE  LET run == runs[s[1]] IN
                        /\ OnHand(s[2]) = run.diffs[s[2]].target
                        /\ run.tool = "stocktake" => s[2] \notin DOMAIN StocktakeDiffs(run.file)
    BY DEF ApprovedCountStands
  <2>2. PICK run : run = runs[s[1]]
    OBVIOUS
  <2>3. /\ s[2] \in DOMAIN run.diffs /\ OnHand(s[2]) = run.diffs[s[2]].target
        /\ SoundDiffs(run.tool, run.file, run.named, run.diffs)
    BY <2>1, <2>2 DEF SheetInv
  <2>4. ASSUME run.tool = "stocktake" PROVE s[2] \notin DOMAIN StocktakeDiffs(run.file)
    <3>1. run.diffs[s[2]].target = Counts(run.file)[s[2]]
      BY <2>3, <2>4 DEF SoundDiffs
    <3> QED
      BY <2>3, <3>1 DEF StocktakeDiffs, Differing
  <2> QED
    BY <2>2, <2>3, <2>4
<1> QED
  BY <1>1, SheetsAreKept, PTL

-----------------------------------------------------------------------------
(* ChannelCalls: its token buckets                                         *)
(*                                                                         *)
(* Whatever a call is about, all it does to a bucket is to join its queue, *)
(* to take a token, or nothing.  That the tokens at hand and those that    *)
(* time has brought bound the excess is what makes the bound inductive.    *)

CONSTANTS FirstShop, Edits, FirstOrders, MaxAttempts, MaxEdits

VARIABLES edits, cached

Calls == INSTANCE ChannelCalls

\* A bucket has these fields; nothing is said of its queue.
IsBucket(b) ==
    /\ b = [tokens |-> b.tokens, idle |-> b.idle, queue |-> b.queue, excess |-> b.excess]
    /\ b.tokens \in Nat /\ b.idle \in Nat /\ b.excess \in Nat

\* What could be sent now and what was sent above the rate are no more than a full bucket.
Covered(ch, b) ==
    /\ b.tokens <= Capacity[ch]
    /\ b.excess + Least(Capacity[ch], b.tokens + b.idle * Rate[ch]) <= Capacity[ch]

BucketInv ==
    /\ bucket = [ch \in Endpoint |-> bucket[ch]]
    /\ \A ch \in Endpoint : IsBucket(bucket[ch]) /\ Covered(ch, bucket[ch])

LEMMA BucketInit ==
    ASSUME Calls!Init
    PROVE  BucketInv
<1>1. bucket = [ch \in Endpoint |-> FullBucket(ch)]
  BY DEF Calls!Init, Calls!AllFull, Calls!FullBucket, FullBucket, Calls!Endpoint, Endpoint
<1>2. ASSUME NEW ch \in Endpoint PROVE IsBucket(bucket[ch]) /\ Covered(ch, bucket[ch])
  <2>1. PICK b : b = bucket[ch]
    OBVIOUS
  <2>2. Capacity[ch] \in Nat /\ Rate[ch] \in Nat
    BY RateAssumption
  <2>3. b = [tokens |-> Capacity[ch], idle |-> 0, queue |-> <<>>, excess |-> 0]
    BY <1>1, <2>1 DEF FullBucket
  <2>4. IsBucket(b)
    BY <2>2, <2>3 DEF IsBucket
  <2>5. 0 * Rate[ch] = 0
    BY <2>2
  <2>6. Covered(ch, b)
    BY <2>2, <2>3, <2>5 DEF Covered, Least
  <2> QED
    BY <2>1, <2>4, <2>6
<1> QED
  BY <1>1, <1>2 DEF BucketInv

\* A step that brings one of the buckets from good to good.
LEMMA OneBucket ==
    ASSUME BucketInv, NEW ch \in Endpoint, NEW b, IsBucket(b), Covered(ch, b),
           bucket' = [bucket EXCEPT ![ch] = b]
    PROVE  BucketInv'
<1>1. bucket' = [d \in Endpoint |-> bucket'[d]]
  BY DEF BucketInv
<1>2. ASSUME NEW d \in Endpoint PROVE bucket'[d] = IF d = ch THEN b ELSE bucket[d]
  BY DEF BucketInv
<1> QED
  BY <1>1, <1>2 DEF BucketInv, IsBucket, Covered, Least

LEMMA QueueKeepsBucket ==
    ASSUME BucketInv, NEW t, NEW c, Calls!Queue(t, c)
    PROVE  BucketInv'
<1>1. PICK ch \in Endpoint : bucket' = [bucket EXCEPT ![ch].queue = Append(@, t)]
  BY DEF Calls!Queue, Calls!Join, Calls!ChannelOf, Endpoint
<1>2. PICK b : b = bucket[ch]
  OBVIOUS
<1>3. IsBucket(b) /\ Covered(ch, b)
  BY <1>2 DEF BucketInv
<1>4. PICK w : w = [b EXCEPT !.queue = Append(@, t)]
  OBVIOUS
<1>5. w = [tokens |-> b.tokens, idle |-> b.idle, queue |-> Append(b.queue, t),
           excess |-> b.excess]
  BY <1>3, <1>4 DEF IsBucket
<1>6. IsBucket(w)
  BY <1>3, <1>5 DEF IsBucket
<1>7. Covered(ch, w)
  BY <1>3, <1>5 DEF Covered
<1>8. bucket' = [bucket EXCEPT ![ch] = w]
  BY <1>1, <1>2, <1>4 DEF BucketInv
<1> QED
  BY <1>6, <1>7, <1>8, OneBucket

LEMMA SendKeepsBucket ==
    ASSUME BucketInv, NEW t, Calls!Send(t)
    PROVE  BucketInv'
<1>1. PICK ch \in Endpoint : ch = Calls!ChannelOf(call[t].op)
  BY DEF Calls!ChannelOf, Endpoint
<1>2. PICK b : b = bucket[ch]
  OBVIOUS
<1>3. IsBucket(b) /\ Covered(ch, b)
  BY <1>2 DEF BucketInv
<1>4. PICK cap \in Nat, rate \in Nat : cap = Capacity[ch] /\ rate = Rate[ch]
  BY RateAssumption
<1>5. PICK come : come = b.idle * rate
  OBVIOUS
<1>6. come \in Nat
  BY <1>3, <1>5 DEF IsBucket
<1>7. PICK tokens : tokens = Least(cap, b.tokens + come)
  OBVIOUS
<1>8. tokens \in Nat /\ tokens <= cap /\ b.excess + tokens <= cap
  BY <1>3, <1>4, <1>5, <1>6, <1>7 DEF IsBucket, Covered, Least
<1>9. PICK full : full = Refill(ch, b)
  OBVIOUS
<1>10. full = [tokens |-> tokens, idle |-> 0, queue |-> b.queue, excess |-> b.excess]
  BY <1>3, <1>4, <1>5, <1>7, <1>9 DEF Refill, IsBucket
<1>11. /\ full.tokens >= 1
       /\ bucket' = [bucket EXCEPT ![ch] =
                        [full EXCEPT !.tokens = @ - 1, !.queue = Tail(@), !.excess = @ + 1]]
  BY <1>1, <1>2, <1>9 DEF Calls!Send, Calls!Acquire, Calls!Refill, Refill, Calls!Least, Least
<1>12. PICK w : w = [full EXCEPT !.tokens = @ - 1, !.queue = Tail(@), !.excess = @ + 1]
  OBVIOUS
<1>13. w = [tokens |-> tokens - 1, idle |-> 0, queue |-> Tail(b.queue), excess |-> b.excess + 1]
  BY <1>10, <1>12
<1>14. IsBucket(w)
  BY <1>3, <1>8, <1>10, <1>11, <1>13 DEF IsBucket
<1>15. Covered(ch, w)
  <2>1. 0 * rate = 0
    OBVIOUS
  <2> QED
    BY <1>3, <1>4, <1>8, <1>10, <1>11, <1>13, <2>1 DEF IsBucket, Covered, Least
<1> QED
  BY <1>11, <1>12, <1>14, <1>15, OneBucket

LEMMA TickKeepsBucket ==
    ASSUME BucketInv, Calls!Tick
    PROVE  BucketInv'
<1>1. ASSUME NEW ch \in Endpoint PROVE IsBucket(bucket'[ch]) /\ Covered(ch, bucket'[ch])
  <2>1. PICK b : b = bucket[ch]
    OBVIOUS
  <2>2. IsBucket(b) /\ Covered(ch, b)
    BY <2>1 DEF BucketInv
  <2>3. PICK cap \in Nat, rate \in Nat : cap = Capacity[ch] /\ rate = Rate[ch]
    BY RateAssumption
  <2>4. PICK w : w = bucket'[ch]
    OBVIOUS
  <2>5. PICK idle : idle = Least(cap - b.tokens, b.idle + 1)
    OBVIOUS
  <2>6. PICK excess : excess = IF b.excess > rate THEN b.excess - rate ELSE 0
    OBVIOUS
  <2>7. w = [b EXCEPT !.idle = Least(cap - b.tokens, @ + 1),
                      !.excess = IF @ > rate THEN @ - rate ELSE 0]
    BY <2>1, <2>3, <2>4 DEF Calls!Tick, Calls!TimePasses, Calls!Least, Calls!Endpoint, Least, Endpoint
  <2>8. w = [tokens |-> b.tokens, idle |-> idle, queue |-> b.queue, excess |-> excess]
    BY <2>2, <2>5, <2>6, <2>7 DEF IsBucket
  <2>9. idle \in Nat /\ idle <= b.idle + 1 /\ excess \in Nat
    BY <2>2, <2>3, <2>5, <2>6 DEF IsBucket, Covered, Least
  <2>10. IsBucket(w)
    BY <2>2, <2>8, <2>9 DEF IsBucket
  <2>11. idle * rate <= b.idle * rate + rate
    <3>1. idle * rate <= (b.idle + 1) * rate
      BY <2>2, <2>9, TimesMonotone DEF IsBucket
    <3>2. (b.idle + 1) * rate = b.idle * rate + rate
      BY <2>2, SMT DEF IsBucket
    <3> QED
      BY <3>1, <3>2
  <2>12. Covered(ch, w)
    <3>1. PICK come \in Nat : come = b.idle * rate
      BY <2>2 DEF IsBucket
    <3>2. PICK comes \in Nat : comes = idle * rate
      BY <2>9
    <3>3. /\ b.tokens \in Nat /\ b.excess \in Nat /\ b.tokens <= cap
          /\ b.excess + Least(cap, b.tokens + come) <= cap
      BY <2>2, <2>3, <3>1 DEF IsBucket, Covered
    <3>4. excess + Least(cap, b.tokens + comes) <= cap
      BY <2>6, <2>11, <3>1, <3>2, <3>3 DEF Least
    <3> QED
      BY <2>3, <2>8, <3>2, <3>3, <3>4 DEF Covered
  <2> QED
    BY <2>4, <2>10, <2>12
<1>2. bucket' = [ch \in Endpoint |-> bucket'[ch]]
  BY DEF Calls!Tick, Calls!TimePasses, Calls!Endpoint, Endpoint
<1> QED
  BY <1>1, <1>2 DEF BucketInv, IsBucket, Covered, Least

\* Whatever any step of a call does to the call, all other steps than these two queue or
\* leave the buckets alone.
LEMMA CallsTouchQueues ==
    ASSUME BucketInv, NEW t \in Task, Calls!Start(t) \/ Calls!Step(t), ~ Calls!Send(t)
    PROVE  BucketInv'
<1> DEFINE Fine == UNCHANGED bucket \/ \E u, c : Calls!Queue(u, c)
<1>1. Fine => BucketInv'
  <2>1. ASSUME UNCHANGED bucket PROVE BucketInv'
    BY <2>1 DEF BucketInv
  <2>2. ASSUME NEW u, NEW c, Calls!Queue(u, c) PROVE BucketInv'
    BY <2>2, QueueKeepsBucket
  <2> QED
    BY <2>1, <2>2
<1>2. ASSUME NEW c, NEW step, Calls!Await(t, c, step) PROVE Fine
  BY <1>2 DEF Calls!Await
<1>3. ASSUME NEW c, NEW end, Calls!End(t, c, end) PROVE Fine
  BY <1>3 DEF Calls!End
<1> HIDE DEF Fine
<1>4. ASSUME NEW c, Calls!Again(t, c) PROVE Fine
  <2>1. (\E d : Calls!Queue(t, d)) => Fine
    BY DEF Fine
  <2> QED
    BY <1>3, <1>4, <2>1 DEF Calls!Again
<1>5. ASSUME NEW c, Calls!NextBatch(t, c) PROVE Fine
  BY <1>2, <1>3, <1>5 DEF Calls!NextBatch
<1>6. ASSUME NEW c, Calls!NextChunk(t, c) PROVE Fine
  BY <1>2, <1>3, <1>6 DEF Calls!NextChunk
<1>7. ASSUME Calls!Start(t) PROVE Fine
  <2>1. PICK op, c :
          \/ Calls!End(t, c, "failed") \/ Calls!Await(t, c, "locate")
          \/ Calls!Await(t, c, "lookup") \/ Calls!NextBatch(t, c) \/ Calls!NextChunk(t, c)
          \/ Calls!Await(t, c, "page")
    BY <1>7 DEF Calls!Start
  <2> QED
    BY <1>2, <1>3, <1>5, <1>6, <2>1
<1>8. ASSUME Calls!NoAnswer(t) \/ Calls!GraphQLErrors(t) PROVE Fine
  BY <1>3, <1>4, <1>8 DEF Calls!NoAnswer, Calls!GraphQLErrors
<1>9. ASSUME Calls!Locate(t) \/ Calls!Lookup(t) PROVE Fine
  BY <1>2, <1>3, <1>9 DEF Calls!Locate, Calls!Lookup
<1>10. ASSUME Calls!Write(t) PROVE Fine
  BY <1>3, <1>4, <1>10 DEF Calls!Write
<1>11. ASSUME Calls!Page(t) PROVE Fine
  <2>1. PICK c, end : Calls!End(t, c, end) \/ Calls!Await(t, c, "page")
    BY <1>11 DEF Calls!Page
  <2> QED
    BY <1>2, <1>3, <2>1
<1>12. ASSUME Calls!Upserted(t) PROVE Fine
  BY <1>5, <1>12 DEF Calls!Upserted
<1>13. ASSUME Calls!NotUpserted(t) PROVE Fine
  BY <1>3, <1>4, <1>13 DEF Calls!NotUpserted
<1>14. ASSUME Calls!Count(t) PROVE Fine
  BY <1>2, <1>6, <1>14 DEF Calls!Count
<1>15. ASSUME Calls!SearchAgain(t) \/ Calls!Get(t) PROVE Fine
  BY <1>2, <1>6, <1>15 DEF Calls!SearchAgain, Calls!Get
<1> QED
  BY <1>1, <1>7, <1>8, <1>9, <1>10, <1>11, <1>12, <1>13, <1>14, <1>15 DEF Calls!Step

LEMMA BucketNext ==
    ASSUME BucketInv, [Calls!Next]_(Calls!vars)
    PROVE  BucketInv'
<1>1. CASE Calls!Tick
  BY <1>1, TickKeepsBucket
<1>2. CASE Calls!EditShop \/ Calls!EditOrder
  BY <1>2 DEF Calls!EditShop, Calls!EditOrder, BucketInv
<1>3. ASSUME NEW t \in Task, Calls!Start(t) \/ Calls!Step(t) PROVE BucketInv'
  BY <1>3, SendKeepsBucket, CallsTouchQueues
<1>4. CASE UNCHANGED Calls!vars
  BY <1>4 DEF Calls!vars, BucketInv
<1> QED
  BY <1>1, <1>2, <1>3, <1>4 DEF Calls!Next

\* In no span of time does an adapter send more requests to a channel than a full bucket
\* and what the rate brought in that span, for any capacities, rates, number of callers,
\* kinds of calls and attempts (adapters/rate_limit.py).
THEOREM RequestsKeepTheRate ==
    Calls!Spec => []RateIsKept
<1>1. Calls!Init => BucketInv
  BY BucketInit
<1>2. BucketInv /\ [Calls!Next]_(Calls!vars) => BucketInv'
  BY BucketNext
<1>3. BucketInv => RateIsKept
  <2>1. ASSUME BucketInv, NEW ch \in Endpoint PROVE bucket[ch].excess <= Capacity[ch]
    <3>1. PICK b : b = bucket[ch]
      OBVIOUS
    <3>2. IsBucket(b) /\ Covered(ch, b)
      BY <2>1, <3>1 DEF BucketInv
    <3>3. PICK come : come = b.idle * Rate[ch]
      OBVIOUS
    <3>4. come \in Nat /\ Capacity[ch] \in Nat
      BY <3>2, <3>3, RateAssumption DEF IsBucket
    <3>5. b.excess <= Capacity[ch]
      BY <3>2, <3>3, <3>4 DEF IsBucket, Covered, Least
    <3> QED
      BY <3>1, <3>5
  <2> QED
    BY <2>1 DEF RateIsKept
<1> QED
  BY <1>1, <1>2, <1>3, PTL DEF Calls!Spec

-----------------------------------------------------------------------------
(* Writes.  What a write changed is known from how it ended because of     *)
(* what is known while it goes on: the rows it has seen acknowledged,      *)
(* those it still has to send and those of the request in hand make up     *)
(* what it took, and an item is set only after a lookup that found nothing *)
(* else.                                                                   *)

IsCall(c) ==
    c = [op |-> c.op, status |-> c.status, step |-> c.step, tries |-> c.tries,
         cursor |-> c.cursor, got |-> c.got, todo |-> c.todo, item |-> c.item,
         took |-> c.took, named |-> c.named, start |-> c.start, moved |-> c.moved]

Live(c) == c.status \in {"queued", "sent"}

\* The requests that a call of each kind is made of.
StepsOf(what) ==
    IF what = "set" THEN {"locate", "lookup", "write"}
    ELSE IF what = "upsert" THEN {"upsert"}
    ELSE {"locate", "page", "count", "search", "get"}

\* A call that has not begun has done nothing.
IdleInPlace(c) ==
    c.status = "idle" =>
        /\ c.got = <<>> /\ c.took = {}
        /\ c.op # NULL /\ c.op.kind = "upsert" => c.op.rows \in Seq(ToSet(c.op.rows))

SetInPlace(c) ==
    /\ c.took = {} \/ c.took = c.named
    /\ Live(c) /\ c.step = "write" => c.named = {c.item}
    /\ Live(c) /\ c.step # "write" => c.took = {}

UpsertInPlace(c) ==
    /\ c.got \in Seq(ToSet(c.op.rows)) /\ c.todo \in Seq(ToSet(c.op.rows))
    /\ ToSet(c.op.rows) = ToSet(c.got) \cup ToSet(c.todo)
    /\ Real(c.got) \subseteq c.took
    /\ c.took \subseteq Real(c.op.rows)
    /\ Live(c) => c.took \subseteq ToSet(c.got) \cup ToSet(Calls!Batch(c))
    /\ c.status = "ok" => c.todo = <<>>
    /\ c.status \in {"failed", "rejected"} => c.took \subseteq ToSet(c.got) \cup c.named

CallInPlace(c) ==
    /\ IsCall(c)
    /\ IdleInPlace(c)
    /\ c.status # "idle" =>
        /\ Live(c) => c.step \in StepsOf(c.op.kind)
        /\ c.op.kind = "set" => SetInPlace(c)
        /\ c.op.kind = "upsert" => UpsertInPlace(c)

\* What the calls have written altogether, and that Rakuten displays nothing else of it.
Written == UNION {call[t].took : t \in Upserting}

DisplayInPlace == \A p \in Pair : Taken(p) = {} \/ displayed[p] \in Taken(p)

CallsInv ==
    /\ call = [t \in Task |-> call[t]]
    /\ \A t \in Task : CallInPlace(call[t])
    /\ DisplayInPlace

LEMMA SplitSet ==
    ASSUME NEW S, NEW s \in Seq(S), NEW n \in 0..Len(s)
    PROVE  /\ SubSeq(s, 1, n) \in Seq(S) /\ SubSeq(s, n + 1, Len(s)) \in Seq(S)
           /\ Len(SubSeq(s, 1, n)) = n
           /\ ToSet(s) = ToSet(SubSeq(s, 1, n)) \cup ToSet(SubSeq(s, n + 1, Len(s)))
<1> DEFINE a == SubSeq(s, 1, n)
           b == SubSeq(s, n + 1, Len(s))
<1>1. /\ a \in Seq(S) /\ Len(a) = n
      /\ \A i \in 1..n : a[i] = s[i]
  <2>1. \A i \in 1..n : s[i] \in S
    OBVIOUS
  <2> QED
    BY <2>1, SubSeqProperties
<1>2. /\ b \in Seq(S) /\ Len(b) = Len(s) - n
      /\ \A i \in 1..(Len(s) - n) : b[i] = s[i + n]
  BY SubSeqProperties
<1> HIDE DEF a, b
<1>3. DOMAIN a = 1..n /\ DOMAIN b = 1..(Len(s) - n) /\ DOMAIN s = 1..Len(s)
  BY <1>1, <1>2
<1>4. \A i \in 1..Len(s) : i \in 1..n \/ (i - n \in 1..(Len(s) - n) /\ b[i - n] = s[i])
  BY <1>2
<1>5. ToSet(s) \subseteq ToSet(a) \cup ToSet(b)
  BY <1>1, <1>3, <1>4 DEF ToSet
<1>6. \A i \in 1..(Len(s) - n) : i + n \in 1..Len(s)
  OBVIOUS
<1>7. ToSet(a) \subseteq ToSet(s) /\ ToSet(b) \subseteq ToSet(s)
  <2>1. \A i \in DOMAIN a : i \in DOMAIN s /\ a[i] = s[i]
    BY <1>1, <1>3
  <2>2. \A i \in DOMAIN b : i + n \in DOMAIN s /\ b[i] = s[i + n]
    BY <1>2, <1>3, <1>6
  <2> QED
    BY <2>1, <2>2 DEF ToSet
<1> QED
  BY <1>1, <1>2, <1>5, <1>7 DEF a, b

LEMMA JoinSet ==
    ASSUME NEW S, NEW s \in Seq(S), NEW u \in Seq(S)
    PROVE  s \o u \in Seq(S) /\ ToSet(s \o u) = ToSet(s) \cup ToSet(u)
<1>1. /\ s \o u \in Seq(S) /\ Len(s \o u) = Len(s) + Len(u)
      /\ \A i \in 1..Len(s) + Len(u) :
            (s \o u)[i] = IF i <= Len(s) THEN s[i] ELSE u[i - Len(s)]
  BY ConcatProperties
<1> DEFINE a == s \o u
<1> HIDE DEF a
<1>2. DOMAIN a = 1..(Len(s) + Len(u)) /\ DOMAIN s = 1..Len(s) /\ DOMAIN u = 1..Len(u)
  BY <1>1 DEF a
<1>3. \A i \in 1..Len(s) : i \in DOMAIN a /\ a[i] = s[i]
  BY <1>1, <1>2 DEF a
<1>4. \A i \in 1..Len(u) : i + Len(s) \in DOMAIN a /\ a[i + Len(s)] = u[i]
  BY <1>1, <1>2 DEF a
<1>5. \A i \in DOMAIN a : (i \in DOMAIN s /\ a[i] = s[i])
                           \/ (i - Len(s) \in DOMAIN u /\ a[i] = u[i - Len(s)])
  BY <1>1, <1>2 DEF a
<1>6. ToSet(a) = ToSet(s) \cup ToSet(u)
  BY <1>2, <1>3, <1>4, <1>5 DEF ToSet
<1> QED
  BY <1>1, <1>6 DEF a

\* The names of the modules that ChannelCalls extends mean there what they mean here.
LEMMA SameNames ==
    /\ \A s : Calls!ToSet(s) = ToSet(s)
    /\ \A s : Calls!Real(s) = Real(s)
    /\ \A m, n : Calls!Least(m, n) = Least(m, n)
BY DEF Calls!ToSet, ToSet, Calls!Real, Real, Calls!Least, Least

-----------------------------------------------------------------------------
\* All of a call but its status, the request in hand and its attempts.
Same(d, c) ==
    /\ d.op = c.op /\ d.cursor = c.cursor /\ d.got = c.got /\ d.todo = c.todo
    /\ d.item = c.item /\ d.took = c.took /\ d.named = c.named
    /\ d.start = c.start /\ d.moved = c.moved

\* A call goes on as c does, but for its status and the request in hand.
Becomes(t, c, ending, step) ==
    \E d : /\ call' = [call EXCEPT ![t] = d]
           /\ IsCall(d) /\ Same(d, c)
           /\ d.status = ending /\ (Live(d) => d.step = step)

LEMMA EndIs ==
    ASSUME NEW t, NEW c, NEW ending, NEW step, IsCall(c), Calls!End(t, c, ending),
           ending \notin {"queued", "sent"}
    PROVE  Becomes(t, c, ending, step)
<1>1. PICK d : d = [c EXCEPT !.status = ending]
  OBVIOUS
<1>2. IsCall(d) /\ Same(d, c) /\ d.status = ending
  BY <1>1 DEF IsCall, Same
<1>3. call' = [call EXCEPT ![t] = d]
  BY <1>1 DEF Calls!End
<1> QED
  BY <1>2, <1>3 DEF Becomes, Live

LEMMA QueueIs ==
    ASSUME NEW t, NEW c, IsCall(c), Calls!Queue(t, c)
    PROVE  Becomes(t, c, "queued", c.step)
<1>1. PICK d : d = [c EXCEPT !.status = "queued"]
  OBVIOUS
<1>2. IsCall(d) /\ Same(d, c) /\ d.status = "queued" /\ d.step = c.step
  BY <1>1 DEF IsCall, Same
<1>3. call' = [call EXCEPT ![t] = d]
  BY <1>1 DEF Calls!Queue
<1> QED
  BY <1>2, <1>3 DEF Becomes, Live

LEMMA AwaitIs ==
    ASSUME NEW t, NEW c, NEW step, IsCall(c), Calls!Await(t, c, step)
    PROVE  Becomes(t, c, "queued", step)
<1>1. PICK d : d = [c EXCEPT !.step = step, !.tries = 0]
  OBVIOUS
<1>2. IsCall(d) /\ Same(d, c) /\ d.step = step
  BY <1>1 DEF IsCall, Same
<1>3. Becomes(t, d, "queued", step)
  BY <1>1, <1>2, QueueIs DEF Calls!Await
<1> QED
  BY <1>2, <1>3 DEF Becomes, Same

LEMMA AgainIs ==
    ASSUME NEW t, NEW c, IsCall(c), Calls!Again(t, c)
    PROVE  Becomes(t, c, "queued", c.step) \/ Becomes(t, c, "unanswered", c.step)
<1>1. CASE Calls!Queue(t, [c EXCEPT !.tries = @ + 1])
  <2>1. PICK d : d = [c EXCEPT !.tries = @ + 1]
    OBVIOUS
  <2>2. IsCall(d) /\ Same(d, c) /\ d.step = c.step
    BY <2>1 DEF IsCall, Same
  <2>3. Becomes(t, d, "queued", c.step)
    BY <1>1, <2>1, <2>2, QueueIs
  <2> QED
    BY <2>2, <2>3 DEF Becomes, Same
<1>2. CASE Calls!End(t, c, "unanswered")
  BY <1>2, EndIs
<1> QED
  BY <1>1, <1>2 DEF Calls!Again

\* What a step of a call has to show: that the call is in its place after it, and that
\* what Rakuten displays changed to what the step wrote.
Displays(some) ==
    \A p \in Pair :
        \/ \E r \in some : r.variant = p /\ displayed'[p] = r.qty
        \/ (\A r \in some : r.variant # p) /\ displayed'[p] = displayed[p]

Told(c) == IF c.status # "idle" /\ c.op.kind = "upsert" THEN c.took ELSE {}

LEMMA StepKeeps ==
    ASSUME CallsInv, NEW t \in Task, NEW d, NEW some,
           call' = [call EXCEPT ![t] = d], CallInPlace(d),
           Told(d) = Told(call[t]) \cup some, Displays(some)
    PROVE  CallsInv'
<1>1. call' = [u \in Task |-> IF u = t THEN d ELSE call[u]]
  BY DEF CallsInv
<1>2. call' = [u \in Task |-> call'[u]]
  BY <1>1
<1>3. ASSUME NEW u \in Task PROVE CallInPlace(call[u])'
  <2>1. CallInPlace(call'[u])
    BY <1>1 DEF CallsInv
  <2> QED
    BY <2>1 DEF CallInPlace, IsCall, IdleInPlace, SetInPlace, UpsertInPlace, Live, StepsOf,
                Real, ToSet, Calls!Batch, Calls!Least
<1> DEFINE All == UNION {Told(call[u]) : u \in Task}
<1>4. Written = All
  BY DEF Written, Upserting, Told
<1>5. Written' = UNION {Told(call'[u]) : u \in Task}
  BY DEF Written, Upserting, Told
<1>6. Told(call'[t]) = Told(call[t]) \cup some
  BY <1>1
<1>7. \A u \in Task : u # t => Told(call'[u]) = Told(call[u])
  BY <1>1
<1> HIDE DEF Told
<1>8. Written' = Written \cup some
  BY <1>4, <1>5, <1>6, <1>7, Zenon
<1>9. \A p \in Pair : Taken(p) = {r.qty : r \in {s \in Written : s.variant = p}}
  BY DEF Taken, Written
<1>10. \A p \in Pair : Taken(p)' = {r.qty : r \in {s \in Written' : s.variant = p}}
  BY DEF Taken, Written
<1>11. ASSUME NEW p \in Pair PROVE Taken(p)' = {} \/ displayed'[p] \in Taken(p)'
  <2>1. CASE \E r \in some : r.variant = p /\ displayed'[p] = r.qty
    BY <1>8, <1>10, <2>1
  <2>2. CASE (\A r \in some : r.variant # p) /\ displayed'[p] = displayed[p]
    <3>1. Taken(p)' = Taken(p)
      BY <1>8, <1>9, <1>10, <2>2
    <3> QED
      BY <2>2, <3>1 DEF CallsInv, DisplayInPlace
  <2> QED
    BY <2>1, <2>2 DEF Displays
<1> QED
  BY <1>2, <1>3, <1>11 DEF CallsInv, DisplayInPlace

\* A step that writes nothing at Rakuten, of a call that remains in its place.
LEMMA QuietStep ==
    ASSUME CallsInv, NEW t \in Task, NEW d,
           call' = [call EXCEPT ![t] = d], CallInPlace(d), Told(d) = Told(call[t]),
           displayed' = displayed
    PROVE  CallsInv'
<1>1. Displays({}) /\ Told(d) = Told(call[t]) \cup {}
  BY DEF Displays
<1> QED
  BY <1>1, StepKeeps

\* Other kinds of calls have little to show.
LEMMA OtherStep ==
    ASSUME CallsInv, NEW t \in Task, NEW c, NEW ending, NEW step,
           Becomes(t, c, ending, step), c.op = call[t].op, c.op.kind \notin {"set", "upsert"},
           ending # "idle", step \in StepsOf(c.op.kind) \/ ending \notin {"queued", "sent"},
           displayed' = displayed
    PROVE  CallsInv'
<1>1. PICK d : call' = [call EXCEPT ![t] = d] /\ IsCall(d) /\ d.status = ending
               /\ (Live(d) => d.step = step) /\ d.op = c.op
  BY DEF Becomes, Same
<1>2. CallInPlace(d)
  BY <1>1 DEF CallInPlace, IdleInPlace, Live
<1>3. Told(d) = {} /\ Told(call[t]) = {}
  BY <1>1 DEF Told
<1> QED
  BY <1>1, <1>2, <1>3, QuietStep

LEMMA SetStep ==
    ASSUME CallsInv, NEW t \in Task, NEW c, NEW ending, NEW step,
           Becomes(t, c, ending, step), c.op = call[t].op, c.op.kind = "set",
           ending # "idle", step \in StepsOf("set") \/ ending \notin {"queued", "sent"},
           c.took = {} \/ c.took = c.named,
           ending \in {"queued", "sent"} =>
               IF step = "write" THEN c.named = {c.item} ELSE c.took = {},
           displayed' = displayed
    PROVE  CallsInv'
<1>1. PICK d : /\ call' = [call EXCEPT ![t] = d] /\ IsCall(d) /\ d.status = ending
               /\ (Live(d) => d.step = step) /\ d.op = c.op
               /\ d.item = c.item /\ d.took = c.took /\ d.named = c.named
  BY DEF Becomes, Same
<1>2. SetInPlace(d)
  BY <1>1 DEF SetInPlace, Live
<1>3. CallInPlace(d)
  BY <1>1, <1>2 DEF CallInPlace, IdleInPlace, Live
<1>4. Told(d) = {} /\ Told(call[t]) = {}
  BY <1>1 DEF Told
<1> QED
  BY <1>1, <1>3, <1>4, QuietStep

LEMMA UpsertStep ==
    ASSUME CallsInv, NEW t \in Task, NEW c, NEW ending, NEW some,
           Becomes(t, c, ending, "upsert"), c.op = call[t].op, c.op.kind = "upsert",
           ending # "idle",
           \A d : d.status = ending /\ d.op = c.op /\ d.got = c.got /\ d.todo = c.todo
                    /\ d.took = c.took /\ d.named = c.named => UpsertInPlace(d),
           c.took = Told(call[t]) \cup some, Displays(some)
    PROVE  CallsInv'
<1>1. PICK d : /\ call' = [call EXCEPT ![t] = d] /\ IsCall(d) /\ d.status = ending
               /\ (Live(d) => d.step = "upsert") /\ d.op = c.op /\ d.got = c.got
               /\ d.todo = c.todo /\ d.took = c.took /\ d.named = c.named
  BY DEF Becomes, Same
<1>2. UpsertInPlace(d)
  BY <1>1
<1>3. CallInPlace(d)
  BY <1>1, <1>2 DEF CallInPlace, IdleInPlace, StepsOf
<1>4. Told(d) = Told(call[t]) \cup some
  BY <1>1 DEF Told
<1> QED
  BY <1>1, <1>3, <1>4, StepKeeps

-----------------------------------------------------------------------------
LEMMA AcceptsDisplays ==
    ASSUME NEW rows, NEW some, some \subseteq Real(rows), Calls!Accepts(rows, some)
    PROVE  Displays(some)
<1>1. displayed' = [p \in Pair |->
        IF \E r \in ToSet(rows) : r.variant = p /\ r \in some
        THEN (CHOOSE r \in ToSet(rows) : r.variant = p /\ r \in some).qty
        ELSE displayed[p]]
  BY SameNames DEF Calls!Accepts
<1>2. some \subseteq ToSet(rows)
  BY DEF Real
<1>3. ASSUME NEW p \in Pair, \E r \in ToSet(rows) : r.variant = p /\ r \in some
      PROVE  \E r \in some : r.variant = p /\ displayed'[p] = r.qty
  <2>1. PICK r : r = CHOOSE s \in ToSet(rows) : s.variant = p /\ s \in some
    OBVIOUS
  <2>2. r.variant = p /\ r \in some
    BY <1>3, <2>1
  <2>3. displayed'[p] = r.qty
    BY <1>1, <1>3, <2>1
  <2> QED
    BY <2>2, <2>3
<1>4. ASSUME NEW p \in Pair, ~ \E r \in ToSet(rows) : r.variant = p /\ r \in some
      PROVE  (\A r \in some : r.variant # p) /\ displayed'[p] = displayed[p]
  BY <1>1, <1>2, <1>4
<1> QED
  BY <1>3, <1>4 DEF Displays

LEMMA NothingDisplayed ==
    ASSUME displayed' = displayed
    PROVE  Displays({})
BY DEF Displays

\* The request in hand is the head of what is still to be sent.
LEMMA BatchIs ==
    ASSUME NEW c, NEW S, c.todo \in Seq(S)
    PROVE  LET rows == Calls!Batch(c)
               rest == SubSeq(c.todo, Len(rows) + 1, Len(c.todo))
           IN  /\ rows \in Seq(S) /\ rest \in Seq(S)
               /\ ToSet(c.todo) = ToSet(rows) \cup ToSet(rest)
<1>1. PICK n : n = Least(BatchSize, Len(c.todo))
  OBVIOUS
<1>2. n \in 0..Len(c.todo)
  BY <1>1, CallsAssumption DEF Least
<1>3. Calls!Batch(c) = SubSeq(c.todo, 1, n)
  BY <1>1, SameNames DEF Calls!Batch
<1> QED
  BY <1>2, <1>3, SplitSet

\* A call that goes on to its next batch has taken what was acknowledged and no more.
LEMMA NextBatchKeeps ==
    ASSUME CallsInv, NEW t \in Task, NEW c, NEW some, IsCall(c),
           c.op = call[t].op, c.op.kind = "upsert",
           c.got \in Seq(ToSet(c.op.rows)), c.todo \in Seq(ToSet(c.op.rows)),
           ToSet(c.op.rows) = ToSet(c.got) \cup ToSet(c.todo),
           Real(c.got) \subseteq c.took, c.took \subseteq Real(c.op.rows),
           c.took \subseteq ToSet(c.got),
           c.took = Told(call[t]) \cup some, Displays(some), Calls!NextBatch(t, c)
    PROVE  CallsInv'
<1> DEFINE Good(ending) ==
        \A d : d.status = ending /\ d.op = c.op /\ d.got = c.got /\ d.todo = c.todo
                    /\ d.took = c.took /\ d.named = c.named => UpsertInPlace(d)
<1>1. CASE c.todo = <<>> /\ Calls!End(t, c, "ok")
  <2>1. Becomes(t, c, "ok", "upsert")
    BY <1>1, EndIs
  <2>2. Good("ok")
    BY <1>1 DEF UpsertInPlace, Live
  <2> QED
    BY <2>1, <2>2, UpsertStep
<1>2. CASE Calls!Await(t, c, "upsert")
  <2>1. Becomes(t, c, "queued", "upsert")
    BY <1>2, AwaitIs
  <2>2. Good("queued")
    BY DEF UpsertInPlace
  <2> QED
    BY <2>1, <2>2, UpsertStep
<1>3. CASE Calls!End(t, c, "failed")
  <2>1. Becomes(t, c, "failed", "upsert")
    BY <1>3, EndIs
  <2>2. Good("failed")
    BY DEF UpsertInPlace, Live
  <2> QED
    BY <2>1, <2>2, UpsertStep
<1> QED
  BY <1>1, <1>2, <1>3 DEF Calls!NextBatch

LEMMA UpsertedKeeps ==
    ASSUME CallsInv, NEW t \in Task, Calls!Upserted(t)
    PROVE  CallsInv'
<1>1. PICK c : c = call[t]
  OBVIOUS
<1>2. PICK rows : rows = Calls!Batch(c)
  OBVIOUS
<1>3. c.status = "sent" /\ c.step = "upsert" /\ IsCall(c) /\ CallInPlace(c)
  BY <1>1 DEF Calls!Upserted, Calls!InHand, CallsInv, CallInPlace
<1>4. c.op.kind = "upsert" /\ UpsertInPlace(c)
  BY <1>3 DEF CallInPlace, Live, StepsOf
<1>5. PICK S : S = ToSet(c.op.rows)
  OBVIOUS
<1>6. c.got \in Seq(S) /\ c.todo \in Seq(S)
  BY <1>4, <1>5 DEF UpsertInPlace
<1>7. PICK rest : rest = SubSeq(c.todo, Len(rows) + 1, Len(c.todo))
  OBVIOUS
<1>8. rows \in Seq(S) /\ rest \in Seq(S) /\ ToSet(c.todo) = ToSet(rows) \cup ToSet(rest)
  BY <1>2, <1>6, <1>7, BatchIs
<1>9. PICK got : got = c.got \o rows
  OBVIOUS
<1>10. got \in Seq(S) /\ ToSet(got) = ToSet(c.got) \cup ToSet(rows)
  BY <1>6, <1>8, <1>9, JoinSet
<1>11. PICK d : d = [c EXCEPT !.todo = rest, !.got = got, !.took = @ \cup Real(rows)]
  OBVIOUS
<1>12. Calls!NextBatch(t, d) /\ Displays(Real(rows))
  BY <1>1, <1>2, <1>7, <1>9, <1>11, SameNames, AcceptsDisplays DEF Calls!Upserted
<1>13. /\ IsCall(d) /\ d.op = c.op /\ d.todo = rest /\ d.got = got
       /\ d.took = c.took \cup Real(rows)
  BY <1>3, <1>11 DEF IsCall
<1>14. ToSet(c.op.rows) = ToSet(got) \cup ToSet(rest)
  BY <1>4, <1>8, <1>10 DEF UpsertInPlace
<1>15. /\ Real(got) \subseteq d.took /\ d.took \subseteq Real(c.op.rows)
       /\ d.took \subseteq ToSet(got)
  BY <1>2, <1>3, <1>4, <1>10, <1>13, <1>14 DEF UpsertInPlace, Live, Real
<1>16. d.took = Told(call[t]) \cup Real(rows)
  BY <1>1, <1>3, <1>4, <1>13 DEF Told
<1> QED
  BY <1>1, <1>4, <1>5, <1>8, <1>10, <1>12, <1>13, <1>14, <1>15, <1>16, NextBatchKeeps

LEMMA NotUpsertedKeeps ==
    ASSUME CallsInv, NEW t \in Task, Calls!NotUpserted(t)
    PROVE  CallsInv'
<1>1. PICK c : c = call[t]
  OBVIOUS
<1>2. PICK rows : rows = Calls!Batch(c)
  OBVIOUS
<1>3. c.status = "sent" /\ c.step = "upsert" /\ IsCall(c) /\ CallInPlace(c)
  BY <1>1 DEF Calls!NotUpserted, Calls!InHand, CallsInv, CallInPlace
<1>4. c.op.kind = "upsert" /\ UpsertInPlace(c)
  BY <1>3 DEF CallInPlace, Live, StepsOf
<1>5. PICK some \in SUBSET Real(rows) :
        /\ Calls!Accepts(rows, some)
        /\ \/ Calls!End(t, [[c EXCEPT !.took = @ \cup some] EXCEPT !.named = ToSet(rows)],
                        "rejected")
           \/ Calls!Again(t, [c EXCEPT !.took = @ \cup some])
  BY <1>1, <1>2, SameNames DEF Calls!NotUpserted, Calls!RowsToReread
<1>6. Displays(some)
  BY <1>5, AcceptsDisplays
<1>7. PICK d : d = [c EXCEPT !.took = @ \cup some]
  OBVIOUS
<1>8. /\ IsCall(d) /\ d.op = c.op /\ d.todo = c.todo /\ d.got = c.got /\ d.step = "upsert"
      /\ d.took = c.took \cup some
  BY <1>3, <1>7 DEF IsCall
<1>9. ToSet(rows) \subseteq ToSet(c.op.rows)
  BY <1>2, <1>4, BatchIs DEF UpsertInPlace
<1>10. /\ Real(c.got) \subseteq d.took /\ d.took \subseteq Real(c.op.rows)
       /\ d.took \subseteq ToSet(c.got) \cup ToSet(rows)
  BY <1>2, <1>3, <1>4, <1>8, <1>9 DEF UpsertInPlace, Live, Real
<1>11. d.took = Told(call[t]) \cup some
  BY <1>1, <1>3, <1>4, <1>8 DEF Told
<1>12. CASE Calls!End(t, [d EXCEPT !.named = ToSet(rows)], "rejected")
  <2>1. PICK e : e = [d EXCEPT !.named = ToSet(rows)]
    OBVIOUS
  <2>2. /\ IsCall(e) /\ e.op = c.op /\ e.todo = c.todo /\ e.got = c.got
        /\ e.took = d.took /\ e.named = ToSet(rows)
    BY <1>8, <2>1 DEF IsCall
  <2>3. Becomes(t, e, "rejected", "upsert")
    BY <1>12, <2>1, <2>2, EndIs
  <2>4. \A f : f.status = "rejected" /\ f.op = e.op /\ f.got = e.got /\ f.todo = e.todo
                    /\ f.took = e.took /\ f.named = e.named => UpsertInPlace(f)
    BY <1>4, <1>10, <2>2 DEF UpsertInPlace, Live
  <2> QED
    BY <1>1, <1>4, <1>6, <1>11, <2>2, <2>3, <2>4, UpsertStep
<1>13. CASE Calls!Again(t, d)
  <2>1. PICK ending \in {"queued", "unanswered"} : Becomes(t, d, ending, "upsert")
    BY <1>8, <1>13, AgainIs
  <2>2. ASSUME NEW f, f.status = ending, f.op = d.op, f.got = d.got, f.todo = d.todo,
               f.took = d.took, f.named = d.named
        PROVE  UpsertInPlace(f)
    <3>1. Calls!Batch(f) = rows
      BY <1>2, <1>8, <2>2 DEF Calls!Batch
    <3> QED
      BY <1>4, <1>8, <1>10, <2>2, <3>1 DEF UpsertInPlace
  <2> QED
    BY <1>1, <1>4, <1>6, <1>8, <1>11, <2>1, <2>2, UpsertStep
<1> QED
  BY <1>5, <1>7, <1>12, <1>13

-----------------------------------------------------------------------------
\* A request that is sent, lost or refused changes nothing that its call knows.
LEMMA SameCall ==
    ASSUME CallsInv, NEW t \in Task, NEW c, NEW ending, c = call[t], Live(c),
           ending \in {"queued", "sent", "unanswered", "failed"},
           ending = "failed" => c.op.kind # "upsert",
           Becomes(t, c, ending, c.step), displayed' = displayed
    PROVE  CallsInv'
<1>1. CallInPlace(c) /\ c.status # "idle"
  BY DEF CallsInv, Live
<1>2. CASE c.op.kind = "set"
  BY <1>1, <1>2, SetStep DEF CallInPlace, SetInPlace, StepsOf, Live
<1>3. CASE c.op.kind = "upsert"
  <2>1. c.step = "upsert" /\ UpsertInPlace(c)
    BY <1>1, <1>3 DEF CallInPlace, StepsOf
  <2>2. ASSUME NEW d, d.status = ending, d.op = c.op, d.got = c.got, d.todo = c.todo,
               d.took = c.took, d.named = c.named
        PROVE  UpsertInPlace(d)
    <3>1. Calls!Batch(d) = Calls!Batch(c)
      BY <2>2 DEF Calls!Batch
    <3> QED
      BY <1>3, <2>1, <2>2, <3>1 DEF UpsertInPlace, Live
  <2>3. c.took = Told(call[t]) \cup {}
    BY <1>1, <1>3 DEF Told
  <2> QED
    BY <1>3, <2>1, <2>2, <2>3, NothingDisplayed, UpsertStep
<1>4. CASE c.op.kind \notin {"set", "upsert"}
  BY <1>1, <1>4, OtherStep DEF CallInPlace
<1> QED
  BY <1>2, <1>3, <1>4

LEMMA StartKeeps ==
    ASSUME CallsInv, NEW t \in Task, Calls!Start(t)
    PROVE  CallsInv'
<1>1. PICK c0 : c0 = call[t]
  OBVIOUS
<1>2. PICK op : op = c0.op
  OBVIOUS
<1>3. PICK c : c = [c0 EXCEPT !.start = updated, !.todo = op.rows]
  OBVIOUS
<1>4. c0.status = "idle" /\ op # NULL /\ displayed' = displayed /\ IsCall(c0) /\ IdleInPlace(c0)
  BY <1>1, <1>2 DEF Calls!Start, Calls!outside, CallsInv, CallInPlace
<1>5. /\ IsCall(c) /\ c.op = op /\ c.todo = op.rows /\ c.got = <<>> /\ c.took = {}
  BY <1>2, <1>3, <1>4 DEF IsCall, IdleInPlace
<1>6. CASE op.kind = "set"
  <2>1. \/ Calls!End(t, c, "failed") \/ Calls!Await(t, c, "locate")
        \/ Calls!Await(t, c, "lookup")
    BY <1>1, <1>2, <1>3, <1>6 DEF Calls!Start
  <2>2. PICK ending, step : /\ Becomes(t, c, ending, step) /\ ending \in {"queued", "failed"}
                            /\ step \in {"locate", "lookup"}
    BY <1>5, <2>1, EndIs, AwaitIs
  <2> QED
    BY <1>1, <1>2, <1>4, <1>5, <1>6, <2>2, SetStep DEF StepsOf
<1>7. CASE op.kind = "upsert"
  <2>1. Calls!NextBatch(t, c)
    BY <1>1, <1>2, <1>3, <1>7 DEF Calls!Start
  <2>2. c.todo \in Seq(ToSet(op.rows)) /\ c.got \in Seq(ToSet(op.rows))
    BY <1>2, <1>4, <1>5, <1>7 DEF IdleInPlace
  <2>3. ToSet(c.got) = {} /\ Real(c.got) = {}
    BY <1>5 DEF Real, ToSet
  <2>4. c.took = Told(call[t]) \cup {}
    BY <1>1, <1>4, <1>5 DEF Told
  <2> QED
    BY <1>1, <1>2, <1>4, <1>5, <1>7, <2>1, <2>2, <2>3, <2>4, NothingDisplayed, NextBatchKeeps
<1>8. CASE op.kind \notin {"set", "upsert"}
  <2>1. \/ Calls!Await(t, c, "locate") \/ Calls!Await(t, c, "page")
        \/ Calls!Await(t, c, "count") \/ Calls!End(t, c, "ok")
    BY <1>1, <1>2, <1>3, <1>8 DEF Calls!Start, Calls!NextChunk
  <2>2. PICK ending, step : /\ Becomes(t, c, ending, step) /\ ending \in {"queued", "ok"}
                            /\ step \in {"locate", "page", "count"}
    BY <1>5, <2>1, EndIs, AwaitIs
  <2> QED
    BY <1>1, <1>2, <1>4, <1>5, <1>8, <2>2, OtherStep DEF StepsOf
<1> QED
  BY <1>6, <1>7, <1>8

LEMMA SendKeeps ==
    ASSUME CallsInv, NEW t \in Task, Calls!Send(t)
    PROVE  CallsInv'
<1>1. PICK c : c = call[t]
  OBVIOUS
<1>2. PICK d : d = [c EXCEPT !.status = "sent"]
  OBVIOUS
<1>3. c.status = "queued" /\ IsCall(c) /\ displayed' = displayed
  BY <1>1 DEF Calls!Send, Calls!outside, CallsInv, CallInPlace
<1>4. call' = [call EXCEPT ![t] = d]
  BY <1>1, <1>2 DEF Calls!Send, CallsInv
<1>5. IsCall(d) /\ Same(d, c) /\ d.status = "sent" /\ d.step = c.step
  BY <1>2, <1>3 DEF IsCall, Same
<1>6. Becomes(t, c, "sent", c.step)
  BY <1>4, <1>5 DEF Becomes
<1> QED
  BY <1>1, <1>3, <1>6, SameCall DEF Live

LEMMA RefusedKeeps ==
    ASSUME CallsInv, NEW t \in Task, Calls!NoAnswer(t) \/ Calls!GraphQLErrors(t)
    PROVE  CallsInv'
<1>1. PICK c : c = call[t]
  OBVIOUS
<1>2. c.status = "sent" /\ IsCall(c) /\ displayed' = displayed
  BY <1>1 DEF Calls!NoAnswer, Calls!GraphQLErrors, Calls!outside, CallsInv, CallInPlace
<1>3. CASE Calls!NoAnswer(t)
  <2>1. PICK ending \in {"queued", "unanswered"} : Becomes(t, c, ending, c.step)
    BY <1>1, <1>2, <1>3, AgainIs DEF Calls!NoAnswer
  <2> QED
    BY <1>1, <1>2, <2>1, SameCall DEF Live
<1>4. CASE Calls!GraphQLErrors(t)
  <2>1. Becomes(t, c, "failed", c.step)
    BY <1>1, <1>2, <1>4, EndIs DEF Calls!GraphQLErrors
  <2>2. c.op.kind # "upsert"
    BY <1>1, <1>4 DEF Calls!GraphQLErrors, Calls!ChannelOf, Calls!Shopify
  <2> QED
    BY <1>1, <1>2, <2>1, <2>2, SameCall DEF Live
<1> QED
  BY <1>3, <1>4

\* The requests of a set.
LEMMA SetKeeps ==
    ASSUME CallsInv, NEW t \in Task, Calls!Lookup(t) \/ Calls!Write(t)
    PROVE  CallsInv'
<1>1. PICK c : c = call[t]
  OBVIOUS
<1>2. /\ c.status = "sent" /\ c.step \in {"lookup", "write"} /\ IsCall(c) /\ CallInPlace(c)
      /\ displayed' = displayed
  BY <1>1 DEF Calls!Lookup, Calls!Write, Calls!InHand, Calls!outside, CallsInv, CallInPlace
<1>3. c.op.kind = "set" /\ SetInPlace(c)
  BY <1>2 DEF CallInPlace, Live, StepsOf
<1>4. CASE Calls!Lookup(t)
  <2>1. c.took = {}
    BY <1>1, <1>2, <1>3, <1>4 DEF Calls!Lookup, Calls!InHand, SetInPlace, Live
  <2>2. CASE Calls!End(t, c, "failed")
    <3>1. Becomes(t, c, "failed", "lookup")
      BY <1>2, <2>2, EndIs
    <3> QED
      BY <1>1, <1>2, <1>3, <2>1, <3>1, SetStep
  <2>3. ASSUME NEW i \in Calls!Found(c.op.sku),
               Calls!Await(t, [c EXCEPT !.item = i, !.named = Calls!Bearers(c.op.sku)], "write")
        PROVE  CallsInv'
    <3>1. PICK d : d = [c EXCEPT !.item = i, !.named = Calls!Bearers(c.op.sku)]
      OBVIOUS
    <3>2. Calls!Bearers(c.op.sku) = {i}
      BY <2>3 DEF Calls!Found
    <3>3. IsCall(d) /\ d.op = c.op /\ d.item = i /\ d.named = {i} /\ d.took = {}
      BY <1>2, <2>1, <3>1, <3>2 DEF IsCall
    <3>4. Becomes(t, d, "queued", "write")
      BY <2>3, <3>1, <3>3, AwaitIs
    <3> QED
      BY <1>1, <1>2, <1>3, <3>3, <3>4, SetStep DEF StepsOf
  <2> QED
    BY <1>1, <1>4, <2>2, <2>3 DEF Calls!Lookup
<1>5. CASE Calls!Write(t)
  <2>1. c.named = {c.item} /\ c.step = "write"
    BY <1>1, <1>2, <1>3, <1>5 DEF Calls!Write, Calls!InHand, SetInPlace, Live
  <2>2. CASE Calls!End(t, c, "failed")
    <3>1. Becomes(t, c, "failed", "write")
      BY <1>2, <2>2, EndIs
    <3> QED
      BY <1>1, <1>2, <1>3, <3>1, SetStep DEF SetInPlace
  <2>3. PICK d : d = [c EXCEPT !.took = {c.item}]
    OBVIOUS
  <2>4. /\ IsCall(d) /\ d.op = c.op /\ d.item = c.item /\ d.named = c.named
        /\ d.took = {c.item} /\ d.step = "write"
    BY <1>2, <2>1, <2>3 DEF IsCall
  <2>5. CASE Calls!End(t, d, "ok") \/ Calls!Again(t, d)
    <3>1. PICK ending \in {"ok", "queued", "unanswered"} : Becomes(t, d, ending, "write")
      BY <2>4, <2>5, EndIs, AgainIs
    <3> QED
      BY <1>1, <1>2, <1>3, <2>1, <2>4, <3>1, SetStep DEF StepsOf
  <2> QED
    BY <1>1, <1>5, <2>2, <2>3, <2>5 DEF Calls!Write
<1> QED
  BY <1>4, <1>5

LEMMA LocateKeeps ==
    ASSUME CallsInv, NEW t \in Task, Calls!Locate(t)
    PROVE  CallsInv'
<1>1. PICK c : c = call[t]
  OBVIOUS
<1>2. /\ c.status = "sent" /\ c.step = "locate" /\ IsCall(c) /\ CallInPlace(c)
      /\ displayed' = displayed
  BY <1>1 DEF Calls!Locate, Calls!InHand, Calls!outside, CallsInv, CallInPlace
<1>3. c.op.kind # "upsert"
  BY <1>2 DEF CallInPlace, Live, StepsOf
<1>4. CASE c.op.kind = "set"
  <2>1. Becomes(t, c, "queued", "lookup")
    BY <1>1, <1>2, <1>4, AwaitIs DEF Calls!Locate
  <2>2. c.took = {}
    BY <1>2, <1>4 DEF CallInPlace, SetInPlace, Live
  <2> QED
    BY <1>1, <1>2, <1>4, <2>1, <2>2, SetStep DEF StepsOf
<1>5. CASE c.op.kind # "set"
  <2>1. Becomes(t, c, "queued", "page")
    BY <1>1, <1>2, <1>5, AwaitIs DEF Calls!Locate
  <2> QED
    BY <1>1, <1>2, <1>3, <1>5, <2>1, OtherStep DEF StepsOf
<1> QED
  BY <1>4, <1>5

\* The requests of a read.
LEMMA ReadKeeps ==
    ASSUME CallsInv, NEW t \in Task,
           Calls!Page(t) \/ Calls!Count(t) \/ Calls!SearchAgain(t) \/ Calls!Get(t)
    PROVE  CallsInv'
<1>1. PICK c : c = call[t]
  OBVIOUS
<1>2. /\ c.status = "sent" /\ c.step \in {"page", "count", "search", "get"} /\ IsCall(c)
      /\ CallInPlace(c) /\ displayed' = displayed
  BY <1>1 DEF Calls!Page, Calls!Count, Calls!SearchAgain, Calls!Get, Calls!InHand,
              Calls!outside, CallsInv, CallInPlace
<1>3. c.op.kind \notin {"set", "upsert"}
  BY <1>2 DEF CallInPlace, Live, StepsOf
<1> DEFINE Reads == {"page", "count", "search", "get"}
           On(d) == \/ Calls!End(t, d, "ok") \/ Calls!End(t, d, "failed")
                    \/ \E step \in Reads : Calls!Await(t, d, step)
<1>4. ASSUME NEW d, IsCall(d), d.op = c.op, On(d) PROVE CallsInv'
  <2>1. PICK ending, step : /\ Becomes(t, d, ending, step)
                            /\ ending \in {"ok", "failed", "queued"} /\ step \in Reads
    BY <1>4, EndIs, AwaitIs
  <2> QED
    BY <1>1, <1>2, <1>3, <1>4, <2>1, OtherStep DEF StepsOf
<1>5. CASE Calls!Page(t)
  <2>1. PICK got, cursor :
          \/ On(c) \/ On([c EXCEPT !.got = got, !.cursor = cursor])
          \/ On([c EXCEPT !.got = got])
    BY <1>1, <1>5 DEF Calls!Page
  <2>2. ASSUME NEW g, NEW k, On([c EXCEPT !.got = g, !.cursor = k]) PROVE CallsInv'
    <3>1. PICK d : d = [c EXCEPT !.got = g, !.cursor = k]
      OBVIOUS
    <3>2. IsCall(d) /\ d.op = c.op
      BY <1>2, <3>1 DEF IsCall
    <3> HIDE DEF On
    <3> QED
      BY <1>4, <2>2, <3>1, <3>2
  <2>3. ASSUME NEW g, On([c EXCEPT !.got = g]) PROVE CallsInv'
    <3>1. PICK d : d = [c EXCEPT !.got = g]
      OBVIOUS
    <3>2. IsCall(d) /\ d.op = c.op
      BY <1>2, <3>1 DEF IsCall
    <3> HIDE DEF On
    <3> QED
      BY <1>4, <2>3, <3>1, <3>2
  <2> HIDE DEF On
  <2> QED
    BY <1>2, <1>4, <2>1, <2>2, <2>3
\* The next chunk of a backfill.
<1>6. ASSUME NEW d, IsCall(d), d.op = c.op, Calls!NextChunk(t, d) PROVE CallsInv'
  BY <1>4, <1>6 DEF Calls!NextChunk
<1>7. CASE Calls!Count(t)
  <2>1. PICK named, left :
          \/ Calls!NextChunk(t, [[c EXCEPT !.named = named, !.moved = {}] EXCEPT !.todo = left])
          \/ Calls!Await(t, [c EXCEPT !.named = named, !.moved = {}], "search")
    BY <1>1, <1>7 DEF Calls!Count
  <2>2. PICK d : d = [c EXCEPT !.named = named, !.moved = {}]
    OBVIOUS
  <2>3. PICK e : e = [d EXCEPT !.todo = left]
    OBVIOUS
  <2>4. IsCall(d) /\ d.op = c.op
    BY <1>2, <2>2 DEF IsCall
  <2>5. IsCall(e) /\ e.op = c.op
    BY <2>3, <2>4 DEF IsCall
  <2> QED
    BY <1>4, <1>6, <2>1, <2>2, <2>3, <2>4, <2>5
<1>8. CASE Calls!SearchAgain(t)
  <2>1. PICK item, took : Calls!Await(t, [c EXCEPT !.item = item, !.took = took], "get")
    BY <1>1, <1>8 DEF Calls!SearchAgain
  <2>2. PICK d : d = [c EXCEPT !.item = item, !.took = took]
    OBVIOUS
  <2>3. IsCall(d) /\ d.op = c.op
    BY <1>2, <2>2 DEF IsCall
  <2> QED
    BY <1>4, <2>1, <2>2, <2>3
<1>9. CASE Calls!Get(t)
  <2>1. PICK got, rest, left :
          \/ Calls!Await(t, [c EXCEPT !.got = got, !.item = rest], "get")
          \/ Calls!NextChunk(t, [[c EXCEPT !.got = got, !.item = rest] EXCEPT
                                    !.todo = left, !.item = NULL])
    BY <1>1, <1>9 DEF Calls!Get
  <2>2. PICK d : d = [c EXCEPT !.got = got, !.item = rest]
    OBVIOUS
  <2>3. PICK e : e = [d EXCEPT !.todo = left, !.item = NULL]
    OBVIOUS
  <2>4. IsCall(d) /\ d.op = c.op
    BY <1>2, <2>2 DEF IsCall
  <2>5. IsCall(e) /\ e.op = c.op
    BY <2>3, <2>4 DEF IsCall
  <2> QED
    BY <1>4, <1>6, <2>1, <2>2, <2>3, <2>4, <2>5
<1> QED
  BY <1>5, <1>7, <1>8, <1>9

-----------------------------------------------------------------------------
\* Somebody else's change is noted by the calls that go on, and touches nothing of them.
LEMMA NotedKeeps ==
    ASSUME CallsInv, NEW n, NEW kinds, call' = Calls!Noted(n, kinds), displayed' = displayed
    PROVE  CallsInv'
<1>1. call' = [t \in Task |-> call'[t]]
  BY DEF Calls!Noted
<1>2. ASSUME NEW t \in Task
      PROVE  CallInPlace(call'[t]) /\ Told(call'[t]) = Told(call[t])
  <2>1. PICK c : c = call[t]
    OBVIOUS
  <2>2. CallInPlace(c) /\ IsCall(c)
    BY <2>1 DEF CallsInv, CallInPlace
  <2>3. PICK d : d = [c EXCEPT !.moved = @ \cup {n}]
    OBVIOUS
  <2>4. call'[t] = c \/ call'[t] = d
    BY <2>1, <2>3 DEF Calls!Noted
  <2>5. /\ IsCall(d) /\ d.op = c.op /\ d.status = c.status /\ d.step = c.step /\ d.got = c.got
        /\ d.todo = c.todo /\ d.item = c.item /\ d.took = c.took /\ d.named = c.named
    BY <2>2, <2>3 DEF IsCall
  <2>6. Calls!Batch(d) = Calls!Batch(c)
    BY <2>5 DEF Calls!Batch
  <2>7. CallInPlace(d)
    BY <2>2, <2>5, <2>6 DEF CallInPlace, IdleInPlace, SetInPlace, UpsertInPlace, Live
  <2> QED
    BY <2>1, <2>2, <2>4, <2>5, <2>7 DEF Told
<1>3. Written = UNION {Told(call[t]) : t \in Task}
  BY DEF Written, Upserting, Told
<1>4. Written' = UNION {Told(call'[t]) : t \in Task}
  BY DEF Written, Upserting, Told
<1>5. Written' = Written
  BY <1>2, <1>3, <1>4
<1>6. ASSUME NEW p \in Pair PROVE Taken(p)' = Taken(p)
  <2>1. Taken(p) = {r.qty : r \in {s \in Written : s.variant = p}}
    BY DEF Taken, Written
  <2>2. Taken(p)' = {r.qty : r \in {s \in Written' : s.variant = p}}
    BY DEF Taken, Written
  <2> QED
    BY <1>5, <2>1, <2>2
<1>7. ASSUME NEW t \in Task PROVE CallInPlace(call[t])'
  BY <1>2 DEF CallInPlace, IsCall, IdleInPlace, SetInPlace, UpsertInPlace, Live, StepsOf,
              Real, ToSet, Calls!Batch, Calls!Least
<1> QED
  BY <1>1, <1>6, <1>7 DEF CallsInv, DisplayInPlace

LEMMA StillKeeps ==
    ASSUME CallsInv, UNCHANGED <<call, displayed>>
    PROVE  CallsInv'
<1>1. ASSUME NEW t \in Task PROVE CallInPlace(call[t])'
  <2>1. CallInPlace(call'[t])
    BY DEF CallsInv
  <2> QED
    BY <2>1 DEF CallInPlace, IsCall, IdleInPlace, SetInPlace, UpsertInPlace, Live, StepsOf,
                Real, ToSet, Calls!Batch, Calls!Least
<1>2. DisplayInPlace'
  BY DEF CallsInv, DisplayInPlace, Taken, Upserting
<1> QED
  BY <1>1, <1>2 DEF CallsInv

LEMMA CallsInit ==
    ASSUME Calls!Init
    PROVE  CallsInv
<1>1. PICK plan \in Plans : call = [t \in Task |-> [Calls!Idle EXCEPT !.op = plan[t]]]
  BY DEF Calls!Init
<1>2. ASSUME NEW t \in Task PROVE CallInPlace(call[t]) /\ t \notin Upserting
  <2>1. PICK c : c = call[t]
    OBVIOUS
  <2>2. /\ IsCall(c) /\ c.op = plan[t] /\ c.status = "idle" /\ c.got = <<>> /\ c.took = {}
    BY <1>1, <2>1 DEF Calls!Idle, IsCall
  <2>3. c.op # NULL /\ c.op.kind = "upsert" => c.op.rows \in Seq(ToSet(c.op.rows))
    BY <2>2, CallsAssumption DEF IsSeq
  <2> QED
    BY <2>1, <2>2, <2>3 DEF CallInPlace, IdleInPlace, Upserting
<1>3. Upserting = {}
  BY <1>2 DEF Upserting
<1> QED
  BY <1>1, <1>2, <1>3 DEF CallsInv, DisplayInPlace, Taken

LEMMA CallsNext ==
    ASSUME CallsInv, [Calls!Next]_(Calls!vars)
    PROVE  CallsInv'
<1>1. CASE Calls!Tick \/ UNCHANGED Calls!vars
  BY <1>1, StillKeeps DEF Calls!Tick, Calls!vars, Calls!outside
<1>2. CASE Calls!EditShop \/ Calls!EditOrder
  BY <1>2, NotedKeeps DEF Calls!EditShop, Calls!EditOrder
<1>3. ASSUME NEW t \in Task, Calls!Start(t) \/ Calls!Step(t) PROVE CallsInv'
  BY <1>3, StartKeeps, SendKeeps, RefusedKeeps, LocateKeeps, SetKeeps, ReadKeeps,
     UpsertedKeeps, NotUpsertedKeeps DEF Calls!Step
<1> QED
  BY <1>1, <1>2, <1>3 DEF Calls!Next

\* What a write of either adapter changed is known from how it ended, for any calls at a
\* time, any number of rows, batches and attempts, whatever the channels answer and
\* whoever edits them meanwhile (shopify.py:362-384, rakuten_bulk_upsert.py:227-245).
THEOREM WritesStayKnown ==
    Calls!Spec => []WritesAreKnown
<1>1. Calls!Init => CallsInv
  BY CallsInit
<1>2. CallsInv /\ [Calls!Next]_(Calls!vars) => CallsInv'
  BY CallsNext
<1>3. CallsInv => WritesAreKnown
  <2>1. SUFFICES ASSUME CallsInv, NEW t \in Task
                 PROVE  LET c == call[t] IN
        /\ c.status # "idle" /\ c.op.kind = "set" => c.took = {} \/ c.took = c.named
        /\ t \in Upserting =>
            /\ \A r \in Real(c.got) : displayed[r.variant] \in Taken(r.variant)
            /\ c.status = "ok" => c.took = Real(c.op.rows)
            /\ c.status \in {"failed", "rejected"} => c.took \subseteq ToSet(c.got) \cup c.named
    BY DEF WritesAreKnown
  <2>2. PICK c : c = call[t]
    OBVIOUS
  <2>3. CallInPlace(c)
    BY <2>1, <2>2 DEF CallsInv
  <2>4. c.status # "idle" /\ c.op.kind = "set" => c.took = {} \/ c.took = c.named
    BY <2>3 DEF CallInPlace, SetInPlace
  <2>5. ASSUME t \in Upserting
        PROVE  /\ \A r \in Real(c.got) : displayed[r.variant] \in Taken(r.variant)
               /\ c.status = "ok" => c.took = Real(c.op.rows)
               /\ c.status \in {"failed", "rejected"} => c.took \subseteq ToSet(c.got) \cup c.named
    <3>1. UpsertInPlace(c)
      BY <2>2, <2>3, <2>5 DEF CallInPlace, Upserting
    <3>2. ASSUME NEW r \in Real(c.got) PROVE displayed[r.variant] \in Taken(r.variant)
      <4>1. r \in c.took /\ r.variant \in Pair
        BY <3>1 DEF UpsertInPlace, Real
      <4>2. r.qty \in Taken(r.variant)
        BY <2>2, <2>5, <4>1 DEF Taken
      <4> QED
        BY <2>1, <4>1, <4>2 DEF CallsInv, DisplayInPlace
    <3>3. ASSUME c.status = "ok" PROVE c.took = Real(c.op.rows)
      <4>1. ToSet(c.todo) = {}
        BY <3>1, <3>3 DEF UpsertInPlace, ToSet
      <4> QED
        BY <3>1, <4>1 DEF UpsertInPlace, Real
    <3> QED
      BY <3>1, <3>2, <3>3 DEF UpsertInPlace
  <2> QED
    BY <2>2, <2>4, <2>5
<1> QED
  BY <1>1, <1>2, <1>3, PTL DEF Calls!Spec

-----------------------------------------------------------------------------
(* Reads.  A page holds the first entries of what comes after the last one *)
(* read, so that whatever is not moved is behind the cursor and read, or   *)
(* ahead of it.  An order that is changed goes ahead of every cursor.  A   *)
(* backfill has settled the days it has behind it.                         *)

\* Sequences that list a set.
Once(n, s) == \E k \in DOMAIN s : s[k] = n /\ \A j \in DOMAIN s : s[j] = n => j = k

LEMMA SeqOfSet ==
    ASSUME NEW S, IsFiniteSet(S)
    PROVE  LET s == SetToSeq(S) IN
           s \in Seq(S) /\ ToSet(s) = S /\ \A n \in S : Once(n, s)
<1>1. PICK s : s = SetToSeq(S)
  OBVIOUS
<1> DEFINE D == 1..Cardinality(S)
<1>2. Cardinality(S) \in Nat /\ ExistsBijection(D, S)
  BY FS_CardinalityType
<1>3. \E f \in [D -> S] : IsInjective(f)
  BY <1>2 DEF ExistsBijection, Bijection, Injection
<1>4. s \in [D -> S] /\ IsInjective(s)
  BY <1>1, <1>3 DEF SetToSeq
<1>5. s \in Injection(D, S)
  BY <1>4 DEF Injection
<1>6. IsFiniteSet(D) /\ Cardinality(D) = Cardinality(S)
  BY <1>2, FS_Interval
<1>7. s \in Surjection(D, S)
  BY <1>5, <1>6, FS_Injection
<1>8. ToSet(s) = S
  BY <1>4, <1>7 DEF ToSet, Surjection
<1>9. s \in Seq(S)
  BY <1>2, <1>4
<1>10. \A n \in S : Once(n, s)
  BY <1>4, <1>8 DEF Once, ToSet, IsInjective
<1> QED
  BY <1>1, <1>8, <1>9, <1>10

LEMMA OnceInTwo ==
    ASSUME NEW S, NEW s \in Seq(S), NEW u \in Seq(S), NEW n
    PROVE  /\ Once(n, s) /\ n \notin ToSet(u) => Once(n, s \o u)
           /\ n \notin ToSet(s) /\ Once(n, u) => Once(n, s \o u)
<1> DEFINE a == s \o u
<1>1. /\ a \in Seq(S) /\ Len(a) = Len(s) + Len(u)
      /\ \A i \in 1..Len(s) + Len(u) : a[i] = IF i <= Len(s) THEN s[i] ELSE u[i - Len(s)]
  BY ConcatProperties
<1> HIDE DEF a
<1>2. DOMAIN a = 1..(Len(s) + Len(u)) /\ DOMAIN s = 1..Len(s) /\ DOMAIN u = 1..Len(u)
  BY <1>1
<1>3. \A i \in DOMAIN s : i \in DOMAIN a /\ a[i] = s[i]
  BY <1>1, <1>2
<1>4. \A i \in DOMAIN u : i + Len(s) \in DOMAIN a /\ a[i + Len(s)] = u[i]
  BY <1>1, <1>2
<1>5. \A i \in DOMAIN a : (i \in DOMAIN s /\ a[i] = s[i])
                           \/ (i - Len(s) \in DOMAIN u /\ a[i] = u[i - Len(s)])
  BY <1>1, <1>2
<1>6. ASSUME Once(n, s), n \notin ToSet(u) PROVE Once(n, a)
  <2>1. PICK k \in DOMAIN s : s[k] = n /\ \A j \in DOMAIN s : s[j] = n => j = k
    BY <1>6 DEF Once
  <2>2. \A j \in DOMAIN a : a[j] = n => j = k
    BY <1>5, <1>6, <2>1 DEF ToSet
  <2> QED
    BY <1>3, <2>1, <2>2 DEF Once
<1>7. ASSUME n \notin ToSet(s), Once(n, u) PROVE Once(n, a)
  <2>1. PICK k \in DOMAIN u : u[k] = n /\ \A j \in DOMAIN u : u[j] = n => j = k
    BY <1>7 DEF Once
  <2>2. \A j \in DOMAIN a : a[j] = n => j - Len(s) = k
    BY <1>5, <1>7, <2>1 DEF ToSet
  <2>3. \A j \in DOMAIN a : a[j] = n => j = k + Len(s)
    BY <1>2, <2>1, <2>2
  <2> QED
    BY <1>4, <2>1, <2>3 DEF Once
<1> QED
  BY <1>6, <1>7 DEF a

LEMMA HeadAndTail ==
    ASSUME NEW S, NEW s \in Seq(S), s # <<>>
    PROVE  /\ Head(s) \in S /\ Tail(s) \in Seq(S)
           /\ ToSet(s) = {Head(s)} \cup ToSet(Tail(s))
<1> DEFINE u == Tail(s)
<1>1. /\ Head(s) = s[1] /\ 1 \in DOMAIN s /\ Head(s) \in S
      /\ u \in Seq(S) /\ Len(u) = Len(s) - 1 /\ \A i \in 1..Len(u) : u[i] = s[i + 1]
  OBVIOUS
<1> HIDE DEF u
<1>2. DOMAIN s = 1..Len(s) /\ DOMAIN u = 1..(Len(s) - 1)
  BY <1>1
<1>3. \A i \in DOMAIN u : i + 1 \in DOMAIN s /\ u[i] = s[i + 1]
  BY <1>1, <1>2
<1>4. \A i \in DOMAIN s : i = 1 \/ (i - 1 \in DOMAIN u /\ u[i - 1] = s[i])
  BY <1>1, <1>2
<1>5. ToSet(s) \subseteq {s[1]} \cup ToSet(u)
  BY <1>4 DEF ToSet
<1>6. {s[1]} \cup ToSet(u) \subseteq ToSet(s)
  BY <1>1, <1>3 DEF ToSet
<1> QED
  BY <1>1, <1>5, <1>6 DEF u

\* A page of entries with positions k below b: those with few of the others before them.
IsPage(page, S, k, less) ==
    /\ IsFiniteSet(S) /\ S # {} /\ k \in [S -> Nat] /\ less \in [S -> SUBSET S]
    /\ \A m, n \in S : m \in less[n] <=> k[m] < k[n]
    /\ page \in SUBSET S /\ \A n \in S : n \in page <=> Cardinality(less[n]) < PageSize

\* It is not empty, and nothing up to its last is left out.
LEMMA PageIsFirst ==
    ASSUME NEW page, NEW S, NEW k, NEW less, IsPage(page, S, k, less),
           NEW b \in Nat, \A n \in S : k[n] <= b,
           NEW places, \A x : x \in places <=> \E n \in page : x = k[n]
    PROVE  /\ \E n \in page : Max(places) = k[n]
           /\ \A n \in page : k[n] <= Max(places)
           /\ \A n \in S : k[n] <= Max(places) => n \in page
<1>1. PageSize \in Nat \ {0}
  BY CallsAssumption
<1>12. PICK top : top = Max(places)
  OBVIOUS
<1> USE DEF IsPage
<1>2. \A n \in S : IsFiniteSet(less[n]) /\ Cardinality(less[n]) \in Nat
  BY FS_Subset, FS_CardinalityType
<1>3. PICK low \in S : \A n \in S : k[low] <= k[n]
  <2>1. PICK all : all = {k[n] : n \in S}
    OBVIOUS
  <2>2. all \subseteq Nat /\ all # {}
    BY <2>1
  <2>3. PICK x \in all : \A y \in all : x <= y
    BY <2>2, MinOfNats
  <2> QED
    BY <2>1, <2>3
<1>4. low \in page
  <2>1. less[low] = {}
    BY <1>3
  <2>2. Cardinality(less[low]) = 0
    BY <2>1, FS_EmptySet
  <2> QED
    BY <1>1, <2>2
<1>5. places \in SUBSET Int /\ places # {}
  BY <1>4
<1>6. \A x \in places : x <= b
  OBVIOUS
<1>7. b \in Int
  OBVIOUS
<1>8. top \in places /\ \A y \in places : top >= y
  BY <1>5, <1>6, <1>7, <1>12, MaxOfBounded
<1>9. ASSUME NEW n \in S, k[n] <= top PROVE n \in page
  <2>1. PICK p \in page : k[p] = top
    BY <1>8
  <2>2. less[n] \subseteq less[p]
    BY <1>9, <2>1
  <2>3. Cardinality(less[n]) <= Cardinality(less[p])
    BY <1>2, <2>1, <2>2, FS_Subset
  <2>4. Cardinality(less[p]) < PageSize
    BY <2>1
  <2>5. Cardinality(less[n]) \in Nat /\ Cardinality(less[p]) \in Nat
    BY <1>2, <2>1
  <2>6. Cardinality(less[n]) < PageSize
    BY <1>1, <2>3, <2>4, <2>5
  <2> QED
    BY <2>6
<1>10. \A n \in page : k[n] \in places /\ k[n] \in Int
  OBVIOUS
<1>11. \A n \in page : k[n] <= top
  BY <1>5, <1>8, <1>10
<1> QED
  BY <1>8, <1>9, <1>11, <1>12

\* The names of the community modules and of AdapterCalls, once more.
LEMMA MoreNames ==
    /\ \A S : Calls!Cardinality(S) = Cardinality(S)
    /\ \A S : Calls!SetToSeq(S) = SetToSeq(S)
    /\ \A S : Calls!Max(S) = Max(S)
    /\ \A c, n : Calls!Keeps(c, n) = Keeps(c, n)
<1>4. \A S : Calls!Cardinality(S) = Cardinality(S)
  BY DEF Calls!Cardinality, Cardinality
<1>1. ASSUME NEW S PROVE Calls!SetToSeq(S) = SetToSeq(S)
  <2>1. Calls!Cardinality(S) = Cardinality(S)
    BY <1>4
  <2> QED
    BY <2>1 DEF Calls!SetToSeq, SetToSeq, Calls!IsInjective, IsInjective
<1>2. \A S : Calls!Max(S) = Max(S)
  BY DEF Calls!Max, Max
<1>3. \A c, n : Calls!Keeps(c, n) = Keeps(c, n)
  BY DEF Calls!Keeps, Keeps
<1> QED
  BY <1>1, <1>2, <1>3, <1>4

-----------------------------------------------------------------------------
\* What CallsAssumption says of one call.
Asked(op) ==
    /\ op.kind = "set" => op.qty # NULL
    /\ op.kind \in {"upsert", "backfill"} => op.rows \in Seq(ToSet(op.rows))
    /\ op.kind = "orders" => op.since \in Nat \ {0}
    /\ op.kind = "variants" => op.most \in Nat

\* No order is further than this in the order of updates.
Latest == Cardinality(Order) + edits

WorldInPlace ==
    /\ edits \in Nat
    /\ updated \in [Order -> Nat] /\ \A o \in Order : updated[o] <= Latest
    /\ shop = [i \in Item |-> shop[i]]

\* The variants that a listing answers for, and what it has to have of one.
Stays(c) == {i \in Item \ c.moved : shop[i].sku # NULL}
RightlyRead(c, i) == IF Keeps(c, i) THEN Once(i, c.got) ELSE i \notin ToSet(c.got)

ListInPlace(c) ==
    /\ c.got \in Seq(Item)
    /\ Live(c) =>
        /\ c.cursor[1] \in Nat
        /\ \A i \in ToSet(c.got) : i <= c.cursor[1]
        /\ \A i \in Stays(c) : i <= c.cursor[1] => RightlyRead(c, i)
    /\ c.status = "ok" /\ (c.op.kind = "variants" => c.op.most = 0) =>
        \A i \in Stays(c) : RightlyRead(c, i)
    /\ c.status = "ok" /\ c.op.kind = "variants" /\ c.op.most > 0 => Len(c.got) <= c.op.most

\* The orders that a poll answers for are read or ahead of it.
PollInPlace(c) ==
    /\ c.got \in Seq(Order)
    /\ Live(c) =>
        /\ c.cursor[1] \in Nat /\ c.cursor[1] <= Latest
        /\ \A o \in Order : c.start[o] >= c.op.since =>
              o \in ToSet(c.got) \/ updated[o] > c.cursor[1]
    /\ c.status = "ok" => \A o \in Order : c.start[o] >= c.op.since => o \in ToSet(c.got)

Placed(days) == {o \in Order : updated[o] > 0 /\ DayOf[o] \in days}

\* Days that a backfill need not look at again: it has their orders, names them, or saw
\* one placed in between.
Excused(c, days) == days \subseteq c.named \/ \E p \in c.took : DayOf[p] \in days
Settled(c, days) ==
    \/ Excused(c, days)
    \/ \A o \in Order : c.start[o] > 0 /\ DayOf[o] \in days => o \in ToSet(c.got)

\* A search that is not suspect was of few orders, as few as there are yet unless one
\* moved; what was searched again is all there is.
SearchInPlace(c, days) ==
    \/ days \subseteq c.named
    \/ Cardinality(Placed(days)) < PageLimit
    \/ \E o \in c.moved : DayOf[o] \in days
GetInPlace(c, days) ==
    /\ c.item \in Seq(Order)
    /\ \/ Excused(c, days)
       \/ \A o \in Order : c.start[o] > 0 /\ DayOf[o] \in days =>
              o \in ToSet(c.got) \cup ToSet(c.item)

DaysInPlace(c) ==
    /\ c.got \in Seq(Order) /\ c.todo \in Seq(ToSet(c.op.rows))
    /\ \A days \in ToSet(c.op.rows) : Settled(c, days) \/ days \in ToSet(c.todo)

BackfillInPlace(c) ==
    /\ DaysInPlace(c)
    /\ c.status = "ok" => c.todo = <<>>
    /\ Live(c) => c.todo # <<>>
    /\ Live(c) /\ c.step = "search" => SearchInPlace(c, Head(c.todo))
    /\ Live(c) /\ c.step = "get" => GetInPlace(c, Head(c.todo))

\* What a call remembers of its start is not ahead of what is.
StartInPlace(c) == c.start \in [Order -> Nat] /\ \A o \in Order : c.start[o] <= updated[o]

\* The requests of a listing, and those of a backfill.
ReadSteps(what) ==
    IF what = "backfill" THEN {"count", "search", "get"} ELSE {"locate", "page"}

KindInPlace(c) ==
    /\ c.op.kind \notin {"set", "upsert"} /\ Live(c) => c.step \in ReadSteps(c.op.kind)
    /\ c.op.kind \in Lists => ListInPlace(c)
    /\ c.op.kind = "orders" => PollInPlace(c)
    /\ c.op.kind = "backfill" => BackfillInPlace(c)

Pristine(c) ==
    c.got = <<>> /\ c.cursor = <<0, 0>> /\ c.took = {} /\ c.named = {} /\ c.moved = {}

ReadInPlace(c) ==
    /\ c.op # NULL => Asked(c.op)
    /\ c.status = "idle" => Pristine(c)
    /\ c.status # "idle" => c.op # NULL /\ StartInPlace(c) /\ KindInPlace(c)

ReadsInv ==
    /\ CallsInv
    /\ WorldInPlace
    /\ \A t \in Task : ReadInPlace(call[t])

LEMMA WorldType ==
    ASSUME WorldInPlace
    PROVE  /\ Cardinality(Order) \in Nat /\ IsFiniteSet(Order) /\ Order \subseteq Nat \ {0}
           /\ Cardinality(Item) \in Nat /\ IsFiniteSet(Item) /\ Item \subseteq Nat \ {0}
           /\ \A i \in Item : i <= Cardinality(Item)
           /\ \A o \in Order : o <= Cardinality(Order)
           /\ Latest \in Nat
<1>1. Cardinality(Order) \in Nat /\ Cardinality(Item) \in Nat
  BY CallsAssumption, FS_CardinalityType
<1> QED
  BY <1>1, CallsAssumption DEF WorldInPlace, Latest

\* The shop lists and keeps what it did.
SameShop ==
    /\ shop' = [i \in Item |-> shop'[i]]
    /\ \A i \in Item :
        /\ shop'[i].sku = shop[i].sku /\ shop'[i].listed = shop[i].listed
        /\ shop'[i].onHand = NULL <=> shop[i].onHand = NULL

LEMMA StillShop ==
    ASSUME ReadsInv, UNCHANGED shop
    PROVE  SameShop
BY DEF ReadsInv, WorldInPlace, SameShop

\* A step that leaves the listings and the orders alone.
LEMMA ReadStep ==
    ASSUME ReadsInv, CallsInv', NEW t \in Task, NEW d, call' = [call EXCEPT ![t] = d],
           ReadInPlace(d), SameShop, UNCHANGED <<updated, edits>>
    PROVE  ReadsInv'
<1>1. call' = [u \in Task |-> IF u = t THEN d ELSE call[u]]
  BY DEF ReadsInv, CallsInv
<1>2. ASSUME NEW u \in Task PROVE ReadInPlace(call[u])'
  <2>1. ReadInPlace(call'[u])
    BY <1>1 DEF ReadsInv
  <2>2. PICK c : c = call'[u]
    OBVIOUS
  <2>3. StartInPlace(call[u])' <=> StartInPlace(c)
    BY <2>2 DEF StartInPlace
  <2>4. ListInPlace(call[u])' <=> ListInPlace(c)
    <3>1. Stays(call[u])' = Stays(c)
      BY <2>2 DEF Stays, SameShop
    <3>2. ASSUME NEW i \in Stays(c) PROVE RightlyRead(call[u], i)' <=> RightlyRead(c, i)
      <4>1. Keeps(call[u], i)' <=> Keeps(c, i)
        BY <2>2 DEF Stays, SameShop, Keeps
      <4> QED
        BY <2>2, <4>1 DEF RightlyRead, Once, ToSet
    <3> QED
      BY <2>2, <3>1, <3>2 DEF ListInPlace, Live, ToSet
  <2>5. PollInPlace(call[u])' <=> PollInPlace(c)
    BY <2>2 DEF PollInPlace, Live, Latest
  <2>6. BackfillInPlace(call[u])' <=> BackfillInPlace(c)
    BY <2>2 DEF BackfillInPlace, DaysInPlace, Live, SearchInPlace, GetInPlace, Settled, Excused,
                Placed
  <2> QED
    BY <2>1, <2>2, <2>3, <2>4, <2>5, <2>6 DEF ReadInPlace, KindInPlace, Asked, Pristine
<1>3. WorldInPlace'
  BY DEF ReadsInv, WorldInPlace, SameShop, Latest
<1> QED
  BY <1>2, <1>3 DEF ReadsInv

\* The step of a call that has begun: what its kind has to show.
LEMMA ReadGoesOn ==
    ASSUME ReadsInv, CallsInv', NEW t \in Task, NEW c, NEW ending, NEW step,
           Becomes(t, c, ending, step), c.op = call[t].op, c.op # NULL, ending # "idle",
           StartInPlace(c),
           \A d : Same(d, c) /\ d.status = ending /\ (Live(d) => d.step = step) => KindInPlace(d),
           SameShop, UNCHANGED <<updated, edits>>
    PROVE  ReadsInv'
<1>1. PICK d : /\ call' = [call EXCEPT ![t] = d] /\ Same(d, c)
               /\ d.status = ending /\ (Live(d) => d.step = step)
  BY DEF Becomes
<1>2. Asked(c.op)
  BY DEF ReadsInv, ReadInPlace
<1>3. ReadInPlace(d)
  BY <1>1, <1>2 DEF ReadInPlace, Same, StartInPlace
<1> QED
  BY <1>1, <1>3, ReadStep

LEMMA Begun ==
    ASSUME ReadsInv, NEW t \in Task, call[t].status # "idle"
    PROVE  /\ call[t].op # NULL /\ Asked(call[t].op)
           /\ StartInPlace(call[t]) /\ KindInPlace(call[t])
           /\ IsCall(call[t]) /\ CallInPlace(call[t])
BY DEF ReadsInv, ReadInPlace, CallsInv, CallInPlace

\* A request that is sent, lost or refused changes nothing that its call knows.
LEMMA SameRead ==
    ASSUME ReadsInv, CallsInv', NEW t \in Task, NEW c, NEW ending, NEW step,
           c = call[t], Live(c), ending \in {"queued", "sent", "unanswered", "failed"},
           \/ step = c.step
           \/ c.op.kind # "backfill" /\ (step = "page" \/ c.op.kind \in {"set", "upsert"}),
           Becomes(t, c, ending, step),
           UNCHANGED <<shop, updated, edits>>
    PROVE  ReadsInv'
<1>1. c.status # "idle"
  BY DEF Live
<1>2. ASSUME NEW d, Same(d, c), d.status = ending, Live(d) => d.step = step
      PROVE  KindInPlace(d)
  <2>1. KindInPlace(c)
    BY <1>1, Begun
  <2>2. ListInPlace(c) => ListInPlace(d)
    BY <1>2 DEF ListInPlace, Live, Stays, RightlyRead, Once, Keeps, Same
  <2>3. PollInPlace(c) => PollInPlace(d)
    BY <1>2 DEF PollInPlace, Live, Same
  <2>4. c.op.kind = "backfill" /\ BackfillInPlace(c) => BackfillInPlace(d)
    BY <1>2 DEF BackfillInPlace, DaysInPlace, Live, SearchInPlace, GetInPlace, Settled, Excused,
                Same
  <2> QED
    BY <1>2, <2>1, <2>2, <2>3, <2>4 DEF KindInPlace, ReadSteps, Live, Same
<1> QED
  BY <1>1, <1>2, Begun, StillShop, ReadGoesOn

-----------------------------------------------------------------------------
\* Of what is left of a listing, a page holds the first.
NextPage(c, rest, page) ==
    /\ \A n : n \in rest <=> n \in Calls!Listed(c) /\ Calls!Key(c, n) > c.cursor[1]
    /\ page \subseteq rest /\ IsFiniteSet(page)
    /\ c.op.kind # "orders" => rest \subseteq Item
    /\ c.op.kind = "orders" => rest \subseteq Order
    /\ rest # page =>
         LET top == Calls!Max({Calls!Key(c, n) : n \in page}) IN
         /\ top \in Nat /\ c.cursor[1] < top
         /\ c.op.kind = "orders" => top <= Latest
         /\ \A n \in page : Calls!Key(c, n) <= top
         /\ \A n \in rest : Calls!Key(c, n) <= top => n \in page

LEMMA PageFacts ==
    ASSUME ReadsInv, NEW c, c.op.kind = "orders" => c.op.since \in Nat \ {0},
           c.cursor[1] \in Nat, NEW rest, NEW page,
           rest = Calls!After(c), page = Calls!FirstPage(c, rest)
    PROVE  NextPage(c, rest, page)
<1>1. WorldInPlace
  BY DEF ReadsInv
<1>2. PICK b \in Nat : /\ \A n \in Calls!Listed(c) : Calls!Key(c, n) \in Nat /\ Calls!Key(c, n) <= b
                       /\ c.op.kind = "orders" => b = Latest
  <2>1. CASE c.op.kind = "orders"
    BY <1>1, <2>1, WorldType DEF WorldInPlace, Calls!Listed, Calls!Key
  <2>2. CASE c.op.kind # "orders"
    BY <1>1, <2>2, WorldType DEF Calls!Listed, Calls!Key
  <2> QED
    BY <2>1, <2>2
<1>3. rest = {n \in Calls!Listed(c) : Calls!Key(c, n) > c.cursor[1]}
  BY DEF Calls!After
<1>4. /\ c.op.kind # "orders" => rest \subseteq Item
      /\ c.op.kind = "orders" => rest \subseteq Order
  BY <1>3 DEF Calls!Listed
<1>5. IsFiniteSet(rest)
  BY <1>1, <1>4, WorldType, FS_Subset
<1> DEFINE k == [n \in rest |-> Calls!Key(c, n)]
<1>6. k \in [rest -> Nat] /\ (\A n \in rest : k[n] <= b) /\ \A n \in rest : k[n] = Calls!Key(c, n)
  BY <1>2, <1>3
<1> HIDE DEF k
<1>7. PICK less : less = [n \in rest |-> Calls!Before(c, n, rest)]
  OBVIOUS
<1>8. page \in SUBSET rest /\ (rest # {} => IsPage(page, rest, k, less))
  <2>1. page = {n \in rest : Cardinality(Calls!Before(c, n, rest)) < PageSize}
    BY MoreNames DEF Calls!FirstPage
  <2>2. \A m, n \in rest : m \in Calls!Before(c, n, rest) <=> k[m] < k[n]
    BY <1>6 DEF Calls!Before
  <2>3. less \in [rest -> SUBSET rest]
    BY <1>7 DEF Calls!Before
  <2> QED
    BY <1>5, <1>6, <1>7, <2>1, <2>2, <2>3 DEF IsPage
<1>9. IsFiniteSet(page)
  BY <1>5, <1>8, FS_Subset
<1>10. ASSUME rest # page
       PROVE  LET top == Calls!Max({Calls!Key(c, n) : n \in page}) IN
              /\ top \in Nat /\ c.cursor[1] < top
              /\ c.op.kind = "orders" => top <= Latest
              /\ \A n \in page : Calls!Key(c, n) <= top
              /\ \A n \in rest : Calls!Key(c, n) <= top => n \in page
  <2>1. rest # {}
    BY <1>8, <1>10
  <2>2. PICK places : places = {Calls!Key(c, n) : n \in page}
    OBVIOUS
  <2>3. \A x : x \in places <=> \E n \in page : x = k[n]
    BY <1>6, <1>8, <2>2
  <2>4. PICK top : top = Max(places)
    OBVIOUS
  <2>5. /\ \E n \in page : top = k[n]
        /\ \A n \in page : k[n] <= top
        /\ \A n \in rest : k[n] <= top => n \in page
    <3>1. \A n \in rest : k[n] <= b
      BY <1>6
    <3> QED
      BY <1>2, <1>8, <2>1, <2>3, <2>4, <3>1, PageIsFirst
  <2>6. top = Calls!Max({Calls!Key(c, n) : n \in page})
    BY <2>2, <2>4, MoreNames
  <2>7. top \in Nat /\ c.cursor[1] < top /\ top <= b
    BY <1>2, <1>3, <1>6, <1>8, <2>5
  <2>8. /\ \A n \in page : Calls!Key(c, n) <= top
        /\ \A n \in rest : Calls!Key(c, n) <= top => n \in page
    BY <1>6, <1>8, <2>5
  <2> QED
    BY <1>2, <2>6, <2>7, <2>8
<1> QED
  BY <1>3, <1>4, <1>8, <1>9, <1>10 DEF NextPage

LEMMA EntriesOf ==
    ASSUME NEW S, NEW s \in Seq(S)
    PROVE  \A x \in ToSet(s) : x \in S
  BY DEF ToSet

\* The entries of a page that a call keeps follow those it has.
Grown(more, got, rows, S) ==
    /\ more \in Seq(S) /\ ToSet(more) = ToSet(got) \cup rows
    /\ \A n : Once(n, got) /\ n \notin rows => Once(n, more)
    /\ \A n \in rows : n \notin ToSet(got) => Once(n, more)

LEMMA RowsOfPage ==
    ASSUME NEW S, NEW got \in Seq(S), NEW rows \in SUBSET S, IsFiniteSet(rows)
    PROVE  Grown(got \o SetToSeq(rows), got, rows, S)
<1>1. PICK s : s = SetToSeq(rows)
  OBVIOUS
<1>2. s \in Seq(rows) /\ ToSet(s) = rows /\ \A n \in rows : Once(n, s)
  BY <1>1, SeqOfSet
<1>3. s \in Seq(S)
  BY <1>2
<1>4. PICK more : more = got \o s
  OBVIOUS
<1>5. more \in Seq(S) /\ ToSet(more) = ToSet(got) \cup rows
  BY <1>2, <1>3, <1>4, JoinSet
<1>6. \A n : Once(n, got) /\ n \notin rows => Once(n, more)
  BY <1>2, <1>3, <1>4, OnceInTwo
<1>7. \A n \in rows : n \notin ToSet(got) => Once(n, more)
  BY <1>2, <1>3, <1>4, OnceInTwo
<1> QED
  BY <1>1, <1>4, <1>5, <1>6, <1>7 DEF Grown

\* What a call has of a variant in these rows, as ListInPlace wants it.
ReadRightly(c, i, rows) == IF Keeps(c, i) THEN Once(i, rows) ELSE i \notin ToSet(rows)

\* With a page of variants, whatever stayed and is behind it or in it is read, once.
ListRead(c, page, rest, rows, got) ==
    /\ got \in Seq(Item) /\ ToSet(got) = ToSet(c.got) \cup rows
    /\ \A i \in Stays(c) : i <= c.cursor[1] \/ i \in page => ReadRightly(c, i, got)
    /\ \A i \in Stays(c) : i <= c.cursor[1] \/ i \in rest
    /\ c.cursor[1] \in Nat /\ \A i \in ToSet(c.got) : i <= c.cursor[1]

LEMMA PageOfList ==
    ASSUME ReadsInv, NEW c, c.op.kind \in Lists, ListInPlace(c), Live(c),
           NEW rest, NEW page, rest = Calls!After(c), page = Calls!FirstPage(c, rest),
           NEW rows, \A n : n \in rows <=> n \in page /\ Keeps(c, n)
    PROVE  ListRead(c, page, rest, rows, c.got \o SetToSeq(rows))
<1>1. PICK k \in Nat : k = c.cursor[1]
  BY DEF ListInPlace
<1>2. /\ c.op.kind # "orders" /\ c.got \in Seq(Item)
      /\ \A i \in ToSet(c.got) : i <= k
      /\ \A i \in Stays(c) : i <= k => RightlyRead(c, i)
  BY <1>1 DEF Lists, ListInPlace
<1>3. /\ \A n : n \in rest <=> n \in Calls!Listed(c) /\ n > k
      /\ page \subseteq rest /\ IsFiniteSet(page) /\ rest \subseteq Item
  <2>1. NextPage(c, rest, page)
    BY <1>1, <1>2, PageFacts
  <2>2. \A n : Calls!Key(c, n) = n
    BY <1>2 DEF Calls!Key
  <2> QED
    BY <1>1, <1>2, <2>1, <2>2 DEF NextPage
<1>4. rows \in SUBSET Item /\ IsFiniteSet(rows)
  <2>1. rows \subseteq page
    OBVIOUS
  <2> QED
    BY <1>3, <2>1, FS_Subset
<1>5. PICK got : got = c.got \o SetToSeq(rows)
  OBVIOUS
<1>6. Grown(got, c.got, rows, Item)
  BY <1>2, <1>4, <1>5, RowsOfPage
<1>7. \A i \in Stays(c) : i \in Nat /\ i \in Item /\ i \in Calls!Listed(c)
  <2>1. Item \subseteq Nat
    BY WorldType DEF ReadsInv
  <2> QED
    BY <1>2, <2>1 DEF Stays, Calls!Listed
<1>8. ASSUME NEW i \in Stays(c), i <= k PROVE ReadRightly(c, i, got)
  <2>1. i \in Nat
    BY <1>7
  <2>2. ~(i > k)
    BY <1>8, <2>1
  <2>3. i \notin rows
    BY <1>3, <2>2
  <2> QED
    BY <1>2, <1>6, <1>8, <2>3 DEF ReadRightly, RightlyRead, Grown
<1>9. ASSUME NEW i \in Stays(c), i \in page PROVE ReadRightly(c, i, got)
  <2>1. i \in Nat /\ i > k
    BY <1>3, <1>7, <1>9
  <2>2. ~(i <= k)
    BY <2>1
  <2>3. i \notin ToSet(c.got)
    BY <1>2, <2>2
  <2> QED
    BY <1>6, <1>9, <2>3 DEF ReadRightly, Grown
<1>10. ASSUME NEW i \in Stays(c), ~(i <= k) PROVE i \in rest
  <2>1. i \in Nat
    BY <1>7
  <2>2. i > k
    BY <1>10, <2>1
  <2> QED
    BY <1>3, <1>7, <2>2
<1> QED
  BY <1>1, <1>2, <1>5, <1>6, <1>8, <1>9, <1>10 DEF ListRead, Grown

\* With a page of orders, whatever was of the window when the poll began is read or ahead.
PollRead(c, page, rest, got) ==
    /\ got \in Seq(Order) /\ ToSet(got) = ToSet(c.got) \cup page
    /\ \A o \in Order : c.start[o] >= c.op.since => o \in ToSet(c.got) \/ o \in rest
    /\ c.cursor[1] \in Nat /\ c.op.since \in Nat \ {0}

LEMMA PageOfOrders ==
    ASSUME ReadsInv, NEW c, c.op.kind = "orders", c.op.since \in Nat \ {0}, PollInPlace(c),
           StartInPlace(c), Live(c),
           NEW rest, NEW page, rest = Calls!After(c), page = Calls!FirstPage(c, rest),
           NEW rows, \A n : n \in rows <=> n \in page /\ Keeps(c, n)
    PROVE  PollRead(c, page, rest, c.got \o SetToSeq(rows))
<1>1. PICK k \in Nat : k = c.cursor[1]
  BY DEF PollInPlace
<1>2. /\ c.got \in Seq(Order)
      /\ \A o \in Order : c.start[o] >= c.op.since => o \in ToSet(c.got) \/ updated[o] > k
  BY <1>1 DEF PollInPlace
<1>3. /\ \A n : n \in rest <=> n \in Calls!Listed(c) /\ updated[n] > k
      /\ page \subseteq rest /\ IsFiniteSet(page) /\ rest \subseteq Order
  <2>1. NextPage(c, rest, page)
    BY <1>1, PageFacts
  <2>2. \A n : Calls!Key(c, n) = updated[n]
    BY DEF Calls!Key
  <2> QED
    BY <1>1, <2>1, <2>2 DEF NextPage
<1>4. rows = page
  BY DEF Keeps
<1>5. PICK got : got = c.got \o SetToSeq(rows)
  OBVIOUS
<1>6. rows \in SUBSET Order /\ IsFiniteSet(rows)
  BY <1>3, <1>4
<1>7. Grown(got, c.got, rows, Order)
  BY <1>2, <1>5, <1>6, RowsOfPage
<1>8. ASSUME NEW o \in Order, c.start[o] >= c.op.since, o \notin ToSet(c.got) PROVE o \in rest
  <2>1. c.start[o] \in Nat /\ updated[o] \in Nat /\ c.start[o] <= updated[o]
    BY DEF StartInPlace, ReadsInv, WorldInPlace
  <2>2. updated[o] >= c.op.since
    BY <1>8, <2>1
  <2> QED
    BY <1>2, <1>3, <1>8, <2>2 DEF Calls!Listed
<1> QED
  BY <1>1, <1>4, <1>5, <1>7, <1>8 DEF PollRead, Grown

\* What a call has to show that goes on, or ends, with other rows.
ListGoesOn(c, e, ending) ==
    /\ e.got \in Seq(Item)
    /\ ending = "queued" =>
        /\ e.cursor[1] \in Nat
        /\ \A i \in ToSet(e.got) : i <= e.cursor[1]
        /\ \A i \in Stays(c) : i <= e.cursor[1] => ReadRightly(c, i, e.got)
    /\ ending = "ok" /\ (c.op.kind = "variants" => c.op.most = 0) =>
        \A i \in Stays(c) : ReadRightly(c, i, e.got)
    /\ ending = "ok" /\ c.op.kind = "variants" /\ c.op.most > 0 => Len(e.got) <= c.op.most

PollGoesOn(c, e, ending) ==
    /\ e.got \in Seq(Order)
    /\ ending = "queued" =>
        /\ e.cursor[1] \in Nat /\ e.cursor[1] <= Latest
        /\ \A o \in Order : c.start[o] >= c.op.since =>
              o \in ToSet(e.got) \/ updated[o] > e.cursor[1]
    /\ ending = "ok" => \A o \in Order : c.start[o] >= c.op.since => o \in ToSet(e.got)

LEMMA PageKeepsReads ==
    ASSUME ReadsInv, CallsInv', NEW t \in Task, Calls!Page(t)
    PROVE  ReadsInv'
<1>1. PICK c : c = call[t]
  OBVIOUS
<1>2. PICK rest, page : rest = Calls!After(c) /\ page = Calls!FirstPage(c, rest)
  OBVIOUS
<1>3. PICK rows, got : rows = {n \in page : Keeps(c, n)} /\ got = c.got \o SetToSeq(rows)
  OBVIOUS
<1>4. PICK top : top = Calls!Max({Calls!Key(c, n) : n \in page})
  OBVIOUS
<1>5. PICK size : size = c.cursor[2] + Cardinality(page)
  OBVIOUS
<1>6. /\ c.status = "sent" /\ c.step = "page" /\ UNCHANGED <<shop, updated, edits>>
      /\ \/ Calls!End(t, c, "failed")
         \/ /\ c.op.kind = "variants" /\ c.op.most > 0
            /\ Len(got) >= c.op.most
           /\ Calls!End(t, [c EXCEPT !.got = SubSeq(got, 1, c.op.most)], "ok")
         \/ rest # page /\ Calls!Await(t, [c EXCEPT !.got = got, !.cursor = <<top, size>>], "page")
         \/ /\ rest = page /\ ~(c.op.kind = "variants" /\ c.op.most > 0 /\ Len(got) >= c.op.most)
            /\ Calls!End(t, [c EXCEPT !.got = got], "ok")
  <2>1. Calls!InHand(t, "page") /\ UNCHANGED <<shop, updated, edits>>
    BY DEF Calls!Page, Calls!outside
  <2>2. got = c.got \o Calls!SetToSeq({n \in page : Calls!Keeps(c, n)})
    BY <1>3, MoreNames
  <2>3. size = c.cursor[2] + Calls!Cardinality(page)
    BY <1>5, MoreNames
  <2>4. \/ Calls!End(t, c, "failed")
        \/ /\ c.op.kind = "variants" /\ c.op.most > 0
           /\ Len(got) >= c.op.most
           /\ Calls!End(t, [c EXCEPT !.got = SubSeq(got, 1, c.op.most)], "ok")
        \/ rest # page /\ Calls!Await(t, [c EXCEPT !.got = got, !.cursor = <<top, size>>], "page")
        \/ /\ rest = page /\ ~(c.op.kind = "variants" /\ c.op.most > 0 /\ Len(got) >= c.op.most)
           /\ Calls!End(t, [c EXCEPT !.got = got], "ok")
    BY <1>1, <1>2, <1>4, <2>2, <2>3 DEF Calls!Page
  <2> QED
    BY <1>1, <2>1, <2>4 DEF Calls!InHand
<1>7. /\ c.op # NULL /\ Asked(c.op) /\ StartInPlace(c) /\ KindInPlace(c) /\ IsCall(c)
      /\ c.op.kind \notin {"set", "upsert", "backfill"} /\ Live(c)
  BY <1>1, <1>6, Begun DEF CallInPlace, KindInPlace, Live, StepsOf, ReadSteps
\* What a call shows that goes on, or ends, with other rows.
<1>8. ASSUME NEW e, IsCall(e), e.op = c.op, e.start = c.start, e.moved = c.moved,
             NEW ending \in {"queued", "ok"}, Becomes(t, e, ending, "page"),
             c.op.kind \in Lists => ListGoesOn(c, e, ending),
             c.op.kind = "orders" => PollGoesOn(c, e, ending)
      PROVE  ReadsInv'
  <2>1. ASSUME NEW d, Same(d, e), d.status = ending, Live(d) => d.step = "page"
        PROVE  KindInPlace(d)
    <3>1. d.op = c.op /\ d.got = e.got /\ d.cursor = e.cursor /\ d.start = c.start
          /\ d.moved = c.moved
      BY <1>8, <2>1 DEF Same
    <3>2. ASSUME c.op.kind \in Lists PROVE ListInPlace(d)
      <4>1. Stays(d) = Stays(c) /\ \A i : RightlyRead(d, i) <=> ReadRightly(c, i, e.got)
        BY <3>1 DEF Stays, RightlyRead, ReadRightly, Keeps
      <4> QED
        BY <1>8, <2>1, <3>1, <3>2, <4>1 DEF ListInPlace, ListGoesOn, Live
    <3>3. ASSUME c.op.kind = "orders" PROVE PollInPlace(d)
      BY <1>8, <2>1, <3>1, <3>3 DEF PollInPlace, PollGoesOn, Live
    <3> QED
      BY <1>7, <2>1, <3>1, <3>2, <3>3 DEF KindInPlace, ReadSteps
  <2>2. StartInPlace(e)
    BY <1>7, <1>8 DEF StartInPlace
  <2>3. e.op = call[t].op /\ e.op # NULL /\ ending # "idle"
    BY <1>1, <1>7, <1>8
  <2> QED
    BY <1>6, <1>8, <2>1, <2>2, <2>3, StillShop, ReadGoesOn
<1>9. CASE Calls!End(t, c, "failed")
  <2>1. Becomes(t, c, "failed", "page")
    BY <1>7, <1>9, EndIs
  <2> QED
    BY <1>1, <1>6, <1>7, <2>1, SameRead
\* What a page brings to a listing, and to a poll.
<1>10. ASSUME c.op.kind \in Lists PROVE ListRead(c, page, rest, rows, got)
  <2>1. ListInPlace(c)
    BY <1>7, <1>10 DEF KindInPlace
  <2>2. \A n : n \in rows <=> n \in page /\ Keeps(c, n)
    BY <1>3
  <2> QED
    BY <1>2, <1>3, <1>7, <1>10, <2>1, <2>2, PageOfList
<1>11. ASSUME c.op.kind = "orders" PROVE PollRead(c, page, rest, got)
  <2>1. PollInPlace(c) /\ c.op.since \in Nat \ {0}
    BY <1>7, <1>11 DEF KindInPlace, Asked
  <2>2. \A n : n \in rows <=> n \in page /\ Keeps(c, n)
    BY <1>3
  <2> QED
    BY <1>2, <1>3, <1>7, <1>11, <2>1, <2>2, PageOfOrders
<1>12. ASSUME c.op.kind = "variants", c.op.most > 0, Len(got) >= c.op.most,
              Calls!End(t, [c EXCEPT !.got = SubSeq(got, 1, c.op.most)], "ok")
       PROVE  ReadsInv'
  <2>1. PICK e : e = [c EXCEPT !.got = SubSeq(got, 1, c.op.most)]
    OBVIOUS
  <2>2. /\ IsCall(e) /\ e.op = c.op /\ e.start = c.start /\ e.moved = c.moved
        /\ e.got = SubSeq(got, 1, c.op.most)
    BY <1>7, <2>1 DEF IsCall
  <2>3. Becomes(t, e, "ok", "page")
    BY <1>12, <2>1, <2>2, EndIs
  <2>4. c.op.most \in Nat /\ got \in Seq(Item) /\ Len(got) >= c.op.most
    BY <1>7, <1>10, <1>12 DEF Asked, Lists, ListRead
  <2>5. e.got \in Seq(Item) /\ Len(e.got) <= c.op.most
    BY <2>2, <2>4, SplitSet
  <2>6. ListGoesOn(c, e, "ok")
    BY <1>12, <2>4, <2>5 DEF ListGoesOn
  <2>7. c.op.kind # "orders"
    BY <1>12
  <2> QED
    BY <1>8, <2>2, <2>3, <2>6, <2>7
<1>13. ASSUME rest # page, Calls!Await(t, [c EXCEPT !.got = got, !.cursor = <<top, size>>], "page")
       PROVE  ReadsInv'
  <2>1. PICK e : e = [c EXCEPT !.got = got, !.cursor = <<top, size>>]
    OBVIOUS
  <2>2. /\ IsCall(e) /\ e.op = c.op /\ e.start = c.start /\ e.moved = c.moved
        /\ e.got = got /\ e.cursor[1] = top
    BY <1>7, <2>1 DEF IsCall
  <2>3. Becomes(t, e, "queued", "page")
    BY <1>13, <2>1, <2>2, AwaitIs
  <2>4. c.op.kind = "orders" => c.op.since \in Nat \ {0}
    BY <1>11 DEF PollRead
  <2>5. c.cursor[1] \in Nat =>
            /\ top \in Nat /\ c.cursor[1] < top /\ page \subseteq rest
            /\ c.op.kind = "orders" => top <= Latest
            /\ \A n \in page : Calls!Key(c, n) <= top
            /\ \A n \in rest : Calls!Key(c, n) <= top => n \in page
    <3>1. c.cursor[1] \in Nat => NextPage(c, rest, page)
      BY <1>2, <2>4, PageFacts
    <3> QED
      BY <1>4, <1>13, <3>1 DEF NextPage
  <2>6. ASSUME c.op.kind \in Lists PROVE ListGoesOn(c, e, "queued")
    <3>1. \A n : Calls!Key(c, n) = n
      BY <2>6 DEF Calls!Key, Lists
    <3>2. /\ top \in Nat /\ c.cursor[1] < top /\ page \subseteq rest
          /\ \A n \in page : n <= top
          /\ \A n \in rest : n <= top => n \in page
      BY <1>10, <2>5, <2>6, <3>1 DEF ListRead
    <3>3. ASSUME NEW i \in ToSet(got) PROVE i <= top
      <4>1. CASE i \in rows
        BY <1>3, <3>2, <4>1
      <4>2. CASE i \in ToSet(c.got)
        <5>1. i \in Item
          BY <1>10, <2>6, <3>3, EntriesOf DEF ListRead
        <5>2. i \in Nat
          BY <5>1, WorldType DEF ReadsInv
        <5> QED
          BY <1>10, <2>6, <3>2, <4>2, <5>2 DEF ListRead
      <4> QED
        BY <1>10, <2>6, <3>3, <4>1, <4>2 DEF ListRead
    <3>4. ASSUME NEW i \in Stays(c), i <= top PROVE ReadRightly(c, i, got)
      BY <1>10, <2>6, <3>2, <3>4 DEF ListRead
    <3> QED
      BY <1>10, <2>2, <2>6, <3>2, <3>3, <3>4 DEF ListRead, ListGoesOn
  <2>7. ASSUME c.op.kind = "orders" PROVE PollGoesOn(c, e, "queued")
    <3>1. \A n : Calls!Key(c, n) = updated[n]
      BY <2>7 DEF Calls!Key
    <3>2. /\ top \in Nat /\ top <= Latest
          /\ \A n \in rest : updated[n] <= top => n \in page
      BY <1>11, <2>5, <2>7, <3>1 DEF PollRead
    <3>3. ASSUME NEW o \in Order, c.start[o] >= c.op.since, o \notin ToSet(got)
          PROVE  updated[o] > top
      <4>1. o \in rest /\ o \notin page
        BY <1>11, <2>7, <3>3 DEF PollRead
      <4>2. updated[o] \in Nat
        BY DEF ReadsInv, WorldInPlace
      <4> QED
        BY <3>2, <4>1, <4>2
    <3> QED
      BY <1>11, <2>2, <2>7, <3>2, <3>3 DEF PollRead, PollGoesOn
  <2> QED
    BY <1>8, <2>2, <2>3, <2>6, <2>7
<1>14. ASSUME rest = page, ~(c.op.kind = "variants" /\ c.op.most > 0 /\ Len(got) >= c.op.most),
              Calls!End(t, [c EXCEPT !.got = got], "ok")
       PROVE  ReadsInv'
  <2>1. PICK e : e = [c EXCEPT !.got = got]
    OBVIOUS
  <2>2. IsCall(e) /\ e.op = c.op /\ e.start = c.start /\ e.moved = c.moved /\ e.got = got
    BY <1>7, <2>1 DEF IsCall
  <2>3. Becomes(t, e, "ok", "page")
    BY <1>14, <2>1, <2>2, EndIs
  <2>4. ASSUME c.op.kind \in Lists PROVE ListGoesOn(c, e, "ok")
    <3>1. Len(got) \in Nat
      BY <1>10, <2>4 DEF ListRead
    <3>2. c.op.kind = "variants" => c.op.most \in Nat
      BY <1>7 DEF Asked
    <3> QED
      BY <1>10, <1>14, <2>2, <2>4, <3>1, <3>2 DEF ListRead, ListGoesOn
  <2>5. ASSUME c.op.kind = "orders" PROVE PollGoesOn(c, e, "ok")
    BY <1>11, <1>14, <2>2, <2>5 DEF PollRead, PollGoesOn
  <2> QED
    BY <1>8, <2>2, <2>3, <2>4, <2>5
<1> QED
  BY <1>6, <1>9, <1>12, <1>13, <1>14

\* A step of a write, which has nothing to show for what it reads.
LEMMA WriteGoesOn ==
    ASSUME ReadsInv, CallsInv', NEW t \in Task, NEW c, NEW ending, NEW step,
           Becomes(t, c, ending, step), call[t].status # "idle", ending # "idle",
           c.op = call[t].op, c.op.kind \in {"set", "upsert"}, c.start = call[t].start,
           SameShop, UNCHANGED <<updated, edits>>
    PROVE  ReadsInv'
<1>1. c.op # NULL /\ StartInPlace(c)
  BY Begun DEF StartInPlace
<1>2. ASSUME NEW d, Same(d, c) PROVE KindInPlace(d)
  BY <1>2 DEF KindInPlace, Same, Lists
<1> QED
  BY <1>1, <1>2, ReadGoesOn

LEMMA SendKeepsReads ==
    ASSUME ReadsInv, CallsInv', NEW t \in Task, Calls!Send(t)
    PROVE  ReadsInv'
<1>1. PICK c : c = call[t]
  OBVIOUS
<1>2. PICK d : d = [c EXCEPT !.status = "sent"]
  OBVIOUS
<1>3. c.status = "queued" /\ UNCHANGED <<shop, updated, edits>>
  BY <1>1 DEF Calls!Send, Calls!outside
<1>4. IsCall(c)
  BY <1>1, <1>3, Begun
<1>5. call' = [call EXCEPT ![t] = d]
  BY <1>1, <1>2 DEF Calls!Send, ReadsInv, CallsInv
<1>6. IsCall(d) /\ Same(d, c) /\ d.status = "sent" /\ d.step = c.step
  BY <1>2, <1>4 DEF IsCall, Same
<1>7. Becomes(t, c, "sent", c.step)
  BY <1>5, <1>6 DEF Becomes
<1> QED
  BY <1>1, <1>3, <1>7, SameRead DEF Live

LEMMA RefusedKeepsReads ==
    ASSUME ReadsInv, CallsInv', NEW t \in Task, Calls!NoAnswer(t) \/ Calls!GraphQLErrors(t)
    PROVE  ReadsInv'
<1>1. PICK c : c = call[t]
  OBVIOUS
<1>2. c.status = "sent" /\ UNCHANGED <<shop, updated, edits>>
  BY <1>1 DEF Calls!NoAnswer, Calls!GraphQLErrors, Calls!outside
<1>3. IsCall(c)
  BY <1>1, <1>2, Begun
<1>4. PICK ending \in {"queued", "unanswered", "failed"} : Becomes(t, c, ending, c.step)
  BY <1>1, <1>3, AgainIs, EndIs DEF Calls!NoAnswer, Calls!GraphQLErrors
<1> QED
  BY <1>1, <1>2, <1>4, SameRead DEF Live

LEMMA LocateKeepsReads ==
    ASSUME ReadsInv, CallsInv', NEW t \in Task, Calls!Locate(t)
    PROVE  ReadsInv'
<1>1. PICK c : c = call[t]
  OBVIOUS
<1>2. c.status = "sent" /\ c.step = "locate" /\ UNCHANGED <<shop, updated, edits>>
  BY <1>1 DEF Calls!Locate, Calls!InHand, Calls!outside
<1>3. IsCall(c) /\ KindInPlace(c)
  BY <1>1, <1>2, Begun
<1>4. PICK step : /\ step = IF c.op.kind = "set" THEN "lookup" ELSE "page"
                  /\ Becomes(t, c, "queued", step)
  BY <1>1, <1>3, AwaitIs DEF Calls!Locate
<1>5. c.op.kind # "backfill"
  BY <1>2, <1>3 DEF KindInPlace, ReadSteps, Live
<1> QED
  BY <1>1, <1>2, <1>4, <1>5, SameRead DEF Live

\* How a request of a write leaves its call.
WriteOn(t, e) ==
    \/ \E ending \in {"ok", "failed", "rejected"} : Calls!End(t, e, ending)
    \/ \E step \in {"write", "upsert"} : Calls!Await(t, e, step)
    \/ Calls!Again(t, e)

LEMMA WriteKeepsReads ==
    ASSUME ReadsInv, CallsInv', NEW t \in Task, NEW c, c = call[t], c.status # "idle",
           c.op.kind \in {"set", "upsert"}, NEW e, IsCall(e), e.op = c.op, e.start = c.start,
           WriteOn(t, e), SameShop, UNCHANGED <<updated, edits>>
    PROVE  ReadsInv'
<1>1. PICK ending, step : Becomes(t, e, ending, step) /\ ending # "idle"
  BY EndIs, AwaitIs, AgainIs DEF WriteOn
<1> QED
  BY <1>1, WriteGoesOn

LEMMA SetKeepsReads ==
    ASSUME ReadsInv, CallsInv', NEW t \in Task, Calls!Lookup(t) \/ Calls!Write(t)
    PROVE  ReadsInv'
<1>1. PICK c : c = call[t]
  OBVIOUS
<1>2. /\ c.status = "sent" /\ c.step \in {"lookup", "write"} /\ UNCHANGED <<updated, edits>>
  BY <1>1 DEF Calls!Lookup, Calls!Write, Calls!InHand, Calls!outside
<1>3. IsCall(c) /\ c.op.kind = "set" /\ Asked(c.op)
  BY <1>1, <1>2, Begun DEF CallInPlace, Live, StepsOf
<1>4. ASSUME NEW e, IsCall(e), e.op = c.op, e.start = c.start, WriteOn(t, e), SameShop
      PROVE  ReadsInv'
  BY <1>1, <1>2, <1>3, <1>4, WriteKeepsReads
<1>5. CASE Calls!Lookup(t)
  <2>1. SameShop
    BY <1>5, StillShop DEF Calls!Lookup, Calls!outside
  <2>2. CASE Calls!End(t, c, "failed")
    BY <1>3, <1>4, <2>1, <2>2 DEF WriteOn
  <2>3. ASSUME NEW i, NEW named,
               Calls!Await(t, [c EXCEPT !.item = i, !.named = named], "write")
        PROVE  ReadsInv'
    <3>1. PICK e : e = [c EXCEPT !.item = i, !.named = named]
      OBVIOUS
    <3>2. IsCall(e) /\ e.op = c.op /\ e.start = c.start
      BY <1>3, <3>1 DEF IsCall
    <3> QED
      BY <1>4, <2>1, <2>3, <3>1, <3>2 DEF WriteOn
  <2> QED
    BY <1>1, <1>5, <2>2, <2>3 DEF Calls!Lookup
<1>6. CASE Calls!Write(t)
  <2>1. CASE Calls!End(t, c, "failed") /\ UNCHANGED shop
    BY <1>3, <1>4, <2>1, StillShop DEF WriteOn
  <2>2. ASSUME ~Calls!Missing(shop[c.item]),
               shop' = [shop EXCEPT ![c.item] = [sku |-> @.sku, listed |-> @.listed,
                                                onHand |-> c.op.qty]]
        PROVE  SameShop
    <3>1. shop = [i \in Item |-> shop[i]]
      BY DEF ReadsInv, WorldInPlace
    <3>2. shop' = [i \in Item |-> IF i = c.item THEN [sku |-> shop[i].sku,
                                     listed |-> shop[i].listed, onHand |-> c.op.qty]
                                  ELSE shop[i]]
      BY <2>2, <3>1
    <3>3. c.op.qty # NULL
      BY <1>3 DEF Asked
    <3>4. ASSUME NEW i \in Item
          PROVE  /\ shop'[i].sku = shop[i].sku /\ shop'[i].listed = shop[i].listed
                 /\ shop'[i].onHand = NULL <=> shop[i].onHand = NULL
      <4>1. CASE i = c.item
        <5>1. shop'[i] = [sku |-> shop[i].sku, listed |-> shop[i].listed, onHand |-> c.op.qty]
          BY <3>2, <4>1
        <5>2. shop[i].onHand # NULL
          BY <2>2, <4>1 DEF Calls!Missing
        <5> QED
          BY <3>3, <5>1, <5>2
      <4>2. CASE i # c.item
        BY <3>2, <4>2
      <4> QED
        BY <4>1, <4>2
    <3>5. shop' = [i \in Item |-> shop'[i]]
      BY <3>2
    <3> QED
      BY <3>4, <3>5 DEF SameShop
  <2>3. PICK e : e = [c EXCEPT !.took = {c.item}]
    OBVIOUS
  <2>4. IsCall(e) /\ e.op = c.op /\ e.start = c.start
    BY <1>3, <2>3 DEF IsCall
  <2>5. CASE SameShop /\ (Calls!End(t, e, "ok") \/ Calls!Again(t, e))
    BY <1>4, <2>4, <2>5 DEF WriteOn
  <2> QED
    BY <1>1, <1>6, <2>1, <2>2, <2>3, <2>5 DEF Calls!Write
<1> QED
  BY <1>5, <1>6

LEMMA BatchKeepsReads ==
    ASSUME ReadsInv, CallsInv', NEW t \in Task, Calls!Upserted(t) \/ Calls!NotUpserted(t)
    PROVE  ReadsInv'
<1>1. PICK c : c = call[t]
  OBVIOUS
<1>2. c.status = "sent" /\ c.step = "upsert" /\ UNCHANGED <<shop, updated, edits>>
  BY <1>1 DEF Calls!Upserted, Calls!NotUpserted, Calls!InHand, Calls!outside
<1>3. IsCall(c) /\ c.op.kind = "upsert"
  BY <1>1, <1>2, Begun DEF CallInPlace, Live, StepsOf
<1>4. ASSUME NEW e, IsCall(e), e.op = c.op, e.start = c.start, WriteOn(t, e)
      PROVE  ReadsInv'
  BY <1>1, <1>2, <1>3, <1>4, StillShop, WriteKeepsReads
<1>5. CASE Calls!Upserted(t)
  <2>1. PICK left, got, took :
          Calls!NextBatch(t, [c EXCEPT !.todo = left, !.got = got, !.took = took])
    BY <1>1, <1>5 DEF Calls!Upserted
  <2>2. PICK e : e = [c EXCEPT !.todo = left, !.got = got, !.took = took]
    OBVIOUS
  <2>3. IsCall(e) /\ e.op = c.op /\ e.start = c.start
    BY <1>3, <2>2 DEF IsCall
  <2>4. WriteOn(t, e)
    BY <2>1, <2>2 DEF Calls!NextBatch, WriteOn
  <2> QED
    BY <1>4, <2>3, <2>4
<1>6. CASE Calls!NotUpserted(t)
  <2>1. PICK took, named :
          \/ Calls!End(t, [[c EXCEPT !.took = took] EXCEPT !.named = named], "rejected")
          \/ Calls!Again(t, [c EXCEPT !.took = took])
    BY <1>1, <1>6 DEF Calls!NotUpserted
  <2>2. PICK d : d = [c EXCEPT !.took = took]
    OBVIOUS
  <2>3. PICK e : e = [d EXCEPT !.named = named]
    OBVIOUS
  <2>4. IsCall(d) /\ d.op = c.op /\ d.start = c.start
    BY <1>3, <2>2 DEF IsCall
  <2>5. IsCall(e) /\ e.op = c.op /\ e.start = c.start
    BY <2>3, <2>4 DEF IsCall
  <2> QED
    BY <1>4, <2>1, <2>2, <2>3, <2>4, <2>5 DEF WriteOn
<1> QED
  BY <1>5, <1>6

-----------------------------------------------------------------------------
\* The next request of a backfill.
LEMMA BackfillGoesOn ==
    ASSUME ReadsInv, CallsInv', NEW t \in Task, NEW c, NEW ending, NEW step, IsCall(c),
           c.op = call[t].op, c.op # NULL, c.op.kind = "backfill",
           StartInPlace(c), DaysInPlace(c), Becomes(t, c, ending, step),
           \/ ending = "ok" /\ c.todo = <<>>
           \/ /\ ending = "queued" /\ c.todo # <<>>
              /\ \/ step = "count"
                 \/ step = "search" /\ SearchInPlace(c, Head(c.todo))
                 \/ step = "get" /\ GetInPlace(c, Head(c.todo)),
           UNCHANGED <<shop, updated, edits>>
    PROVE  ReadsInv'
<1>1. ASSUME NEW d, Same(d, c), d.status = ending, Live(d) => d.step = step
      PROVE  KindInPlace(d)
  <2>1. DaysInPlace(d)
    BY <1>1 DEF DaysInPlace, Settled, Excused, Same
  <2>2. BackfillInPlace(d)
    BY <1>1, <2>1 DEF BackfillInPlace, SearchInPlace, GetInPlace, Excused, Live, Same
  <2> QED
    BY <1>1, <2>2 DEF KindInPlace, ReadSteps, Live, Lists, Same
<1>2. ending # "idle"
  OBVIOUS
<1> QED
  BY <1>1, <1>2, StillShop, ReadGoesOn

LEMMA NextChunkKeeps ==
    ASSUME ReadsInv, CallsInv', NEW t \in Task, NEW c, IsCall(c),
           c.op = call[t].op, c.op # NULL, c.op.kind = "backfill",
           StartInPlace(c), DaysInPlace(c), Calls!NextChunk(t, c),
           UNCHANGED <<shop, updated, edits>>
    PROVE  ReadsInv'
<1>1. CASE c.todo = <<>>
  <2>1. Becomes(t, c, "ok", "count")
    BY <1>1, EndIs DEF Calls!NextChunk
  <2> QED
    BY <1>1, <2>1, BackfillGoesOn
<1>2. CASE c.todo # <<>>
  <2>1. Becomes(t, c, "queued", "count")
    BY <1>2, AwaitIs DEF Calls!NextChunk
  <2> QED
    BY <1>2, <2>1, BackfillGoesOn
<1> QED
  BY <1>1, <1>2

\* What is settled stays settled as more is read, named or seen.
LEMMA SettledMore ==
    ASSUME NEW c, NEW d, NEW days, Settled(c, days), d.start = c.start,
           ToSet(c.got) \subseteq ToSet(d.got), c.named \subseteq d.named, c.took \subseteq d.took
    PROVE  Settled(d, days)
BY DEF Settled, Excused

\* A page of the search of some days.
LEMMA SearchIs ==
    ASSUME ReadsInv, NEW days, NEW page \in Calls!Search(days)
    PROVE  /\ page \subseteq Placed(days) /\ IsFiniteSet(page) /\ page \subseteq Order
           /\ Cardinality(page) \in Nat /\ PageLimit \in Nat \ {0}
           /\ Cardinality(page) = 0 => Placed(days) = {}
           /\ Cardinality(page) < PageLimit => page = Placed(days)
           /\ Cardinality(Placed(days)) < PageLimit => page = Placed(days)
<1>1. PageLimit \in Nat \ {0}
  BY CallsAssumption
<1>2. PICK all : all = Placed(days)
  OBVIOUS
<1>3. page \subseteq all /\ Cardinality(page) = Calls!Least(PageLimit, Cardinality(all))
  BY <1>2, MoreNames DEF Calls!Search, Placed
<1>4. IsFiniteSet(all) /\ all \subseteq Order
  <2>1. all \subseteq Order
    BY <1>2 DEF Placed
  <2> QED
    BY <2>1, WorldType, FS_Subset DEF ReadsInv
<1>5. IsFiniteSet(page) /\ Cardinality(page) \in Nat /\ Cardinality(all) \in Nat
  BY <1>3, <1>4, FS_Subset, FS_CardinalityType
<1>6. Cardinality(page) = Cardinality(all) => page = all
  BY <1>3, <1>4, FS_Subset
<1>7. \/ Cardinality(page) = Cardinality(all)
      \/ Cardinality(page) = PageLimit /\ PageLimit < Cardinality(all)
  BY <1>1, <1>3, <1>5 DEF Calls!Least
<1>8. Cardinality(page) = 0 => all = {}
  BY <1>1, <1>4, <1>7, FS_EmptySet
<1>9. Cardinality(page) < PageLimit => page = all
  BY <1>1, <1>6, <1>7
<1>10. Cardinality(all) < PageLimit => page = all
  BY <1>1, <1>5, <1>6, <1>7
<1> QED
  BY <1>1, <1>2, <1>3, <1>4, <1>5, <1>8, <1>9, <1>10

\* A backfill in the middle of a chunk.
LEMMA InChunk ==
    ASSUME ReadsInv, NEW t \in Task, NEW c, c = call[t], c.status = "sent",
           c.step \in {"count", "search", "get"}
    PROVE  /\ c.op # NULL /\ c.op.kind = "backfill" /\ StartInPlace(c) /\ IsCall(c)
           /\ BackfillInPlace(c) /\ DaysInPlace(c) /\ c.todo # <<>>
           /\ c.todo \in Seq(ToSet(c.op.rows)) /\ Tail(c.todo) \in Seq(ToSet(c.op.rows))
           /\ ToSet(c.todo) = {Head(c.todo)} \cup ToSet(Tail(c.todo))
<1>1. /\ c.op # NULL /\ c.op.kind = "backfill" /\ StartInPlace(c) /\ IsCall(c)
      /\ BackfillInPlace(c)
  <2>1. /\ c.op # NULL /\ StartInPlace(c) /\ IsCall(c) /\ KindInPlace(c) /\ CallInPlace(c)
    BY Begun
  <2>2. c.op.kind = "backfill"
    BY <2>1 DEF KindInPlace, CallInPlace, ReadSteps, StepsOf, Live
  <2> QED
    BY <2>1, <2>2 DEF KindInPlace
<1>2. DaysInPlace(c) /\ c.todo # <<>> /\ c.todo \in Seq(ToSet(c.op.rows))
  BY <1>1 DEF BackfillInPlace, DaysInPlace, Live
<1> QED
  BY <1>1, <1>2, HeadAndTail

\* The chunk in hand is done: its days are settled, and the rest is as it was.
LEMMA ChunkDone ==
    ASSUME ReadsInv, CallsInv', NEW t \in Task, NEW c, c = call[t], c.status = "sent",
           c.step \in {"count", "search", "get"},
           NEW e, IsCall(e), e.op = c.op, e.start = c.start, e.got \in Seq(Order),
           ToSet(c.got) \subseteq ToSet(e.got), c.named \subseteq e.named,
           c.took \subseteq e.took, e.todo = Tail(c.todo), Settled(e, Head(c.todo)),
           Calls!NextChunk(t, e), UNCHANGED <<shop, updated, edits>>
    PROVE  ReadsInv'
<1>1. /\ c.op # NULL /\ c.op.kind = "backfill" /\ StartInPlace(c) /\ DaysInPlace(c)
      /\ Tail(c.todo) \in Seq(ToSet(c.op.rows))
      /\ ToSet(c.todo) = {Head(c.todo)} \cup ToSet(Tail(c.todo))
  BY InChunk
<1>2. ASSUME NEW days \in ToSet(c.op.rows) PROVE Settled(e, days) \/ days \in ToSet(e.todo)
  <2>1. CASE Settled(c, days)
    BY <2>1, SettledMore
  <2>2. CASE days \in ToSet(c.todo)
    BY <1>1, <2>2
  <2> QED
    BY <2>1, <2>2, <1>1 DEF DaysInPlace
<1>3. DaysInPlace(e)
  BY <1>1, <1>2 DEF DaysInPlace
<1>4. StartInPlace(e)
  BY <1>1 DEF StartInPlace
<1> QED
  BY <1>1, <1>3, <1>4, NextChunkKeeps

\* The chunk in hand goes on.
LEMMA ChunkGoesOn ==
    ASSUME ReadsInv, CallsInv', NEW t \in Task, NEW c, c = call[t], c.status = "sent",
           c.step \in {"count", "search", "get"},
           NEW e, IsCall(e), e.op = c.op, e.start = c.start, e.got \in Seq(Order),
           ToSet(c.got) \subseteq ToSet(e.got), c.named \subseteq e.named,
           c.took \subseteq e.took, e.todo = c.todo, NEW step, Calls!Await(t, e, step),
           \/ step = "search" /\ SearchInPlace(e, Head(c.todo))
           \/ step = "get" /\ GetInPlace(e, Head(c.todo)),
           UNCHANGED <<shop, updated, edits>>
    PROVE  ReadsInv'
<1>1. /\ c.op # NULL /\ c.op.kind = "backfill" /\ StartInPlace(c) /\ DaysInPlace(c)
      /\ c.todo # <<>> /\ c.todo \in Seq(ToSet(c.op.rows))
  BY InChunk
<1>2. ASSUME NEW days \in ToSet(c.op.rows) PROVE Settled(e, days) \/ days \in ToSet(e.todo)
  <2>1. CASE Settled(c, days)
    BY <2>1, SettledMore
  <2> QED
    BY <2>1, <1>1 DEF DaysInPlace
<1>3. DaysInPlace(e) /\ StartInPlace(e)
  BY <1>1, <1>2 DEF DaysInPlace, StartInPlace
<1>4. Becomes(t, e, "queued", step)
  BY AwaitIs
<1> QED
  BY <1>1, <1>3, <1>4, BackfillGoesOn

LEMMA CountKeepsReads ==
    ASSUME ReadsInv, CallsInv', NEW t \in Task, Calls!Count(t)
    PROVE  ReadsInv'
<1>1. PICK c : c = call[t]
  OBVIOUS
<1>2. c.status = "sent" /\ c.step = "count" /\ UNCHANGED <<shop, updated, edits>>
  BY <1>1 DEF Calls!Count, Calls!InHand, Calls!outside
<1>3. IsCall(c) /\ StartInPlace(c) /\ c.got \in Seq(Order)
  BY <1>1, <1>2, InChunk DEF DaysInPlace
<1>4. PICK days : days = Head(c.todo)
  OBVIOUS
<1>5. PICK page, found, d :
        /\ page \in Calls!Search(days) /\ found = Cardinality(page)
        /\ d = [c EXCEPT !.named = IF Calls!Suspect(found) THEN @ \cup days ELSE @, !.moved = {}]
        /\ IF found = 0 THEN Calls!NextChunk(t, [d EXCEPT !.todo = Tail(@)])
           ELSE Calls!Await(t, d, "search")
  BY <1>1, <1>4, MoreNames DEF Calls!Count, Calls!Chunk
<1>6. /\ found \in Nat /\ PageLimit \in Nat \ {0}
      /\ found = 0 => Placed(days) = {}
      /\ found < PageLimit => page = Placed(days)
  BY <1>5, SearchIs
<1>7. /\ IsCall(d) /\ d.op = c.op /\ d.start = c.start /\ d.got = c.got /\ d.took = c.took
      /\ d.todo = c.todo /\ d.moved = {}
      /\ d.named = IF found >= PageLimit THEN c.named \cup days ELSE c.named
  BY <1>3, <1>5 DEF IsCall, Calls!Suspect
<1>8. CASE found = 0
  <2>1. PICK e : e = [d EXCEPT !.todo = Tail(@)]
    OBVIOUS
  <2>2. /\ IsCall(e) /\ e.op = c.op /\ e.start = c.start /\ e.got = c.got /\ e.took = c.took
        /\ e.todo = Tail(c.todo) /\ e.named = d.named
    BY <1>7, <2>1 DEF IsCall
  <2>3. Calls!NextChunk(t, e)
    BY <1>5, <1>8, <2>1
  <2>4. ASSUME NEW o \in Order, c.start[o] > 0 PROVE DayOf[o] \notin days
    <3>1. c.start[o] \in Nat /\ updated[o] \in Nat /\ c.start[o] <= updated[o]
      BY <1>3 DEF StartInPlace, ReadsInv, WorldInPlace
    <3>2. updated[o] > 0
      BY <2>4, <3>1
    <3> QED
      BY <1>6, <1>8, <3>2 DEF Placed
  <2>5. Settled(e, days)
    BY <2>2, <2>4 DEF Settled
  <2>6. c.named \subseteq e.named
    BY <1>7, <2>2
  <2> QED
    BY <1>1, <1>2, <1>3, <1>4, <2>2, <2>3, <2>5, <2>6, ChunkDone
<1>9. CASE found # 0
  <2>1. SearchInPlace(d, days)
    BY <1>5, <1>6, <1>7 DEF SearchInPlace
  <2>2. c.named \subseteq d.named
    BY <1>7
  <2> QED
    BY <1>1, <1>2, <1>3, <1>4, <1>5, <1>7, <1>9, <2>1, <2>2, ChunkGoesOn
<1> QED
  BY <1>8, <1>9

LEMMA SearchKeepsReads ==
    ASSUME ReadsInv, CallsInv', NEW t \in Task, Calls!SearchAgain(t)
    PROVE  ReadsInv'
<1>1. PICK c : c = call[t]
  OBVIOUS
<1>2. c.status = "sent" /\ c.step = "search" /\ UNCHANGED <<shop, updated, edits>>
  BY <1>1 DEF Calls!SearchAgain, Calls!InHand, Calls!outside
<1>3. IsCall(c) /\ StartInPlace(c) /\ c.got \in Seq(Order) /\ BackfillInPlace(c)
  BY <1>1, <1>2, InChunk DEF DaysInPlace
<1>4. PICK days : days = Head(c.todo)
  OBVIOUS
<1>5. PICK page, d :
        /\ page \in Calls!Search(days)
        /\ d = [c EXCEPT !.item = SetToSeq(page),
                         !.took = @ \cup {o \in c.moved : DayOf[o] \in days}]
        /\ Calls!Await(t, d, "get")
  BY <1>1, <1>4, MoreNames DEF Calls!SearchAgain, Calls!Chunk
<1>6. /\ page \subseteq Order /\ IsFiniteSet(page)
      /\ Cardinality(Placed(days)) < PageLimit => page = Placed(days)
  BY <1>5, SearchIs
<1>7. /\ IsCall(d) /\ d.op = c.op /\ d.start = c.start /\ d.got = c.got /\ d.todo = c.todo
      /\ d.named = c.named /\ d.item = SetToSeq(page)
      /\ d.took = c.took \cup {o \in c.moved : DayOf[o] \in days}
  BY <1>3, <1>5 DEF IsCall
<1>8. d.item \in Seq(Order) /\ ToSet(d.item) = page
  <2>1. d.item \in Seq(page) /\ ToSet(d.item) = page
    BY <1>6, <1>7, SeqOfSet
  <2> QED
    BY <1>6, <2>1
<1>9. \/ Excused(d, days)
      \/ \A o \in Order : c.start[o] > 0 /\ DayOf[o] \in days => o \in page
  <2>1. SearchInPlace(c, days)
    BY <1>2, <1>3, <1>4 DEF BackfillInPlace, Live
  <2>2. CASE days \subseteq c.named
    BY <1>7, <2>2 DEF Excused
  <2>3. CASE \E o \in c.moved : DayOf[o] \in days
    BY <1>7, <2>3 DEF Excused
  <2>4. CASE Cardinality(Placed(days)) < PageLimit
    <3>1. ASSUME NEW o \in Order, c.start[o] > 0, DayOf[o] \in days PROVE o \in page
      <4>1. c.start[o] \in Nat /\ updated[o] \in Nat /\ c.start[o] <= updated[o]
        BY <1>3 DEF StartInPlace, ReadsInv, WorldInPlace
      <4>2. updated[o] > 0
        BY <3>1, <4>1
      <4> QED
        BY <1>6, <2>4, <3>1, <4>2 DEF Placed
    <3> QED
      BY <3>1
  <2> QED
    BY <2>1, <2>2, <2>3, <2>4 DEF SearchInPlace
<1>10. GetInPlace(d, days)
  BY <1>7, <1>8, <1>9 DEF GetInPlace
<1>11. c.took \subseteq d.took
  BY <1>7
<1> QED
  BY <1>1, <1>2, <1>3, <1>4, <1>5, <1>7, <1>10, <1>11, ChunkGoesOn

LEMMA GetKeepsReads ==
    ASSUME ReadsInv, CallsInv', NEW t \in Task, Calls!Get(t)
    PROVE  ReadsInv'
<1>1. PICK c : c = call[t]
  OBVIOUS
<1>2. c.status = "sent" /\ c.step = "get" /\ UNCHANGED <<shop, updated, edits>>
  BY <1>1 DEF Calls!Get, Calls!InHand, Calls!outside
<1>3. IsCall(c) /\ StartInPlace(c) /\ c.got \in Seq(Order) /\ BackfillInPlace(c)
  BY <1>1, <1>2, InChunk DEF DaysInPlace
<1>4. PICK days : days = Head(c.todo)
  OBVIOUS
<1>5. GetInPlace(c, days)
  BY <1>2, <1>3, <1>4 DEF BackfillInPlace, Live
<1>6. PICK n : n = Calls!Least(BatchSize, Len(c.item))
  OBVIOUS
<1>7. c.item \in Seq(Order) /\ n \in 0..Len(c.item)
  <2>1. c.item \in Seq(Order) /\ Len(c.item) \in Nat
    BY <1>5 DEF GetInPlace
  <2>2. BatchSize \in Nat
    BY CallsAssumption
  <2> QED
    BY <1>6, <2>1, <2>2 DEF Calls!Least
<1>8. PICK some, rest : some = SubSeq(c.item, 1, n) /\ rest = SubSeq(c.item, n + 1, Len(c.item))
  OBVIOUS
<1>9. /\ some \in Seq(Order) /\ rest \in Seq(Order) /\ Len(some) = n
      /\ ToSet(c.item) = ToSet(some) \cup ToSet(rest)
  BY <1>7, <1>8, SplitSet
<1>10. PICK got : got = c.got \o some
  OBVIOUS
<1>11. got \in Seq(Order) /\ ToSet(got) = ToSet(c.got) \cup ToSet(some)
  BY <1>3, <1>9, <1>10, JoinSet
<1>12. PICK d : d = [c EXCEPT !.got = got, !.item = rest]
  OBVIOUS
<1>13. /\ IsCall(d) /\ d.op = c.op /\ d.start = c.start /\ d.got = got /\ d.todo = c.todo
       /\ d.named = c.named /\ d.took = c.took /\ d.item = rest
  BY <1>3, <1>12 DEF IsCall
<1>14. IF rest # <<>> THEN Calls!Await(t, d, "get")
       ELSE Calls!NextChunk(t, [d EXCEPT !.todo = Tail(@), !.item = NULL])
  BY <1>1, <1>6, <1>8, <1>9, <1>10, <1>12 DEF Calls!Get
<1>15. \/ Excused(d, days)
       \/ \A o \in Order : c.start[o] > 0 /\ DayOf[o] \in days => o \in ToSet(got) \cup ToSet(rest)
  BY <1>5, <1>9, <1>11, <1>13 DEF GetInPlace, Excused
<1>16. CASE rest # <<>>
  <2>1. GetInPlace(d, days)
    BY <1>9, <1>13, <1>15 DEF GetInPlace
  <2> QED
    BY <1>1, <1>2, <1>3, <1>4, <1>11, <1>13, <1>14, <1>16, <2>1, ChunkGoesOn
<1>17. CASE rest = <<>>
  <2>1. PICK e : e = [d EXCEPT !.todo = Tail(@), !.item = NULL]
    OBVIOUS
  <2>2. /\ IsCall(e) /\ e.op = c.op /\ e.start = c.start /\ e.got = got
        /\ e.took = c.took /\ e.todo = Tail(c.todo) /\ e.named = c.named
    BY <1>13, <2>1 DEF IsCall
  <2>3. ToSet(rest) = {}
    BY <1>17 DEF ToSet
  <2>4. Settled(e, days)
    BY <1>13, <1>15, <2>2, <2>3 DEF Settled, Excused
  <2>5. Calls!NextChunk(t, e)
    BY <1>14, <1>17, <2>1
  <2> QED
    BY <1>1, <1>2, <1>3, <1>4, <1>11, <2>2, <2>4, <2>5, ChunkDone
<1> QED
  BY <1>16, <1>17

\* A read begins behind everything.
LEMMA ListBegins ==
    ASSUME ReadsInv, NEW c, c.op.kind \in Lists, c.got = <<>>, c.cursor = <<0, 0>>,
           c.status = "queued"
    PROVE  ListInPlace(c)
<1>1. c.cursor[1] = 0 /\ c.got \in Seq(Item) /\ ToSet(c.got) = {}
  BY DEF ToSet
<1>2. \A i \in Stays(c) : ~(i <= 0)
  <2>1. Item \subseteq Nat \ {0}
    BY WorldType DEF ReadsInv
  <2>2. \A i \in Nat \ {0} : ~(i <= 0)
    OBVIOUS
  <2> QED
    BY <2>1, <2>2 DEF Stays
<1> QED
  BY <1>1, <1>2 DEF ListInPlace, Live

LEMMA PollBegins ==
    ASSUME ReadsInv, NEW c, c.op.kind = "orders", c.op.since \in Nat \ {0}, c.got = <<>>,
           c.cursor = <<0, 0>>, c.status = "queued", c.start = updated
    PROVE  PollInPlace(c)
<1>1. c.cursor[1] = 0 /\ c.got \in Seq(Order)
  OBVIOUS
<1>2. Latest \in Nat
  BY WorldType DEF ReadsInv
<1>3. ASSUME NEW o \in Order, c.start[o] >= c.op.since PROVE updated[o] > 0
  <2>1. updated[o] \in Nat
    BY DEF ReadsInv, WorldInPlace
  <2> QED
    BY <1>3, <2>1
<1> QED
  BY <1>1, <1>2, <1>3 DEF PollInPlace, Live

LEMMA StartKeepsReads ==
    ASSUME ReadsInv, CallsInv', NEW t \in Task, Calls!Start(t)
    PROVE  ReadsInv'
<1>1. PICK op : op = call[t].op
  OBVIOUS
<1>2. PICK c : c = [call[t] EXCEPT !.start = updated, !.todo = op.rows]
  OBVIOUS
<1>3. /\ call[t].status = "idle" /\ op # NULL /\ UNCHANGED <<shop, updated, edits>>
      /\ IsCall(call[t]) /\ Asked(op) /\ Pristine(call[t])
  BY <1>1 DEF Calls!Start, Calls!outside, ReadsInv, CallsInv, CallInPlace, ReadInPlace
<1>4. /\ IsCall(c) /\ c.op = op /\ c.start = updated /\ c.todo = op.rows
      /\ c.got = <<>> /\ c.cursor = <<0, 0>> /\ c.took = {} /\ c.named = {} /\ c.moved = {}
  BY <1>1, <1>2, <1>3 DEF IsCall, Pristine
<1>5. StartInPlace(c)
  BY <1>4 DEF StartInPlace, ReadsInv, WorldInPlace
<1>6. ASSUME NEW ending, NEW step, Becomes(t, c, ending, step), ending # "idle",
             \A d : Same(d, c) /\ d.status = ending /\ (Live(d) => d.step = step)
                        => KindInPlace(d)
      PROVE  ReadsInv'
  BY <1>1, <1>3, <1>4, <1>5, <1>6, StillShop, ReadGoesOn
<1>7. CASE op.kind \in {"set", "upsert"}
  <2>1. PICK ending, step : Becomes(t, c, ending, step) /\ ending # "idle"
    <3>1. \/ Calls!End(t, c, "failed") \/ Calls!End(t, c, "ok")
          \/ \E step : Calls!Await(t, c, step)
      BY <1>1, <1>2, <1>7 DEF Calls!Start, Calls!NextBatch
    <3>2. \A ending \in {"failed", "ok"} :
              Calls!End(t, c, ending) => Becomes(t, c, ending, "upsert")
      BY <1>4, EndIs
    <3>3. \A step : Calls!Await(t, c, step) => Becomes(t, c, "queued", step)
      BY <1>4, AwaitIs
    <3> QED
      BY <3>1, <3>2, <3>3
  <2>2. ASSUME NEW d, Same(d, c) PROVE KindInPlace(d)
    BY <1>4, <1>7, <2>2 DEF KindInPlace, Same, Lists
  <2> QED
    BY <1>6, <2>1, <2>2
<1>8. CASE op.kind = "backfill"
  <2>1. Calls!NextChunk(t, c)
    BY <1>1, <1>2, <1>8 DEF Calls!Start
  <2>2. DaysInPlace(c)
    BY <1>3, <1>4, <1>8 DEF DaysInPlace, Asked
  <2> QED
    BY <1>1, <1>3, <1>4, <1>5, <1>8, <2>1, <2>2, NextChunkKeeps
<1>9. CASE op.kind \notin {"set", "upsert", "backfill"}
  <2>1. PICK step \in {"locate", "page"} : Calls!Await(t, c, step)
    BY <1>1, <1>2, <1>9 DEF Calls!Start
  <2>2. Becomes(t, c, "queued", step)
    BY <1>4, <2>1, AwaitIs
  <2>3. ASSUME NEW d, Same(d, c), d.status = "queued", Live(d) => d.step = step
        PROVE  KindInPlace(d)
    <3>1. /\ d.op = op /\ d.got = <<>> /\ d.cursor = <<0, 0>> /\ d.start = updated
          /\ d.step = step
      BY <1>4, <2>3 DEF Same, Live
    <3>2. op.kind \in Lists => ListInPlace(d)
      BY <2>3, <3>1, ListBegins
    <3>3. op.kind = "orders" => PollInPlace(d)
      BY <1>3, <2>3, <3>1, PollBegins DEF Asked
    <3> QED
      BY <1>9, <2>1, <3>1, <3>2, <3>3 DEF KindInPlace, ReadSteps
  <2> QED
    BY <1>6, <2>2, <2>3
<1> QED
  BY <1>7, <1>8, <1>9

-----------------------------------------------------------------------------
\* Somebody else's changes.  A variant that is edited is one the listings do not answer
\* for any more.
LEMMA EditedList ==
    ASSUME ReadsInv, NEW e, shop' = [shop EXCEPT ![e[1]] = e[2]],
           NEW c, ListInPlace(c), NEW d, d.op = c.op, d.status = c.status, d.got = c.got,
           d.cursor = c.cursor, d.moved = c.moved \cup {e[1]}
    PROVE  /\ \A i \in Stays(d)' : i \in Stays(c) /\ (RightlyRead(d, i)' <=> RightlyRead(c, i))
           /\ ListInPlace(d)'
<1>1. ASSUME NEW i \in Stays(d)'
      PROVE  i \in Stays(c) /\ (RightlyRead(d, i)' <=> RightlyRead(c, i))
  <2>1. i \in Item /\ i # e[1] /\ i \notin c.moved
    BY DEF Stays
  <2>2. shop'[i] = shop[i]
    BY <2>1 DEF ReadsInv, WorldInPlace
  <2>3. i \in Stays(c)
    BY <2>1, <2>2 DEF Stays
  <2>4. Keeps(d, i)' <=> Keeps(c, i)
    BY <2>2 DEF Keeps
  <2> QED
    BY <2>3, <2>4 DEF RightlyRead, Once, ToSet
<1> QED
  BY <1>1 DEF ListInPlace, Live, ToSet

LEMMA EditShopKeepsReads ==
    ASSUME ReadsInv, CallsInv', Calls!EditShop
    PROVE  ReadsInv'
<1>1. PICK e \in Edits : /\ shop' = [shop EXCEPT ![e[1]] = e[2]]
                         /\ call' = Calls!Noted(e[1], Lists)
                         /\ edits' = edits + 1 /\ UNCHANGED updated
  BY DEF Calls!EditShop, Calls!Lists, Lists
<1>2. WorldInPlace' /\ Latest \in Nat /\ Latest' = Latest + 1
  <2>1. Latest \in Nat /\ Cardinality(Order) \in Nat
    BY WorldType DEF ReadsInv
  <2>2. Latest' = Latest + 1
    BY <1>1, <2>1 DEF Latest, ReadsInv, WorldInPlace
  <2>3. \A o \in Order : updated[o] <= Latest'
    BY <2>1, <2>2 DEF ReadsInv, WorldInPlace
  <2> QED
    BY <1>1, <2>1, <2>2, <2>3 DEF ReadsInv, WorldInPlace
<1>3. ASSUME NEW t \in Task PROVE ReadInPlace(call[t])'
  <2>1. PICK c : c = call[t]
    OBVIOUS
  <2>2. PICK d : d = call'[t]
    OBVIOUS
  <2>3. IsCall(c) /\ ReadInPlace(c)
    BY <2>1 DEF ReadsInv, CallsInv, CallInPlace
  <2>4. d = IF c.status # "idle" /\ c.op.kind \in Lists
            THEN [c EXCEPT !.moved = @ \cup {e[1]}] ELSE c
    BY <1>1, <2>1, <2>2 DEF Calls!Noted
  <2>5. /\ d.op = c.op /\ d.status = c.status /\ d.step = c.step /\ d.got = c.got
        /\ d.todo = c.todo /\ d.item = c.item /\ d.took = c.took /\ d.named = c.named
        /\ d.start = c.start /\ d.cursor = c.cursor
    BY <2>3, <2>4 DEF IsCall
  <2>6. CASE c.status = "idle"
    <3>1. d = c
      BY <2>4, <2>6
    <3> QED
      BY <2>2, <2>3, <2>6, <3>1 DEF ReadInPlace, Asked, Pristine
  <2>7. CASE c.status # "idle"
    <3>1. c.op # NULL /\ Asked(c.op) /\ StartInPlace(c) /\ KindInPlace(c)
      BY <2>3, <2>7 DEF ReadInPlace
    <3>2. StartInPlace(d)'
      BY <1>1, <2>5, <3>1 DEF StartInPlace
    <3>3. ASSUME c.op.kind \in Lists PROVE ListInPlace(d)'
      <4>1. ListInPlace(c) /\ d.moved = c.moved \cup {e[1]}
        BY <2>3, <2>4, <2>7, <3>1, <3>3 DEF KindInPlace, IsCall
      <4> QED
        BY <1>1, <2>5, <4>1, EditedList
    <3>4. ASSUME c.op.kind = "orders" PROVE PollInPlace(d)'
      BY <1>1, <1>2, <2>5, <3>1, <3>4 DEF KindInPlace, PollInPlace, Live
    <3>5. ASSUME c.op.kind = "backfill" PROVE BackfillInPlace(d)'
      <4>1. BackfillInPlace(c) /\ d.moved = c.moved
        BY <2>4, <3>1, <3>5 DEF KindInPlace, Lists
      <4> QED
        BY <1>1, <2>5, <4>1 DEF BackfillInPlace, DaysInPlace, SearchInPlace, GetInPlace,
                                Settled, Excused, Placed, Live
    <3>6. KindInPlace(d)'
      BY <2>5, <3>1, <3>3, <3>4, <3>5 DEF KindInPlace, Live
    <3> QED
      BY <2>2, <2>5, <2>7, <3>1, <3>2, <3>6 DEF ReadInPlace, KindInPlace, ListInPlace,
          PollInPlace, BackfillInPlace, StartInPlace, Asked
  <2> QED
    BY <2>6, <2>7
<1> QED
  BY <1>2, <1>3 DEF ReadsInv

\* An order that is changed goes ahead of every poll, and of a backfill it is noted.
LEMMA EditOrderKeepsReads ==
    ASSUME ReadsInv, CallsInv', Calls!EditOrder
    PROVE  ReadsInv'
<1>1. PICK n \in Order : /\ updated' = [updated EXCEPT ![n] = Latest + 1]
                         /\ call' = Calls!Noted(n, {"backfill"})
                         /\ edits' = edits + 1 /\ UNCHANGED shop
  <2>1. Cardinality(Order) \in Nat /\ edits \in Nat
    BY WorldType DEF ReadsInv, WorldInPlace
  <2>2. 1 + Cardinality(Order) + edits = Latest + 1
    BY <2>1 DEF Latest
  <2> QED
    BY <2>2, MoreNames DEF Calls!EditOrder
<1>2. /\ Latest \in Nat /\ Latest' = Latest + 1
      /\ \A o \in Order : updated[o] \in Nat /\ updated[o] <= Latest
  <2>1. Latest \in Nat /\ Cardinality(Order) \in Nat
    BY WorldType DEF ReadsInv
  <2> QED
    BY <1>1, <2>1 DEF Latest, ReadsInv, WorldInPlace
<1>3. \A o \in Order : updated'[o] = IF o = n THEN Latest + 1 ELSE updated[o]
  BY <1>1 DEF ReadsInv, WorldInPlace
<1>4. WorldInPlace'
  <2>1. updated' \in [Order -> Nat]
    BY <1>1, <1>2 DEF ReadsInv, WorldInPlace
  <2>2. \A o \in Order : updated'[o] <= Latest'
    BY <1>2, <1>3
  <2> QED
    BY <1>1, <2>1, <2>2 DEF ReadsInv, WorldInPlace
<1>5. ASSUME NEW t \in Task PROVE ReadInPlace(call[t])'
  <2>1. PICK c : c = call[t]
    OBVIOUS
  <2>2. PICK d : d = call'[t]
    OBVIOUS
  <2>3. IsCall(c) /\ ReadInPlace(c)
    BY <2>1 DEF ReadsInv, CallsInv, CallInPlace
  <2>4. d = IF c.status # "idle" /\ c.op.kind = "backfill"
            THEN [c EXCEPT !.moved = @ \cup {n}] ELSE c
    BY <1>1, <2>1, <2>2 DEF Calls!Noted
  <2>5. /\ d.op = c.op /\ d.status = c.status /\ d.step = c.step /\ d.got = c.got
        /\ d.todo = c.todo /\ d.item = c.item /\ d.took = c.took /\ d.named = c.named
        /\ d.start = c.start /\ d.cursor = c.cursor
    BY <2>3, <2>4 DEF IsCall
  <2>6. CASE c.status = "idle"
    <3>1. d = c
      BY <2>4, <2>6
    <3> QED
      BY <2>2, <2>3, <2>6, <3>1 DEF ReadInPlace, Asked, Pristine
  <2>7. CASE c.status # "idle"
    <3>1. c.op # NULL /\ Asked(c.op) /\ StartInPlace(c) /\ KindInPlace(c)
      BY <2>3, <2>7 DEF ReadInPlace
    <3>2. StartInPlace(d)'
      <4>1. ASSUME NEW o \in Order PROVE c.start[o] <= updated'[o]
        <5>1. c.start[o] \in Nat /\ c.start[o] <= updated[o]
          BY <3>1 DEF StartInPlace
        <5> QED
          BY <1>2, <1>3, <5>1
      <4> QED
        BY <2>5, <3>1, <4>1 DEF StartInPlace
    <3>3. ASSUME c.op.kind \in Lists PROVE ListInPlace(d)'
      <4>1. ListInPlace(c) /\ d = c
        BY <2>4, <3>1, <3>3 DEF KindInPlace, Lists
      <4> QED
        BY <1>1, <4>1 DEF ListInPlace, Stays, RightlyRead, Once, Keeps, Live
    <3>4. ASSUME c.op.kind = "orders" PROVE PollInPlace(d)'
      <4>1. PollInPlace(c)
        BY <3>1, <3>4 DEF KindInPlace
      <4>2. ASSUME Live(c)
            PROVE  /\ c.cursor[1] <= Latest'
                   /\ \A o \in Order : updated[o] > c.cursor[1] => updated'[o] > c.cursor[1]
        <5>1. c.cursor[1] \in Nat /\ c.cursor[1] <= Latest
          BY <4>1, <4>2 DEF PollInPlace
        <5> QED
          BY <1>2, <1>3, <5>1
      <4> QED
        BY <2>5, <4>1, <4>2 DEF PollInPlace, Live
    <3>5. ASSUME c.op.kind = "backfill" PROVE BackfillInPlace(d)'
      <4>1. BackfillInPlace(c) /\ d.moved = c.moved \cup {n}
        BY <2>3, <2>4, <2>7, <3>1, <3>5 DEF KindInPlace, IsCall
      <4>2. ASSUME NEW days, SearchInPlace(c, days) PROVE SearchInPlace(d, days)'
        <5>1. CASE DayOf[n] \in days
          BY <4>1, <5>1 DEF SearchInPlace
        <5>2. CASE DayOf[n] \notin days
          <6>1. Placed(days)' = Placed(days)
            BY <1>3, <5>2 DEF Placed
          <6> QED
            BY <2>5, <4>1, <4>2, <6>1 DEF SearchInPlace
        <5> QED
          BY <5>1, <5>2
      <4>3. DaysInPlace(d)'
        BY <2>5, <4>1 DEF BackfillInPlace, DaysInPlace, Settled, Excused
      <4>4. \A days : GetInPlace(c, days) => GetInPlace(d, days)'
        BY <2>5 DEF GetInPlace, Excused
      <4> QED
        BY <2>5, <4>1, <4>2, <4>3, <4>4 DEF BackfillInPlace, Live
    <3>6. KindInPlace(d)'
      BY <2>5, <3>1, <3>3, <3>4, <3>5 DEF KindInPlace, Live
    <3> QED
      BY <2>2, <2>5, <2>7, <3>1, <3>2, <3>6 DEF ReadInPlace, KindInPlace, ListInPlace,
          PollInPlace, BackfillInPlace, StartInPlace, Asked
  <2> QED
    BY <2>6, <2>7
<1> QED
  BY <1>4, <1>5 DEF ReadsInv

LEMMA StillReads ==
    ASSUME ReadsInv, CallsInv', UNCHANGED <<call, shop, updated, edits>>
    PROVE  ReadsInv'
<1>1. ASSUME NEW t \in Task PROVE ReadInPlace(call[t])'
  <2>1. PICK c : c = call[t] /\ c = call'[t]
    OBVIOUS
  <2>2. ReadInPlace(c)
    BY <2>1 DEF ReadsInv
  <2>3. StartInPlace(c)' <=> StartInPlace(c)
    BY DEF StartInPlace
  <2>4. ListInPlace(c)' <=> ListInPlace(c)
    BY DEF ListInPlace, Live, Stays, RightlyRead, Once, Keeps
  <2>5. PollInPlace(c)' <=> PollInPlace(c)
    BY DEF PollInPlace, Live, Latest
  <2>6. BackfillInPlace(c)' <=> BackfillInPlace(c)
    BY DEF BackfillInPlace, DaysInPlace, Live, SearchInPlace, GetInPlace, Settled, Excused,
           Placed
  <2>7. ReadInPlace(c)'
    BY <2>2, <2>3, <2>4, <2>5, <2>6 DEF ReadInPlace, KindInPlace, Live
  <2> QED
    BY <2>1, <2>7 DEF ReadInPlace, Pristine, Asked, StartInPlace, KindInPlace, ListInPlace,
                Stays, RightlyRead, Once, Keeps, PollInPlace, Latest, BackfillInPlace,
                DaysInPlace, SearchInPlace, GetInPlace, Settled, Excused, Placed, Live
<1>2. WorldInPlace'
  BY DEF ReadsInv, WorldInPlace, Latest
<1> QED
  BY <1>1, <1>2 DEF ReadsInv

LEMMA ReadsInit ==
    ASSUME Calls!Init
    PROVE  ReadsInv
<1>1. CallsInv
  BY CallsInit
<1>2. WorldInPlace
  <2>1. Cardinality(Order) \in Nat /\ Order = 1..Cardinality(Order)
    BY CallsAssumption, FS_CardinalityType
  <2>2. updated \in [Order -> Nat] /\ edits = 0 /\ shop = [i \in Item |-> shop[i]]
    BY <2>1 DEF Calls!Init
  <2>3. Latest = Cardinality(Order)
    BY <2>1, <2>2 DEF Latest
  <2>4. \A o \in Order : updated[o] = o \/ updated[o] = 0
    BY DEF Calls!Init
  <2>5. \A o \in Order : updated[o] <= Latest
    BY <2>1, <2>3, <2>4
  <2> QED
    BY <2>2, <2>5 DEF WorldInPlace
<1>3. PICK plan \in Plans : call = [t \in Task |-> [Calls!Idle EXCEPT !.op = plan[t]]]
  BY DEF Calls!Init
<1>4. ASSUME NEW t \in Task PROVE ReadInPlace(call[t])
  <2>1. PICK c : c = call[t]
    OBVIOUS
  <2>2. c.op = plan[t] /\ c.status = "idle" /\ Pristine(c)
    BY <1>3, <2>1 DEF Calls!Idle, Pristine
  <2>3. c.op # NULL => Asked(c.op)
    BY <2>2, CallsAssumption DEF Asked, IsSeq
  <2> QED
    BY <2>1, <2>2, <2>3 DEF ReadInPlace
<1> QED
  BY <1>1, <1>2, <1>4 DEF ReadsInv

LEMMA ReadsNext ==
    ASSUME ReadsInv, [Calls!Next]_(Calls!vars)
    PROVE  ReadsInv'
<1>1. CallsInv'
  BY CallsNext DEF ReadsInv
<1>2. CASE Calls!Tick \/ UNCHANGED Calls!vars
  BY <1>1, <1>2, StillReads DEF Calls!Tick, Calls!vars, Calls!outside
<1>3. CASE Calls!EditShop \/ Calls!EditOrder
  BY <1>1, <1>3, EditShopKeepsReads, EditOrderKeepsReads
<1>4. ASSUME NEW t \in Task, Calls!Start(t) \/ Calls!Step(t) PROVE ReadsInv'
  BY <1>1, <1>4, StartKeepsReads, SendKeepsReads, RefusedKeepsReads, LocateKeepsReads,
     SetKeepsReads, PageKeepsReads, BatchKeepsReads, CountKeepsReads, SearchKeepsReads,
     GetKeepsReads DEF Calls!Step
<1> QED
  BY <1>2, <1>3, <1>4 DEF Calls!Next

-----------------------------------------------------------------------------
LEMMA TimesOf ==
    ASSUME NEW n, NEW s
    PROVE  /\ Once(n, s) => Times(n, s) = 1
           /\ n \notin ToSet(s) => Times(n, s) = 0
<1>1. ASSUME Once(n, s) PROVE Times(n, s) = 1
  <2>1. PICK k : {j \in DOMAIN s : s[j] = n} = {k}
    BY <1>1 DEF Once
  <2> QED
    BY <2>1, FS_Singleton DEF Times
<1>2. ASSUME n \notin ToSet(s) PROVE Times(n, s) = 0
  <2>1. {j \in DOMAIN s : s[j] = n} = {}
    BY <1>2 DEF ToSet
  <2> QED
    BY <2>1, FS_EmptySet DEF Times
<1> QED
  BY <1>1, <1>2

\* A poll and a webhook tell the same of an order, but for the lines that were not asked
\* for.
LEMMA FeedsAgree ==
    ASSUME NEW o \in Order
    PROVE  /\ FromPoll(o).id = FromHook(o).id /\ FromPoll(o).status = FromHook(o).status
           /\ IsPrefix(FromPoll(o).lines, FromHook(o).lines)
<1>1. ASSUME NEW k PROVE StripGid(Gid(k)) = Plain(k) /\ StripGid(Plain(k)) = Plain(k)
  <2>1. ASSUME NEW a, NEW z
        PROVE  [[global |-> a, number |-> k] EXCEPT !.global = z] = [global |-> z, number |-> k]
    OBVIOUS
  <2>2. /\ Gid(k) = [global |-> TRUE, number |-> k]
        /\ Plain(k) = [global |-> FALSE, number |-> k]
    BY DEF Gid, Plain
  <2> QED
    BY <2>1, <2>2, Zenon DEF StripGid
<1>2. FromPoll(o).id = FromHook(o).id
  BY <1>1 DEF FromPoll, FromHook
<1>3. FromPoll(o).status = FromHook(o).status
  <2>1. Node[o].fulfilment \in DOMAIN HookWord
    BY CallsAssumption
  <2>2. HookWord[Node[o].fulfilment] = "fulfilled" <=> Node[o].fulfilment = "FULFILLED"
    BY <2>1 DEF HookWord
  <2> QED
    BY <2>2 DEF FromPoll, FromHook, PollStatus, HookStatus
<1>4. ASSUME NEW l PROVE PolledLine(l) = HookedLine(l)
  <2>1. PICK ids : ids = Present(l.variant)
    OBVIOUS
  <2>2. /\ {StripGid(v) : v \in {Gid(k) : k \in ids}} = {Plain(k) : k \in ids}
        /\ {StripGid(v) : v \in {Plain(k) : k \in ids}} = {Plain(k) : k \in ids}
    BY <1>1
  <2> QED
    BY <1>1, <2>1, <2>2 DEF PolledLine, HookedLine, ChannelSkuFor
<1>5. IsPrefix(FromPoll(o).lines, FromHook(o).lines)
  <2>1. PICK lines : lines = Node[o].lines
    OBVIOUS
  <2>2. Len(lines) \in Nat /\ LineLimit \in Nat
    BY <2>1, CallsAssumption DEF IsSeq
  <2>3. PICK first : first = Least(LineLimit, Len(lines))
    OBVIOUS
  <2>4. first \in Nat /\ first <= Len(lines)
    BY <2>2, <2>3 DEF Least
  <2>5. PICK all : all = [i \in 1..Len(lines) |-> HookedLine(lines[i])]
    OBVIOUS
  <2>6. PICK some : some = [i \in 1..first |-> HookedLine(lines[i])]
    OBVIOUS
  <2>7. FromPoll(o).lines = some /\ FromHook(o).lines = all
    BY <1>4, <2>1, <2>3, <2>5, <2>6 DEF FromPoll, FromHook
  <2>8. all \in Seq(ToSet(all)) /\ Len(all) = Len(lines)
    BY <2>2, <2>5 DEF ToSet
  <2>9. some \in Seq(ToSet(some)) /\ Len(some) = first
    BY <2>4, <2>6 DEF ToSet
  <2>10. \A i \in 1..first : some[i] = all[i]
    BY <2>2, <2>4, <2>5, <2>6
  <2> QED
    BY <2>2, <2>4, <2>7, <2>8, <2>9, <2>10 DEF IsPrefix
<1> QED
  BY <1>2, <1>3, <1>5

\* A read of either adapter that ends without an error missed nothing, for any number of
\* calls at a time, any listing, page sizes, orders and attempts, and whatever is edited
\* between the pages (shopify.py:285-303, 386-541, backfill_rakuten_orders.py:9-22).
THEOREM ReadsLoseNothing ==
    Calls!Spec => []ReadsMissNothing
<1>1. Calls!Init => ReadsInv
  BY ReadsInit
<1>2. ReadsInv /\ [Calls!Next]_(Calls!vars) => ReadsInv'
  BY ReadsNext
<1>3. ReadsInv => ReadsMissNothing
  <2>1. SUFFICES ASSUME ReadsInv, NEW t \in Task, call[t].status = "ok"
                 PROVE  ListsAll(call[t]) /\ PollsAll(call[t]) /\ BackfillsAll(call[t])
    BY DEF ReadsMissNothing
  <2>2. PICK c : c = call[t]
    OBVIOUS
  <2>3. c.status = "ok" /\ KindInPlace(c) /\ StartInPlace(c) /\ Asked(c.op)
    BY <2>1, <2>2, Begun
  <2>4. ListsAll(c)
    <3>1. ASSUME c.op.kind \in {"levels", "catalogue"} \/ (c.op.kind = "variants" /\ c.op.most = 0),
                 NEW i \in Item \ c.moved, shop[i].sku # NULL
          PROVE  Times(i, c.got) = IF Keeps(c, i) THEN 1 ELSE 0
      <4>1. ListInPlace(c)
        BY <2>3, <3>1 DEF KindInPlace, Lists
      <4>2. c.op.kind = "variants" => c.op.most = 0
        BY <3>1
      <4>3. RightlyRead(c, i)
        BY <2>3, <3>1, <4>1, <4>2 DEF ListInPlace, Stays
      <4> QED
        BY <4>3, TimesOf DEF RightlyRead
    <3>2. ASSUME c.op.kind = "variants", c.op.most > 0 PROVE Len(c.got) <= c.op.most
      BY <2>3, <3>2 DEF KindInPlace, ListInPlace, Lists
    <3> QED
      BY <3>1, <3>2 DEF ListsAll
  <2>5. PollsAll(c)
    <3>1. ASSUME c.op.kind = "orders"
          PROVE  /\ \A o \in Order : c.start[o] >= c.op.since => o \in ToSet(c.got)
                 /\ c.got \in Seq(Order)
      BY <2>3, <3>1 DEF KindInPlace, PollInPlace
    <3>2. ASSUME c.op.kind = "orders", NEW o \in ToSet(c.got)
          PROVE  /\ FromPoll(o).id = FromHook(o).id /\ FromPoll(o).status = FromHook(o).status
                 /\ IsPrefix(FromPoll(o).lines, FromHook(o).lines)
      <4>1. o \in Order
        BY <3>1, <3>2, EntriesOf
      <4> QED
        BY <4>1, FeedsAgree
    <3> QED
      BY <3>1, <3>2 DEF PollsAll
  <2>6. BackfillsAll(c)
    <3>1. SUFFICES ASSUME c.op.kind = "backfill", NEW days \in ToSet(c.op.rows), NEW o \in Order,
                          c.start[o] > 0, DayOf[o] \in days
                   PROVE  \/ o \in ToSet(c.got)
                          \/ days \subseteq c.named
                          \/ \E p \in c.took : DayOf[p] \in days
      BY DEF BackfillsAll
    <3>2. DaysInPlace(c) /\ c.todo = <<>>
      BY <2>3, <3>1 DEF KindInPlace, BackfillInPlace
    <3>3. days \notin ToSet(c.todo)
      BY <3>2 DEF ToSet
    <3>4. Settled(c, days)
      BY <3>1, <3>2, <3>3 DEF DaysInPlace
    <3> QED
      BY <3>1, <3>4 DEF Settled, Excused
  <2> QED
    BY <2>2, <2>4, <2>5, <2>6
<1> QED
  BY <1>1, <1>2, <1>3, PTL DEF Calls!Spec
=============================================================================
