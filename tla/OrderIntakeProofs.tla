------------------------- MODULE OrderIntakeProofs -------------------------
(***************************************************************************)
(* Theorems about OrderIntake, for any channels, orders, bounds, periods   *)
(* and windows no shorter than them.                                       *)
(***************************************************************************)
EXTENDS OrderIntake, TLAPS

(* What a poll has in hand.  Between its search and its commit no time     *)
(* passes, so an order it did not fetch as it is now has just changed.     *)
PollInHand ==
    \A o \in Order :
        LET c == ChannelOf[o] IN
        c \in polling /\ change[o] > 0 =>
            /\ c \in ByUpdate => Latest(o) \in got[c] \cup ingested \cup missed \/ age[o] = 0
            /\ \/ \E n \in 1..change[o] : <<o, n>> \in got[c] \cup ingested \cup missed
               \/ placed[o] = 0

(* Ages belong to orders that exist, and the last change is not older than *)
(* the first.                                                              *)
AgesAgree ==
    \A o \in Order : IF change[o] = 0 THEN placed[o] = 0 ELSE age[o] <= placed[o]

PollsAreDue == \A c \in polling : due[c] = 0

WindowInv ==
    /\ TypeOK
    /\ PollsAreDue
    /\ AgesAgree
    /\ PollInHand
    /\ UpdatedOrdersAreFound
    /\ PlacedOrdersAreFound

\* A webhook is queued from its only row.
QueueInv ==
    /\ TypeOK
    /\ EnqueuedOnce
    /\ \A i \in Payload : row[i] = "none" => i \notin open /\ enqueued[i] = 0
    /\ \A i \in open : enqueued[i] = 0

-----------------------------------------------------------------------------
\* What a search returns are payloads.
LEMMA FoundArePayloads ==
    ASSUME TypeOK, NEW c \in Channel
    PROVE  Found(c) \subseteq Payload
  <1>1. ASSUME NEW o \in Order, change[o] > 0
        PROVE  Latest(o) \in Payload
    <2>1. change[o] \in 1..MaxChange[o]
      BY <1>1, BoundAssumption DEF TypeOK
    <2>2. Latest(o) \in {o} \X (1..MaxChange[o])
      BY <2>1 DEF Latest
    <2> QED BY <2>2 DEF Payload
  <1> QED BY <1>1 DEF Found, InWindow

\* Every order has a payload number for each of its changes and no other.
LEMMA PayloadParts ==
    ASSUME NEW i \in Payload
    PROVE  i[1] \in Order /\ i[2] \in Nat /\ i = <<i[1], i[2]>>
  BY BoundAssumption DEF Payload

\* Growing by one tick keeps an age in range.
LEMMA OlderInRange ==
    ASSUME NEW o \in Order, NEW n \in 0..Window(o) + 1
    PROVE  Older(n, o) \in 0..Window(o) + 1
  BY WindowAssumption, ChannelAssumption DEF Older, Window

\* The initial state is type-correct.
LEMMA TypeInit == Init => TypeOK
  BY WindowAssumption, ChannelAssumption, BoundAssumption DEF Init, TypeOK, LogRow, Window

\* Every step keeps the types.
LEMMA TypeStep == TypeOK /\ [Next]_vars => TypeOK'
  <1> SUFFICES ASSUME TypeOK, [Next]_vars PROVE TypeOK'
    OBVIOUS
  <1> USE ChannelAssumption, WindowAssumption, BoundAssumption
  <1>1. CASE Tick
    <2>1. \A o \in Order : Older(age[o], o) \in 0..Window(o) + 1 /\ Older(placed[o], o) \in 0..Window(o) + 1
      BY OlderInRange DEF TypeOK, Window
    <2>2. due' \in [Channel -> Nat] /\ \A c \in Channel : due'[c] <= Period[c]
      BY <1>1 DEF TypeOK, Tick, OnTime
    <2> QED BY <1>1, <2>1, <2>2 DEF TypeOK, Tick, webhooks, Window
  <1>2. ASSUME NEW o \in Order, Change(o) PROVE TypeOK'
    <2>1. \A x \in Order : change'[x] \in Nat /\ change'[x] <= MaxChange[x]
      BY <1>2 DEF TypeOK, Change
    <2>2. age' \in [Order -> Nat] /\ \A x \in Order : age'[x] <= Window(x) + 1
      BY <1>2 DEF TypeOK, Change, Window
    <2> QED BY <1>2, <2>1, <2>2 DEF TypeOK, Change, webhooks, polls, Window
  <1>3. ASSUME NEW c \in Channel, PollFetch(c) PROVE TypeOK'
    BY <1>3, FoundArePayloads DEF TypeOK, PollFetch, webhooks, Window
  <1>4. ASSUME NEW c \in Channel, PollIngest(c) PROVE TypeOK'
    BY <1>4 DEF TypeOK, PollIngest, Rest, webhooks, Window
  <1>5. ASSUME NEW c \in Channel, PollFail(c) PROVE TypeOK'
    BY <1>5, FoundArePayloads DEF TypeOK, PollFail, Rest, webhooks, Window
  <1>6. ASSUME NEW i \in Payload, Webhook(i) PROVE TypeOK'
    BY <1>6 DEF TypeOK, Webhook, Receive, Reject, Enqueue, EnqueueFail, polls, LogRow, Window
  <1>7. ASSUME NEW i \in Payload, Run(i) PROVE TypeOK'
    BY <1>7 DEF TypeOK, Run, polls, LogRow, Window
  <1>8. ASSUME NEW i \in Payload, RunFail(i) PROVE TypeOK'
    BY <1>8 DEF TypeOK, RunFail, polls, LogRow, Window
  <1>9. CASE UNCHANGED vars
    BY <1>9 DEF TypeOK, vars, polls, webhooks, Window
  <1> QED BY <1>1, <1>2, <1>3, <1>4, <1>5, <1>6, <1>7, <1>8, <1>9 DEF Next, Poll, Task

\* Every reachable state of the intake is type-correct.
THEOREM IntakeTypeCorrect == Spec => []TypeOK
  <1> QED BY TypeInit, TypeStep, PTL DEF Spec

-----------------------------------------------------------------------------
(* Webhooks *)

\* Every step keeps the rows, the open requests and the queue in step.
LEMMA QueueStep == QueueInv /\ [Next]_vars => QueueInv'
  <1> SUFFICES ASSUME QueueInv, [Next]_vars PROVE QueueInv'
    OBVIOUS
  <1>t. TypeOK'
    BY TypeStep DEF QueueInv
  <1> DEFINE Kept == UNCHANGED <<row, open, enqueued>>
  <1>1. CASE Kept
    BY <1>1, <1>t DEF QueueInv, EnqueuedOnce
  <1>2. ASSUME NEW i \in Payload, Webhook(i) PROVE QueueInv'
    BY <1>2, <1>t DEF QueueInv, EnqueuedOnce, TypeOK, Webhook, Receive, Reject, Enqueue,
                      EnqueueFail, Known
  <1>3. ASSUME NEW i \in Payload, Run(i) PROVE QueueInv'
    BY <1>3, <1>t DEF QueueInv, EnqueuedOnce, TypeOK, Run
  <1>4. CASE Tick \/ \E o \in Order : Change(o)
    BY <1>1, <1>4 DEF Tick, Change, webhooks
  <1>5. CASE \E c \in Channel : Poll(c)
    BY <1>1, <1>5 DEF Poll, PollFetch, PollIngest, PollFail, webhooks
  <1>6. ASSUME NEW i \in Payload, RunFail(i) PROVE QueueInv'
    BY <1>1, <1>6 DEF RunFail
  <1>7. CASE UNCHANGED vars
    BY <1>1, <1>7 DEF vars, webhooks
  <1> QED BY <1>2, <1>3, <1>4, <1>5, <1>6, <1>7 DEF Next, Task

\* No webhook id is ever queued twice, whatever is redelivered, refused or lost.
THEOREM QueuedOnce == Spec => []EnqueuedOnce
  <1>1. Init => QueueInv
    BY TypeInit DEF Init, QueueInv, EnqueuedOnce
  <1>2. QueueInv => EnqueuedOnce
    BY DEF QueueInv
  <1> QED BY <1>1, <1>2, QueueStep, PTL DEF Spec

-----------------------------------------------------------------------------
(* The window of the polls *)

\* A step that leaves the channel, the clock and the polls alone and forgets no
\* payload keeps the invariant: webhooks and their tasks.
LEMMA AsideStep ==
    ASSUME WindowInv, TypeOK', ingested \subseteq ingested',
           UNCHANGED <<change, age, placed, polls>>
    PROVE  WindowInv'
  BY DEF WindowInv, PollsAreDue, AgesAgree, PollInHand, UpdatedOrdersAreFound,
         PlacedOrdersAreFound, Settled, Latest, Window, polls

\* A tick ages an order and brings the poll nearer by as much.
LEMMA TickKeepsWindow ==
    ASSUME WindowInv, TypeOK', Tick
    PROVE  WindowInv'
  <1> USE ChannelAssumption, WindowAssumption
  <1>1. PollsAreDue' /\ PollInHand'
    BY DEF PollsAreDue, PollInHand, Tick, OnTime
  <1>2. ASSUME NEW o \in Order
        PROVE  /\ age[o] \in Nat /\ placed[o] \in Nat /\ Window(o) \in Nat
               /\ age[o] <= Window(o) + 1 /\ placed[o] <= Window(o) + 1
               /\ due[ChannelOf[o]] \in Nat /\ due'[ChannelOf[o]] = due[ChannelOf[o]] - 1
               /\ age'[o] = Older(age[o], o)
               /\ placed'[o] = IF change[o] = 0 THEN 0 ELSE Older(placed[o], o)
               /\ change'[o] = change[o]
    BY DEF WindowInv, TypeOK, Tick, Window
  <1>3. AgesAgree'
    BY <1>2 DEF WindowInv, AgesAgree, Older
  <1>3a. UNCHANGED <<change, ingested, missed>>
    BY DEF Tick
  <1>4. ASSUME NEW o \in Order
        PROVE  /\ age[o] + due[ChannelOf[o]] <= Window(o) =>
                    age'[o] + due'[ChannelOf[o]] <= Window(o)
               /\ change[o] > 0 /\ placed[o] + due[ChannelOf[o]] <= Window(o) =>
                    placed'[o] + due'[ChannelOf[o]] <= Window(o)
    BY <1>2 DEF Older
  <1>5. UpdatedOrdersAreFound'
    BY <1>3a, <1>4 DEF WindowInv, UpdatedOrdersAreFound, Settled, Latest, Window
  <1>6. PlacedOrdersAreFound'
    BY <1>3a, <1>4 DEF WindowInv, PlacedOrdersAreFound, Window
  <1> QED BY <1>1, <1>3, <1>5, <1>6 DEF WindowInv

\* A change is as young as can be: the next poll will see it.
LEMMA ChangeKeepsWindow ==
    ASSUME WindowInv, TypeOK', NEW o \in Order, Change(o)
    PROVE  WindowInv'
  <1> USE ChannelAssumption, WindowAssumption
  <1>1. PollsAreDue'
    BY DEF WindowInv, PollsAreDue, Change, polls
  <1>2. /\ change[o] \in Nat /\ change' = [change EXCEPT ![o] = change[o] + 1]
        /\ age' = [age EXCEPT ![o] = 0] /\ age'[o] = 0 /\ change'[o] = change[o] + 1
        /\ UNCHANGED <<placed, due, polling, got, missed, ingested>>
        /\ \A x \in Order : x # o => change'[x] = change[x] /\ age'[x] = age[x]
    BY DEF WindowInv, TypeOK, Change, polls
  <1>3. placed[o] \in Nat /\ due[ChannelOf[o]] \in Nat /\ due[ChannelOf[o]] <= Window(o)
    BY DEF WindowInv, TypeOK, Window
  <1>4. AgesAgree'
    BY <1>2, <1>3 DEF WindowInv, AgesAgree
  <1>5. PollInHand'
    BY <1>2, <1>3 DEF WindowInv, PollInHand, AgesAgree, Latest
  <1>6. UpdatedOrdersAreFound'
    BY <1>2, <1>3 DEF WindowInv, UpdatedOrdersAreFound, Settled, Latest, Window
  <1>7. PlacedOrdersAreFound'
    BY <1>2, <1>3 DEF WindowInv, PlacedOrdersAreFound, AgesAgree, Window
  <1> QED BY <1>1, <1>4, <1>5, <1>6, <1>7 DEF WindowInv

\* What the next poll was to find, a poll that starts now finds.
LEMMA InReachIsFound ==
    ASSUME WindowInv, NEW o \in Order, change[o] > 0, due[ChannelOf[o]] = 0
    PROVE  /\ ChannelOf[o] \in ByUpdate => Settled(o) \/ Latest(o) \in Found(ChannelOf[o])
           /\ \E n \in 1..change[o] : <<o, n>> \in ingested \cup missed \cup Found(ChannelOf[o])
  <1> USE ChannelAssumption, WindowAssumption
  <1>1. /\ age[o] \in Nat /\ placed[o] \in Nat /\ change[o] \in Nat
        /\ age[o] <= placed[o] /\ Window(o) \in Nat
    BY DEF WindowInv, TypeOK, AgesAgree, Window
  <1>2. InWindow(o) => Latest(o) \in Found(ChannelOf[o])
    BY DEF Found
  <1>3. ASSUME ChannelOf[o] \in ByUpdate
        PROVE  Settled(o) \/ Latest(o) \in Found(ChannelOf[o])
    BY <1>1, <1>2, <1>3 DEF WindowInv, UpdatedOrdersAreFound, InWindow, Searched
  <1>4. (\E n \in 1..change[o] : <<o, n>> \in ingested \cup missed) \/ InWindow(o)
    BY <1>1 DEF WindowInv, PlacedOrdersAreFound, InWindow, Searched
  <1>5. InWindow(o) => \E n \in 1..change[o] : <<o, n>> \in Found(ChannelOf[o])
    <2>1. change[o] \in 1..change[o]
      BY <1>1
    <2> QED BY <1>2, <2>1 DEF Latest
  <1> QED BY <1>3, <1>4, <1>5

\* A search takes into hand all that was in reach.
LEMMA FetchKeepsWindow ==
    ASSUME WindowInv, TypeOK', NEW c \in Channel, PollFetch(c)
    PROVE  WindowInv'
  <1>1. /\ UNCHANGED <<change, age, placed, due, missed, ingested>>
        /\ polling' = polling \cup {c} /\ due[c] = 0
        /\ got'[c] = Found(c) /\ \A d \in Channel \ {c} : got'[d] = got[d]
    BY DEF PollFetch, WindowInv, TypeOK
  <1>2. PollsAreDue'
    BY <1>1 DEF WindowInv, PollsAreDue
  <1>3. ASSUME NEW o \in Order, ChannelOf[o] \in polling', change[o] > 0
        PROVE  LET d == ChannelOf[o] IN
               /\ d \in ByUpdate => Latest(o) \in got'[d] \cup ingested \cup missed \/ age[o] = 0
               /\ \/ \E n \in 1..change[o] : <<o, n>> \in got'[d] \cup ingested \cup missed
                  \/ placed[o] = 0
    <2>1. CASE ChannelOf[o] = c
      BY <1>1, <1>3, <2>1, InReachIsFound DEF Settled
    <2>2. CASE ChannelOf[o] # c
      BY <1>1, <1>3, <2>2, ChannelAssumption DEF WindowInv, PollInHand
    <2> QED BY <2>1, <2>2
  <1>4. PollInHand'
    BY <1>1, <1>3 DEF PollInHand, Latest
  <1>5. AgesAgree' /\ UpdatedOrdersAreFound' /\ PlacedOrdersAreFound'
    BY <1>1 DEF WindowInv, AgesAgree, UpdatedOrdersAreFound, PlacedOrdersAreFound, Settled,
                Latest, Window
  <1> QED BY <1>2, <1>4, <1>5 DEF WindowInv

\* A poll that ends, one way or the other, has settled what was in reach, and
\* the next one comes before the rest leaves the window.
LEMMA EndKeepsWindow ==
    ASSUME WindowInv, TypeOK', NEW c \in Channel, PollIngest(c) \/ PollFail(c)
    PROVE  WindowInv'
  <1> USE ChannelAssumption, WindowAssumption
  <1> DEFINE Hand == IF c \in polling THEN got[c] ELSE Found(c)
  <1>1. /\ UNCHANGED <<change, age, placed>>
        /\ polling' = polling \ {c} /\ due[c] = 0
        /\ due'[c] = Period[c] /\ \A d \in Channel \ {c} : due'[d] = due[d] /\ got'[d] = got[d]
        /\ ingested' \cup missed' = ingested \cup missed \cup Hand
    BY DEF PollIngest, PollFail, Rest, WindowInv, TypeOK, PollsAreDue
  <1>2. PollsAreDue' /\ AgesAgree'
    BY <1>1 DEF WindowInv, PollsAreDue, AgesAgree, TypeOK
  <1>3. PollInHand'
    BY <1>1 DEF WindowInv, PollInHand, Latest
  <1>4. ASSUME NEW o \in Order, change[o] > 0, ChannelOf[o] = c
        PROVE  /\ c \in ByUpdate => Latest(o) \in ingested' \cup missed' \/ age[o] = 0
               /\ \/ \E n \in 1..change[o] : <<o, n>> \in ingested' \cup missed'
                  \/ placed[o] = 0
    <2>1. CASE c \in polling
      BY <1>1, <1>4, <2>1 DEF WindowInv, PollInHand
    <2>2. CASE c \notin polling
      BY <1>1, <1>4, <2>2, InReachIsFound DEF Settled
    <2> QED BY <2>1, <2>2
  <1>5. \A o \in Order : ChannelOf[o] = c => Period[c] <= Window(o) /\ Period[c] \in Nat
    BY DEF Window
  <1>6. UpdatedOrdersAreFound'
    BY <1>1, <1>4, <1>5 DEF WindowInv, UpdatedOrdersAreFound, Settled, Latest, Window
  <1>7. PlacedOrdersAreFound'
    BY <1>1, <1>4, <1>5 DEF WindowInv, PlacedOrdersAreFound, Window
  <1> QED BY <1>2, <1>3, <1>6, <1>7 DEF WindowInv

\* Every step keeps the invariant of the polls.
LEMMA WindowStep == WindowInv /\ [Next]_vars => WindowInv'
  <1> SUFFICES ASSUME WindowInv, [Next]_vars PROVE WindowInv'
    OBVIOUS
  <1>t. TypeOK'
    BY TypeStep DEF WindowInv
  <1>1. CASE Tick
    BY <1>1, <1>t, TickKeepsWindow
  <1>2. CASE \E o \in Order : Change(o)
    BY <1>2, <1>t, ChangeKeepsWindow
  <1>3. CASE \E c \in Channel : Poll(c)
    BY <1>3, <1>t, FetchKeepsWindow, EndKeepsWindow DEF Poll
  <1>4. ASSUME NEW i \in Payload, Webhook(i) \/ Task(i) PROVE WindowInv'
    <2>1. ingested \subseteq ingested' /\ UNCHANGED <<change, age, placed, polls>>
      BY <1>4 DEF Webhook, Task, Receive, Reject, Enqueue, EnqueueFail, Run, RunFail
    <2> QED BY <1>t, <2>1, AsideStep
  <1>5. CASE UNCHANGED vars
    BY <1>5, <1>t, AsideStep DEF vars
  <1> QED BY <1>1, <1>2, <1>3, <1>4, <1>5 DEF Next

\* The initial state satisfies the invariant of the polls: there are no orders.
LEMMA WindowInit == Init => WindowInv
  BY TypeInit DEF Init, WindowInv, PollsAreDue, AgesAgree, PollInHand, UpdatedOrdersAreFound,
                  PlacedOrdersAreFound

\* On a channel searched by update time no change falls between two polls.
THEOREM UpdatesFound == Spec => []UpdatedOrdersAreFound
  <1>1. WindowInv => UpdatedOrdersAreFound
    BY DEF WindowInv
  <1> QED BY <1>1, WindowInit, WindowStep, PTL DEF Spec

\* On every channel a new order is found in some state.
THEOREM NewOrdersFound == Spec => []PlacedOrdersAreFound
  <1>1. WindowInv => PlacedOrdersAreFound
    BY DEF WindowInv
  <1> QED BY <1>1, WindowInit, WindowStep, PTL DEF Spec
=============================================================================
