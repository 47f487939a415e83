---------------------------- MODULE OrderIntake ----------------------------
(***************************************************************************)
(* How a change of an order on a channel reaches OrderIngestService: by    *)
(* webhook (api/webhooks.py), through Cloud Tasks (queue/cloud_tasks.py,   *)
(* api/internal_jobs.py, services/handlers.py), and by the scheduled poll  *)
(* (cli/poll_channels.py), which looks back a fixed time.                  *)
(*                                                                         *)
(* What ingestion then does with a payload is the subject of               *)
(* OrderLifecycle; here a payload is ingested or it is not.  Time is       *)
(* counted in ticks of five minutes.  A poll starts in the tick it is due  *)
(* and ends within it: that the gap between Lookback and Period absorbs    *)
(* the rest is what the code relies on.                                    *)
(***************************************************************************)
EXTENDS Integers, FiniteSets

CONSTANTS
    Channel,      \* the channels that are polled
    Order,        \* orders
    ChannelOf,    \* [Order -> Channel]
    ByUpdate,     \* the channels whose search matches the time of the last update
    Webhooks,     \* the channels that also send webhooks
    Period,       \* [Channel -> Nat]: ticks between two polls
    Lookback,     \* [Channel -> Nat]: ticks a poll looks back
    MaxChange,    \* bound: [Order -> Nat]: changes of an order
    MaxAttempts   \* attempts Cloud Tasks makes of a task

ASSUME ChannelAssumption ==
    /\ ChannelOf \in [Order -> Channel]
    /\ ByUpdate \subseteq Channel
    /\ Webhooks \subseteq Channel

\* What the defaults of api/internal_jobs.py and the schedules have in common.
ASSUME WindowAssumption ==
    /\ Period \in [Channel -> Nat \ {0}]
    /\ Lookback \in [Channel -> Nat]
    /\ \A c \in Channel : Period[c] <= Lookback[c]

ASSUME BoundAssumption == MaxChange \in [Order -> Nat] /\ MaxAttempts \in Nat \ {0}

VARIABLES
    change,    \* change[o]: changes of the order so far, its placement the first
    age,       \* age[o]: ticks since the last of them
    placed,    \* placed[o]: ticks since the first
    due,       \* due[c]: ticks to the next poll of the channel
    polling,   \* the channels with a poll between its search and its commit
    got,       \* got[c]: the payloads that poll has fetched
    row,       \* row[i]: the webhook_logs row of a webhook id
    open,      \* requests between the commit of their row and the enqueue
    tasks,     \* the Cloud Tasks queue
    attempts,  \* failed attempts of a task
    enqueued,  \* history: times a webhook was enqueued
    lost,      \* history: accepted webhooks that will not be run
    ingested,  \* payloads that were ingested
    missed     \* history: payloads a failed poll should have ingested

polls    == <<due, polling, got, missed>>
webhooks == <<row, open, tasks, attempts, enqueued, lost>>
vars     == <<change, age, placed, polls, webhooks, ingested>>

\* A payload is an order as of one of its changes.  A channel sends a webhook
\* per change, so it is also what a webhook id stands for.
Payload  == UNION {{o} \X (1..MaxChange[o]) : o \in Order}
LogRow   == {"none", "received", "rejected", "processed"}
Latest(o) == <<o, change[o]>>
Window(o) == Lookback[ChannelOf[o]]

TypeOK ==
    /\ change \in [Order -> Nat] /\ \A o \in Order : change[o] <= MaxChange[o]
    /\ age \in [Order -> Nat] /\ \A o \in Order : age[o] <= Window(o) + 1
    /\ placed \in [Order -> Nat] /\ \A o \in Order : placed[o] <= Window(o) + 1
    /\ due \in [Channel -> Nat] /\ \A c \in Channel : due[c] <= Period[c]
    /\ polling \subseteq Channel
    /\ got \in [Channel -> SUBSET Payload]
    /\ row \in [Payload -> LogRow]
    /\ open \subseteq Payload /\ tasks \subseteq Payload
    /\ attempts \in [Payload -> 0..MaxAttempts]
    /\ enqueued \in [Payload -> Nat]
    /\ lost \subseteq Payload /\ ingested \subseteq Payload /\ missed \subseteq Payload

Init ==
    /\ change = [o \in Order |-> 0]
    /\ age = [o \in Order |-> 0] /\ placed = [o \in Order |-> 0]
    /\ due = Period
    /\ polling = {} /\ got = [c \in Channel |-> {}]
    /\ row = [i \in Payload |-> "none"]
    /\ open = {} /\ tasks = {} /\ lost = {}
    /\ attempts = [i \in Payload |-> 0] /\ enqueued = [i \in Payload |-> 0]
    /\ ingested = {} /\ missed = {}

-----------------------------------------------------------------------------
(* The channel and the clock *)

\* An order is placed, or paid, shipped, cancelled.
Change(o) ==
    /\ change[o] < MaxChange[o]
    /\ change' = [change EXCEPT ![o] = @ + 1]
    /\ age' = [age EXCEPT ![o] = 0]
    /\ UNCHANGED <<placed, polls, webhooks, ingested>>

\* The scheduler is punctual to the tick, and a poll takes less than one.
OnTime == polling = {} /\ \A c \in Channel : due[c] > 0

\* Ages beyond the window are not told apart.
Older(n, o) == IF n > Window(o) THEN n ELSE n + 1

Tick ==
    /\ OnTime
    /\ due' = [c \in Channel |-> due[c] - 1]
    /\ age' = [o \in Order |-> Older(age[o], o)]
    /\ placed' = [o \in Order |-> IF change[o] = 0 THEN 0 ELSE Older(placed[o], o)]
    /\ UNCHANGED <<change, polling, got, missed, webhooks, ingested>>

-----------------------------------------------------------------------------
(* cli/poll_channels.py *)

\* What the search compares with `since`: Shopify's updated_at, Rakuten's
\* order date (dateType 1).
Searched(o) == IF ChannelOf[o] \in ByUpdate THEN age[o] ELSE placed[o]

\* Faulty variant: the window is as long as the period.
SinceLastPoll(o) == change[o] > 0 /\ Searched(o) < Period[ChannelOf[o]]

InWindow(o) == change[o] > 0 /\ Searched(o) <= Window(o)

Found(c) == {Latest(o) : o \in {x \in Order : ChannelOf[x] = c /\ InWindow(x)}}

PollFetch(c) ==
    /\ due[c] = 0 /\ c \notin polling
    /\ polling' = polling \cup {c}
    /\ got' = [got EXCEPT ![c] = Found(c)]
    /\ UNCHANGED <<change, age, placed, due, missed, webhooks, ingested>>

\* The poll of c is over.
Rest(c) ==
    /\ polling' = polling \ {c}
    /\ got' = [got EXCEPT ![c] = {}]
    /\ due' = [due EXCEPT ![c] = Period[c]]

\* Faulty variant: an order that fails is skipped and the poll reports success.
PollSkip(c) ==
    /\ c \in polling
    /\ Rest(c)
    /\ \E bad \in SUBSET got[c] : ingested' = ingested \cup (got[c] \ bad)
    /\ UNCHANGED <<change, age, placed, missed, webhooks>>

\* One transaction for everything that was fetched.
PollIngest(c) ==
    /\ c \in polling
    /\ Rest(c)
    /\ ingested' = ingested \cup got[c]
    /\ UNCHANGED <<change, age, placed, missed, webhooks>>

\* The channel refuses the search, or one order fails and takes the whole
\* transaction with it.  _run_job alerts and answers 500; the scheduler of the
\* polls has no retries, and the next poll looks back no further.
PollFail(c) ==
    /\ due[c] = 0
    /\ Rest(c)
    /\ missed' = missed \cup (IF c \in polling THEN got[c] ELSE Found(c))
    /\ UNCHANGED <<change, age, placed, webhooks, ingested>>

-----------------------------------------------------------------------------
(* api/webhooks.py *)

Sent(i) == ChannelOf[i[1]] \in Webhooks /\ i[2] <= change[i[1]]

\* Faulty variant: redeliveries are not recognised.
NeverKnown(i) == FALSE

\* uq_webhook_log_id
Known(i) == row[i] # "none"

\* A delivery whose signature verifies.  A redelivery of a known id is answered
\* with 200 and changes nothing.
Receive(i) ==
    /\ Sent(i) /\ ~Known(i)
    /\ row' = [row EXCEPT ![i] = "received"]
    /\ open' = open \cup {i}
    /\ UNCHANGED <<change, age, placed, polls, tasks, attempts, enqueued, lost, ingested>>

\* A delivery that is refused (the shared secret is being rotated) leaves an
\* audit row under the same id, unless there is one.
Reject(i) ==
    /\ Sent(i) /\ ~Known(i)
    /\ row' = [row EXCEPT ![i] = "rejected"]
    /\ UNCHANGED <<change, age, placed, polls, open, tasks, attempts, enqueued, lost, ingested>>

Enqueue(i) ==
    /\ i \in open
    /\ open' = open \ {i}
    /\ tasks' = tasks \cup {i}
    /\ enqueued' = [enqueued EXCEPT ![i] = @ + 1]
    /\ UNCHANGED <<change, age, placed, polls, row, attempts, lost, ingested>>

\* create_task fails or the instance dies: the row is committed, and the
\* channel's redelivery will find it there.
EnqueueFail(i) ==
    /\ i \in open
    /\ open' = open \ {i}
    /\ lost' = lost \cup {i}
    /\ UNCHANGED <<change, age, placed, polls, row, tasks, attempts, enqueued, ingested>>

-----------------------------------------------------------------------------
(* The queue and services/handlers.py *)

\* Faulty variant: the handler does not find the row.
RunUnmarked(i) ==
    /\ i \in tasks
    /\ tasks' \in {tasks, tasks \ {i}}
    /\ ingested' = ingested \cup {i}
    /\ UNCHANGED <<change, age, placed, polls, row, open, attempts, enqueued, lost>>

\* One transaction ingests the order and marks the row.  Cloud Tasks delivers
\* at least once: the task may come again.
Run(i) ==
    /\ i \in tasks
    /\ tasks' \in {tasks, tasks \ {i}}
    /\ row' = [row EXCEPT ![i] = "processed"]
    /\ ingested' = ingested \cup {i}
    /\ UNCHANGED <<change, age, placed, polls, open, attempts, enqueued, lost>>

\* The exception undoes the transaction, the FAILED status written in it
\* included.  After max_attempts the queue drops the task.
RunFail(i) ==
    LET last == attempts[i] + 1 = MaxAttempts IN
    /\ i \in tasks /\ attempts[i] < MaxAttempts
    /\ attempts' = [attempts EXCEPT ![i] = @ + 1]
    /\ tasks' = IF last THEN tasks \ {i} ELSE tasks
    /\ lost' = IF last THEN lost \cup {i} ELSE lost
    /\ UNCHANGED <<change, age, placed, polls, row, open, enqueued, ingested>>

-----------------------------------------------------------------------------
Poll(c)    == PollFetch(c) \/ PollIngest(c) \/ PollFail(c)
Webhook(i) == Receive(i) \/ Reject(i) \/ Enqueue(i) \/ EnqueueFail(i)
Task(i)    == Run(i) \/ RunFail(i)

Next ==
    \/ Tick
    \/ \E o \in Order : Change(o)
    \/ \E c \in Channel : Poll(c)
    \/ \E i \in Payload : Webhook(i) \/ Task(i)

Spec == Init /\ [][Next]_vars

\* Cloud Scheduler and Cloud Tasks keep running, and a request that has
\* committed its row goes on or dies.  That a poll or a task succeeds is not
\* assumed.
Fairness ==
    /\ WF_vars(Tick)
    /\ \A c \in Channel : WF_vars(Poll(c))
    /\ \A i \in Payload : WF_vars(Enqueue(i) \/ EnqueueFail(i)) /\ WF_vars(Task(i))

FairSpec == Spec /\ Fairness

-----------------------------------------------------------------------------
(* Properties *)

\* A change is accounted for if it was ingested, or a poll that saw it failed.
Settled(o) == Latest(o) \in ingested \cup missed

\* However deliveries, redeliveries and refused deliveries of a webhook id fall
\* together, it is queued at most once (webhooks.py:9-10).
EnqueuedOnce == \A i \in Payload : enqueued[i] <= 1

\* On a channel searched by update time no change falls between two polls: it is
\* settled, or the next poll will still find it, whatever webhooks are lost and
\* however changes meet running polls (internal_jobs.py:228, scheduler.tf:54-67).
UpdatedOrdersAreFound ==
    \A o \in Order :
        ChannelOf[o] \in ByUpdate /\ change[o] > 0 =>
            Settled(o) \/ age[o] + due[ChannelOf[o]] <= Window(o)

\* On every channel a new order is found in some state: one of its payloads was
\* ingested or seen by a failed poll, or the next poll will find it.
PlacedOrdersAreFound ==
    \A o \in Order :
        change[o] > 0 =>
            \/ \E n \in 1..change[o] : <<o, n>> \in ingested \cup missed
            \/ placed[o] + due[ChannelOf[o]] <= Window(o)

\* Every change on a channel searched by update time is ingested in the end, by
\* whichever way, unless a poll that saw it failed or a newer change replaced it.
ChangesArrive ==
    \A i \in Payload :
        ChannelOf[i[1]] \in ByUpdate =>
            (change[i[1]] = i[2]) ~> (change[i[1]] # i[2] \/ i \in ingested \cup missed)

\* An accepted webhook is ingested in the end and its row says so, unless its enqueue
\* failed or all attempts did: the row does not stay "received" for another reason,
\* and a failed attempt never leaves it looking done (handlers.py:59-69).
AcceptedIsSettled ==
    \A i \in Payload :
        (row[i] = "received") ~> ((row[i] = "processed" /\ i \in ingested) \/ i \in lost)
=============================================================================
