------------------------------ MODULE RateLimit ------------------------------
(***************************************************************************)
(* The token bucket of adapters/rate_limit.py, one per adapter: a lock     *)
(* with a queue, and tokens that come with time and never exceed the       *)
(* capacity.  The lock is held by the caller that waits for its token, and *)
(* given in the order it was asked for.                                    *)
(*                                                                         *)
(* Abstractions.  Time is counted in steps that bring Rate tokens, and no  *)
(* further than fills a bucket.  Every request costs one token.            *)
(***************************************************************************)
EXTENDS Integers, Sequences

CONSTANTS Capacity, Rate   \* of the bucket of each endpoint

Endpoint == {"shopify", "rakuten"}

ASSUME RateAssumption ==
    /\ Capacity \in [Endpoint -> Nat \ {0}]
    /\ Rate \in [Endpoint -> Nat \ {0}]

VARIABLE bucket \* [Endpoint -> tokens, idle: time since the last refill, queue of its lock, excess]

Least(a, b) == IF a < b THEN a ELSE b

\* Faulty variant: the moment of the refill is not kept.
RefillAgain(ch, b) == [b EXCEPT !.tokens = Least(Capacity[ch], @ + b.idle * Rate[ch])]

\* What came since the last refill is added, never above the capacity.
Refill(ch, b) ==
    [b EXCEPT !.tokens = Least(Capacity[ch], @ + b.idle * Rate[ch]), !.idle = 0]

\* excess is a history: over every span of time that ends now, the most requests sent
\* beyond what the rate brought in that span.
FullBucket(ch) == [tokens |-> Capacity[ch], idle |-> 0, queue |-> <<>>, excess |-> 0]

AllFull == bucket = [ch \in Endpoint |-> FullBucket(ch)]

TimePasses ==
    bucket' = [ch \in Endpoint |->
        [bucket[ch] EXCEPT !.idle = Least(Capacity[ch] - bucket[ch].tokens, @ + 1),
                           !.excess = IF @ > Rate[ch] THEN @ - Rate[ch] ELSE 0]]

\* A caller asks for the lock.
Join(ch, t) == bucket' = [bucket EXCEPT ![ch].queue = Append(@, t)]

\* acquire: the caller that holds the lock gets its token and lets the lock go.
Acquire(ch, t) ==
    LET full == Refill(ch, bucket[ch]) IN
    /\ Head(bucket[ch].queue) = t
    /\ full.tokens >= 1
    /\ bucket' = [bucket EXCEPT ![ch] =
                    [full EXCEPT !.tokens = @ - 1, !.queue = Tail(@), !.excess = @ + 1]]

-----------------------------------------------------------------------------
\* In no span of time are more requests sent to a channel than a full bucket and what the
\* rate brought in that span, however many callers wait for the lock and however often
\* they try (rate_limit.py:1-5; rakuten.py:119 "1 req/s sustained", shopify.py:267).
RateIsKept == \A ch \in Endpoint : bucket[ch].excess <= Capacity[ch]
=============================================================================
