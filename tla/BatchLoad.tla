------------------------------ MODULE BatchLoad ------------------------------
(***************************************************************************)
(* load_many (concurrent.rs): a batch of series is loaded by a few worker  *)
(* threads, each taking a share of the requests, all paced by one          *)
(* RateLimiter (ratelimit.rs).  load_bars is the module BarCache; here it  *)
(* is one step with one of the outcomes Series, or an error.  The limiter  *)
(* is acquired once a series: the requests for its gaps and their pages,   *)
(* however many, pass no limiter and are part of that step.                *)
(*                                                                         *)
(* A worker reads the clock before it takes the limiter's lock and sleeps  *)
(* after it has released it, so these are steps of their own.  Time is     *)
(* counted in ticks.                                                       *)
(***************************************************************************)
EXTENDS Integers, Sequences, FiniteSets

CONSTANTS
  Count,         \* requests in the batch, numbered from 0
  Concurrency,   \* CacheOptions::concurrency
  Intervals,     \* the limiter's minimum spacings; 0 is the unbounded limiter
  Series,        \* what a load may return: sequences of bar stamps
  LastTick       \* bound on the clock

ASSUME BatchAssumption ==
  /\ Count \in Nat \ {0}
  /\ Concurrency \in Nat
  /\ Intervals \subseteq Nat
  /\ LastTick \in Nat

Indices == 0..(Count - 1)

\* opts.concurrency, at least one and no more than there are requests.
Wanted  == IF Concurrency = 0 THEN 1 ELSE Concurrency
Workers == {w \in Indices : w < Wanted}

Failed == << -1 >>
Outcomes == Series \cup {Failed}

VARIABLES
  interval,    \* RateLimiter.min_interval
  nextFree,    \* RateLimiter.next_free, -1 for None
  clock,
  next,        \* the request each worker turns to next
  at,          \* where each worker stands in its loop
  read,        \* the clock as it read it
  granted,     \* the instant it was granted
  wake,        \* when it wakes
  results,     \* what each request came to, while not joined
  schedule     \* history: every instant granted, in the order of the lock

batchVars == <<interval, nextFree, clock, next, at, read, granted, wake, results, schedule>>

Pending == << -2 >>

BatchInit ==
  /\ interval \in Intervals
  /\ nextFree = -1
  /\ clock = 0
  /\ next = [w \in Workers |-> w]
  /\ at = [w \in Workers |-> "ready"]
  /\ read = [w \in Workers |-> 0]
  /\ granted = [w \in Workers |-> 0]
  /\ wake = [w \in Workers |-> 0]
  /\ results = [i \in Indices |-> Pending]
  /\ schedule = << >>

\* The requests are dealt round the workers: i goes to worker i % workers.
NextOf(w) == next[w] + Cardinality(Workers)

-----------------------------------------------------------------------------
(* RateLimiter::acquire                                                     *)

AcquireUnpaced(w) ==
  /\ at[w] = "ready" /\ next[w] \in Indices
  /\ interval = 0
  /\ at' = [at EXCEPT ![w] = "loading"]
  /\ UNCHANGED <<interval, nextFree, clock, next, read, granted, wake, results, schedule>>

ReadClock(w) ==
  /\ at[w] = "ready" /\ next[w] \in Indices
  /\ interval # 0
  /\ read' = [read EXCEPT ![w] = clock]
  /\ at' = [at EXCEPT ![w] = "reserving"]
  /\ UNCHANGED <<interval, nextFree, clock, next, granted, wake, results, schedule>>

\* Seeded fault: the next instant is counted from the clock.
FreeAfterFromClock(grant, now) == now + interval

\* The instant after which the limiter is free again.
FreeAfter(grant, now) == grant + interval

\* Under the lock: behind the last reservation, or at the clock as read.
Reserve(w) ==
  /\ at[w] = "reserving"
  /\ LET now   == read[w]
         grant == IF nextFree > now THEN nextFree ELSE now
     IN  /\ nextFree' = FreeAfter(grant, now)
         /\ granted' = [granted EXCEPT ![w] = grant]
         /\ wake' = [wake EXCEPT ![w] = clock + (grant - now)]
         /\ schedule' = Append(schedule, grant)
  /\ at' = [at EXCEPT ![w] = "sleeping"]
  /\ UNCHANGED <<interval, clock, next, read, results>>

Wake(w) ==
  /\ at[w] = "sleeping"
  /\ wake[w] <= clock
  /\ at' = [at EXCEPT ![w] = "loading"]
  /\ UNCHANGED <<interval, nextFree, clock, next, read, granted, wake, results, schedule>>

-----------------------------------------------------------------------------
(* The worker's loop                                                        *)

\* load_bars, with every request it sends.  An error is the series' own result;
\* the worker goes on.
Load(w) ==
  /\ at[w] = "loading"
  /\ \E outcome \in Outcomes : results' = [results EXCEPT ![next[w]] = outcome]
  /\ next' = [next EXCEPT ![w] = NextOf(w)]
  /\ at' = [at EXCEPT ![w] = "ready"]
  /\ UNCHANGED <<interval, nextFree, clock, read, granted, wake, schedule>>

Tick ==
  /\ clock < LastTick
  /\ clock' = clock + 1
  /\ UNCHANGED <<interval, nextFree, next, at, read, granted, wake, results, schedule>>

Worker(w) == AcquireUnpaced(w) \/ ReadClock(w) \/ Reserve(w) \/ Wake(w) \/ Load(w)

BatchNext == Tick \/ \E w \in Workers : Worker(w)

\* Every worker has been through its share.
Joined == \A w \in Workers : next[w] \notin Indices

-----------------------------------------------------------------------------

\* RateLimiter::acquire spaces its grants, one for each series of load_many, for
\* all workers together: the instants it grants are an interval apart whatever
\* the order in which they read the clock and took the lock, and no worker
\* begins a series before the instant it was granted.  Nothing is said of the
\* requests a venue then sees, which are many to a series and not paced.
Paced ==
  interval # 0 =>
    /\ \A m, n \in DOMAIN schedule : m < n => schedule[m] + interval <= schedule[n]
    /\ \A w \in Workers : at[w] = "loading" => granted[w] <= clock
=============================================================================
