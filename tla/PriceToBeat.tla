---------------------------- MODULE PriceToBeat -----------------------------
(***************************************************************************)
(* How a window gets its price to beat.  Two coroutines of one process ask *)
(* OfficialPriceToBeatService.resolve for it: the boundary scheduler       *)
(* (shadow/ptb_scheduler.py, one task per window, retried until the        *)
(* boundary tolerance is over) and the daemon's collection of a bucket     *)
(* (shadow/daemon.py collect_bucket, at any time of the window).  The      *)
(* records survive the process (market_data/ptb_repository.py); the        *)
(* history of averages, the scheduler's tables and all calls do not.       *)
(*                                                                         *)
(* A market is one window of one bucket.  Values are opaque; a record is   *)
(* the value with its effective and receive times, and the time of receipt *)
(* is also its established_at, because resolve passes reference.recv_ts as *)
(* the observation time.  The reason texts of refusals are left out.       *)
(***************************************************************************)
EXTENDS TwapHistory, FiniteSets

CONSTANTS
  Markets, Assets,
  AssetOf,             \* Markets -> Assets
  Hourly,              \* markets settled by the Binance hourly candle
  Start, End,          \* Markets -> window
  Values,
  Tolerance,           \* policy.boundary_tolerance
  MaxSourceAge,        \* policy.max_source_age
  MaxReceiveLatency,   \* policy.max_receive_latency
  SettleDelay,         \* config.settle_delay_seconds
  RetryInterval,       \* config.retry_interval_seconds
  MaxConcurrency,      \* config.max_concurrency
  PruneAfter,          \* the three hours of _prune_old_state
  PublisherTimes,      \* publisher timestamps the feed carries
  Collected,           \* bound: windows the cycle collects (all of them, in the program)
  MaxNow, MaxRestarts, \* bounds
  None

ASSUME PriceToBeatConstants ==
  /\ AssetOf \in [Markets -> Assets]
  /\ Hourly \subseteq Markets /\ Collected \subseteq Markets
  /\ Start \in [Markets -> Nat] /\ End \in [Markets -> Nat]
  /\ \A m \in Markets : Start[m] < End[m]
  /\ {Tolerance, MaxSourceAge, MaxReceiveLatency, SettleDelay, RetryInterval,
      PruneAfter, MaxNow, MaxRestarts} \subseteq Nat
  /\ MaxConcurrency \in Nat \ {0}
  /\ PublisherTimes \subseteq Nat

Callers == {"scheduler", "cycle"}
Steps == {"none", "attempt", "queued", "discovering", "fetching",
          "ready", "unavailable", "sleeping"}
Twap == [publisher_ts : PublisherTimes, value : Values, recv_ts : Nat]
Record == [value : Values, effective_ts : Nat, recv_ts : Nat]
Outcomes == {"MISSED_BOUNDARY", "ATTEMPTS_EXHAUSTED", "PTB_READY"}

ASSUME NoneIsNoRecord == None \notin Record

VARIABLES
  now,
  history,          \* Assets -> the collector's averages
  price_to_beat,    \* table: Markets -> record or None
  shadow_events,    \* table: PTB_BOUNDARY_SCHEDULER events
  evidence_window,  \* number of the process: its evidence window id
  states,           \* keys of scheduler._states
  call,             \* <<caller, market>> -> step of its call
  answer,           \* <<caller, market>> -> record the call was given or None
  retry_at,         \* Markets -> end of the scheduler task's sleep, else 0
  lost              \* windows whose task died of an exception nobody retrieves

vars == <<now, history, price_to_beat, shadow_events, evidence_window, states,
          call, answer, retry_at, lost>>

process == <<history, evidence_window, states>>

Init ==
  /\ now \in 0..MaxNow
  /\ history = [a \in Assets |-> <<>>]
  /\ price_to_beat = [m \in Markets |-> None]
  /\ shadow_events = {}
  /\ evidence_window = 0
  /\ states = {}
  /\ call = [c \in Callers \X Markets |-> "none"]
  /\ answer = [c \in Callers \X Markets |-> None]
  /\ retry_at = [m \in Markets |-> 0]
  /\ lost = {}

Deadline(m) == Start[m] + Tolerance
InWindow(m) == Start[m] <= now /\ now < End[m]

-----------------------------------------------------------------------------
(* market_data/canonical.py: what may become, and stay, a price to beat. *)

(* Mutant: the freshness of a price is checked, but not that it opens the window. *)
EstablishableAnyTime(m, r) ==
  /\ r.effective_ts <= r.recv_ts
  /\ r.recv_ts - r.effective_ts <= MaxSourceAge
  /\ r.recv_ts - r.effective_ts <= MaxReceiveLatency

Establishable(m, r) ==
  /\ Distance(r.effective_ts, Start[m]) <= Tolerance
  /\ r.recv_ts <= Deadline(m)
  /\ Start[m] <= r.recv_ts + Tolerance
  /\ r.effective_ts <= r.recv_ts
  /\ r.recv_ts - r.effective_ts <= MaxSourceAge
  /\ r.recv_ts - r.effective_ts <= MaxReceiveLatency

Restorable(m, r) == r.recv_ts <= Deadline(m) /\ InWindow(m)

FromTwap(twap) ==
  [value |-> twap.value, effective_ts |-> twap.publisher_ts, recv_ts |-> twap.recv_ts]

FromCandle(m, open) == [value |-> open, effective_ts |-> Start[m], recv_ts |-> now]

(* INSERT OR IGNORE, then the row that is there. *)
Saved(m, r) == IF price_to_beat[m] = None THEN r ELSE price_to_beat[m]

-----------------------------------------------------------------------------
(* OfficialPriceToBeatService.resolve, for either caller. *)

Answers(c, m, step, r) ==
  /\ call' = [call EXCEPT ![<<c, m>>] = step]
  /\ answer' = [answer EXCEPT ![<<c, m>>] = r]

(* Mutant: the caller is given its own record instead of the stored one. *)
GivenOwn(m, r) == r

(* What save_once returns: the re-read row. *)
Given(m, r) == Saved(m, r)

(* establish_price_to_beat and save_once, or the rejection of the reference. *)
Establish(c, m, r) ==
  IF Establishable(m, r)
  THEN /\ price_to_beat' = [price_to_beat EXCEPT ![m] = Saved(m, r)]
       /\ Answers(c, m, "ready", Given(m, r))
  ELSE /\ Answers(c, m, "unavailable", None)
       /\ UNCHANGED price_to_beat

(* A stored record is restored or refused; it is never looked for again. *)
RestoreStored(c, m) ==
  /\ price_to_beat[m] # None
  /\ IF Restorable(m, price_to_beat[m])
     THEN Answers(c, m, "ready", price_to_beat[m])
     ELSE Answers(c, m, "unavailable", None)
  /\ UNCHANGED price_to_beat

(* Without an await between the look-up and the save. *)
EstablishShort(c, m) ==
  /\ price_to_beat[m] = None /\ m \notin Hourly
  /\ LET openings == OpeningTwaps(history[AssetOf[m]], Start[m], Tolerance)
     IN IF openings = {}
        THEN Answers(c, m, "unavailable", None) /\ UNCHANGED price_to_beat
        ELSE \E twap \in openings : Establish(c, m, FromTwap(twap))

BeginFetch(c, m) ==
  /\ price_to_beat[m] = None /\ m \in Hourly
  /\ call' = [call EXCEPT ![<<c, m>>] = "fetching"]
  /\ UNCHANGED <<answer, price_to_beat>>

(* The discovery has been answered. *)
Resolve(c, m) ==
  /\ call[<<c, m>>] = "discovering"
  /\ RestoreStored(c, m) \/ EstablishShort(c, m) \/ BeginFetch(c, m)
  /\ UNCHANGED <<now, shadow_events, process, retry_at, lost>>

(* The candle of exactly this hour arrives, or anything else. *)
FinishFetch(c, m) ==
  /\ call[<<c, m>>] = "fetching"
  /\ \/ \E open \in Values : Establish(c, m, FromCandle(m, open))
     \/ Answers(c, m, "unavailable", None) /\ UNCHANGED price_to_beat
  /\ UNCHANGED <<now, shadow_events, process, retry_at, lost>>

(* An expected failure of the discovery. *)
FailDiscovery(c, m) ==
  /\ call[<<c, m>>] = "discovering"
  /\ Answers(c, m, "unavailable", None)
  /\ UNCHANGED <<now, price_to_beat, shadow_events, process, retry_at, lost>>

-----------------------------------------------------------------------------
(* The boundary scheduler. *)

(* _prune_old_state. *)
Kept == {m \in states : End[m] + PruneAfter >= now}

Due ==
  {m \in Markets : /\ InWindow(m)
                   /\ m \notin Kept
                   /\ call[<<"scheduler", m>>] = "none"
                   /\ Start[m] + SettleDelay <= now}

Missed == {m \in Due : Deadline(m) < now}

Event(m, outcome, r) ==
  [window |-> evidence_window, market |-> m, outcome |-> outcome, record |-> r]

(* append_event: INSERT OR IGNORE on the window and the market. *)
WithEvents(new) ==
  shadow_events \cup
    {e \in new : ~\E f \in shadow_events : f.window = e.window /\ f.market = e.market}

(* run_due_once over all buckets; nothing else runs meanwhile. *)
RunDueOnce ==
  /\ Due # {}
  /\ states' = Kept \cup Due
  /\ shadow_events' = WithEvents({Event(m, "MISSED_BOUNDARY", None) : m \in Missed})
  /\ call' = [c \in Callers \X Markets |->
                IF c[1] = "scheduler" /\ c[2] \in Due \ Missed
                THEN "attempt" ELSE call[c]]
  /\ UNCHANGED <<now, history, price_to_beat, evidence_window, answer, retry_at, lost>>

(* The end of a task: its event is appended, or the busy storage raises and the
   exception is lost with the task, which finally takes out of the table before
   _raise_finished_failures can look at it. *)
EndTask(m, outcome, r) ==
  /\ Answers("scheduler", m, "none", None)
  /\ \/ /\ shadow_events' = WithEvents({Event(m, outcome, r)})
        /\ UNCHANGED lost
     \/ /\ lost' = lost \cup {<<evidence_window, m>>}
        /\ UNCHANGED shadow_events
  /\ UNCHANGED <<now, price_to_beat, process, retry_at>>

StartAttempt(m) ==
  /\ call[<<"scheduler", m>>] = "attempt"
  /\ now <= Deadline(m)
  /\ call' = [call EXCEPT ![<<"scheduler", m>>] = "queued"]
  /\ UNCHANGED <<now, price_to_beat, shadow_events, process, answer, retry_at, lost>>

(* Mutant: a task that runs out of time ends without a word. *)
GiveUpSilently(m) ==
  /\ call[<<"scheduler", m>>] = "attempt"
  /\ Deadline(m) < now
  /\ Answers("scheduler", m, "none", None)
  /\ UNCHANGED <<now, price_to_beat, shadow_events, process, retry_at, lost>>

GiveUp(m) ==
  /\ call[<<"scheduler", m>>] = "attempt"
  /\ Deadline(m) < now
  /\ EndTask(m, "ATTEMPTS_EXHAUSTED", None)

(* Mutant: a task that waits for a permit is counted as holding one. *)
PermitsCountingWaiters == MaxConcurrency - Cardinality(
  {m \in Markets : call[<<"scheduler", m>>] \in {"queued", "discovering", "fetching"}})

Permits == MaxConcurrency - Cardinality(
  {m \in Markets : call[<<"scheduler", m>>] \in {"discovering", "fetching"}})

AcquirePermit(m) ==
  /\ call[<<"scheduler", m>>] = "queued"
  /\ Permits > 0
  /\ call' = [call EXCEPT ![<<"scheduler", m>>] = "discovering"]
  /\ UNCHANGED <<now, price_to_beat, shadow_events, process, answer, retry_at, lost>>

RecordReady(m) ==
  /\ call[<<"scheduler", m>>] = "ready"
  /\ EndTask(m, "PTB_READY", answer[<<"scheduler", m>>])

(* No price yet: sleep, or give up if the next attempt would come too late. *)
RetryLater(m) ==
  /\ call[<<"scheduler", m>>] = "unavailable"
  /\ IF now + RetryInterval > Deadline(m)
     THEN EndTask(m, "ATTEMPTS_EXHAUSTED", None)
     ELSE /\ call' = [call EXCEPT ![<<"scheduler", m>>] = "sleeping"]
          /\ retry_at' = [retry_at EXCEPT ![m] = now + RetryInterval]
          /\ UNCHANGED <<now, price_to_beat, shadow_events, process, answer, lost>>

WakeUp(m) ==
  /\ call[<<"scheduler", m>>] = "sleeping"
  /\ retry_at[m] <= now
  /\ call' = [call EXCEPT ![<<"scheduler", m>>] = "attempt"]
  /\ retry_at' = [retry_at EXCEPT ![m] = 0]
  /\ UNCHANGED <<now, price_to_beat, shadow_events, process, answer, lost>>

(* Any other exception in the task, such as a locked price-to-beat database. *)
LoseTask(m) ==
  /\ call[<<"scheduler", m>>] \in {"discovering", "fetching"}
  /\ Answers("scheduler", m, "none", None)
  /\ lost' = lost \cup {<<evidence_window, m>>}
  /\ UNCHANGED <<now, price_to_beat, shadow_events, process, retry_at>>

-----------------------------------------------------------------------------
(* The collection of a bucket by the daemon's cycle. *)

(* The window is the one containing the cycle's market_selection_at. *)
CollectBucket(m) ==
  /\ m \in Collected
  /\ call[<<"cycle", m>>] = "none"
  /\ InWindow(m)
  /\ call' = [call EXCEPT ![<<"cycle", m>>] = "discovering"]
  /\ UNCHANGED <<now, price_to_beat, shadow_events, process, answer, retry_at, lost>>

(* The state with its price (or without) goes to the evaluation; a collection that
   takes too long is cancelled. *)
EndCollection(m) ==
  /\ call[<<"cycle", m>>] # "none"
  /\ Answers("cycle", m, "none", None)
  /\ UNCHANGED <<now, price_to_beat, shadow_events, process, retry_at, lost>>

-----------------------------------------------------------------------------
(* The feed, the clock and the process. *)

(* An average is received now; its publisher's clock is not this machine's. *)
ReceiveTwap(a, publisher_ts, value) ==
  /\ history' = [history EXCEPT ![a] =
       Recorded(@, [publisher_ts |-> publisher_ts, value |-> value, recv_ts |-> now])]
  /\ UNCHANGED <<now, price_to_beat, shadow_events, evidence_window, states, call,
                 answer, retry_at, lost>>

Tick ==
  /\ now < MaxNow
  /\ now' = now + 1
  /\ UNCHANGED <<price_to_beat, shadow_events, process, call, answer, retry_at, lost>>

(* A crash, or an exception that ends run_daemon -- a busy storage in run_due_once or
   an unexpected one in a collection -- after some of the missed windows were
   recorded; systemd starts the next process. *)
Restart ==
  /\ evidence_window < MaxRestarts
  /\ \E recorded \in SUBSET Missed :
       shadow_events' =
         WithEvents({Event(m, "MISSED_BOUNDARY", None) : m \in recorded})
  /\ evidence_window' = evidence_window + 1
  /\ history' = [a \in Assets |-> <<>>]
  /\ states' = {}
  /\ call' = [c \in Callers \X Markets |-> "none"]
  /\ answer' = [c \in Callers \X Markets |-> None]
  /\ retry_at' = [m \in Markets |-> 0]
  /\ UNCHANGED <<now, price_to_beat, lost>>

SchedulerStep(m) ==
  \/ Resolve("scheduler", m) \/ FinishFetch("scheduler", m)
  \/ FailDiscovery("scheduler", m)
  \/ StartAttempt(m) \/ GiveUp(m) \/ AcquirePermit(m)
  \/ RecordReady(m) \/ RetryLater(m) \/ WakeUp(m) \/ LoseTask(m)

CycleStep(m) ==
  \/ Resolve("cycle", m) \/ FinishFetch("cycle", m) \/ FailDiscovery("cycle", m)
  \/ CollectBucket(m) \/ EndCollection(m)

Next ==
  \/ RunDueOnce \/ Tick \/ Restart
  \/ \E m \in Markets : SchedulerStep(m) \/ CycleStep(m)
  \/ \E a \in Assets, p \in PublisherTimes, v \in Values : ReceiveTwap(a, p, v)

Spec == Init /\ [][Next]_vars

(* Every await of a task ends (HTTP has a timeout, sleeps expire) and the clock runs. *)
FairSpec == Spec /\ WF_vars(Tick) /\ \A m \in Markets : WF_vars(SchedulerStep(m))

-----------------------------------------------------------------------------
(* Types of the tables and of the process. *)
TypeOK ==
  /\ now \in 0..MaxNow
  /\ history \in [Assets -> Seq(Twap)]
  /\ \A a \in Assets : Len(history[a]) <= HistoryLimit
  /\ price_to_beat \in [Markets -> Record \cup {None}]
  /\ shadow_events \subseteq
       [window : 0..MaxRestarts, market : Markets, outcome : Outcomes,
        record : Record \cup {None}]
  /\ evidence_window \in 0..MaxRestarts
  /\ states \subseteq Markets
  /\ call \in [Callers \X Markets -> Steps]
  /\ answer \in [Callers \X Markets -> Record \cup {None}]
  /\ retry_at \in [Markets -> Nat]
  /\ lost \subseteq (0..MaxRestarts) \X Markets

Proven(m, r) ==
  /\ r.effective_ts \in (Start[m] - Tolerance)..Deadline(m)
  /\ r.recv_ts \in (Start[m] - Tolerance)..Deadline(m)
  /\ r.effective_ts <= r.recv_ts

(* Every stored price to beat is proven by its own boundary: effective and received
   within the tolerance of the window's start, in that order, whoever stored it and
   however late in the window. *)
BoundaryProven ==
  \A m \in Markets : price_to_beat[m] # None => Proven(m, price_to_beat[m])

(* Scheduler, collections and the processes after a restart work with one price:
   what a call was given, and what the scheduler's events report as ready, is the
   stored record. *)
OnePricePerWindow ==
  /\ \A c \in Callers, m \in Markets :
       call[<<c, m>>] = "ready" =>
         answer[<<c, m>>] # None /\ answer[<<c, m>>] = price_to_beat[m]
  /\ \A e \in shadow_events :
       e.outcome = "PTB_READY" => e.record # None /\ e.record = price_to_beat[e.market]

(* A window the scheduler has taken up is being worked on, has its one outcome on
   record, or its task died of an exception. *)
NoSilentWindow ==
  /\ \A m \in states :
       \/ call[<<"scheduler", m>>] # "none"
       \/ \E e \in shadow_events : e.window = evidence_window /\ e.market = m
       \/ <<evidence_window, m>> \in lost
  /\ \A e, f \in shadow_events :
       e.window = f.window /\ e.market = f.market => e = f

(* A stored price to beat is never recomputed. *)
PriceToBeatIsPermanent ==
  [][\A m \in Markets :
       price_to_beat[m] # None => price_to_beat'[m] = price_to_beat[m]]_vars

(* The scheduler's work on a window ends, with or without a price. *)
EveryAttemptEnds ==
  \A m \in Markets :
    (call[<<"scheduler", m>>] # "none") ~> (call[<<"scheduler", m>>] = "none")

-----------------------------------------------------------------------------
(* The invariants are inductive together. *)
IInv == TypeOK /\ BoundaryProven /\ OnePricePerWindow /\ NoSilentWindow
=============================================================================
