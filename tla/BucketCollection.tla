--------------------------- MODULE BucketCollection ---------------------------
(***************************************************************************)
(* One cycle's collection of market data (shadow/daemon.py, run_once and   *)
(* PublicShadowDataClient.collect_bucket) for the buckets of one asset.    *)
(* The buckets are collected by concurrent coroutines, each a chain of     *)
(* fetches that suspend it; they share the asset's feature histories.  A   *)
(* coroutine adds its sample to the histories, takes the evaluation time   *)
(* and builds its features in one step, without an await.  The cycle is    *)
(* evaluated when every coroutine has returned or has been cancelled by    *)
(* its wait_for.                                                           *)
(*                                                                         *)
(* An answer is its outcome: "ok", "empty" (parsed, but without data),     *)
(* "fetch_fail" and "parse_fail" (an expected exception of the request or  *)
(* of the parser) or "malformed" (any other exception of either).  The     *)
(* price to beat is resolved by PriceToBeat; here it is there or it is     *)
(* not.  A null payload, which passes its fetch and has no parse stage, is *)
(* left out.                                                               *)
(***************************************************************************)
EXTENDS TemporalState

CONSTANTS
  Buckets,          \* the horizons of one asset
  Horizon,          \* Buckets -> length of a window
  Outcomes,         \* fetch -> outcomes of its answer
  Slow,             \* bound: fetches that time may pass in
  VenueLag,         \* bound: fetch -> how far its data may be behind on arrival
  Mid,              \* time -> mid price of the external venue then
  CollectTimeout,   \* _BUCKET_COLLECTION_TIMEOUT_SECONDS
  MaxBookAge,       \* pricing.max_book_age
  MaxFeeAge,        \* pricing.max_fee_age
  MaxPairSkew,      \* policy.max_pair_skew
  Poll,             \* poll_seconds
  MaxNow            \* bound

Fetches == <<"GAMMA", "OFFICIAL_PTB_RESOLVE", "CLOB_UP_BOOK", "CLOB_DOWN_BOOK",
             "FEE_UP", "FEE_DOWN", "BINANCE_DEPTH", "BINANCE_TRADE">>
FetchNames == Range(Fetches)
AllOutcomes == {"ok", "empty", "fetch_fail", "parse_fail", "malformed"}

(* A resolution without a price and an empty list of trades; every other parser
   returns what it was asked for or raises. *)
MayBeEmpty == {"OFFICIAL_PTB_RESOLVE", "BINANCE_TRADE"}

ASSUME CollectionConstants ==
  /\ Horizon \in [Buckets -> Nat \ {0}]
  /\ Outcomes \in [FetchNames -> SUBSET AllOutcomes]
  /\ \A f \in FetchNames \ MayBeEmpty : "empty" \notin Outcomes[f]
  /\ Slow \subseteq FetchNames
  /\ VenueLag \in [FetchNames -> Nat]
  /\ {MaxBookAge, MaxFeeAge, MaxPairSkew, MaxNow} \subseteq Nat
  /\ CollectTimeout \in Nat \ {0} /\ Poll \in Nat \ {0}

VARIABLES
  now,
  phase,        \* of the daemon: collecting, polling or stopped
  selected_at,  \* market_selection_at of the cycle and start of every wait_for;
                \* while polling, of the next cycle
  step,         \* bucket -> number of the fetch it waits for; 0: returned
  got,          \* bucket -> fetch -> outcome, "none" when not attempted
  times,        \* bucket -> fetch -> [source, recv] of its data
  sample,       \* bucket -> parsed depth and trade
  state,        \* bucket -> what collect_bucket returned
  production,   \* _feature_state of the asset
  diagnostic,   \* _diagnostic_feature_state of the asset
  decision      \* bucket -> how this cycle evaluated it

vars == <<now, phase, selected_at, step, got, times, sample, state,
          production, diagnostic, decision>>

NoTime == [source |-> 0, recv |-> 0]
NoSample == [reference |-> Point(0, 0, 0), book |-> Point(0, 0, 0), trade |-> <<>>]
NoFeatures == [status |-> "FEATURES_UNAVAILABLE", snapshot |-> <<>>]
Nothing == [f \in FetchNames |-> "none"]

NoTimes == [f \in FetchNames |-> NoTime]

Returned(kind, answers, at, ts, features) ==
  [kind |-> kind, got |-> answers, observed_at |-> at, times |-> ts, features |-> features]

UnavailableState(answers, at) == Returned("unavailable", answers, at, NoTimes, NoFeatures)

NoDecision ==
  [structural |-> "NONE", directional |-> "NONE", observed_at |-> 0, at |-> 0,
   up |-> NoTime, down |-> NoTime, up_fee |-> NoTime, down_fee |-> NoTime]

NotCollected == Returned("none", Nothing, 0, NoTimes, NoFeatures)

Init ==
  /\ now = 0
  /\ phase = "collecting" /\ selected_at = 0
  /\ step = [b \in Buckets |-> 1]
  /\ got = [b \in Buckets |-> Nothing]
  /\ times = [b \in Buckets |-> NoTimes]
  /\ sample = [b \in Buckets |-> NoSample]
  /\ state = [b \in Buckets |-> NotCollected]
  /\ production = EmptyHistory
  /\ diagnostic = EmptyHistory
  /\ decision = [b \in Buckets |-> NoDecision]

Running(b) == phase = "collecting" /\ step[b] # 0
Waiting(b) == Fetches[step[b]]
Deadline == selected_at + CollectTimeout

(* window_containing(bucket, now), the market that is asked for. *)
WindowStart(b) == (selected_at \div Horizon[b]) * Horizon[b]
WindowEnd(b) == WindowStart(b) + Horizon[b]

(* _market_lifecycle_reason *)
LifecycleReason(b, at) ==
  IF at < WindowStart(b) THEN "MARKET_WINDOW_NOT_STARTED"
  ELSE IF at >= WindowEnd(b) THEN "MARKET_WINDOW_EXPIRED" ELSE "OPEN"

(* PTB_RESOLVE has no parser; its resolution may be that there is none. *)
HasPtb(b) == got[b]["OFFICIAL_PTB_RESOLVE"] = "ok"

-----------------------------------------------------------------------------
(* The answer to fetch f: its outcome and what was parsed. *)

Answered(b, f, o) == Running(b) /\ Waiting(b) = f /\ o \in Outcomes[f]

Answers(b, f, o) == [got[b] EXCEPT ![f] = o]

(* The coroutine ends, and with it its local variables. *)
Return(b, s) ==
  /\ state' = [state EXCEPT ![b] = s]
  /\ step' = [step EXCEPT ![b] = 0]
  /\ got' = [got EXCEPT ![b] = Nothing]
  /\ times' = [times EXCEPT ![b] = NoTimes]
  /\ sample' = [sample EXCEPT ![b] = NoSample]
  /\ UNCHANGED <<now, phase, selected_at, decision>>

(* An exception that is not an expected market data failure leaves
   collect_bucket, whichever fetch or parser raised it. *)
AnswerRaises(b, f) ==
  /\ Answered(b, f, "malformed")
  /\ Return(b, Returned("raised", Answers(b, f, "malformed"), now, NoTimes, NoFeatures))
  /\ UNCHANGED <<production, diagnostic>>

(* Without a discovery nothing else is fetched. *)
NotDiscovered(b) ==
  /\ \E o \in {"fetch_fail", "parse_fail"} :
       /\ Answered(b, "GAMMA", o)
       /\ Return(b, UnavailableState(Answers(b, "GAMMA", o), now))
  /\ UNCHANGED <<production, diagnostic>>

Continue(b, f, o) ==
  /\ Answered(b, f, o)
  /\ got' = [got EXCEPT ![b] = Answers(b, f, o)]
  /\ step' = [step EXCEPT ![b] = @ + 1]
  /\ UNCHANGED <<now, phase, selected_at, state, production, diagnostic, decision>>

(* A discovery, a price to beat, a book or a fee schedule, or its absence. *)
Fetch(b, f) ==
  /\ f \in FetchNames \ {"BINANCE_DEPTH", "BINANCE_TRADE"}
  /\ \E o \in (IF f = "GAMMA" THEN {"ok"} ELSE AllOutcomes \ {"malformed"}) :
       /\ Continue(b, f, o)
       /\ \E lag \in 0..VenueLag[f] :
            /\ lag <= now /\ (o # "ok" => lag = 0)
            /\ times' = [times EXCEPT ![b][f] =
                 IF o = "ok" THEN [source |-> now - lag, recv |-> now] ELSE NoTime]
  /\ UNCHANGED sample

(* _parse_proxy_depth stamps what it received with its own clock; only the
   update id of the book tells how old the content is. *)
FetchDepth(b) ==
  /\ \E o \in AllOutcomes \ {"malformed"} :
       /\ Continue(b, "BINANCE_DEPTH", o)
       /\ \E lag \in 0..VenueLag["BINANCE_DEPTH"] :
            /\ lag <= now /\ (o # "ok" => lag = 0)
            /\ sample' = [sample EXCEPT ![b] =
                 IF o = "ok"
                 THEN [reference |-> Point(now, Mid[now - lag], now),
                       book |-> Point(now - lag, Mid[now - lag], now),
                       trade |-> <<>>]
                 ELSE NoSample]
  /\ UNCHANGED times

-----------------------------------------------------------------------------
(* The last answer, and everything up to the return of collect_bucket. *)

(* _build_directional_features: the production history, pruned and read. *)
Features(b, h) ==
  LET reason == SnapshotReason(h, sample[b].reference, now)
  IN [status |-> reason,
      snapshot |-> IF reason = "FEATURES_READY"
                   THEN <<Snapshot(h, sample[b].reference)>> ELSE <<>>]

FetchTrade(b) ==
  \E o \in AllOutcomes \ {"malformed"}, lag \in 0..VenueLag["BINANCE_TRADE"] :
    /\ Answered(b, "BINANCE_TRADE", o)
    /\ lag <= now /\ (o # "ok" => lag = 0)
    /\ LET proxy == got[b]["BINANCE_DEPTH"] = "ok"
           trade == IF o = "ok" THEN <<Point(now - lag, Mid[now - lag], now - lag)>> ELSE <<>>
           s == [sample[b] EXCEPT !.trade = trade]
           added == IF proxy THEN WithSample(production, s) ELSE production
           deduplicated == IF proxy THEN WithNewOf(diagnostic, s) ELSE diagnostic
           lifecycle == LifecycleReason(b, now)
           built == lifecycle = "OPEN" /\ proxy /\ HasPtb(b)
           features ==
             IF lifecycle # "OPEN" THEN [NoFeatures EXCEPT !.status = lifecycle]
             ELSE IF ~proxy THEN NoFeatures
             ELSE IF ~HasPtb(b) THEN [NoFeatures EXCEPT !.status = "OFFICIAL_PTB_UNAVAILABLE"]
             ELSE Features(b, Pruned(added, now))
       IN /\ production' = IF built THEN Pruned(added, now) ELSE added
          /\ diagnostic' = IF built THEN Pruned(deduplicated, now) ELSE deduplicated
          /\ Return(b, Returned(IF lifecycle = "OPEN" THEN "collected" ELSE "closed",
                                Answers(b, "BINANCE_TRADE", o), now, times[b], features))

(* wait_for cancels the coroutine in the await it is suspended in. *)
CollectionTimeout(b) ==
  /\ Running(b) /\ now = Deadline
  /\ Return(b, Returned("timeout", Nothing, now, NoTimes, NoFeatures))
  /\ UNCHANGED <<production, diagnostic>>

-----------------------------------------------------------------------------
(* run_once after the gather: what is reported and what is decided. *)

(* Mutant: an exception of a parser is swallowed without a stage record. *)
FailedFetchOnly(o) == o = "fetch_fail"

Failed(o) == o \in {"fetch_fail", "parse_fail"}

(* _first_failure_reason over the stages, which are in the order of Fetches. *)
FirstFailure(s) ==
  LET failures == {i \in DOMAIN Fetches : Failed(s.got[Fetches[i]])}
  IN IF failures = {} THEN "none" ELSE Fetches[Min(failures)]

UnavailableReason(b, s) ==
  CASE s.kind = "timeout" -> "COLLECT_BUCKET"
    [] s.kind = "closed" -> s.features.status
    [] s.kind \in {"unavailable", "collected"} -> FirstFailure(s)

(* _combined_status of a group of fetches. *)
CombinedStatus(s, group) ==
  IF \A f \in group : s.got[f] = "none" THEN "NOT_RUN"
  ELSE IF \E f \in group : Failed(s.got[f]) THEN "FAILED" ELSE "READY"

(* The payload of the MARKET_DATA_PIPELINE event. *)
PipelinePayload(b, s) ==
  [unavailable_reason |-> UnavailableReason(b, s),
   discovery_status |-> CombinedStatus(s, {"GAMMA"}),
   book_status |-> CombinedStatus(s, {"CLOB_UP_BOOK", "CLOB_DOWN_BOOK"}),
   fee_status |-> CombinedStatus(s, {"FEE_UP", "FEE_DOWN"}),
   proxy_status |-> CombinedStatus(s, {"BINANCE_DEPTH", "BINANCE_TRADE"}),
   ptb_status |-> s.got["OFFICIAL_PTB_RESOLVE"],
   feature_status |-> s.features.status]

Distance(x, y) == IF x < y THEN y - x ELSE x - y
Present(s, f) == s.got[f] = "ok"
Age(s, t) == s.observed_at - t

(* Mutant: the two books need not belong together. *)
SynchronizedAlways(up, down) == "OK"

(* _require_synchronized *)
Synchronized(up, down) ==
  IF Distance(up.source, down.source) > MaxPairSkew THEN "PAIRED_BOOK_SOURCE_SKEW"
  ELSE IF Distance(up.recv, down.recv) > MaxPairSkew THEN "PAIRED_BOOK_RECEIVE_SKEW"
  ELSE "OK"

(* _require_fresh_book *)
BookFresh(s, book) == Age(s, book.source) <= MaxBookAge /\ Age(s, book.recv) <= MaxBookAge

(* require_fee_schedule *)
FeeFresh(s, fee) == Age(s, fee.recv) <= MaxFeeAge

(* The abstention a pricing error of one side's simulation is turned into. *)
Priceable(s, book, fee) ==
  IF ~BookFresh(s, book) THEN "BOOK_STALE"
  ELSE IF ~FeeFresh(s, fee) THEN "FEE_STALE" ELSE "OK"

(* _evaluate_structural up to the depth simulations. *)
StructuralReason(s) ==
  LET t == s.times IN
  IF \E f \in {"CLOB_UP_BOOK", "CLOB_DOWN_BOOK", "FEE_UP", "FEE_DOWN"} : ~Present(s, f)
  THEN "STRUCTURAL_INPUTS_UNAVAILABLE"
  ELSE LET checks == <<Synchronized(t["CLOB_UP_BOOK"], t["CLOB_DOWN_BOOK"]),
                       Priceable(s, t["CLOB_UP_BOOK"], t["FEE_UP"]),
                       Priceable(s, t["CLOB_DOWN_BOOK"], t["FEE_DOWN"])>>
           failing == {i \in DOMAIN checks : checks[i] # "OK"}
       IN IF failing = {} THEN "PRICED" ELSE checks[Min(failing)]

(* _evaluate_cycle of one bucket; the strategies are modules of their own. *)
Evaluated(b, s) ==
  IF s.kind \in {"timeout", "unavailable", "closed"}
  THEN [NoDecision EXCEPT !.directional = UnavailableReason(b, s),
                          !.observed_at = s.observed_at, !.at = now]
  ELSE [structural |-> StructuralReason(s),
        directional |-> s.features.status,
        observed_at |-> s.observed_at, at |-> now,
        up |-> s.times["CLOB_UP_BOOK"], down |-> s.times["CLOB_DOWN_BOOK"],
        up_fee |-> s.times["FEE_UP"], down_fee |-> s.times["FEE_DOWN"]]

Gathered == phase = "collecting" /\ \A b \in Buckets : step[b] = 0

(* raise item: the cycle and with it the process ends. *)
StopOnException ==
  /\ Gathered /\ \E b \in Buckets : state[b].kind = "raised"
  /\ phase' = "stopped"
  /\ UNCHANGED <<now, selected_at, step, got, times, sample, state,
                 production, diagnostic, decision>>

EvaluateCycle ==
  /\ Gathered /\ \A b \in Buckets : state[b].kind # "raised"
  /\ decision' = [b \in Buckets |-> Evaluated(b, state[b])]
  /\ phase' = "polling" /\ selected_at' = now + Poll
  /\ state' = [b \in Buckets |-> NotCollected]
  /\ UNCHANGED <<now, step, got, times, sample, production, diagnostic>>

(* The next cycle of run_forever, a poll interval later. *)
BeginCycle ==
  /\ phase = "polling" /\ now = selected_at
  /\ phase' = "collecting"
  /\ step' = [b \in Buckets |-> 1]
  /\ decision' = [b \in Buckets |-> NoDecision]
  /\ UNCHANGED <<now, selected_at, got, times, sample, state, production, diagnostic>>

(* Time passes in slow awaits, never beyond a timer that is due. *)
Tick ==
  /\ now < MaxNow
  /\ \/ /\ phase = "collecting" /\ \E b \in Buckets : Running(b)
        /\ \A b \in Buckets : Running(b) => Waiting(b) \in Slow
        /\ now < Deadline
     \/ phase = "polling" /\ now < selected_at
  /\ now' = now + 1
  /\ UNCHANGED <<phase, selected_at, step, got, times, sample, state,
                 production, diagnostic, decision>>

Next ==
  \/ \E b \in Buckets :
       \/ \E f \in FetchNames : AnswerRaises(b, f) \/ Fetch(b, f)
       \/ NotDiscovered(b) \/ FetchDepth(b) \/ FetchTrade(b)
       \/ CollectionTimeout(b)
  \/ StopOnException \/ EvaluateCycle \/ BeginCycle \/ Tick

Spec == Init /\ [][Next]_vars

-----------------------------------------------------------------------------
Built(b) == state[b].features.snapshot # <<>>

(* The diagnostic history differs from the production one only by the
   repetitions it leaves out: features/temporal.py adds to both and prunes
   both at the same times, so that the comparison of the two feature vectors
   (_build_feature_integrity_comparison) is one of deduplication alone. *)
SubsequenceOf(d, p) ==
  LET matched[n \in 0..Len(p)] ==
        IF n = 0 THEN 0
        ELSE LET k == matched[n - 1]
             IN IF k < Len(d) /\ d[k + 1] = p[n] THEN k + 1 ELSE k
  IN matched[Len(p)] = Len(d)

DiagnosticIsSubsequence ==
  /\ SubsequenceOf(diagnostic.references, production.references)
  /\ SubsequenceOf(diagnostic.books, production.books)
  /\ SubsequenceOf(diagnostic.trades, production.trades)

(* The newest price of the returns is the reference the distance to the price
   to beat is computed from, whatever the asset's other bucket added while
   this one waited for its trade (collect_bucket 459-547 has no await). *)
SnapshotEndsAtOwnDepth ==
  \A b \in Buckets : Built(b) =>
    state[b].features.snapshot[1].newest = state[b].features.snapshot[1].current

JustBuilt == phase = "collecting" /\ \E b \in Buckets : Built(b) /\ state[b].observed_at = now

Younger(queue, age) == \A i \in DOMAIN queue : now - queue[i].ts <= age

(* Coroutines of one asset append out of order, and _prune stops at the
   first young point, so stale points survive behind it.  Still, at the time
   features are built no reference and no book of the history they are built
   from is older than the maximal age by more than the collection timeout. *)
HistoryAgeBounded ==
  JustBuilt => /\ Younger(production.references, MaxAge + CollectTimeout)
               /\ Younger(production.books, MaxAge + CollectTimeout)

TruthfulReport(b, s) ==
  LET event == PipelinePayload(b, s)
      reason == event.unavailable_reason
      Have(fetches) == \A f \in fetches : Present(s, f)
      Missing(f) == s.got[f] \notin {"ok", "empty"}
  IN /\ (event.discovery_status = "READY") <=> Have({"GAMMA"})
     /\ (event.book_status = "READY") <=> Have({"CLOB_UP_BOOK", "CLOB_DOWN_BOOK"})
     /\ (event.fee_status = "READY") <=> Have({"FEE_UP", "FEE_DOWN"})
     /\ (event.proxy_status = "READY") <=> Have({"BINANCE_DEPTH"}) /\ ~Missing("BINANCE_TRADE")
     /\ reason = "none" => \A f \in FetchNames : ~Missing(f)
     /\ reason # "none" =>
          \E i \in DOMAIN Fetches :
            /\ reason = Fetches[i] /\ Missing(reason)
            /\ \A j \in 1..(i - 1) : ~Missing(Fetches[j])
     /\ (event.feature_status = "FEATURES_READY") =>
          Have({"GAMMA", "OFFICIAL_PTB_RESOLVE", "BINANCE_DEPTH"})

(* A pipeline event reports a part as READY exactly when its data was parsed
   (of the proxy: the depth, and the trades, of which there may be none); it
   reports no failure exactly of a collection that misses nothing, and
   otherwise names the first fetch whose data is missing (_pipeline_payload
   and _first_failure_reason against the parsed values). *)
ReportsTruthful ==
  \A b \in Buckets :
    state[b].kind \in {"collected", "unavailable"} => TruthfulReport(b, state[b])

FreshDecision(d) ==
  /\ d.at - d.observed_at <= CollectTimeout
  /\ d.structural = "PRICED" =>
       /\ \A t \in {d.up, d.down} : d.at - t.source <= MaxBookAge + CollectTimeout
       /\ \A t \in {d.up_fee, d.down_fee} : d.at - t.recv <= MaxFeeAge + CollectTimeout
       /\ Distance(d.up.source, d.down.source) <= MaxPairSkew
       /\ Distance(d.up.recv, d.down.recv) <= MaxPairSkew

(* The evaluation of a bucket waits for the slowest of the others, and its
   books are checked against the time of its own collection; still, when a
   structural pair is priced both books are no older than the book age plus
   the collection timeout, both fee schedules than the fee age plus that
   timeout, and the books belong together (run_once's gather). *)
DecisionsFresh == \A b \in Buckets : FreshDecision(decision[b])

(* What makes these promises inductive.  The types: what a point, a history, the data of a
   fetch and a returned state are made of. *)
Points == [key : Nat, value : {0} \cup {Mid[t] : t \in 0..MaxNow}, ts : Nat]
Histories == [references : Seq(Points), books : Seq(Points), trades : Seq(Points)]
Samples == [reference : Points, book : Points, trade : {<<>>}]
AnswerSets == [FetchNames -> AllOutcomes \cup {"none"}]
TimeSets == [FetchNames -> [source : Nat, recv : Nat]]

StateTyped(s) ==
  /\ s.kind \in {"none", "unavailable", "raised", "collected", "closed", "timeout"}
  /\ s.got \in AnswerSets /\ s.observed_at \in Nat /\ s.times \in TimeSets

TypeOK ==
  /\ now \in 0..MaxNow /\ selected_at \in Nat
  /\ phase \in {"collecting", "polling", "stopped"}
  /\ step \in [Buckets -> 0..Len(Fetches)]
  /\ got \in [Buckets -> AnswerSets] /\ times \in [Buckets -> TimeSets]
  /\ sample \in [Buckets -> Samples]
  /\ DOMAIN state = Buckets /\ \A b \in Buckets : StateTyped(state[b])
  /\ production \in Histories /\ diagnostic \in Histories
  /\ DOMAIN decision = Buckets

(* wait_for holds: a cycle collects no longer than the timeout, and what it returned is of
   this cycle. *)
CollectedInTime ==
  /\ phase = "collecting" =>
       /\ selected_at <= now /\ now <= Deadline
       /\ \A b \in Buckets : step[b] = 0 =>
            state[b].kind # "none" /\ selected_at <= state[b].observed_at
  /\ \A b \in Buckets : state[b].observed_at <= now
  /\ phase = "polling" => \A b \in Buckets : step[b] = 0 /\ state[b] = NotCollected

(* Answers come in the order of the fetches: those before the one a coroutine waits for did
   not raise, the discovery succeeded, and none is there of the others. *)
Proper(f) ==
  IF f = "GAMMA" THEN {"ok"}
  ELSE {"ok", "fetch_fail", "parse_fail"} \cup (IF f \in MayBeEmpty THEN {"empty"} ELSE {})

FetchedInOrder ==
  \A b \in Buckets :
    /\ step[b] = 0 => got[b] = Nothing
    /\ \A i \in DOMAIN Fetches :
         IF i < step[b] THEN got[b][Fetches[i]] \in Proper(Fetches[i])
         ELSE got[b][Fetches[i]] = "none"

(* A depth in hand was received in this cycle. *)
SampledInTime ==
  \A b \in Buckets : got[b]["BINANCE_DEPTH"] = "ok" =>
    \A p \in {sample[b].reference, sample[b].book} : selected_at <= p.ts /\ p.ts <= now

(* Concurrent coroutines append out of order, but not by more than the timeout. *)
NearlyOrdered(queue) ==
  /\ \A i \in DOMAIN queue : queue[i].ts <= now
  /\ \A i, j \in DOMAIN queue : i < j => queue[i].ts <= queue[j].ts + CollectTimeout

HistoriesOrdered == NearlyOrdered(production.references) /\ NearlyOrdered(production.books)

(* Where the points of one queue are in the other. *)
EmbedsBy(at, d, p) ==
  /\ at \in [DOMAIN d -> DOMAIN p]
  /\ \A i, j \in DOMAIN d : i < j => at[i] < at[j]
  /\ \A i \in DOMAIN d : d[i] = p[at[i]]

Embedded(d, p) == \E at \in [DOMAIN d -> DOMAIN p] : EmbedsBy(at, d, p)

DiagnosticEmbedded ==
  /\ Embedded(diagnostic.references, production.references)
  /\ Embedded(diagnostic.books, production.books)
  /\ Embedded(diagnostic.trades, production.trades)

(* The inductive invariant. *)
IInv ==
  /\ TypeOK /\ CollectedInTime /\ FetchedInOrder /\ SampledInTime
  /\ HistoriesOrdered /\ DiagnosticEmbedded
  /\ SnapshotEndsAtOwnDepth /\ HistoryAgeBounded /\ ReportsTruthful /\ DecisionsFresh

(* Whatever a venue sends is a market data error of its bucket, not the end
   of the daemon (docs/V3.2-MARKET-DATA-FOUNDATION.md). *)
MalformedIsContained == phase # "stopped"

=============================================================================
