----------------------------- MODULE ModelRegistry -----------------------------
(***************************************************************************)
(* Where a directional forecast comes from: the corpus rows an evaluation  *)
(* leaves behind, the labels they get once the market has settled, the     *)
(* models a process trains from them when it starts                        *)
(* (models/paper_runtime.py), and the forecast it then makes for a         *)
(* market's features (models/calibration.py, models/registry.py,           *)
(* shadow/daemon.py).                                                      *)
(*                                                                         *)
(* A condition is a bucket's window, <<bucket, k>>.  The trained           *)
(* calibrator has one bin, so a model's probability is the share of UP     *)
(* among its samples, held between two bounds.                             *)
(***************************************************************************)
EXTENDS Integers, FiniteSets, FiniteSetsExt

CONSTANTS
  Buckets,
  Window,               \* instants of a market window
  Payloads,             \* [schema, value, ptb]: schema Missing when there are no features
  Minimum, Limit,       \* minimum_samples, max_records_per_bucket
  MinProbability, MaxProbability,  \* _MIN_PROBABILITY, _MAX_PROBABILITY, in hundredths
  Missing,              \* None
  MaxNow                \* bound

RegistryConstants ==
  /\ {Window, Minimum, Limit} \subseteq Nat \ {0} /\ Minimum <= Limit
  /\ {MinProbability, MaxProbability} \subseteq 0..100 /\ MinProbability <= MaxProbability
  /\ MaxNow \in Nat /\ Missing \notin {"UP", "DOWN"}

VARIABLES
  now,
  corpus,               \* bucket -> rows, no two of them of one instant
  official,             \* condition -> its winner once the venue resolved it
  registry,             \* bucket -> the state loaded when the process started
  forecast              \* bucket -> of its last evaluation

vars == <<now, corpus, official, registry, forecast>>

BucketConditions == Buckets \X (0..(MaxNow \div Window))
ConditionAt(bucket, instant) == <<bucket, instant \div Window>>
EndOf(condition) == (condition[2] + 1) * Window

-----------------------------------------------------------------------------
(* Training. *)

(* training_ready_records: the limit takes the oldest labelled rows, and only
   then are those without features or an official price to beat dropped. *)
LabelledRows(rows) == {row \in rows : row.label # Missing}
Oldest(rows) ==
  {row \in rows : Cardinality({r \in rows : r.observed_at < row.observed_at}) < Limit}
TrainingReady(row) == row.payload.schema # Missing /\ row.payload.ptb
TrainingReadyRecords(bucket) ==
  {row \in Oldest(LabelledRows(corpus[bucket])) : TrainingReady(row)}

(* Mutant: rows of another feature schema are trained along. *)
OneSchemaAny(records) == records # {}

(* _feature_schema, _feature_row: every row has the first one's schema. *)
OneSchema(records) == \A row, other \in records : row.payload.schema = other.payload.schema

Share(records, winner) == Cardinality({row \in records : row.label = winner})

(* base_rate as <<numerator, denominator>>, clamped. *)
BaseRate(ups, samples) ==
  IF 100 * ups < MinProbability * samples THEN <<MinProbability, 100>>
  ELSE IF 100 * ups > MaxProbability * samples THEN <<MaxProbability, 100>>
  ELSE <<ups, samples>>

Reference(row) == [condition |-> row.condition, observed_at |-> row.observed_at]

Unready(state, count) == [ready |-> FALSE, state |-> state, count |-> count]

(* _fit_l2_logistic_bucket, and what load_paper_registry_from_corpus makes of it. *)
LoadBucket(bucket) ==
  LET records == TrainingReadyRecords(bucket)
      count == Cardinality({row.condition : row \in records})
  IN CASE count = 0 /\ count < Minimum -> Unready("TRAINING_CORPUS_REQUIRED", count)
       [] count > 0 /\ count < Minimum -> Unready("INSUFFICIENT_SAMPLE", count)
       [] OTHER ->
            IF \/ ~OneSchema(records)
               \/ Share(records, "UP") = 0 \/ Share(records, "DOWN") = 0
               \/ Cardinality({row.payload.value : row \in records}) = 1
            THEN Unready("REJECTED", count)
            ELSE [ready |-> TRUE, state |-> "SHADOW_CANDIDATE", count |-> count,
                  schema |-> (CHOOSE row \in records : TRUE).payload.schema,
                  base_rate |-> BaseRate(Share(records, "UP"), Cardinality(records)),
                  samples |-> Cardinality(records),
                  trained_on |-> {Reference(row) : row \in records},
                  trained_through |-> Max({row.observed_at : row \in records})]

EmptyRegistry == [b \in Buckets |-> Unready("TRAINING_CORPUS_REQUIRED", 0)]

-----------------------------------------------------------------------------
(* calibrated_forecast and predict_raw refuse what the model was not trained for. *)
Refuses(model, payload, generated_at) ==
  generated_at <= model.trained_through \/ payload.schema # model.schema

(* _directional_forecast_for_features: a refusal leaves the market without any
   forecast; only a bucket that is not ready falls back to the baseline. *)
ForecastFor(bucket, payload) ==
  CASE payload.schema = Missing -> Missing
    [] payload.schema # Missing /\ ~registry[bucket].ready ->
         [model |-> "BASELINE", condition |-> ConditionAt(bucket, now), at |-> now]
    [] OTHER ->
         IF Refuses(registry[bucket], payload, now) THEN Missing
         ELSE [model |-> "TRAINED", condition |-> ConditionAt(bucket, now), at |-> now,
               schema |-> payload.schema]

(* _shadow_model_status, kept with the row. *)
ShadowModelStatus(bucket) ==
  CASE registry[bucket].ready -> "SHADOW_CANDIDATE"
    [] ~registry[bucket].ready /\ corpus[bucket] = {} -> "TRAINING_CORPUS_REQUIRED"
    [] OTHER -> "INSUFFICIENT_SAMPLE"

Init ==
  /\ now = 0 /\ corpus = [b \in Buckets |-> {}] /\ official = [c \in BucketConditions |-> Missing]
  /\ registry = EmptyRegistry /\ forecast = [b \in Buckets |-> Missing]

(* One evaluation of the bucket's market: its forecast, and the row it saves
   (_save_directional_corpus_placeholder). *)
Evaluate(bucket, payload) ==
  /\ \A row \in corpus[bucket] : row.observed_at < now
  /\ forecast' = [forecast EXCEPT ![bucket] = ForecastFor(bucket, payload)]
  /\ corpus' = [corpus EXCEPT ![bucket] =
       @ \cup {[condition |-> ConditionAt(bucket, now), observed_at |-> now,
                 payload |-> payload, label |-> Missing,
                 model_state |-> ShadowModelStatus(bucket)]}]
  /\ UNCHANGED <<now, official, registry>>

(* attach_outcome labels every unlabelled row of the condition. *)
Labels(row, condition) == row.label = Missing /\ row.condition = condition

(* The venue's answer never changes (external); CorpusLabels models the worker. *)
AttachOutcome(condition, winner) ==
  LET bucket == condition[1] IN
  /\ EndOf(condition) <= now
  /\ official[condition] \in {Missing, winner}
  /\ \E row \in corpus[bucket] : Labels(row, condition)
  /\ official' = [official EXCEPT ![condition] = winner]
  /\ corpus' = [corpus EXCEPT ![bucket] =
       {IF Labels(row, condition) THEN [row EXCEPT !.label = winner] ELSE row : row \in @}]
  /\ UNCHANGED <<now, registry, forecast>>

(* A new process trains from what the corpus holds; nothing retrains later. *)
Restart ==
  /\ registry' = [b \in Buckets |-> LoadBucket(b)]
  /\ forecast' = [b \in Buckets |-> Missing]
  /\ UNCHANGED <<now, corpus, official>>

Tick == now < MaxNow /\ now' = now + 1 /\ UNCHANGED <<corpus, official, registry, forecast>>

Next ==
  \/ \E bucket \in Buckets, payload \in Payloads : Evaluate(bucket, payload)
  \/ \E condition \in BucketConditions, winner \in {"UP", "DOWN"} : AttachOutcome(condition, winner)
  \/ Restart
  \/ Tick

Spec == Init /\ [][Next]_vars

-----------------------------------------------------------------------------
Row ==
  [condition : BucketConditions, observed_at : 0..MaxNow, payload : Payloads,
   label : {"UP", "DOWN", Missing},
   model_state : {"SHADOW_CANDIDATE", "TRAINING_CORPUS_REQUIRED", "INSUFFICIENT_SAMPLE"}]

(* The corpus holds one row of an instant, about the window of that instant, and a
   label is its market's winner, given when the window was over. *)
TypeOK ==
  /\ now \in 0..MaxNow
  /\ corpus \in [Buckets -> SUBSET Row]
  /\ official \in [BucketConditions -> {"UP", "DOWN", Missing}]
  /\ DOMAIN forecast = Buckets
  /\ \A b \in Buckets :
       /\ IsFiniteSet(corpus[b])
       /\ \A row \in corpus[b] :
            /\ row.observed_at <= now /\ row.condition = ConditionAt(b, row.observed_at)
            /\ row.label # Missing =>
                 EndOf(row.condition) <= now /\ official[row.condition] = row.label
       /\ \A row, other \in corpus[b] : row.observed_at = other.observed_at => row = other

TrainingRows(b) == {row \in corpus[b] : Reference(row) \in registry[b].trained_on}

(* What a model was trained on stays in the corpus as it was. *)
TrainedOnRecord(b) ==
  /\ \A reference \in registry[b].trained_on : \E row \in corpus[b] : Reference(row) = reference
  /\ \A row \in TrainingRows(b) :
       row.label # Missing /\ row.payload.schema = registry[b].schema /\ row.payload.ptb
  /\ Cardinality({row.condition : row \in TrainingRows(b)}) >= Minimum
  /\ \A winner \in {"UP", "DOWN"} : \E row \in TrainingRows(b) : row.label = winner
  /\ registry[b].base_rate =
       BaseRate(Cardinality({row \in TrainingRows(b) : row.label = "UP"}),
                Cardinality(TrainingRows(b)))
  /\ registry[b].samples = Cardinality(TrainingRows(b))

(* A forecast of a trained model is younger than its labels. *)
ForecastIsLater(b) ==
  /\ forecast[b].model = "TRAINED" /\ forecast[b].at \in 0..now
  /\ forecast[b].condition = ConditionAt(b, forecast[b].at)
  /\ forecast[b].schema = registry[b].schema
  /\ \A row \in TrainingRows(b) : EndOf(row.condition) <= forecast[b].at

(* The inductive invariant. *)
IInv ==
  /\ TypeOK
  /\ \A b \in Buckets :
       registry[b].ready => /\ TrainedOnRecord(b)
                            /\ forecast[b] # Missing => ForecastIsLater(b)

(* A trained forecast rests on the past alone: enough markets of its own bucket, all
   over before the forecast and none of them the one it is about, each row with the
   forecast's own feature schema and its market's official winner, with both winners
   among them, the probability being their clamped share (load_paper_registry_from_corpus,
   training_ready_records, calibrated_forecast). *)
TrainedOnThePast ==
  \A b \in Buckets :
    (forecast[b] # Missing /\ registry[b].ready) =>
      LET model == registry[b]
          rows == {row \in corpus[b] : Reference(row) \in model.trained_on}
          Won(winner) == {row \in rows : official[row.condition] = winner}
      IN /\ forecast[b].model = "TRAINED"
         /\ Cardinality({row.condition : row \in rows}) >= Minimum
         /\ \A row \in rows :
              /\ row.condition[1] = b /\ row.condition # forecast[b].condition
              /\ EndOf(row.condition) <= forecast[b].at
              /\ row.payload.schema = forecast[b].schema /\ row.payload.ptb
         /\ Won("UP") # {} /\ Won("DOWN") # {}
         /\ model.base_rate = BaseRate(Cardinality(Won("UP")), Cardinality(rows))
         /\ model.samples = Cardinality(rows)
=============================================================================
