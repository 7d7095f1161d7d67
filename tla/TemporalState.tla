---------------------------- MODULE TemporalState ----------------------------
(***************************************************************************)
(* The history one asset's features are computed from                      *)
(* (features/temporal.py, ExternalTemporalState): references, books and    *)
(* trades in the order they were added.  A point has the key that the      *)
(* deduplicating variant of the history compares, a value and the source   *)
(* time that ages it.  What a snapshot is used for is which points it is   *)
(* made of and the sign pattern of the returns; the arithmetic of the      *)
(* other features is left out, and so are the counters of _diagnostics.    *)
(***************************************************************************)
EXTENDS Integers, FiniteSets, SequencesExt

CONSTANTS
  MaxAge,          \* max_age
  MinimumPoints    \* minimum_points

ASSUME TemporalConstants == MaxAge \in Nat \ {0} /\ MinimumPoints \in Nat \ {0, 1}

Point(key, value, ts) == [key |-> key, value |-> value, ts |-> ts]

EmptyHistory == [references |-> <<>>, books |-> <<>>, trades |-> <<>>]

(* Mutant: a repetition refreshes the point that is there. *)
DeduplicatedInPlace(queue, p) ==
  IF \E i \in DOMAIN queue : queue[i].key = p.key
  THEN [i \in DOMAIN queue |-> IF queue[i].key = p.key THEN p ELSE queue[i]]
  ELSE Append(queue, p)

(* add_reference, add_book and add_trade of the deduplicating variant: a
   point whose key is already there is dropped, as a repetition when its
   value is the same and as a conflict when it is not. *)
Deduplicated(queue, p) ==
  IF \E i \in DOMAIN queue : queue[i].key = p.key THEN queue ELSE Append(queue, p)

(* Mutant: the legacy variant deduplicates too. *)
AppendedOnce(queue, p) == Deduplicated(queue, p)

(* The same of the legacy variant. *)
Appended(queue, p) == Append(queue, p)

(* A reference, a book and, when there is one, a trade of one collection. *)
WithSample(h, sample) ==
  [references |-> Appended(h.references, sample.reference),
   books |-> Appended(h.books, sample.book),
   trades |-> IF sample.trade = <<>> THEN h.trades ELSE Appended(h.trades, sample.trade[1])]

WithNewOf(h, sample) ==
  [references |-> Deduplicated(h.references, sample.reference),
   books |-> Deduplicated(h.books, sample.book),
   trades |-> IF sample.trade = <<>> THEN h.trades
             ELSE Deduplicated(h.trades, sample.trade[1])]

(* Mutant: nothing is ever dropped. *)
PrunedQueueNever(queue, at) == queue

(* _prune pops from the left and stops at the first point young enough. *)
PrunedQueue(queue, at) ==
  LET young == {i \in DOMAIN queue : at - queue[i].ts <= MaxAge}
  IN IF young = {} THEN <<>> ELSE SubSeq(queue, Min(young), Len(queue))

Pruned(h, at) ==
  [references |-> PrunedQueue(h.references, at),
   books |-> PrunedQueue(h.books, at),
   trades |-> PrunedQueue(h.trades, at)]

(* Signs of the non-zero returns between consecutive references. *)
Signs(references) ==
  LET returns == [i \in 1..(Len(references) - 1) |->
                    references[i + 1].value - references[i].value]
      moves == SelectSeq(returns, LAMBDA r : r # 0)
  IN [i \in 1..Len(moves) |-> moves[i] > 0]

FlipCount(signs) ==
  Cardinality({i \in 1..(Len(signs) - 1) : signs[i] # signs[i + 1]})

FlipDenominator(signs) == IF Len(signs) > 1 THEN Len(signs) - 1 ELSE 1

(* build_snapshot, after _prune: why there is none, or FEATURES_READY. *)
SnapshotReason(h, reference, at) ==
  IF reference.ts > at THEN "FEATURE_SOURCE_IN_FUTURE"
  ELSE IF at - reference.ts > MaxAge THEN "EXTERNAL_REFERENCE_STALE"
  ELSE IF Len(h.references) < MinimumPoints THEN "FEATURE_HISTORY_WARMING"
  ELSE IF h.books = <<>> THEN "EXTERNAL_BOOK_STALE"
  ELSE IF h.trades = <<>> THEN "EXTERNAL_TRADE_FLOW_STALE"
  ELSE IF Last(h.books).ts > at THEN "EXTERNAL_BOOK_FUTURE"
  ELSE IF at - Last(h.books).ts > MaxAge THEN "EXTERNAL_BOOK_STALE"
  ELSE "FEATURES_READY"

(* The snapshot: its own reference, the newest of the references its returns
   are taken from, the flip rate and the newest source time it reports. *)
Snapshot(h, reference) ==
  LET signs == Signs(h.references)
      book_ts == Last(h.books).ts
  IN [current |-> reference,
      newest |-> Last(h.references),
      flips |-> FlipCount(signs),
      denominator |-> FlipDenominator(signs),
      source_ts |-> IF reference.ts > book_ts THEN reference.ts ELSE book_ts]
=============================================================================
