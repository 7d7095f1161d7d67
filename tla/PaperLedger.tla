----------------------------- MODULE PaperLedger -----------------------------
(****************************************************************************)
(* What storage/paper.py computes from the PAPER tables: the settlement     *)
(* overlay on the append-only trade snapshots, the capital figures of       *)
(* summary, the losing streak, the drawdown, and the settlement queue.      *)
(*                                                                          *)
(* trades       paper_trade_snapshots, a sequence in insertion order of     *)
(*              [strategy, condition_id, side, cost_basis, shares,          *)
(*               observed_at, fill_status]                                  *)
(* settlements  paper_trade_settlements, a sequence in settled_at order of  *)
(*              [trade_id, winning_side, win_loss, pnl, settled_at]         *)
(* attempts     paper_settlement_condition_attempts: condition -> NoRow or  *)
(*              [state, wait, last_successful_settlement_at], where wait is *)
(*              the time left until next_attempt_at                         *)
(****************************************************************************)
EXTENDS Integers, Sequences, FiniteSets, FiniteSetsExt, SequencesExt

CONSTANTS NoRow, Missing

(* PRIMARY KEY of a snapshot: plan.idempotency_key, made of the candidate id. *)
TradeId(t) == <<t.strategy, t.condition_id, t.observed_at>>

Rows(table) == {table[i] : i \in DOMAIN table}

SettlementOf(t, settlements) == {s \in Rows(settlements) : s.trade_id = TradeId(t)}

(* _overlay_trade: the status a reader sees. *)
StatusOf(t, settlements) == IF SettlementOf(t, settlements) = {} THEN "OPEN" ELSE "SETTLED"

(* trades(strategy=, status="OPEN") and unsettled_trade_snapshots *)
OpenTrades(trades, settlements) ==
  {t \in Rows(trades) : StatusOf(t, settlements) = "OPEN"}

OpenOf(strategy, trades, settlements) ==
  {t \in OpenTrades(trades, settlements) : t.strategy = strategy}

(* _capital_basis summed; realized_pnl of the settled trades. *)
CostBasis(open) == SumFunction([t \in open |-> t.cost_basis])
RealizedPnl(settlements) == SumFunction([s \in Rows(settlements) |-> s.pnl])

(* raw_available_capital, of every trade and of the directional ones: only
   directional trades are ever settled, so their realized PnL is all of it. *)
RawAvailableCapital(initial_equity, trades, settlements) ==
  initial_equity + RealizedPnl(settlements) - CostBasis(OpenTrades(trades, settlements))

DirectionalRawAvailableCapital(initial_equity, trades, settlements) ==
  initial_equity + RealizedPnl(settlements)
    - CostBasis(OpenOf("DIRECTIONAL_EDGE", trades, settlements))

(* _current_losing_streak: losses that no win comes before when the trades are
   sorted by observed_at, latest first. *)
CurrentLosingStreak(trades, settlements) ==
  LET outcome(i) == {s.win_loss : s \in SettlementOf(trades[i], settlements)}
      before(j, i) == \/ trades[j].observed_at > trades[i].observed_at
                      \/ trades[j].observed_at = trades[i].observed_at /\ j < i
      lost == {i \in DOMAIN trades : outcome(i) = {"LOSS"}}
      won == {i \in DOMAIN trades : outcome(i) = {"WIN"}}
  IN Cardinality({i \in lost : \A j \in won : ~before(j, i)})

(* _maximum_drawdown: the deepest fall of realized equity from a peak (its start
   included) to a later trough. *)
MaximumDrawdown(settlements) ==
  LET equity(n) == FoldLeft(LAMBDA sum, s : sum + s.pnl, 0, SubSeq(settlements, 1, n))
      marks == 0..Len(settlements)
  IN Max({equity(m[1]) - equity(m[2]) : m \in {n \in marks \X marks : n[1] <= n[2]}})

(* settlement_queue_summary["last_successful_settlement_at"]: an empty tuple of
   condition ids adds no WHERE clause. *)
LastSuccessfulSettlementAt(attempts, condition_ids) ==
  LET rows == IF condition_ids = {} THEN DOMAIN attempts ELSE condition_ids
      times == {attempts[c].last_successful_settlement_at :
                  c \in {r \in rows : attempts[r] # NoRow}} \ {Missing}
  IN IF times = {} THEN Missing ELSE Max(times)

(* due_settlement_conditions *)
Due(attempt) ==
  \/ attempt = NoRow
  \/ attempt.state \notin {"SETTLED", "BLOCKED_PERMANENT"} /\ attempt.wait = 0

(* save_settlement_condition_attempt: the upsert keeps an earlier success. *)
Attempted(attempts, condition_id, state, wait, successful_at) ==
  [attempts EXCEPT ![condition_id] =
    [state |-> state, wait |-> wait,
     last_successful_settlement_at |->
       IF successful_at # Missing \/ attempts[condition_id] = NoRow THEN successful_at
       ELSE attempts[condition_id].last_successful_settlement_at]]

(* save_trade_snapshot: INSERT OR IGNORE on the trade id. *)
SaveTradeSnapshot(trades, t) ==
  IF \E u \in Rows(trades) : TradeId(u) = TradeId(t) THEN trades ELSE Append(trades, t)
=============================================================================
