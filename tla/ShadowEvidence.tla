---------------------------- MODULE ShadowEvidence ----------------------------
(***************************************************************************)
(* The evidence a daemon leaves of what it does: the window of its process *)
(* and the events of its cycles in the shadow database                     *)
(* (shadow/storage.py), the decisions in the PAPER ledger, and the report  *)
(* files (shadow/reporting.py).  Nothing but the order of the daemon's     *)
(* writes ties them together: there is no foreign key and no transaction   *)
(* over two of them.  Another process may hold the shadow database's write *)
(* lock; a write then is tried again a bounded number of times and given   *)
(* up as busy.  A write may also fail for another reason, and the process  *)
(* may die anywhere.                                                       *)
(*                                                                         *)
(* Startup writes (run_daemon, _prepare_shadow_evidence_startup) are       *)
(* retried until a deadline, and giving up ends the process; its           *)
(* supervisor starts a new one.  A cycle goes on without the events it     *)
(* could not store.                                                        *)
(***************************************************************************)
EXTENDS Integers, Sequences, SequencesExt

CONSTANTS
  Buckets,
  Order,            \* the buckets in the order of SUPPORTED_MARKET_BUCKETS
  StartupAttempts,  \* attempts that fit in the startup deadline
  EventAttempts,    \* max_busy_retries + 1
  MaxProcesses, MaxCycles  \* bounds

(* Every bucket has one place in the order. *)
ASSUME EvidenceConstants ==
  /\ Order \in Seq(Buckets) /\ Order # <<>>
  /\ IsInjective(Order) /\ Range(Order) = Buckets
  /\ StartupAttempts \in Nat \ {0} /\ EventAttempts \in Nat \ {0}
  /\ MaxProcesses \in Nat \ {0} /\ MaxCycles \in Nat \ {0}

VARIABLES
  process,           \* number of the process, which names its evidence window
  pc,                \* what it writes next; "down" between two processes
  attempt,           \* attempts of that write that found the lock taken
  locked,            \* another process holds the write lock
  evidence_windows,  \* table
  shadow_events,     \* table
  ledger,            \* rows of the PAPER database: trades and abstentions
  cycle,             \* number of the cycle, which names its events
  collected,         \* bucket -> what the collection found
  position,          \* bucket of Order the cycle is at
  json, markdown     \* report files: [process, cycle] they were written by

vars == <<process, pc, attempt, locked, evidence_windows, shadow_events, ledger,
          cycle, collected, position, json, markdown>>

Found == {"no_market", "closed", "open"}
NoReport == [process |-> 0, cycle |-> 0]
Startup == {"schema", "window", "verify"}
PerBucket == {"pipeline", "degraded", "directional", "closed", "entered", "assessed",
              "abstain", "structural", "fault", "decision"}
Running == {"idle", "settlement", "cycle_event", "json", "markdown"} \cup PerBucket

Event(type, b) == [type |-> type, window |-> process, cycle |-> cycle, bucket |-> b]
NoBucket == "none"
Row(strategy, b) == [strategy |-> strategy, cycle |-> cycle, bucket |-> b]
Bucket == Order[position]

Init ==
  /\ process = 0 /\ pc = "down" /\ attempt = 0 /\ locked = FALSE
  /\ evidence_windows = {} /\ shadow_events = {} /\ ledger = {}
  /\ cycle = 0 /\ collected = [b \in Buckets |-> "no_market"] /\ position = 1
  /\ json = NoReport /\ markdown = NoReport

-----------------------------------------------------------------------------
(* Writes to the shadow database. *)

To(next) == pc' = next /\ attempt' = 0

files == <<json, markdown>>
cycle_state == <<cycle, collected, position>>

(* Mutant: the attempts are not counted. *)
RetriedUncounted(attempts) ==
  /\ locked /\ UNCHANGED <<attempt, pc>>

(* The lock is taken when the attempt's busy timeout ends: sleep, try again. *)
Retried(attempts) ==
  /\ locked /\ attempt + 1 < attempts
  /\ attempt' = attempt + 1 /\ UNCHANGED pc

(* Mutant: a window that could not be stored does not stop the startup. *)
StartupGivenUpGoesOn ==
  /\ locked /\ attempt + 1 >= StartupAttempts
  /\ To(IF pc = "schema" THEN "window" ELSE "idle")

(* ShadowStorageBusy leaves run_daemon. *)
StartupGivenUp ==
  /\ locked /\ attempt + 1 >= StartupAttempts
  /\ To("down")

(* _write_with_startup_retry for the schema and for the window, whose row
   INSERT OR IGNORE keeps if a process of the same second stored it. *)
StartupWrite ==
  /\ pc \in {"schema", "window"}
  /\ \/ /\ ~locked
        /\ To(IF pc = "schema" THEN "window" ELSE "verify")
        /\ evidence_windows' =
             IF pc = "window" THEN evidence_windows \cup {process} ELSE evidence_windows
     \/ (Retried(StartupAttempts) \/ StartupGivenUp) /\ UNCHANGED evidence_windows
  /\ UNCHANGED <<process, locked, shadow_events, ledger, cycle_state, files>>

(* save_window_once_for_startup reads the window back before it returns. *)
VerifyWindow ==
  /\ pc = "verify"
  /\ To(IF process \in evidence_windows THEN "idle" ELSE "down")
  /\ UNCHANGED <<process, locked, evidence_windows, shadow_events, ledger,
                 cycle_state, files>>

(* _append_shadow_event: stored, or busy and dropped.  The continuation is
   told which. *)
AppendEvent(e, stored_next, dropped_next) ==
  \/ /\ ~locked
     /\ shadow_events' = shadow_events \cup {e}
     /\ To(stored_next)
  \/ Retried(EventAttempts) /\ UNCHANGED shadow_events
  \/ /\ locked /\ attempt + 1 >= EventAttempts
     /\ To(dropped_next) /\ UNCHANGED shadow_events

-----------------------------------------------------------------------------
(* ShadowDaemon.run_once *)

(* new_evidence_window and the construction before the first write. *)
StartProcess ==
  /\ pc = "down" /\ process < MaxProcesses
  /\ process' = process + 1 /\ To("schema")
  /\ UNCHANGED <<locked, evidence_windows, shadow_events, ledger, cycle_state, files>>

BeginCycle ==
  /\ pc = "idle" /\ cycle < MaxCycles
  /\ cycle' = cycle + 1 /\ position' = 1
  /\ collected' \in [Buckets -> Found]
  /\ To("settlement")
  /\ UNCHANGED <<process, locked, evidence_windows, shadow_events, ledger, files>>

AppendSettlementScan ==
  /\ pc = "settlement"
  /\ AppendEvent(Event("PAPER_SETTLEMENT_SCAN", NoBucket), "pipeline", "pipeline")
  /\ UNCHANGED <<process, locked, evidence_windows, ledger, cycle_state, files>>

(* Mutant: the outcome of the append is not looked at. *)
RecordPipelineStateAnyway ==
  /\ pc = "pipeline"
  /\ AppendEvent(Event("MARKET_DATA_PIPELINE", Bucket), "directional", "directional")
  /\ UNCHANGED <<process, locked, evidence_windows, ledger, cycle_state, files>>

RecordPipelineState ==
  /\ pc = "pipeline"
  /\ AppendEvent(Event("MARKET_DATA_PIPELINE", Bucket), "directional", "degraded")
  /\ UNCHANGED <<process, locked, evidence_windows, ledger, cycle_state, files>>

(* The next state of the loop of _evaluate_cycle. *)
Following == IF position < Len(Order) THEN "pipeline" ELSE "cycle_event"

NextBucket ==
  /\ To(Following)
  /\ position' = IF position < Len(Order) THEN position + 1 ELSE position

(* A row of the PAPER database, which nobody else writes. *)
Recorded(rows) ==
  /\ ledger' = ledger \cup rows
  /\ UNCHANGED <<process, locked, evidence_windows, shadow_events, cycle, collected, files>>

(* Mutant: the bucket of a dropped pipeline event is skipped without a trace. *)
AbstainDegradedSilently ==
  /\ pc = "degraded"
  /\ Recorded({}) /\ NextBucket

(* SHADOW_STORAGE_DEGRADED, and continue. *)
AbstainDegraded ==
  /\ pc = "degraded"
  /\ Recorded({Row("SHADOW_STORAGE_DEGRADED", Bucket)}) /\ NextBucket

(* No market, or one whose window is not open: an abstention of the directional
   strategy, and of the structural one in a transaction of its own. *)
AbstainUnavailable ==
  /\ pc = "directional" /\ collected[Bucket] # "open"
  /\ Recorded({Row("DIRECTIONAL_EDGE", Bucket)})
  /\ IF collected[Bucket] = "no_market"
     THEN NextBucket
     ELSE To("closed") /\ UNCHANGED position

AbstainClosed ==
  /\ pc = "closed"
  /\ Recorded({Row("STRUCTURAL_ARBITRAGE", Bucket)}) /\ NextBucket

(* _evaluate_directional: an assessment to trade is executed or its refusal
   recorded before the evaluation event, one to abstain is recorded after it. *)
ExecuteDirectional ==
  /\ pc = "directional" /\ collected[Bucket] = "open"
  /\ \/ Recorded({Row("DIRECTIONAL_EDGE", Bucket)}) /\ To("entered")
     \/ Recorded({}) /\ To("assessed")
  /\ UNCHANGED position

AppendEvaluation ==
  /\ pc \in {"entered", "assessed"}
  /\ LET next == IF pc = "entered" THEN "structural" ELSE "abstain"
     IN AppendEvent(Event("STRATEGY_EVALUATION", Bucket), next, next)
  /\ UNCHANGED <<process, locked, evidence_windows, ledger, cycle_state, files>>

AbstainDirectional ==
  /\ pc = "abstain"
  /\ Recorded({Row("DIRECTIONAL_EDGE", Bucket)}) /\ To("structural")
  /\ UNCHANGED position

(* _evaluate_structural without a book or a fee: an abstention and no event.
   Until its event is first tried the scans are still to come. *)
StructuralUnavailable ==
  /\ pc = "structural" /\ attempt = 0
  /\ Recorded({Row("STRUCTURAL_ARBITRAGE", Bucket)}) /\ NextBucket

(* A scan that fails on the quality of the market: the abstention, then its
   event, and nothing more. *)
StructuralFault ==
  /\ pc = "structural" /\ attempt = 0
  /\ Recorded({Row("STRUCTURAL_ARBITRAGE", Bucket)}) /\ To("fault")
  /\ UNCHANGED position

AppendFault ==
  /\ pc = "fault"
  /\ AppendEvent(Event("STRUCTURAL_EVALUATION", Bucket), Following, Following)
  /\ position' = IF pc' = "pipeline" THEN position + 1 ELSE position
  /\ UNCHANGED <<process, locked, evidence_windows, ledger, cycle, collected, files>>

(* Two scans: their event precedes the trade or the abstention. *)
AppendStructural ==
  /\ pc = "structural"
  /\ AppendEvent(Event("STRUCTURAL_EVALUATION", Bucket), "decision", "decision")
  /\ UNCHANGED <<process, locked, evidence_windows, ledger, cycle_state, files>>

ExecuteStructural ==
  /\ pc = "decision"
  /\ Recorded({Row("STRUCTURAL_ARBITRAGE", Bucket)}) /\ NextBucket

AppendCycle ==
  /\ pc = "cycle_event"
  /\ AppendEvent(Event("REAL_SHADOW_CYCLE", NoBucket), "json", "json")
  /\ UNCHANGED <<process, locked, evidence_windows, ledger, cycle_state, files>>

(* write_reports: two files, one after the other. *)
WriteJson ==
  /\ pc = "json"
  /\ json' = [process |-> process, cycle |-> cycle] /\ To("markdown")
  /\ UNCHANGED <<process, locked, evidence_windows, shadow_events, ledger,
                 cycle_state, markdown>>

WriteMarkdown ==
  /\ pc = "markdown"
  /\ markdown' = [process |-> process, cycle |-> cycle] /\ To("idle")
  /\ UNCHANGED <<process, locked, evidence_windows, shadow_events, ledger,
                 cycle_state, json>>

(* An exception that is not a busy database, or the death of the process. *)
Crash ==
  /\ pc # "down" /\ To("down")
  /\ UNCHANGED <<process, locked, evidence_windows, shadow_events, ledger,
                 cycle_state, files>>

(* Another process takes or releases the write lock. *)
OtherWriter ==
  /\ locked' = ~locked
  /\ UNCHANGED <<process, pc, attempt, evidence_windows, shadow_events, ledger,
                 cycle_state, files>>

Work ==
  \/ StartProcess \/ StartupWrite \/ VerifyWindow
  \/ BeginCycle \/ AppendSettlementScan
  \/ RecordPipelineState \/ AbstainDegraded \/ AbstainUnavailable \/ AbstainClosed
  \/ ExecuteDirectional \/ AppendEvaluation \/ AbstainDirectional
  \/ StructuralUnavailable \/ StructuralFault \/ AppendFault
  \/ AppendStructural \/ ExecuteStructural
  \/ AppendCycle \/ WriteJson \/ WriteMarkdown

Next == Work \/ Crash \/ OtherWriter

Spec == Init /\ [][Next]_vars

(* The process runs and its supervisor restarts it; other processes may keep
   the lock for ever. *)
FairSpec == Spec /\ WF_vars(Work)

-----------------------------------------------------------------------------
EventTypes == {"PAPER_SETTLEMENT_SCAN", "MARKET_DATA_PIPELINE", "STRATEGY_EVALUATION",
               "STRUCTURAL_EVALUATION", "REAL_SHADOW_CYCLE"}
Strategies == {"DIRECTIONAL_EDGE", "STRUCTURAL_ARBITRAGE", "SHADOW_STORAGE_DEGRADED"}

(* Every variable holds what the program could hold, and what is stored was
   stored by a process and in a cycle that there was. *)
TypeOK ==
  /\ process \in 0..MaxProcesses /\ cycle \in 0..MaxCycles
  /\ pc \in {"down"} \cup Startup \cup Running
  /\ attempt \in 0..(StartupAttempts + EventAttempts) /\ locked \in BOOLEAN
  /\ evidence_windows \subseteq 1..process
  /\ shadow_events \subseteq [type : EventTypes, window : 1..process, cycle : 1..cycle,
                              bucket : Buckets \cup {NoBucket}]
  /\ ledger \subseteq [strategy : Strategies, cycle : 1..cycle, bucket : Buckets]
  /\ collected \in [Buckets -> Found] /\ position \in 1..Len(Order)
  /\ {json, markdown} \subseteq [process : 0..process, cycle : 0..cycle]

(* Every event and every report names a window that is in the table, although
   no foreign key says so and the window's write competes with other
   processes (run_daemon stores and re-reads it before anything else). *)
EvidenceReferential ==
  /\ \A e \in shadow_events : e.window \in evidence_windows
  /\ \A file \in {json, markdown} : file # NoReport => file.process \in evidence_windows

Stored(type, c, b) == \E e \in shadow_events : e.type = type /\ e.cycle = c /\ e.bucket = b
InLedger(strategy, c, b) == [strategy |-> strategy, cycle |-> c, bucket |-> b] \in ledger

(* No decision of a strategy, trade or abstention, is in the ledger without
   the record of the market data it was made on: a busy shadow database
   degrades the bucket (_evaluate_cycle). *)
DecisionsHaveMarketData ==
  \A r \in ledger : r.strategy # "SHADOW_STORAGE_DEGRADED" =>
    Stored("MARKET_DATA_PIPELINE", r.cycle, r.bucket)

Accounted(c, b) ==
  LET evaluated == Stored("MARKET_DATA_PIPELINE", c, b)
  IN /\ evaluated <=> ~InLedger("SHADOW_STORAGE_DEGRADED", c, b)
     /\ evaluated <=> InLedger("DIRECTIONAL_EDGE", c, b)
     /\ (evaluated /\ c = cycle /\ collected[b] # "no_market")
          => InLedger("STRUCTURAL_ARBITRAGE", c, b)

(* A cycle that is reported as done accounts for every bucket: its market
   data is stored or the ledger says why it was not evaluated, never both; and
   each of its decisions is in the ledger. *)
CycleAccounted ==
  \A e \in shadow_events : e.type = "REAL_SHADOW_CYCLE" =>
    \A b \in Buckets : Accounted(e.cycle, b)

OfCycle(records, c) == {r \in records : r.cycle = c}

ReportStands ==
  \A e \in shadow_events : e.type = "REAL_SHADOW_CYCLE" =>
    /\ OfCycle(ledger', e.cycle) = OfCycle(ledger, e.cycle)
    /\ OfCycle(shadow_events', e.cycle) = OfCycle(shadow_events, e.cycle)

(* What a cycle event reports stays true of its cycle: no late decision, no
   second report and no restarted process adds a row or an event to a cycle
   that was reported (run_once, _evaluate_cycle). *)
ReportsStand == [][ReportStands]_vars

(* A cycle ends, with its reports written or its process dead, however long
   another process keeps the lock (_write_with_retry is bounded). *)
CycleEnds == (pc = "settlement") ~> (pc \in {"idle", "down"})

-----------------------------------------------------------------------------
(* What makes the invariants inductive: how far the cycle has come.  A cycle
   that is not yet reported has accounted for the buckets before its position,
   left no trace of those behind it, and stored the market data of the one it
   is at before the first decision on it. *)
Untouched(c, b) ==
  /\ ~Stored("MARKET_DATA_PIPELINE", c, b)
  /\ \A r \in ledger : r.cycle = c => r.bucket # b

Evaluating == PerBucket \ {"pipeline", "degraded"}

InBuckets == pc \in {"settlement"} \cup PerBucket

CycleProgress ==
  /\ pc # "down" => process > 0
  /\ pc \in Running => process \in evidence_windows
  /\ pc \in Running \ {"idle"} => cycle > 0
  /\ pc = "settlement" => position = 1
  /\ InBuckets =>
       /\ \A e \in shadow_events : e.type = "REAL_SHADOW_CYCLE" => e.cycle # cycle
       /\ \A i \in 1..(position - 1) : Accounted(cycle, Order[i])
       /\ \A i \in (position + 1)..Len(Order) : Untouched(cycle, Order[i])
  /\ pc \in {"settlement", "pipeline", "degraded"} => Untouched(cycle, Bucket)
  /\ pc \in Evaluating =>
       /\ Stored("MARKET_DATA_PIPELINE", cycle, Bucket)
       /\ ~InLedger("SHADOW_STORAGE_DEGRADED", cycle, Bucket)
  /\ pc \in Evaluating \ {"directional", "assessed", "abstain"} =>
       InLedger("DIRECTIONAL_EDGE", cycle, Bucket)
  /\ pc = "fault" => InLedger("STRUCTURAL_ARBITRAGE", cycle, Bucket)
  /\ pc = "cycle_event" => \A b \in Buckets : Accounted(cycle, b)

(* No cycle event is stored before the cycle is at its end. *)
NotYetReported ==
  InBuckets \/ pc = "cycle_event" =>
    \A e \in shadow_events : e.type = "REAL_SHADOW_CYCLE" => e.cycle # cycle

IInv ==
  TypeOK /\ EvidenceReferential /\ DecisionsHaveMarketData /\ CycleAccounted /\ CycleProgress

=============================================================================
