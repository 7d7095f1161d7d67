---------------------------- MODULE PaperGateway ----------------------------
(***************************************************************************)
(* execution/paper.py PaperGateway.execute over the two SQLite tables that *)
(* storage/paper.py save_once writes.  Several callers (two processes on   *)
(* one database file, or one process and its restarted successor) execute  *)
(* plans with the same idempotency keys; each call is three atomic steps   *)
(* -- the first SELECT with the gates that only read the call's arguments, *)
(* the BEGIN IMMEDIATE transaction, the re-reading SELECT -- and a caller  *)
(* may crash between any two of them.                                      *)
(***************************************************************************)
EXTENDS Integers, Sequences, FiniteSets

CONSTANTS
  Callers,     \* processes that call execute
  Keys,        \* idempotency keys, one per ExecutionPlan
  Intents,     \* client_order_ids
  IntentsOf,   \* Keys -> non-empty set of intents: plan.intents
  Requested,   \* Intents -> requested quantity
  ExpiresAt,   \* Keys -> plan.expires_at
  ModeOf,      \* Keys -> TradingMode of the plan
  Evidence,    \* fill evidence tuples a caller may pass
  MaxNow,      \* bound of the clock
  None, Denied

ASSUME GatewayConstants ==
  /\ IntentsOf \in [Keys -> SUBSET Intents]
  /\ Requested \in [Intents -> Nat \ {0}]
  /\ ExpiresAt \in [Keys -> Nat]
  /\ ModeOf \in [Keys -> {"PAPER", "LIVE"}]
  /\ Evidence \subseteq Seq([client_order_id : Intents, filled_quantity : Nat])
  /\ MaxNow \in Nat

Status == {"ACKNOWLEDGED", "PARTIALLY_FILLED", "FILLED"}
Order == [status : Status, requested_quantity : Nat, filled_quantity : Nat]
Result == [orders : [Intents -> Order \cup {None}], recorded_at : Nat]
Answer == [key : Keys, result : Result, duplicate : BOOLEAN]

ASSUME SentinelsAreDistinct ==
  /\ None \notin Result \cup Answer \cup Order
  /\ Denied \notin Answer \cup {None}

VARIABLES
  paper_executions,  \* table: Keys -> stored result or None
  audit_events,      \* table: row "paper:<key>" -> the payload it carries or None
  pc,                \* Callers -> where each call of execute is
  call,              \* Callers -> [key, result] being executed
  answer,            \* Callers -> what the last finished call returned
  now                \* wall clock

vars == <<paper_executions, audit_events, pc, call, answer, now>>

Init ==
  /\ paper_executions = [k \in Keys |-> None]
  /\ audit_events = [k \in Keys |-> None]
  /\ pc = [c \in Callers |-> "idle"]
  /\ call = [c \in Callers |-> None]
  /\ answer = [c \in Callers |-> None]
  /\ now = 0

-----------------------------------------------------------------------------
(* The pure part of execute: gates and simulated orders. *)

EvidenceIds(e) == {e[i].client_order_id : i \in DOMAIN e}

UniqueEvidence(e) ==
  \A i, j \in DOMAIN e : e[i].client_order_id = e[j].client_order_id => i = j

EvidenceMatchesPlan(k, e) == UniqueEvidence(e) /\ EvidenceIds(e) = IntentsOf[k]

NoOverfill(e) ==
  \A i \in DOMAIN e : e[i].filled_quantity <= Requested[e[i].client_order_id]

\* Mutant: the expiry check is missing.
GatesWithoutExpiry(k, e, kill_switch_active, ledger_reconciled) ==
  /\ ~kill_switch_active /\ ledger_reconciled
  /\ EvidenceMatchesPlan(k, e)
  /\ NoOverfill(e)

GatesPass(k, e, kill_switch_active, ledger_reconciled) ==
  /\ ~kill_switch_active /\ ledger_reconciled
  /\ now <= ExpiresAt[k]
  /\ EvidenceMatchesPlan(k, e)
  /\ NoOverfill(e)

StatusOf(filled, requested) ==
  IF filled = 0 THEN "ACKNOWLEDGED"
  ELSE IF filled = requested THEN "FILLED" ELSE "PARTIALLY_FILLED"

FilledBy(e, i) ==
  e[CHOOSE n \in DOMAIN e : e[n].client_order_id = i].filled_quantity

BuildResult(k, e) ==
  [orders |-> [i \in Intents |->
                 IF i \in IntentsOf[k]
                 THEN [status |-> StatusOf(FilledBy(e, i), Requested[i]),
                       requested_quantity |-> Requested[i],
                       filled_quantity |-> FilledBy(e, i)]
                 ELSE None],
   recorded_at |-> now]

-----------------------------------------------------------------------------
(* Steps of execute. *)

(* repository.get finds the key: the stored result is restored as a duplicate
   before any gate is looked at. *)
ReturnExisting(c, k) ==
  /\ pc[c] = "idle"
  /\ ModeOf[k] = "PAPER"
  /\ paper_executions[k] # None
  /\ answer' = [answer EXCEPT
       ![c] = [key |-> k, result |-> paper_executions[k], duplicate |-> TRUE]]
  /\ UNCHANGED <<paper_executions, audit_events, pc, call, now>>

(* A plan that is not PAPER, or a new plan one of the gates refuses: raises. *)
Raise(c, k, e, kill_switch_active, ledger_reconciled) ==
  /\ pc[c] = "idle"
  /\ \/ ModeOf[k] # "PAPER"
     \/ /\ paper_executions[k] = None
        /\ ~GatesPass(k, e, kill_switch_active, ledger_reconciled)
  /\ answer' = [answer EXCEPT ![c] = Denied]
  /\ UNCHANGED <<paper_executions, audit_events, pc, call, now>>

(* No row and every gate passes: orders and fills are built in memory. *)
Build(c, k, e, kill_switch_active, ledger_reconciled) ==
  /\ pc[c] = "idle"
  /\ ModeOf[k] = "PAPER"
  /\ paper_executions[k] = None
  /\ GatesPass(k, e, kill_switch_active, ledger_reconciled)
  /\ pc' = [pc EXCEPT ![c] = "built"]
  /\ call' = [call EXCEPT ![c] = [key |-> k, result |-> BuildResult(k, e)]]
  /\ answer' = [answer EXCEPT ![c] = None]
  /\ UNCHANGED <<paper_executions, audit_events, now>>

\* Mutant: INSERT OR REPLACE.
InsertOrReplace(table, k, row) == [table EXCEPT ![k] = row]

InsertOrIgnore(table, k, row) ==
  IF table[k] = None THEN [table EXCEPT ![k] = row] ELSE table

\* Mutant: the audit row is written with INSERT OR REPLACE.
SaveOnceReplacingAudit(c) ==
  /\ pc[c] = "built"
  /\ paper_executions' = InsertOrIgnore(paper_executions, call[c].key, call[c].result)
  /\ audit_events' = InsertOrReplace(audit_events, call[c].key, call[c].result)
  /\ pc' = [pc EXCEPT ![c] = "saved"]
  /\ UNCHANGED <<call, answer, now>>

(* save_once: both INSERT OR IGNOREs of one BEGIN IMMEDIATE transaction. *)
SaveOnce(c) ==
  /\ pc[c] = "built"
  /\ paper_executions' = InsertOrIgnore(paper_executions, call[c].key, call[c].result)
  /\ audit_events' = InsertOrIgnore(audit_events, call[c].key, call[c].result)
  /\ pc' = [pc EXCEPT ![c] = "saved"]
  /\ UNCHANGED <<call, answer, now>>

\* Mutant: execute returns what it built instead of the row it reads back.
ReturnOwnResult(c) ==
  /\ pc[c] = "saved"
  /\ answer' = [answer EXCEPT
       ![c] = [key |-> call[c].key, result |-> call[c].result, duplicate |-> FALSE]]
  /\ pc' = [pc EXCEPT ![c] = "idle"]
  /\ call' = [call EXCEPT ![c] = None]
  /\ UNCHANGED <<paper_executions, audit_events, now>>

(* save_once re-reads the row and execute restores it with duplicate=False. *)
Reread(c) ==
  /\ pc[c] = "saved"
  /\ answer' = [answer EXCEPT
       ![c] = [key |-> call[c].key, result |-> paper_executions[call[c].key],
               duplicate |-> FALSE]]
  /\ pc' = [pc EXCEPT ![c] = "idle"]
  /\ call' = [call EXCEPT ![c] = None]
  /\ UNCHANGED <<paper_executions, audit_events, now>>

(* The caller's process dies and is restarted: only SQLite survives. *)
Crash(c) ==
  /\ pc[c] # "idle" \/ answer[c] # None
  /\ pc' = [pc EXCEPT ![c] = "idle"]
  /\ call' = [call EXCEPT ![c] = None]
  /\ answer' = [answer EXCEPT ![c] = None]
  /\ UNCHANGED <<paper_executions, audit_events, now>>

Tick ==
  /\ now < MaxNow
  /\ now' = now + 1
  /\ UNCHANGED <<paper_executions, audit_events, pc, call, answer>>

Execute(c) ==
  \E k \in Keys :
    \/ ReturnExisting(c, k)
    \/ \E e \in Evidence, kill, reconciled \in BOOLEAN :
         Raise(c, k, e, kill, reconciled) \/ Build(c, k, e, kill, reconciled)

Next ==
  \/ \E c \in Callers : Execute(c) \/ SaveOnce(c) \/ Reread(c) \/ Crash(c)
  \/ Tick

Spec == Init /\ [][Next]_vars

-----------------------------------------------------------------------------
(* The tables, the program counters and the answers have the shapes execute
   and save_once give them. *)
TypeOK ==
  /\ paper_executions \in [Keys -> Result \cup {None}]
  /\ audit_events \in [Keys -> Result \cup {None}]
  /\ pc \in [Callers -> {"idle", "built", "saved"}]
  /\ call \in [Callers -> [key : Keys, result : Result] \cup {None}]
  /\ answer \in [Callers -> Answer \cup {None, Denied}]
  /\ now \in 0..MaxNow

(* Whatever two concurrent or restarted calls built, every answer execute has
   returned and still stands is the durable row of its key ("concurrent or
   restarted retries return the first durable result", docs/10). *)
AnswersAreDurable ==
  \A c \in Callers :
    answer[c] \in Answer => answer[c].result = paper_executions[answer[c].key]

(* An execution row and its audit event are written by one transaction from
   one payload: neither exists without the other and they never disagree. *)
AuditMirrorsExecutions == audit_events = paper_executions

(* A result answers its own plan: PAPER, stamped no later than the plan's
   expiry, one order per intent, no overfill, and an acknowledgement is never a
   fill. *)
HonoursPlan(k, r) ==
  /\ ModeOf[k] = "PAPER"
  /\ r.recorded_at <= ExpiresAt[k]
  /\ \A i \in Intents : (r.orders[i] # None) <=> (i \in IntentsOf[k])
  /\ \A i \in IntentsOf[k] :
       /\ r.orders[i].filled_quantity <= Requested[i]
       /\ (r.orders[i].status = "FILLED") <=> (r.orders[i].filled_quantity = Requested[i])
       /\ (r.orders[i].status = "ACKNOWLEDGED") <=> (r.orders[i].filled_quantity = 0)

(* Every durable result honours its plan, although the gates were checked
   before the transaction that stored it and by a process that may be gone. *)
StoredResultHonoursPlan ==
  \A k \in Keys : paper_executions[k] # None => HonoursPlan(k, paper_executions[k])

(* What a call carries between its first SELECT and its return: a well-formed
   result of its plan and, once the transaction committed, a durable row.  It
   makes the invariants above inductive. *)
InFlightCalls ==
  \A c \in Callers : pc[c] # "idle" =>
    /\ call[c] \in [key : Keys, result : Result]
    /\ HonoursPlan(call[c].key, call[c].result)
    /\ pc[c] = "saved" => paper_executions[call[c].key] # None

IInv ==
  /\ TypeOK
  /\ AnswersAreDurable
  /\ AuditMirrorsExecutions
  /\ StoredResultHonoursPlan
  /\ InFlightCalls

(* A durable row is never replaced or removed by a later call, whoever makes
   it and whatever fills it carries. *)
RowIsPermanent == \A k \in Keys :
  paper_executions[k] # None => paper_executions'[k] = paper_executions[k]

FirstResultWins == [][RowIsPermanent]_vars

-----------------------------------------------------------------------------
(* execute implements the ledger docs/10 describes: a call between its first
   SELECT and its return has been told nothing yet. *)
ToldBy(c) ==
  IF answer[c] \in Answer THEN [key |-> answer[c].key, result |-> answer[c].result]
  ELSE answer[c]

Ledger == INSTANCE FirstResultLedger WITH
  Results <- Result,
  ledger <- paper_executions,
  told <- [c \in Callers |-> ToldBy(c)]

ImplementsLedger == Ledger!Spec
=============================================================================
