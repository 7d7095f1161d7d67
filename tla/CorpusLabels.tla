---------------------------- MODULE CorpusLabels ----------------------------
(***************************************************************************)
(* How observations of a market get their official outcome.  The daemon's  *)
(* cycle first lets PaperSettlementService.run_once settle trades, label   *)
(* their conditions and then run one bounded pass of                       *)
(* DirectionalCheckpointLabeler, and only then collects and stores new     *)
(* observations (shadow/daemon.py), so a pass and a save never interleave; *)
(* but the pass can be cancelled at each request, the process can die      *)
(* between any two transactions, and a save can be cut short.              *)
(* Observations are in directional_corpus.sqlite3                          *)
(* (storage/directional_corpus.py), trades and label tasks in              *)
(* paper.sqlite3 (storage/paper.py).                                       *)
(*                                                                         *)
(* An outcome is the JSON text that is attached: it holds the time of the  *)
(* attachment, so two attachments never agree.  Label tasks are kept for   *)
(* each evidence hash; the newest of a condition, the one that is read     *)
(* back, stands for them.                                                  *)
(***************************************************************************)
EXTENDS Integers, Sequences, FiniteSets

CONSTANTS
  Conditions,
  Start, End,          \* Conditions -> window
  Identified,          \* conditions whose observations carry market id and window
  Prospective,         \* SOL-5m conditions, with evidence rows of their own
  Winner,              \* Conditions -> the official winner, "" for none (a void market)
  ClosedAt,            \* Conditions -> when the venue closes the market
  ResolutionTimes,     \* Conditions -> the resolution times it reports (None: unknown)
  Targets,             \* sequence of times to expiry that checkpoints are taken at
  CheckpointTolerance,
  ProspectiveTarget,
  Traded,              \* conditions with an open paper trade
  MaxConditions,       \* max_conditions_per_pass of the labeler
  RetryDelay,          \* five minutes; the ten of a pending settlement are rounded to it
  MaxNow, MaxRestarts, \* bounds
  None

CorpusConstants ==
  /\ IsFiniteSet(Conditions) /\ None \notin Nat
  /\ None \notin [winner : {"UP", "DOWN"}, resolved_at : Nat, attached_at : Nat]
  /\ Start \in [Conditions -> Nat] /\ End \in [Conditions -> Nat]
  /\ \A c \in Conditions : Start[c] < End[c]
  /\ {Identified, Prospective, Traded} \subseteq SUBSET Conditions
  /\ Winner \in [Conditions -> {"UP", "DOWN", ""}]
  /\ ClosedAt \in [Conditions -> Nat]
  /\ ResolutionTimes \in [Conditions -> (SUBSET (Nat \cup {None})) \ {{}}]
  /\ Targets \in Seq(Nat \ {0})
  /\ {CheckpointTolerance, ProspectiveTarget, RetryDelay, MaxNow, MaxRestarts} \subseteq Nat
  /\ MaxConditions \in Nat \ {0}

Tables == {"directional_corpus", "directional_checkpoint_observations",
           "sol5m_prospective_evidence"}
Outcome == [winner : {"UP", "DOWN"}, resolved_at : Nat, attached_at : Nat]
Keys == 0..MaxNow \cup {Targets[i] : i \in DOMAIN Targets} \cup {ProspectiveTarget}

VARIABLES
  now,
  rows,          \* observations with their outcome, of all three tables
  settled,       \* traded conditions whose trades are settled
  attempt,       \* Conditions -> newest settlement attempt
  label_task,    \* Conditions -> newest label task
  pass,          \* step of the settlement pass
  queue,         \* what the pass has still to do, in order
  answer,        \* the resolver's answer being applied
  restarts

vars == <<now, rows, settled, attempt, label_task, pass, queue, answer, restarts>>

Task(state, reason, next) == [state |-> state, reason |-> reason, next |-> next]

NoTask == Task("NONE", "NONE", 0)

NoAnswer == [winner |-> "", resolved_at |-> None]

Init ==
  /\ now = 0
  /\ rows = {}
  /\ settled = {}
  /\ attempt = [c \in Conditions |-> NoTask]
  /\ label_task = [c \in Conditions |-> NoTask]
  /\ pass = "idle"
  /\ queue = <<>>
  /\ answer = NoAnswer
  /\ restarts = 0

RowsOf(c) == {r \in rows : r.condition = c}

Unlabeled(c) ==
  {r \in RowsOf(c) : r.table = "directional_checkpoint_observations" /\ r.outcome = None}

-----------------------------------------------------------------------------
(* Saving what a cycle observed. *)

Distance(x, y) == IF x <= y THEN y - x ELSE x - y

TimeToExpiry(c) == End[c] - now

(* The first target whose tolerance holds the time to expiry; the tolerances of
   neighbours overlap.  A set of at most one element. *)
CheckpointTarget(c) ==
  {Targets[i] : i \in {n \in DOMAIN Targets :
     /\ Distance(TimeToExpiry(c), Targets[n]) <= CheckpointTolerance
     /\ \A k \in 1..(n - 1) :
          Distance(TimeToExpiry(c), Targets[k]) > CheckpointTolerance}}

Row(table, c, key) ==
  [table |-> table, condition |-> c, key |-> key, observed_at |-> now, outcome |-> None]

(* INSERT OR IGNORE: the first row with the key stays. *)
WithRow(stored, row) ==
  IF \E r \in stored : /\ r.table = row.table /\ r.condition = row.condition
                       /\ r.key = row.key
  THEN stored ELSE stored \cup {row}

WithCorpusRow(stored, c) == WithRow(stored, Row("directional_corpus", c, now))

WithCheckpoint(stored, c) ==
  stored \cup UNION {WithRow(stored, Row("directional_checkpoint_observations", c, target)) :
                       target \in CheckpointTarget(c)}

WithProspective(stored, c) ==
  IF /\ c \in Prospective
     /\ Distance(TimeToExpiry(c), ProspectiveTarget) <= CheckpointTolerance
  THEN WithRow(stored, Row("sol5m_prospective_evidence", c, ProspectiveTarget))
  ELSE stored

(* The saves of one evaluation, each a transaction: all of them, the first two, or
   without features only the first (or a failure there). *)
SaveObservations(c) ==
  /\ pass = "idle"
  /\ Start[c] <= now /\ now < End[c]
  /\ LET corpus == WithCorpusRow(rows, c)
         checkpoint == WithCheckpoint(corpus, c)
     IN rows' \in {corpus, checkpoint, WithProspective(checkpoint, c)}
  /\ UNCHANGED <<now, settled, attempt, label_task, pass, queue, answer, restarts>>

-----------------------------------------------------------------------------
(* attach_verified_outcome_to_condition_once: one transaction over three tables. *)

BeforeResolution(c, resolved_at) == {r \in RowsOf(c) : r.observed_at < resolved_at}

(* A row that already has an outcome has one of another attachment. *)
Conflicting(c, resolved_at) ==
  \E r \in BeforeResolution(c, resolved_at) : r.outcome # None

(* Mutant: only the checkpoints are labelled. *)
AttachedToCheckpoints(c, found) ==
  {IF /\ r.table = "directional_checkpoint_observations"
      /\ r \in BeforeResolution(c, found.resolved_at) /\ r.outcome = None
   THEN [r EXCEPT !.outcome = [winner |-> found.winner, resolved_at |-> found.resolved_at,
                               attached_at |-> now]]
   ELSE r : r \in rows}

Attached(c, found) ==
  {IF r \in BeforeResolution(c, found.resolved_at) /\ r.outcome = None
   THEN [r EXCEPT !.outcome = [winner |-> found.winner, resolved_at |-> found.resolved_at,
                               attached_at |-> now]]
   ELSE r : r \in rows}

Blocked(reason) == Task("BLOCKED_RETRYABLE", reason, now + RetryDelay)

LabeledTask == Task("LABELED", "CORPUS_LABEL_ATTACHED", 0)

RecordLabelTask(c, task) == label_task' = [label_task EXCEPT ![c] = task]

RecordAttempt(c, task) == attempt' = [attempt EXCEPT ![c] = task]

(* The official result, once the venue has closed the market. *)
Results(c) ==
  {[winner |-> Winner[c], resolved_at |-> t] :
     t \in {x \in ResolutionTimes[c] : x = None \/ x \in 0..now}}

-----------------------------------------------------------------------------
(* PaperSettlementService.run_once: the trades. *)

SettlementDue(c) ==
  /\ c \in Traded \ settled
  /\ End[c] <= now
  /\ attempt[c].state \notin {"SETTLED", "BLOCKED_PERMANENT"}
  /\ attempt[c].state # "NONE" => attempt[c].next <= now

Orders(s) == {q \in [1..Cardinality(s) -> s] : \A i, j \in 1..Cardinality(s) :
                q[i] = q[j] => i = j}

BeginPass ==
  /\ pass = "idle"
  /\ pass' = "settling"
  /\ queue' \in Orders({c \in Conditions : SettlementDue(c)})
  /\ UNCHANGED <<now, rows, settled, attempt, label_task, answer, restarts>>

(* Not final yet, blocked, or an exception: one attempt more.  A result without a
   winning side never gets past the parser. *)
SettlementNotYet ==
  /\ pass = "settling" /\ queue # <<>>
  /\ RecordAttempt(Head(queue), Blocked("RESOLVER_ERROR"))
  /\ queue' = Tail(queue)
  /\ UNCHANGED <<now, rows, settled, label_task, pass, answer, restarts>>

SettleTrades ==
  /\ pass = "settling" /\ queue # <<>>
  /\ ClosedAt[Head(queue)] <= now /\ Winner[Head(queue)] # ""
  /\ answer' \in Results(Head(queue))
  /\ settled' = settled \cup {Head(queue)}
  /\ pass' = "attaching"
  /\ UNCHANGED <<now, rows, attempt, label_task, queue, restarts>>

(* _label_corpus: attach, or record why not; its own errors end here. *)
LabelCorpus ==
  /\ pass = "attaching"
  /\ LET c == Head(queue)
     IN IF answer.resolved_at = None
        THEN /\ RecordLabelTask(c, Blocked("RESOLUTION_TIME_UNAVAILABLE"))
             /\ pass' = "settled"
             /\ UNCHANGED rows
        ELSE IF Conflicting(c, answer.resolved_at)
        THEN /\ RecordLabelTask(c, Blocked("RuntimeError"))
             /\ pass' = "settled"
             /\ UNCHANGED rows
        ELSE /\ rows' = Attached(c, answer)
             /\ pass' = "attached"
             /\ UNCHANGED label_task
  /\ UNCHANGED <<now, settled, attempt, queue, answer, restarts>>

RecordLabeled ==
  /\ pass = "attached"
  /\ RecordLabelTask(Head(queue), LabeledTask)
  /\ pass' = "settled"
  /\ UNCHANGED <<now, rows, settled, attempt, queue, answer, restarts>>

RecordSettled ==
  /\ pass = "settled"
  /\ RecordAttempt(Head(queue), Task("SETTLED", "OFFICIAL_FINAL", 0))
  /\ queue' = Tail(queue)
  /\ pass' = "settling"
  /\ answer' = NoAnswer
  /\ UNCHANGED <<now, rows, settled, label_task, restarts>>

-----------------------------------------------------------------------------
(* DirectionalCheckpointLabeler.run_once. *)

FirstObserved(c) ==
  CHOOSE t \in {r.observed_at : r \in Unlabeled(c)} :
    \A r \in Unlabeled(c) : t <= r.observed_at

Pending == {c \in Conditions : Unlabeled(c) # {}}

Sorted(q) == \A i, j \in DOMAIN q : i < j => FirstObserved(q[i]) <= FirstObserved(q[j])

(* The oldest conditions that have an unlabeled checkpoint; whether an earlier attempt
   asked for a delay is not looked at. *)
Candidates ==
  {SubSeq(q, 1, IF Len(q) <= MaxConditions THEN Len(q) ELSE MaxConditions) :
     q \in {o \in Orders(Pending) : Sorted(o)}}

BeginLabeling ==
  /\ pass = "settling" /\ queue = <<>>
  /\ pass' = "labeling"
  /\ queue' \in Candidates
  /\ UNCHANGED <<now, rows, settled, attempt, label_task, answer, restarts>>

EndPass ==
  /\ pass = "labeling" /\ queue = <<>>
  /\ pass' = "idle"
  /\ UNCHANGED <<now, rows, settled, attempt, label_task, queue, answer, restarts>>

LabelStep(c) ==
  /\ pass = "labeling" /\ queue # <<>> /\ c = Head(queue)
  /\ queue' = Tail(queue)
  /\ UNCHANGED <<now, rows, settled, attempt, pass, answer, restarts>>

IdentityIncomplete(c) ==
  /\ c \notin Identified
  /\ RecordLabelTask(c, Blocked("IDENTITY_INCOMPLETE"))
  /\ LabelStep(c)

WindowNotEnded(c) ==
  /\ c \in Identified /\ now < End[c]
  /\ RecordLabelTask(c, Task("PENDING", "WAITING_FOR_RESOLUTION", now + RetryDelay))
  /\ LabelStep(c)

(* Not final, no winner, or an exception of the request. *)
ResolverFails(c) ==
  /\ c \in Identified /\ End[c] <= now
  /\ \/ RecordLabelTask(c, Blocked("RESOLVER_ERROR"))
     \/ /\ now < ClosedAt[c]
        /\ RecordLabelTask(c, Task("PENDING", "MARKET_NOT_FINAL", now + RetryDelay))
  /\ LabelStep(c)

Resolvable(c) ==
  /\ c \in Identified /\ End[c] <= now
  /\ ClosedAt[c] <= now /\ Winner[c] # ""

ResolutionTimeUnavailable(c) ==
  /\ Resolvable(c) /\ None \in ResolutionTimes[c]
  /\ RecordLabelTask(c, Blocked("RESOLUTION_TIME_UNAVAILABLE"))
  /\ LabelStep(c)

LabelConflict(c) ==
  /\ Resolvable(c)
  /\ \E found \in Results(c) : found.resolved_at # None /\ Conflicting(c, found.resolved_at)
  /\ RecordLabelTask(c, Blocked("OFFICIAL_LABEL_CONFLICT"))
  /\ LabelStep(c)

(* The attachment is committed; its task is recorded after it. *)
AttachLabel(c) ==
  /\ pass = "labeling" /\ queue # <<>> /\ c = Head(queue)
  /\ Resolvable(c)
  /\ \E found \in Results(c) :
       /\ found.resolved_at # None
       /\ ~Conflicting(c, found.resolved_at)
       /\ rows' = Attached(c, found)
  /\ pass' = "recording"
  /\ UNCHANGED <<now, settled, attempt, label_task, queue, answer, restarts>>

RecordLabel ==
  /\ pass = "recording"
  /\ RecordLabelTask(Head(queue), LabeledTask)
  /\ queue' = Tail(queue)
  /\ pass' = "labeling"
  /\ UNCHANGED <<now, rows, settled, attempt, answer, restarts>>

-----------------------------------------------------------------------------
(* asyncio.wait_for cancels the pass while it waits for the resolver. *)
Timeout ==
  /\ pass \in {"settling", "labeling"} /\ queue # <<>>
  /\ pass' = "idle"
  /\ queue' = <<>>
  /\ UNCHANGED <<now, rows, settled, attempt, label_task, answer, restarts>>

(* The process dies between two transactions. *)
Crash ==
  /\ restarts < MaxRestarts
  /\ pass # "idle"
  /\ restarts' = restarts + 1
  /\ pass' = "idle"
  /\ queue' = <<>>
  /\ answer' = NoAnswer
  /\ UNCHANGED <<now, rows, settled, attempt, label_task>>

Tick ==
  /\ now < MaxNow
  /\ now' = now + 1
  /\ UNCHANGED <<rows, settled, attempt, label_task, pass, queue, answer, restarts>>

SettlementStep ==
  \/ SettlementNotYet \/ SettleTrades \/ LabelCorpus \/ RecordLabeled \/ RecordSettled

LabelerStep(c) ==
  \/ IdentityIncomplete(c) \/ WindowNotEnded(c) \/ ResolverFails(c)
  \/ ResolutionTimeUnavailable(c) \/ LabelConflict(c) \/ AttachLabel(c)

Progress ==
  \/ BeginPass \/ SettlementStep \/ BeginLabeling \/ EndPass \/ RecordLabel
  \/ \E c \in Conditions : LabelerStep(c)

Next ==
  \/ Progress \/ Timeout \/ Crash \/ Tick
  \/ \E c \in Conditions : SaveObservations(c)

Spec == Init /\ [][Next]_vars

-----------------------------------------------------------------------------
Observation ==
  [table : Tables, condition : Conditions, key : Keys, observed_at : 0..MaxNow,
   outcome : Outcome \cup {None}]

(* A key identifies an observation of a table. *)
KeysUnique(stored) ==
  \A r, s \in stored :
    r.table = s.table /\ r.condition = s.condition /\ r.key = s.key => r = s

(* The tables hold well-formed observations, one for each key, and a pass that waits
   for a transaction has a condition at hand and an answer about it. *)
TypeOK ==
  /\ now \in 0..MaxNow
  /\ rows \subseteq Observation /\ KeysUnique(rows)
  /\ pass \in {"idle", "settling", "attaching", "attached", "settled", "labeling",
               "recording"}
  /\ queue \in Seq(Conditions)
  /\ pass \in {"attaching", "attached", "settled", "recording"} => queue # <<>>
  /\ pass = "attaching" => /\ answer.winner \in {"UP", "DOWN"}
                           /\ answer.resolved_at \in 0..now \cup {None}

(* Nothing is dated after the present: with it a later observation can never fall
   before the resolution of an outcome that was attached earlier. *)
NothingFromTheFuture ==
  \A r \in rows :
    /\ r.observed_at <= now
    /\ r.outcome # None => r.outcome.resolved_at <= now

(* All outcomes attached to a condition come from one attachment, whichever of the two
   labelers made it and however often the venue changed its resolution time. *)
OneOutcomePerCondition ==
  \A r, s \in rows :
    /\ r.condition = s.condition /\ r.outcome # None /\ s.outcome # None
    => r.outcome = s.outcome

(* A label reaches every observation made before the resolution it cites, in all three
   tables, and none made after it: nothing a model trains on is half labelled or knows
   the result. *)
LabelsComplete ==
  \A r, s \in rows :
    r.condition = s.condition /\ r.outcome # None =>
      (s.outcome # None <=> s.observed_at < r.outcome.resolved_at)

(* An outcome is never changed or taken away, by a retry, a second labeler or the
   process that comes after a crash. *)
OutcomesPermanent ==
  [][\A r \in rows : r.outcome # None => r \in rows']_vars

(* The inductive invariant. *)
IInv == TypeOK /\ NothingFromTheFuture /\ OneOutcomePerCondition /\ LabelsComplete
=============================================================================
