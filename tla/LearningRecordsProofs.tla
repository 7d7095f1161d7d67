-------------------------- MODULE LearningRecordsProofs --------------------------
(***************************************************************************)
(* Proofs about LearningRecords and DecisionCycle.  Labels: for any        *)
(* markets, resolution times, targets and number of restarts, no market's  *)
(* observations are labelled by halves, all its outcomes come from one     *)
(* attachment, and none is changed or lost.  Replays: for any books,       *)
(* latency and length of the log, in any order, a replay is the executor's *)
(* own result.  Models: for any buckets, payloads, limits and labels, a    *)
(* trained forecast rests on finished markets alone.                       *)
(*                                                                         *)
(* Decisions, in the second half: the walk along the asks in closed form   *)
(* (WalkIsClosed), its cost against every other way of taking the quantity *)
(* (FilledIsPossible, FilledIsCheapest), and from there, for any books,    *)
(* fees, features and forecasts, that a set bought pays for itself, that a *)
(* candidate is payable, and that the audit of a decision tells the truth. *)
(***************************************************************************)
EXTENDS LearningRecords, DecisionCycle, FiniteLemmas

(* What is written of a condition is about it and still without an outcome. *)
Saves(before, after, c) ==
  /\ before \subseteq after /\ after \subseteq Observation /\ KeysUnique(after)
  /\ \A r \in after : r \in before \/ /\ r.condition = c /\ r.observed_at = now
                                      /\ r.outcome = None

(* What the constants are, one by one. *)
LEMMA ConstantFacts ==
  ASSUME CorpusConstants
  PROVE  /\ None \notin Nat /\ None \notin Outcome
         /\ MaxNow \in Nat /\ MaxConditions \in Nat
         /\ IsFiniteSet(Conditions)
         /\ Winner \in [Conditions -> {"UP", "DOWN", ""}]
         /\ DOMAIN Targets \subseteq Nat
<1>1. Targets \in Seq(Nat \ {0}) /\ MaxConditions \in Nat \ {0}
  BY DEF CorpusConstants
<1>2. DOMAIN Targets \subseteq Nat
  BY <1>1
<1>3. Winner \in [Conditions -> {"UP", "DOWN", ""}]
  BY DEF CorpusConstants
<1>4. None \notin Nat /\ None \notin Outcome /\ MaxNow \in Nat /\ IsFiniteSet(Conditions)
  BY DEF CorpusConstants, Outcome
<1> QED BY <1>1, <1>2, <1>3, <1>4

(* The official result that a pass may act upon. *)
LEMMA ResultsAreTyped ==
  ASSUME CorpusConstants, NEW c \in Conditions, Winner[c] # "", NEW found \in Results(c)
  PROVE  found.winner \in {"UP", "DOWN"} /\ found.resolved_at \in 0..now \cup {None}
<1>1. PICK t \in 0..now \cup {None} : found = [winner |-> Winner[c], resolved_at |-> t]
  BY DEF Results
<1> QED BY <1>1, ConstantFacts

(* An order of some conditions is a sequence of them. *)
LEMMA OrdersAreSequences ==
  ASSUME CorpusConstants, NEW S \in SUBSET Conditions, NEW q \in Orders(S)
  PROVE  q \in Seq(Conditions)
<1>1. IsFiniteSet(S)
  BY FS_Subset DEF CorpusConstants
<1>2. Cardinality(S) \in Nat
  BY <1>1, FS_CardinalityType
<1>3. q \in [1..Cardinality(S) -> Conditions]
  BY DEF Orders
<1> QED BY <1>2, <1>3

(* The labeler's bounded pass works on conditions. *)
LEMMA CandidatesAreSequences ==
  ASSUME CorpusConstants, NEW q \in Candidates
  PROVE  q \in Seq(Conditions)
<1>1. PICK o \in Orders(Pending) :
        q = SubSeq(o, 1, IF Len(o) <= MaxConditions THEN Len(o) ELSE MaxConditions)
  BY DEF Candidates
<1>2. o \in Seq(Conditions) /\ MaxConditions \in Nat
  BY OrdersAreSequences DEF Pending, CorpusConstants
<1>3. (IF Len(o) <= MaxConditions THEN Len(o) ELSE MaxConditions) \in 0..Len(o)
  BY <1>2
<1> QED BY <1>1, <1>2, <1>3

(* A step that writes no observation keeps the invariant, if the pass it leaves behind
   is well formed. *)
LEMMA QuietStep ==
  ASSUME IInv, rows' = rows, now' = now, queue' \in Seq(Conditions),
         pass' \in {"idle", "settling", "attaching", "attached", "settled", "labeling",
                    "recording"},
         pass' \in {"attaching", "attached", "settled", "recording"} => queue' # <<>>,
         pass' = "attaching" => /\ answer'.winner \in {"UP", "DOWN"}
                                /\ answer'.resolved_at \in 0..now \cup {None}
  PROVE  IInv'
BY DEF IInv, TypeOK, NothingFromTheFuture, OneOutcomePerCondition, LabelsComplete

(* A condition whose turn ends leaves the rest of the queue. *)
LEMMA RestOfQueue ==
  ASSUME IInv, queue # <<>>
  PROVE  Head(queue) \in Conditions /\ Tail(queue) \in Seq(Conditions)
BY DEF IInv, TypeOK

(* INSERT OR IGNORE keeps the keys unique and what is stored. *)
LEMMA WithRowSaves ==
  ASSUME NEW before, NEW stored, NEW c, Saves(before, stored, c),
         NEW table \in Tables, c \in Conditions, NEW key \in Keys, now \in 0..MaxNow
  PROVE  Saves(before, WithRow(stored, Row(table, c, key)), c)
<1> DEFINE row == Row(table, c, key)
<1>1. row \in Observation /\ row.condition = c /\ row.observed_at = now /\ row.outcome = None
  BY DEF Row, Observation
<1>2. CASE \E r \in stored : r.table = row.table /\ r.condition = row.condition
                             /\ r.key = row.key
  BY <1>2 DEF WithRow
<1>3. CASE ~\E r \in stored : r.table = row.table /\ r.condition = row.condition
                              /\ r.key = row.key
  <2>1. WithRow(stored, row) = stored \cup {row}
    BY <1>3 DEF WithRow
  <2>2. KeysUnique(stored \cup {row})
    BY <1>3 DEF KeysUnique, Saves
  <2> HIDE DEF row
  <2>3. Saves(before, WithRow(stored, row), c)
    BY <1>1, <2>1, <2>2 DEF Saves
  <2> QED BY <2>3 DEF row
<1> QED BY <1>2, <1>3

(* New observations are made after every resolution an outcome cites. *)
LEMMA SavesKeepIInv ==
  ASSUME IInv, NEW c \in Conditions, Saves(rows, rows', c),
         UNCHANGED <<now, pass, queue, answer>>
  PROVE  IInv'
<1>1. TypeOK'
  BY DEF IInv, TypeOK, Saves
<1>2. ASSUME NEW r \in rows' PROVE r \in rows \/ (r.observed_at = now /\ r.outcome = None)
  BY DEF Saves
<1>3. now \in Nat
  BY DEF IInv, TypeOK
<1>4. NothingFromTheFuture'
  BY <1>2, <1>3 DEF IInv, NothingFromTheFuture
<1>5. OneOutcomePerCondition'
  BY <1>2 DEF IInv, OneOutcomePerCondition
<1>6. LabelsComplete'
  <2> SUFFICES ASSUME NEW r \in rows', NEW s \in rows', r.condition = s.condition,
                      r.outcome # None
               PROVE  s.outcome # None <=> s.observed_at < r.outcome.resolved_at
    BY DEF LabelsComplete
  <2>1. r \in rows /\ r.outcome \in Outcome /\ r.outcome.resolved_at <= now
    BY <1>2 DEF IInv, TypeOK, Observation, NothingFromTheFuture
  <2>2. CASE s \in rows
    BY <2>1, <2>2 DEF IInv, LabelsComplete
  <2>3. CASE s.observed_at = now /\ s.outcome = None
    <3>1. r.outcome.resolved_at \in Nat
      BY <2>1 DEF Outcome
    <3> QED BY <1>3, <2>1, <2>3, <3>1
  <2> QED BY <1>2, <2>2, <2>3
<1> QED BY <1>1, <1>4, <1>5, <1>6 DEF IInv

(* An attachment that conflicts with nothing either finds the condition without any
   outcome or has nothing to write. *)
LEMMA AttachedRows ==
  ASSUME CorpusConstants, IInv, NEW c, NEW found, found.resolved_at \in 0..now,
         ~Conflicting(c, found.resolved_at),
         rows' = Attached(c, found)
  PROVE  rows' = rows \/ \A r \in rows : r.condition = c => r.outcome = None
<1>1. SUFFICES ASSUME NEW r \in rows, r.condition = c, r.outcome # None
               PROVE  rows' = rows
  OBVIOUS
<1>2. ASSUME NEW s \in BeforeResolution(c, found.resolved_at) PROVE FALSE
  <2>1. s \in rows /\ s.condition = c /\ s.observed_at < found.resolved_at
    BY DEF BeforeResolution, RowsOf
  <2>2. r.observed_at >= found.resolved_at
    <3>1. r.observed_at \in Nat /\ found.resolved_at \in Nat
      BY DEF IInv, TypeOK, Observation
    <3> QED BY <1>1, <3>1 DEF Conflicting, BeforeResolution, RowsOf
  <2>3. r.observed_at < r.outcome.resolved_at
    BY <1>1 DEF IInv, LabelsComplete
  <2>4. r.outcome \in Outcome
    BY <1>1 DEF IInv, TypeOK, Observation
  <2>5. s.observed_at \in Nat /\ r.observed_at \in Nat /\ found.resolved_at \in Nat
        /\ r.outcome.resolved_at \in Nat
    BY <2>1, <2>4 DEF IInv, TypeOK, Observation, Outcome
  <2>6. s.outcome # None
    BY <1>1, <2>1, <2>2, <2>3, <2>5 DEF IInv, LabelsComplete
  <2> QED BY <2>6 DEF Conflicting
<1> QED BY <1>2 DEF Attached

(* The one outcome of an attachment. *)
Given(found) ==
  [winner |-> found.winner, resolved_at |-> found.resolved_at, attached_at |-> now]

(* Attaching to a condition without outcomes labels exactly what was observed before the
   resolution; attaching again changes nothing. *)
LEMMA AttachKeepsIInv ==
  ASSUME CorpusConstants, IInv, NEW c, NEW found,
         found.winner \in {"UP", "DOWN"}, found.resolved_at \in 0..now,
         ~Conflicting(c, found.resolved_at),
         rows' = Attached(c, found),
         now' = now, UNCHANGED <<queue, answer>>, pass' \in {"attached", "recording"},
         queue # <<>>
  PROVE  IInv' /\ \A r \in rows : r.outcome # None => r \in rows'
<1>0. now \in Nat /\ queue' \in Seq(Conditions)
  BY DEF IInv, TypeOK
<1>1. CASE rows' = rows
  BY <1>0, <1>1, QuietStep
<1>2. CASE \A r \in rows : r.condition = c => r.outcome = None
  <2> DEFINE Image(r) == IF r.condition = c /\ r.observed_at < found.resolved_at
                         THEN [r EXCEPT !.outcome = Given(found)] ELSE r
  <2>1. rows' = {Image(r) : r \in rows}
    BY <1>2 DEF Attached, BeforeResolution, RowsOf, Given
  <2>2. Given(found) \in Outcome /\ Given(found) # None
        /\ Given(found).resolved_at = found.resolved_at
    <3>1. Given(found) \in Outcome /\ Given(found).resolved_at = found.resolved_at
      <4>1. found.resolved_at \in Nat
        BY <1>0
      <4> QED BY <1>0, <4>1 DEF Given, Outcome
    <3> QED BY <3>1, ConstantFacts
  <2>3. ASSUME NEW r \in rows
        PROVE  /\ Image(r) \in Observation
               /\ Image(r).table = r.table /\ Image(r).condition = r.condition
               /\ Image(r).key = r.key /\ Image(r).observed_at = r.observed_at
               /\ Image(r).outcome =
                    IF r.condition = c /\ r.observed_at < found.resolved_at
                    THEN Given(found) ELSE r.outcome
    <3>1. r \in Observation
      BY DEF IInv, TypeOK
    <3> QED BY <3>1, <2>2 DEF Observation
  <2> HIDE DEF Image
  <2>4. TypeOK'
    <3>1. KeysUnique(rows')
      BY <2>1, <2>3 DEF KeysUnique, IInv, TypeOK
    <3>2. rows' \subseteq Observation
      BY <2>1, <2>3
    <3> QED BY <1>0, <3>1, <3>2 DEF IInv, TypeOK
  <2>5. NothingFromTheFuture'
    BY <1>0, <2>1, <2>2, <2>3 DEF IInv, NothingFromTheFuture
  <2>6. OneOutcomePerCondition'
    <3> SUFFICES ASSUME NEW r \in rows, NEW s \in rows,
                        Image(r).condition = Image(s).condition,
                        Image(r).outcome # None, Image(s).outcome # None
                 PROVE  Image(r).outcome = Image(s).outcome
      BY <2>1 DEF OneOutcomePerCondition
    <3>1. r.condition = s.condition
      BY <2>3
    <3>2. CASE r.condition = c
      BY <1>2, <2>3, <3>1, <3>2
    <3>3. CASE r.condition # c
      BY <2>3, <3>1, <3>3 DEF IInv, OneOutcomePerCondition
    <3> QED BY <3>2, <3>3
  <2>7. LabelsComplete'
    <3> SUFFICES ASSUME NEW r \in rows, NEW s \in rows,
                        Image(r).condition = Image(s).condition, Image(r).outcome # None
                 PROVE  Image(s).outcome # None
                          <=> Image(s).observed_at < Image(r).outcome.resolved_at
      BY <2>1 DEF LabelsComplete
    <3>1. r.condition = s.condition
      BY <2>3
    <3>2. CASE r.condition = c
      <4>1. Image(r).outcome = Given(found)
        BY <1>2, <2>3, <3>2
      <4> QED BY <1>2, <2>2, <2>3, <3>1, <3>2, <4>1
    <3>3. CASE r.condition # c
      BY <2>3, <3>1, <3>3 DEF IInv, LabelsComplete
    <3> QED BY <3>2, <3>3
  <2>8. ASSUME NEW r \in rows, r.outcome # None PROVE r \in rows'
    <3>1. Image(r) = r
      BY <1>2, <2>8 DEF Image
    <3> QED BY <2>1, <3>1
  <2> QED BY <2>4, <2>5, <2>6, <2>7, <2>8 DEF IInv
<1> QED BY <1>1, <1>2, AttachedRows

(* The initial states satisfy the inductive invariant. *)
THEOREM InitIInv == Init /\ MaxNow \in Nat => IInv
BY DEF Init, IInv, TypeOK, KeysUnique, NothingFromTheFuture, OneOutcomePerCondition,
       LabelsComplete

(* Distances to the targets can be compared. *)
LEMMA DistancesAreIntegers ==
  ASSUME CorpusConstants, now \in 0..MaxNow, NEW c \in Conditions, NEW k \in DOMAIN Targets
  PROVE  Distance(TimeToExpiry(c), Targets[k]) \in Int /\ CheckpointTolerance \in Int
<1>1. Targets \in Seq(Nat \ {0})
  BY DEF CorpusConstants
<1>2. Targets[k] \in Int
  BY <1>1
<1>3. End \in [Conditions -> Nat] /\ CheckpointTolerance \in Nat /\ MaxNow \in Nat
  BY Zenon, ConstantFacts DEF CorpusConstants
<1> QED BY <1>2, <1>3 DEF Distance, TimeToExpiry

(* The saves of one evaluation only add observations of the present. *)
LEMMA SaveObservationsSaves ==
  ASSUME CorpusConstants, IInv, NEW c \in Conditions, SaveObservations(c)
  PROVE  Saves(rows, rows', c)
<1>1. now \in 0..MaxNow /\ now \in Keys /\ ProspectiveTarget \in Keys
  BY DEF IInv, TypeOK, Keys
<1>2. Saves(rows, rows, c)
  BY DEF Saves, IInv, TypeOK
<1>3. /\ "directional_corpus" \in Tables /\ "sol5m_prospective_evidence" \in Tables
      /\ "directional_checkpoint_observations" \in Tables
  BY DEF Tables
<1> DEFINE saved == WithCorpusRow(rows, c)
           checkpoint == WithCheckpoint(saved, c)
<1>4. Saves(rows, saved, c)
  BY <1>1, <1>2, <1>3, WithRowSaves DEF WithCorpusRow
<1> HIDE DEF saved
<1>5. Saves(rows, checkpoint, c)
  <2>1. ASSUME NEW target \in CheckpointTarget(c)
        PROVE  Saves(rows, WithRow(saved, Row("directional_checkpoint_observations",
                                               c, target)), c)
    <3>1. target \in Keys
      BY DEF CheckpointTarget, Keys
    <3> QED BY <1>1, <1>3, <1>4, <3>1, WithRowSaves
  <2>2. ASSUME NEW t \in CheckpointTarget(c), NEW u \in CheckpointTarget(c) PROVE t = u
    <3>1. PICK n \in DOMAIN Targets :
            /\ t = Targets[n] /\ Distance(TimeToExpiry(c), Targets[n]) <= CheckpointTolerance
            /\ \A k \in 1..(n - 1) :
                 Distance(TimeToExpiry(c), Targets[k]) > CheckpointTolerance
      BY DEF CheckpointTarget
    <3>2. PICK m \in DOMAIN Targets :
            /\ u = Targets[m] /\ Distance(TimeToExpiry(c), Targets[m]) <= CheckpointTolerance
            /\ \A k \in 1..(m - 1) :
                 Distance(TimeToExpiry(c), Targets[k]) > CheckpointTolerance
      BY DEF CheckpointTarget
    <3>3. DOMAIN Targets = 1..Len(Targets) /\ Len(Targets) \in Nat
      <4>1. Targets \in Seq(Nat \ {0})
        BY DEF CorpusConstants
      <4> QED BY <4>1
    <3>4. \A k \in DOMAIN Targets :
            /\ Distance(TimeToExpiry(c), Targets[k]) \in Int
            /\ CheckpointTolerance \in Int
      BY DistancesAreIntegers DEF IInv, TypeOK
    <3>5. n \in Int /\ m \in Int /\ 1 <= n /\ 1 <= m
      BY <3>3
    <3>6. ~(n < m) /\ ~(m < n)
      BY <3>1, <3>2, <3>4, <3>5
    <3> QED BY <3>1, <3>2, <3>5, <3>6
  <2> DEFINE W(k) == WithRow(saved, Row("directional_checkpoint_observations", c, k))
             added == UNION {W(k) : k \in CheckpointTarget(c)}
  <2>3. checkpoint = saved \cup added
    BY DEF WithCheckpoint
  <2>4. CASE CheckpointTarget(c) = {}
    <3>1. added = {}
      BY <2>4
    <3> HIDE DEF added, checkpoint
    <3>2. checkpoint = saved
      BY <2>3, <3>1
    <3> QED BY <3>2, <1>4
  <2>5. CASE CheckpointTarget(c) # {}
    <3>1. PICK t : CheckpointTarget(c) = {t}
      BY <2>2, <2>5
    <3>2. saved \subseteq W(t)
      BY DEF WithRow
    <3>3. Saves(rows, W(t), c)
      BY <2>1, <3>1
    <3> HIDE DEF W
    <3>4. added = W(t)
      BY <3>1
    <3> HIDE DEF added, checkpoint
    <3>5. checkpoint = W(t)
      BY <2>3, <3>2, <3>4
    <3> QED BY <3>3, <3>5
  <2> QED BY <2>4, <2>5
<1> HIDE DEF checkpoint
<1>6. Saves(rows, WithProspective(checkpoint, c), c)
  BY <1>1, <1>3, <1>5, WithRowSaves DEF WithProspective
<1>7. rows' \in {saved, checkpoint, WithProspective(checkpoint, c)}
  BY DEF SaveObservations, saved, checkpoint
<1> QED BY <1>4, <1>5, <1>6, <1>7

(* A step of the settlement's half of the pass. *)
LEMMA SettlementStepKeepsIInv ==
  ASSUME CorpusConstants, IInv, SettlementStep
  PROVE  IInv' /\ \A r \in rows : r.outcome # None => r \in rows'
<1> USE DEF IInv
<1>1. CASE SettlementNotYet
  BY <1>1, RestOfQueue, QuietStep DEF SettlementNotYet
<1>2. CASE SettleTrades
  <2>1. /\ queue # <<>> /\ pass' = "attaching" /\ answer' \in Results(Head(queue))
        /\ Winner[Head(queue)] # "" /\ UNCHANGED <<now, rows, queue>>
    BY <1>2 DEF SettleTrades
  <2>2. Head(queue) \in Conditions /\ queue \in Seq(Conditions)
    BY <2>1, RestOfQueue DEF TypeOK
  <2>3. PICK found \in Results(Head(queue)) : answer' = found
    BY <2>1
  <2>4. answer'.winner \in {"UP", "DOWN"} /\ answer'.resolved_at \in 0..now \cup {None}
    BY <2>1, <2>2, <2>3, ResultsAreTyped
  <2> QED BY <2>1, <2>2, <2>4, QuietStep
<1>3. CASE LabelCorpus
  <2>1. pass = "attaching" /\ queue # <<>> /\ queue \in Seq(Conditions)
    BY <1>3 DEF LabelCorpus, TypeOK
  <2>2. CASE pass' = "settled" /\ rows' = rows
    BY <1>3, <2>1, <2>2, QuietStep DEF LabelCorpus
  <2>3. CASE /\ answer.resolved_at # None /\ ~Conflicting(Head(queue), answer.resolved_at)
             /\ rows' = Attached(Head(queue), answer) /\ pass' = "attached"
    <3>1. answer.winner \in {"UP", "DOWN"} /\ answer.resolved_at \in 0..now
      BY <2>1, <2>3 DEF TypeOK
    <3>2. now' = now /\ UNCHANGED <<queue, answer>>
      BY <1>3 DEF LabelCorpus
    <3> QED BY <2>1, <2>3, <3>1, <3>2, AttachKeepsIInv
  <2> QED BY <1>3, <2>2, <2>3 DEF LabelCorpus
<1>4. CASE RecordLabeled
  <2>1. queue \in Seq(Conditions) /\ queue # <<>>
    BY <1>4 DEF RecordLabeled, TypeOK
  <2> QED BY <1>4, <2>1, QuietStep DEF RecordLabeled
<1>5. CASE RecordSettled
  <2>1. queue # <<>>
    BY <1>5 DEF RecordSettled, TypeOK
  <2> QED BY <1>5, <2>1, RestOfQueue, QuietStep DEF RecordSettled
<1> QED BY <1>1, <1>2, <1>3, <1>4, <1>5 DEF SettlementStep

(* A step of the labeler about one condition. *)
LEMMA LabelerStepKeepsIInv ==
  ASSUME CorpusConstants, IInv, NEW c \in Conditions, LabelerStep(c)
  PROVE  IInv' /\ \A r \in rows : r.outcome # None => r \in rows'
<1>1. CASE LabelStep(c)
  <2>1. queue # <<>> /\ queue' = Tail(queue) /\ pass' = "labeling"
        /\ rows' = rows /\ now' = now
    BY <1>1 DEF LabelStep
  <2> QED BY <2>1, RestOfQueue, QuietStep
<1>2. CASE AttachLabel(c)
  <2>1. PICK found \in Results(c) : /\ found.resolved_at # None
                                    /\ ~Conflicting(c, found.resolved_at)
                                    /\ rows' = Attached(c, found)
    BY <1>2 DEF AttachLabel
  <2>2. found.winner \in {"UP", "DOWN"} /\ found.resolved_at \in 0..now
    BY <1>2, <2>1, ResultsAreTyped DEF AttachLabel, Resolvable
  <2> QED BY <1>2, <2>1, <2>2, AttachKeepsIInv DEF AttachLabel
<1> QED BY <1>1, <1>2 DEF LabelerStep, IdentityIncomplete, WindowNotEnded, ResolverFails,
      ResolutionTimeUnavailable, LabelConflict

(* Every step keeps the inductive invariant and every outcome. *)
THEOREM NextIInv ==
  ASSUME CorpusConstants, IInv, [Next]_vars
  PROVE  IInv' /\ \A r \in rows : r.outcome # None => r \in rows'
<1>0. queue \in Seq(Conditions) /\ <<>> \in Seq(Conditions)
  BY DEF IInv, TypeOK
<1>1. CASE BeginPass
  <2>1. queue' \in Seq(Conditions)
    <3>1. queue' \in Orders({c \in Conditions : SettlementDue(c)})
      BY <1>1 DEF BeginPass
    <3>2. {c \in Conditions : SettlementDue(c)} \in SUBSET Conditions
      OBVIOUS
    <3> HIDE DEF SettlementDue
    <3> QED BY <3>1, <3>2, OrdersAreSequences
  <2> QED BY <1>1, <2>1, QuietStep DEF BeginPass
<1>2. CASE SettlementStep
  BY <1>2, SettlementStepKeepsIInv
<1>3. CASE BeginLabeling
  BY <1>3, CandidatesAreSequences, QuietStep DEF BeginLabeling
<1>4. CASE EndPass
  BY <1>0, <1>4, QuietStep DEF EndPass
<1>5. CASE RecordLabel
  <2>1. queue # <<>>
    BY <1>5 DEF RecordLabel, IInv, TypeOK
  <2> QED BY <1>5, <2>1, RestOfQueue, QuietStep DEF RecordLabel
<1>6. ASSUME NEW c \in Conditions, LabelerStep(c)
      PROVE  IInv' /\ \A r \in rows : r.outcome # None => r \in rows'
  BY <1>6, LabelerStepKeepsIInv
<1>7. CASE Timeout
  BY <1>0, <1>7, QuietStep DEF Timeout
<1>8. CASE Crash
  BY <1>0, <1>8, QuietStep DEF Crash
<1>9. CASE Tick
  <2>1. now' = now + 1 /\ now < MaxNow /\ now \in Nat /\ MaxNow \in Nat
        /\ UNCHANGED <<rows, pass, queue, answer>>
    <3>1. now \in 0..MaxNow /\ MaxNow \in Nat
      BY ConstantFacts DEF IInv, TypeOK
    <3> QED BY <1>9, <3>1 DEF Tick
  <2>2. now' \in 0..MaxNow /\ 0..now \subseteq 0..now'
    BY <2>1
  <2>3. TypeOK'
    BY <2>1, <2>2 DEF IInv, TypeOK
  <2>4. NothingFromTheFuture'
    <3>1. ASSUME NEW r \in rows
          PROVE  /\ r.observed_at \in Nat
                 /\ r.outcome # None => r.outcome.resolved_at \in Nat
      BY DEF IInv, TypeOK, Observation, Outcome
    <3> QED BY <2>1, <3>1 DEF IInv, NothingFromTheFuture
  <2>5. OneOutcomePerCondition' /\ LabelsComplete'
    BY <2>1 DEF IInv, OneOutcomePerCondition, LabelsComplete
  <2> QED BY <2>1, <2>3, <2>4, <2>5 DEF IInv
<1>10. ASSUME NEW c \in Conditions, SaveObservations(c)
       PROVE  IInv' /\ \A r \in rows : r.outcome # None => r \in rows'
  <2>1. Saves(rows, rows', c) /\ UNCHANGED <<now, pass, queue, answer>>
    BY <1>10, SaveObservationsSaves DEF SaveObservations
  <2> QED BY <2>1, SavesKeepIInv DEF Saves
<1>11. CASE UNCHANGED vars
  BY <1>11 DEF vars, IInv, TypeOK, NothingFromTheFuture, OneOutcomePerCondition,
               LabelsComplete
<1> QED BY <1>1, <1>2, <1>3, <1>4, <1>5, <1>6, <1>7, <1>8, <1>9, <1>10, <1>11
        DEF Next, Progress

(* The inductive invariant holds in every behaviour. *)
THEOREM Invariance == ASSUME CorpusConstants PROVE Spec => []IInv
<1>1. MaxNow \in Nat
  BY DEF CorpusConstants
<1>2. IInv /\ [Next]_vars => IInv'
  BY NextIInv
<1> QED BY <1>1, <1>2, InitIInv, PTL DEF Spec

(* TypeOK: the tables hold well-formed observations, one for each key. *)
THEOREM TypeCorrect == ASSUME CorpusConstants PROVE Spec => []TypeOK
BY Invariance, PTL DEF IInv

(* LabelsComplete: a label reaches every observation made before the resolution it cites
   and none made after it (attach_verified_outcome_to_condition_once). *)
THEOREM NothingIsHalfLabelled == ASSUME CorpusConstants PROVE Spec => []LabelsComplete
BY Invariance, PTL DEF IInv

(* OneOutcomePerCondition: the settlement and the labeler never attach two outcomes to the
   same market (_label_corpus, DirectionalCheckpointLabeler.run_once). *)
THEOREM OutcomesAgree == ASSUME CorpusConstants PROVE Spec => []OneOutcomePerCondition
BY Invariance, PTL DEF IInv

(* OutcomesPermanent: no retry, no second labeler and no restart changes an outcome or
   takes it away. *)
THEOREM OutcomesAreForGood == ASSUME CorpusConstants PROVE Spec => OutcomesPermanent
<1>1. IInv /\ [Next]_vars => [\A r \in rows : r.outcome # None => r \in rows']_vars
  BY NextIInv
<1> QED BY <1>1, Invariance, PTL DEF Spec, OutcomesPermanent

-----------------------------------------------------------------------------
(* Replays. *)

(* The time of an event, whatever its book. *)
LEMMA FieldsOfEvent ==
  ASSUME NEW O, NEW A, NEW B, NEW S, NEW R,
         NEW e \in [outcome : O, asks : A, bids : B, source_ts : S, recv_ts : R]
  PROVE  e.recv_ts \in R
OBVIOUS

(* An event is received within the bound. *)
LEMMA EventTimes == ASSUME NEW e \in Replay!Event PROVE e.recv_ts \in 0..MaxReplay
BY FieldsOfEvent DEF Replay!Event

(* The log grows by one event, wherever it is put. *)
LEMMA ReplayLogGrows ==
  ASSUME NEW l \in Seq(Replay!Event), NEW e \in Replay!Event, NEW m,
         m = Append(l, e) \/ m = <<e>> \o l
  PROVE  m \in Seq(Replay!Event) /\ Replay!ToSet(m) = Replay!ToSet(l) \cup {e}
<1>1. CASE m = Append(l, e)
  <2>1. /\ m \in Seq(Replay!Event) /\ Len(m) = Len(l) + 1 /\ DOMAIN m = 1..Len(m)
        /\ DOMAIN l = 1..Len(l)
    BY <1>1
  <2>2. m[Len(l) + 1] = e /\ \A i \in 1..Len(l) : m[i] = l[i]
    BY <1>1
  <2>3. ASSUME NEW x \in Replay!ToSet(m) PROVE x \in Replay!ToSet(l) \cup {e}
    <3>1. PICK i \in 1..Len(m) : x = m[i]
      BY <2>1, <2>3 DEF Replay!ToSet
    <3>2. i = Len(l) + 1 \/ i \in 1..Len(l)
      BY <2>1
    <3> QED BY <2>1, <2>2, <3>1, <3>2 DEF Replay!ToSet
  <2>4. ASSUME NEW x \in Replay!ToSet(l) \cup {e} PROVE x \in Replay!ToSet(m)
    <3>1. CASE x = e
      BY <2>1, <2>2, <3>1 DEF Replay!ToSet
    <3>2. CASE x \in Replay!ToSet(l)
      <4>1. PICK i \in 1..Len(l) : x = l[i]
        BY <2>1, <3>2 DEF Replay!ToSet
      <4> QED BY <2>1, <2>2, <4>1 DEF Replay!ToSet
    <3> QED BY <2>4, <3>1, <3>2
  <2> QED BY <2>1, <2>3, <2>4
<1>2. CASE m = <<e>> \o l
  <2>1. /\ m \in Seq(Replay!Event) /\ Len(m) = Len(l) + 1 /\ DOMAIN m = 1..Len(m)
        /\ DOMAIN l = 1..Len(l)
    BY <1>2
  <2>2. m[1] = e /\ \A i \in 1..Len(l) : m[i + 1] = l[i]
    BY <1>2
  <2>3. \A i \in 2..Len(m) : i - 1 \in 1..Len(l) /\ m[i] = l[i - 1]
    BY <2>1, <2>2
  <2>4. ASSUME NEW x \in Replay!ToSet(m) PROVE x \in Replay!ToSet(l) \cup {e}
    <3>1. PICK i \in 1..Len(m) : x = m[i]
      BY <2>1, <2>4 DEF Replay!ToSet
    <3>2. CASE i = 1
      BY <2>2, <3>1, <3>2
    <3>3. CASE i # 1
      <4>1. i - 1 \in 1..Len(l) /\ x = l[i - 1]
        BY <2>1, <2>3, <3>1, <3>3
      <4> QED BY <2>1, <4>1 DEF Replay!ToSet
    <3> QED BY <3>2, <3>3
  <2>5. ASSUME NEW x \in Replay!ToSet(l) PROVE x \in Replay!ToSet(m)
    BY <2>1, <2>2, <2>5 DEF Replay!ToSet
  <2>6. e \in Replay!ToSet(m)
    BY <2>1, <2>2 DEF Replay!ToSet
  <2> QED BY <2>1, <2>4, <2>5, <2>6
<1> QED BY <1>1, <1>2

(* Until the present is the past, the as-of book is the one in hand. *)
LEMMA HeldIsAsOf ==
  ASSUME Replay!ReplayConstants, Replay!TypeOK, NEW o \in Replay!Outcomes
  PROVE  Replay!AsOf(log, o, replay_now) = IF held[o] = None THEN {} ELSE {held[o]}
<1>1. \A e \in Replay!ToSet(log) : e.recv_ts <= replay_now /\ e.recv_ts \in Nat
  <2>1. \A e \in Replay!ToSet(log) : e.recv_ts <= replay_now /\ e \in Replay!Event
    BY DEF Replay!TypeOK, Replay!ToSet
  <2> QED BY <2>1, EventTimes DEF Replay!ReplayConstants
<1>2. Replay!HoldsLatest(o)
  BY DEF Replay!TypeOK
<1>3. CASE held[o] = None
  BY <1>2, <1>3 DEF Replay!HoldsLatest, Replay!AsOf
<1>4. CASE held[o] # None
  <2> DEFINE h == held[o]
             mine == {e \in Replay!ToSet(log) : e.outcome = o /\ e.recv_ts <= replay_now}
  <2>1. h \in mine
    BY <1>1, <1>2, <1>4 DEF Replay!HoldsLatest
  <2>2. \A e \in mine : e = h \/ e.recv_ts < h.recv_ts
    BY <1>2, <1>4 DEF Replay!HoldsLatest
  <2>3. \A e \in mine : e.recv_ts \in Nat
    BY <1>1
  <2> HIDE DEF h, mine
  <2>4. {e \in mine : \A f \in mine : f.recv_ts <= e.recv_ts} = {h}
    BY <2>1, <2>2, <2>3
  <2>5. Replay!AsOf(log, o, replay_now) = {h}
    BY <2>4 DEF Replay!AsOf, mine
  <2> QED BY <1>4, <2>5 DEF h
<1> QED BY <1>3, <1>4

(* What was received later is not seen. *)
LEMMA AsOfIsSettled ==
  ASSUME NEW l, NEW m, NEW e, Replay!ToSet(m) = Replay!ToSet(l) \cup {e}, NEW o, NEW t \in Nat,
         e.recv_ts \in Nat,
         t < e.recv_ts
  PROVE  Replay!AsOf(m, o, t) = Replay!AsOf(l, o, t)
<1>2. ~(e.recv_ts <= t)
  OBVIOUS
<1>1. {x \in Replay!ToSet(m) : x.outcome = o /\ x.recv_ts <= t} =
            {x \in Replay!ToSet(l) : x.outcome = o /\ x.recv_ts <= t}
  BY <1>2
<1> QED BY <1>1, Zenon DEF Replay!AsOf

(* A replay looks at no more of the log than its as-of books. *)
LEMMA SameBooksSameReplay ==
  ASSUME NEW l, NEW m, NEW d,
         Replay!AsOf(m, "UP", d + Latency) = Replay!AsOf(l, "UP", d + Latency),
         \A x : Replay!AsOf(m, x, (d + Latency) + Latency) =
               Replay!AsOf(l, x, (d + Latency) + Latency)
  PROVE  Replay!ReplayBuyMerge(m, d) = Replay!ReplayBuyMerge(l, d)
<1>1. [o \in Replay!Outcomes |-> Replay!AsOf(m, o, (d + Latency) + Latency)]
      = [o \in Replay!Outcomes |-> Replay!AsOf(l, o, (d + Latency) + Latency)]
  OBVIOUS
<1> QED BY <1>1, Zenon DEF Replay!ReplayBuyMerge

(* The initial states satisfy the inductive invariant. *)
THEOREM ReplayInit == ASSUME Replay!ReplayConstants PROVE Replay!Init => Replay!IInv
<1> SUFFICES ASSUME Replay!Init PROVE Replay!IInv
  OBVIOUS
<1>1. log = <<>> /\ Replay!ToSet(log) = {} /\ log \in Seq(Replay!Event)
  BY DEF Replay!Init, Replay!ToSet
<1>2. /\ held \in [Replay!Outcomes -> Replay!Event \cup {None}]
      /\ \A o \in Replay!Outcomes : held[o] = None
  BY DEF Replay!Init
<1> QED BY <1>1, <1>2
           DEF Replay!Init, Replay!IInv, Replay!TypeOK, Replay!HoldsLatest,
               Replay!ReplayConstants

(* A received book is the executor's, and no earlier leg's. *)
LEMMA ReceiveBookKeepsIInv ==
  ASSUME Replay!ReplayConstants, Replay!IInv, NEW o \in Replay!Outcomes, NEW s \in Snapshots,
         Replay!ReceiveBook(o, s)
  PROVE  Replay!IInv'
<1> DEFINE e == [outcome |-> o, asks |-> s.asks, bids |-> s.bids,
                 source_ts |-> replay_now - s.delay, recv_ts |-> replay_now]
<1>1. /\ \A f \in Replay!ToSet(log) : f.outcome = o => f.recv_ts < replay_now
      /\ log' = Append(log, e) \/ log' = <<e>> \o log
      /\ held' = [held EXCEPT ![o] = e]
      /\ UNCHANGED <<replay_now, decision_at, up, live>>
  BY DEF Replay!ReceiveBook
<1>2. replay_now \in 0..MaxReplay /\ replay_now \in Nat
  BY DEF Replay!IInv, Replay!TypeOK, Replay!ReplayConstants
<1>3. e \in Replay!Event /\ e.recv_ts = replay_now /\ e.outcome = o /\ e # None
  BY <1>2 DEF Replay!Event, Replay!ReplayConstants
<1> HIDE DEF e
<1>4. log' \in Seq(Replay!Event) /\ Replay!ToSet(log') = Replay!ToSet(log) \cup {e}
  <2>1. log \in Seq(Replay!Event)
    BY DEF Replay!IInv, Replay!TypeOK
  <2> QED BY <1>1, <1>3, <2>1, ReplayLogGrows
<1>5. /\ held' \in [Replay!Outcomes -> Replay!Event \cup {None}]
      /\ held'[o] = e
      /\ \A x \in Replay!Outcomes \ {o} : held'[x] = held[x]
  BY <1>1, <1>3 DEF Replay!IInv, Replay!TypeOK
<1>6. ASSUME NEW x \in Replay!Outcomes PROVE Replay!HoldsLatest(x)'
  <2>1. Replay!HoldsLatest(x)
    BY DEF Replay!IInv, Replay!TypeOK
  <2>2. CASE x = o
    BY <1>1, <1>3, <1>4, <1>5, <2>2 DEF Replay!HoldsLatest
  <2>3. CASE x # o
    BY <1>3, <1>4, <1>5, <2>1, <2>3 DEF Replay!HoldsLatest
  <2> QED BY <2>2, <2>3
<1>7. Replay!TypeOK'
  <2>1. \A f \in Replay!ToSet(log') : f.recv_ts <= replay_now
    BY <1>2, <1>3, <1>4 DEF Replay!IInv, Replay!TypeOK
  <2> QED BY <1>1, <1>4, <1>5, <1>6, <2>1 DEF Replay!IInv, Replay!TypeOK
<1>8. ASSUME NEW t \in Nat, t < replay_now, NEW x
      PROVE  Replay!AsOf(log', x, t) = Replay!AsOf(log, x, t)
  <2>1. PICK l : l = log
    OBVIOUS
  <2>2. PICK m : m = log'
    OBVIOUS
  <2>3. Replay!ToSet(m) = Replay!ToSet(l) \cup {e} /\ e.recv_ts \in Nat /\ t < e.recv_ts
    BY <1>2, <1>3, <1>4, <1>8, <2>1, <2>2
  <2>4. Replay!AsOf(m, x, t) = Replay!AsOf(l, x, t)
    BY <2>3, AsOfIsSettled
  <2> QED BY <2>1, <2>2, <2>4
<1>9. ASSUME decision_at # None
      PROVE  /\ decision_at \in Nat
             /\ decision_at + Latency \in Nat
             /\ (decision_at + Latency) + Latency \in Nat
             /\ (decision_at + Latency) + Latency = decision_at + 2 * Latency
  BY <1>9 DEF Replay!IInv, Replay!TypeOK, Replay!ReplayConstants
<1>10. ASSUME decision_at # None, replay_now > decision_at + Latency PROVE up = Replay!ReplayedLeg'
  <2>1. Replay!AsOf(log', "UP", decision_at + Latency) =
              Replay!AsOf(log, "UP", decision_at + Latency)
    BY <1>2, <1>8, <1>9, <1>10
  <2>2. Replay!ReplayedLeg' = Replay!ReplayedLeg
    BY <1>1, <2>1 DEF Replay!ReplayedLeg
  <2> QED BY <1>10, <2>2 DEF Replay!IInv
<1>11. ASSUME decision_at # None, replay_now > decision_at + 2 * Latency
       PROVE  Replay!ReplayBuyMerge(log, decision_at)' = Replay!ReplayBuyMerge(log, decision_at)
  <2>1. decision_at + Latency < replay_now /\ (decision_at + Latency) + Latency < replay_now
    BY <1>2, <1>9, <1>11 DEF Replay!ReplayConstants
  <2>2. Replay!AsOf(log', "UP", decision_at + Latency) =
              Replay!AsOf(log, "UP", decision_at + Latency)
    BY <1>8, <1>9, <1>11, <2>1
  <2>3. \A x : Replay!AsOf(log', x, (decision_at + Latency) + Latency) =
              Replay!AsOf(log, x, (decision_at + Latency) + Latency)
    BY <1>8, <1>9, <1>11, <2>1
  <2>4. Replay!ReplayBuyMerge(log', decision_at) = Replay!ReplayBuyMerge(log, decision_at)
    BY <2>2, <2>3, SameBooksSameReplay
  <2> QED BY <1>1, <2>4
<1> QED BY <1>1, <1>7, <1>10, <1>11 DEF Replay!IInv

(* A tick ends the legs of its instant, whose books are the as-of books. *)
LEMMA TickKeepsReplay ==
  ASSUME Replay!ReplayConstants, Replay!IInv, Replay!Tick
  PROVE  Replay!IInv'
<1>1. /\ replay_now < MaxReplay /\ replay_now' = replay_now + 1
      /\ UNCHANGED <<log, held, decision_at>>
      /\ up' = (IF Replay!Trades THEN Replay!FirstLeg ELSE up)
      /\ live' = (IF Replay!Completes THEN Replay!SecondLeg(up') ELSE live)
  BY DEF Replay!Tick
<1>2. replay_now \in Nat /\ MaxReplay \in Nat /\ Latency \in Nat
  BY DEF Replay!IInv, Replay!TypeOK, Replay!ReplayConstants
<1>3. Replay!TypeOK'
  <2>1. \A e \in Replay!ToSet(log) : e.recv_ts \in Nat
    BY EventTimes, Replay!ReplayConstants
       DEF Replay!IInv, Replay!TypeOK, Replay!ToSet, Replay!ReplayConstants
  <2> QED BY <1>1, <1>2, <2>1 DEF Replay!IInv, Replay!TypeOK, Replay!HoldsLatest
<1>4. CASE decision_at = None
  BY <1>1, <1>3, <1>4 DEF Replay!IInv, Replay!Trades, Replay!Completes
<1>5. CASE decision_at # None
  <2> DEFINE first == decision_at + Latency
             second == first + Latency
  <2>1. decision_at \in Nat /\ first \in Nat /\ second \in Nat /\ second = decision_at + 2 * Latency
        /\ first <= second
    BY <1>2, <1>5 DEF Replay!IInv, Replay!TypeOK
  <2> HIDE DEF first, second
  <2>2. \A o \in Replay!Outcomes :
              Replay!AsOf(log, o, replay_now) = IF held[o] = None THEN {} ELSE {held[o]}
    BY HeldIsAsOf DEF Replay!IInv
  <2>3. \A x : Replay!TheBook({x}) = x
    BY DEF Replay!TheBook
  <2>4. ASSUME replay_now' > first PROVE up' = Replay!LegOn(Replay!AsOf(log, "UP", first), first)
    <3>1. CASE replay_now = first
      <4>1. up' = Replay!FirstLeg
        BY <1>1, <1>5, <3>1 DEF Replay!Trades, first
      <4>2. CASE held["UP"] = None
        BY <2>2, <3>1, <4>1, <4>2 DEF Replay!FirstLeg, Replay!LegOn, Replay!Outcomes
      <4>3. CASE held["UP"] # None
        <5>1. Replay!AsOf(log, "UP", first) = {held["UP"]}
          BY <2>2, <3>1, <4>3 DEF Replay!Outcomes
        <5> QED BY <2>3, <3>1, <4>1, <4>3, <5>1 DEF Replay!FirstLeg, Replay!LegOn
      <4> QED BY <4>2, <4>3
    <3>2. CASE replay_now # first
      <4>1. replay_now > first /\ up' = up
        BY <1>1, <1>2, <2>1, <2>4, <3>2 DEF Replay!Trades, first
      <4> QED BY <1>5, <4>1 DEF Replay!IInv, Replay!ReplayedLeg, first
    <3> QED BY <3>1, <3>2
  <2>5. Replay!ReplayBuyMerge(log, decision_at)
        = Replay!Replayed(Replay!AsOf(log, "UP", first),
                [o \in Replay!Outcomes |-> Replay!AsOf(log, o, second)], first, second)
    BY DEF Replay!ReplayBuyMerge, first, second
  <2>6. CASE replay_now = second
    <3> DEFINE sides == [o \in Replay!Outcomes |-> Replay!AsOf(log, o, second)]
               up_books == Replay!AsOf(log, "UP", first)
    <3>1. live' = Replay!SecondLeg(up')
      BY <1>1, <1>5, <2>1, <2>6 DEF Replay!Completes
    <3>2. up' = Replay!LegOn(up_books, first)
      BY <1>1, <1>2, <2>1, <2>4, <2>6
    <3>3. sides["DOWN"] = (IF held["DOWN"] = None THEN {} ELSE {held["DOWN"]})
          /\ sides["UP"] = (IF held["UP"] = None THEN {} ELSE {held["UP"]})
      BY <2>2, <2>6 DEF Replay!Outcomes
    <3>4. up_books # {} => held["UP"] # None
      <4>1. \A e \in up_books : e \in Replay!ToSet(log) /\ e.outcome = "UP"
        BY DEF Replay!AsOf
      <4> QED BY <4>1 DEF Replay!IInv, Replay!TypeOK, Replay!HoldsLatest, Replay!Outcomes
    <3>5. Replay!Priced(up') => up_books # {}
      BY <3>2 DEF Replay!LegOn, Replay!Priced, Replay!Unpriced
    <3>6. ASSUME up_books # {}, held["DOWN"] # None
          PROVE  [o \in Replay!Outcomes |-> Replay!TheBook(sides[o])] = held
      <4>1. sides["UP"] = {held["UP"]} /\ sides["DOWN"] = {held["DOWN"]}
        BY <3>3, <3>4, <3>6
      <4>2. DOMAIN held = Replay!Outcomes
        BY DEF Replay!IInv, Replay!TypeOK
      <4>3. \A o \in Replay!Outcomes : Replay!TheBook(sides[o]) = held[o]
        BY <2>3, <4>1 DEF Replay!Outcomes
      <4>4. held = [o \in Replay!Outcomes |-> held[o]]
        BY DEF Replay!IInv, Replay!TypeOK
      <4> QED BY <4>3, <4>4
    <3>7. Replay!SecondLeg(up') = Replay!Replayed(up_books, sides, first, second)
      <4> HIDE DEF sides, up_books
      <4>1. CASE up_books = {} \/ held["DOWN"] = None
        <5>1. Replay!Replayed(up_books, sides, first, second) = Replay!Unavailable
          BY <3>3, <4>1 DEF Replay!Replayed
        <5>2. ~Replay!Priced(up') \/ held["DOWN"] = None
          BY <3>5, <3>2, <4>1 DEF Replay!LegOn, Replay!Priced, Replay!Unpriced
        <5> QED BY <5>1, <5>2 DEF Replay!SecondLeg
      <4>2. CASE up_books # {} /\ held["DOWN"] # None
        <5>1. up' = Replay!Leg(Replay!TheBook(up_books), "BUY", Requested, first)
          BY <3>2, <4>2 DEF Replay!LegOn
        <5>2. Replay!TheBook(sides["DOWN"]) = held["DOWN"] /\ sides["DOWN"] # {}
          BY <2>3, <3>3, <4>2
        <5>3. [o \in Replay!Outcomes |-> Replay!TheBook(sides[o])] = held
          BY <3>6, <4>2
        <5>4. Replay!Replayed(up_books, sides, first, second)
              = IF \/ ~Replay!Priced(up')
                   \/ ~Replay!Priced(Replay!Leg(held["DOWN"], "BUY", Requested, second))
                THEN Replay!Unavailable
                ELSE Replay!Outcome(up', Replay!Leg(held["DOWN"], "BUY", Requested, second),
                                     held, second)
          BY <4>2, <5>1, <5>2, <5>3, Zenon DEF Replay!Replayed
        <5>5. Replay!SecondLeg(up')
              = IF \/ ~Replay!Priced(up')
                   \/ ~Replay!Priced(Replay!Leg(held["DOWN"], "BUY", Requested, second))
                THEN Replay!Unavailable
                ELSE Replay!Outcome(up', Replay!Leg(held["DOWN"], "BUY", Requested, second),
                                     held, second)
          BY <2>6, <4>2 DEF Replay!SecondLeg
        <5> QED BY <5>4, <5>5
      <4> QED BY <4>1, <4>2
    <3>8. live' = Replay!ReplayBuyMerge(log, decision_at)
      BY <2>5, <3>1, <3>7
    <3> QED BY <1>1, <1>2, <1>3, <1>5, <2>1, <2>4, <2>6, <3>8
               DEF Replay!IInv, Replay!ReplayedLeg, first
  <2>7. CASE replay_now # second
    <3>1. live' = live
      BY <1>1, <2>1, <2>7 DEF Replay!Completes
    <3>2. replay_now' > second <=> replay_now > second
      BY <1>1, <1>2, <2>1, <2>7
    <3>3. live' = IF replay_now' > decision_at + 2 * Latency
                   THEN Replay!ReplayBuyMerge(log, decision_at) ELSE None
      BY <1>5, <2>1, <3>1, <3>2 DEF Replay!IInv
    <3> QED BY <1>1, <1>3, <1>5, <2>4, <3>3 DEF Replay!IInv, Replay!ReplayedLeg, first
  <2> QED BY <2>6, <2>7
<1> QED BY <1>4, <1>5

(* A decision is taken before either leg. *)
LEMMA DecideKeepsIInv ==
  ASSUME Replay!ReplayConstants, Replay!IInv, Replay!Decide
  PROVE  Replay!IInv'
<1>1. /\ decision_at = None /\ decision_at' = replay_now
      /\ UNCHANGED <<replay_now, log, held, up, live>>
  BY DEF Replay!Decide
<1>2. replay_now \in Nat /\ Latency \in Nat /\ replay_now \in 0..replay_now
  BY DEF Replay!IInv, Replay!TypeOK, Replay!ReplayConstants
<1>3. Replay!TypeOK'
  BY <1>1, <1>2 DEF Replay!IInv, Replay!TypeOK, Replay!HoldsLatest
<1>4. ~(replay_now > replay_now + Latency) /\ ~(replay_now > replay_now + 2 * Latency)
  BY <1>2
<1>5. replay_now # None
  BY <1>2 DEF Replay!ReplayConstants
<1> QED BY <1>1, <1>3, <1>4, <1>5 DEF Replay!IInv

(* Every book, decision and tick keeps the inductive invariant. *)
THEOREM ReplayNext ==
  ASSUME Replay!ReplayConstants, Replay!IInv, [Replay!Next]_(Replay!vars)
  PROVE  Replay!IInv'
<1>1. CASE UNCHANGED Replay!vars
  <2>1. UNCHANGED <<replay_now, log, held, decision_at, up, live>>
    BY <1>1 DEF Replay!vars
  <2> QED BY <2>1 DEF Replay!IInv, Replay!TypeOK, Replay!HoldsLatest, Replay!ReplayedLeg
<1> QED BY <1>1, ReceiveBookKeepsIInv, DecideKeepsIInv, TickKeepsReplay DEF Replay!Next

(* The inductive invariant holds in every behaviour. *)
THEOREM ReplayInvariance == ASSUME Replay!ReplayConstants PROVE Replay!Spec => []Replay!IInv
<1>1. Replay!IInv /\ [Replay!Next]_(Replay!vars) => Replay!IInv'
  BY ReplayNext
<1> QED BY <1>1, ReplayInit, PTL DEF Replay!Spec

-----------------------------------------------------------------------------
(* Models. *)

(* The library's operators, as the instance of ModelRegistry sees them. *)
LEMMA SameFinite == \A S : Models!IsFiniteSet(S) <=> IsFiniteSet(S)
BY DEF Models!IsFiniteSet, IsFiniteSet

(* So do they count. *)
LEMMA SameCardinality == \A S : Models!Cardinality(S) = Cardinality(S)
BY DEF Models!Cardinality, Cardinality

(* The windows of instants. *)
LEMMA Windows ==
  ASSUME Models!RegistryConstants, NEW n \in Nat
  PROVE  /\ n \div Window \in Nat
         /\ n < (n \div Window + 1) * Window
         /\ n <= MaxTraining => n \div Window \in 0..(MaxTraining \div Window)
<1> DEFINE q == n \div Window
           k == MaxTraining \div Window
<1>1. Window \in Nat /\ Window > 0 /\ MaxTraining \in Nat
  BY DEF Models!RegistryConstants
<1>2. q \in Int /\ k \in Int /\ Window * q <= n /\ n < Window * q + Window
      /\ Window * k <= MaxTraining /\ MaxTraining < Window * k + Window
  BY <1>1
<1> HIDE DEF q, k
<1>3. q \in Nat
  BY <1>1, <1>2
<1>4. (q + 1) * Window = Window * q + Window
  BY <1>1, <1>2
<1>5. ASSUME n <= MaxTraining PROVE q <= k
  <2>1. CASE q >= k + 1
    <3>1. Window * q >= Window * (k + 1)
      BY <1>1, <1>2, <2>1
    <3>2. Window * (k + 1) = Window * k + Window
      BY <1>1, <1>2
    <3>3. Window * q \in Int /\ Window * k \in Int
      BY <1>1, <1>2
    <3> QED BY <1>1, <1>2, <1>5, <3>1, <3>2, <3>3
  <2> QED BY <1>2, <2>1
<1> QED BY <1>2, <1>3, <1>4, <1>5 DEF q, k

(* The fields of a row, and the row with another label. *)
LEMMA FieldsOfRow ==
  ASSUME NEW C, NEW O, NEW P, NEW L, NEW M,
         NEW r \in [condition : C, observed_at : O, payload : P, label : L, model_state : M],
         NEW w \in L
  PROVE  /\ r.condition \in C /\ r.observed_at \in O /\ r.label \in L
         /\ [r EXCEPT !.label = w]
               \in [condition : C, observed_at : O, payload : P, label : L, model_state : M]
         /\ [r EXCEPT !.label = w].condition = r.condition
         /\ [r EXCEPT !.label = w].observed_at = r.observed_at
         /\ [r EXCEPT !.label = w].payload = r.payload
         /\ [r EXCEPT !.label = w].label = w
OBVIOUS

(* The fields of a corpus row, and the row once it is labelled. *)
LEMMA RowFacts ==
  ASSUME NEW r \in Models!Row, NEW w \in {"UP", "DOWN", None}
  PROVE  /\ r.condition \in Models!BucketConditions /\ r.observed_at \in 0..MaxTraining
         /\ r.label \in {"UP", "DOWN", None}
         /\ [r EXCEPT !.label = w] \in Models!Row
         /\ [r EXCEPT !.label = w].condition = r.condition
         /\ [r EXCEPT !.label = w].observed_at = r.observed_at
         /\ [r EXCEPT !.label = w].payload = r.payload
         /\ [r EXCEPT !.label = w].label = w
BY FieldsOfRow DEF Models!Row

(* The initial states satisfy the inductive invariant: there is no row and no model. *)
THEOREM ModelsInit == ASSUME Models!RegistryConstants PROVE Models!Init => Models!IInv
<1> SUFFICES ASSUME Models!Init PROVE Models!IInv
  OBVIOUS
<1>1. /\ models_now = 0 /\ corpus = [b \in Buckets |-> {}]
      /\ official = [c \in Models!BucketConditions |-> None]
      /\ \A b \in Buckets : ~registry[b].ready
  BY DEF Models!Init, Models!EmptyRegistry, Models!Unready
<1>2. models_now \in 0..MaxTraining
  BY <1>1 DEF Models!RegistryConstants
<1>3. \A b \in Buckets : corpus[b] = {} /\ IsFiniteSet(corpus[b])
  BY <1>1, FS_EmptySet
<1>4. corpus \in [Buckets -> SUBSET Models!Row]
  BY <1>1
<1>5. DOMAIN bucket_forecast = Buckets
  BY DEF Models!Init
<1> QED BY SameFinite, <1>1, <1>2, <1>3, <1>4, <1>5 DEF Models!IInv, Models!TypeOK

(* A model keeps its record while its rows stay as they are. *)
LEMMA SameRecord ==
  ASSUME NEW b \in Buckets, Models!TrainedOnRecord(b), registry'[b] = registry[b],
         Models!TrainingRows(b)' = Models!TrainingRows(b),
         \A row \in corpus[b] : \E r \in corpus'[b] : Models!Reference(r) = Models!Reference(row)
  PROVE  Models!TrainedOnRecord(b)'
<1>1. \A reference \in registry'[b].trained_on :
            \E r \in corpus'[b] : Models!Reference(r) = reference
  BY DEF Models!TrainedOnRecord
<1> QED BY <1>1 DEF Models!TrainedOnRecord

(* An evaluation adds a row of its instant, which no model was trained on. *)
LEMMA EvaluateKeepsIInv ==
  ASSUME Models!RegistryConstants, Models!IInv, NEW bucket \in Buckets, NEW payload \in Payloads,
         Models!Evaluate(bucket, payload)
  PROVE  Models!IInv'
<1> DEFINE new == [condition |-> Models!ConditionAt(bucket, models_now), observed_at |-> models_now,
                   payload |-> payload, label |-> None,
                   model_state |-> Models!ShadowModelStatus(bucket)]
<1>1. /\ \A row \in corpus[bucket] : row.observed_at < models_now
      /\ bucket_forecast' = [bucket_forecast EXCEPT ![bucket] = Models!ForecastFor(bucket, payload)]
      /\ corpus' = [corpus EXCEPT ![bucket] = corpus[bucket] \cup {new}]
      /\ UNCHANGED <<models_now, official, registry>>
  BY DEF Models!Evaluate
<1>2. models_now \in 0..MaxTraining /\ models_now \in Nat /\ models_now <= MaxTraining
  BY DEF Models!IInv, Models!TypeOK, Models!RegistryConstants
<1>3. /\ new.observed_at = models_now /\ new.condition = Models!ConditionAt(bucket, models_now)
      /\ new.label = None
      /\ new \in Models!Row
  <2>1. Models!ConditionAt(bucket, models_now) \in Models!BucketConditions
    BY <1>2, Windows DEF Models!ConditionAt, Models!BucketConditions
  <2>2. Models!ShadowModelStatus(bucket) \in
              {"SHADOW_CANDIDATE", "TRAINING_CORPUS_REQUIRED", "INSUFFICIENT_SAMPLE"}
    BY DEF Models!ShadowModelStatus
  <2> QED BY <1>2, <2>1, <2>2 DEF Models!Row
<1> HIDE DEF new
<1>4. /\ corpus'[bucket] = corpus[bucket] \cup {new}
      /\ \A b \in Buckets \ {bucket} : corpus'[b] = corpus[b]
      /\ corpus' \in [Buckets -> SUBSET Models!Row]
  BY <1>1, <1>3 DEF Models!IInv, Models!TypeOK
<1>5. Models!TypeOK'
  <2>1. IsFiniteSet(corpus'[bucket])
    <3>1. Models!IsFiniteSet(corpus[bucket])
      BY DEF Models!IInv, Models!TypeOK
    <3>2. IsFiniteSet(corpus[bucket])
      BY <3>1, SameFinite
    <3> QED BY <1>4, <3>2, FS_AddElement
  <2>2. \A row \in corpus'[bucket] :
          /\ row.observed_at <= models_now
          /\ row.condition = Models!ConditionAt(bucket, row.observed_at)
          /\ row.label # None =>
               Models!EndOf(row.condition) <= models_now /\ official[row.condition] = row.label
    BY <1>2, <1>3, <1>4 DEF Models!IInv, Models!TypeOK
  <2>3. \A row, other \in corpus'[bucket] : row.observed_at = other.observed_at => row = other
    <3>1. \A row \in corpus[bucket] : row.observed_at # models_now
      BY <1>1, <1>2 DEF Models!IInv, Models!TypeOK
    <3> QED BY <1>3, <1>4, <3>1 DEF Models!IInv, Models!TypeOK
  <2>4. ASSUME NEW b \in Buckets, b # bucket
        PROVE  /\ IsFiniteSet(corpus'[b])
               /\ \A row \in corpus'[b] :
                    /\ row.observed_at <= models_now
                    /\ row.condition = Models!ConditionAt(b, row.observed_at)
                    /\ row.label # None =>
                         /\ Models!EndOf(row.condition) <= models_now
                         /\ official[row.condition] = row.label
               /\ \A row, other \in corpus'[b] : row.observed_at = other.observed_at => row = other
    BY SameFinite, <1>4, <2>4 DEF Models!IInv, Models!TypeOK
  <2>5. DOMAIN bucket_forecast' = Buckets
    BY <1>1 DEF Models!IInv, Models!TypeOK
  <2> QED BY SameFinite, <1>1, <1>4, <2>1, <2>2, <2>3, <2>4, <2>5 DEF Models!IInv, Models!TypeOK
<1>6. ASSUME NEW b \in Buckets, registry[b].ready
      PROVE  Models!TrainingRows(b)' = Models!TrainingRows(b) /\ Models!TrainedOnRecord(b)'
  <2>1. Models!TrainedOnRecord(b)
    BY <1>6 DEF Models!IInv
  <2>2. CASE b = bucket
    <3>1. Models!Reference(new) \notin registry[b].trained_on
      <4> SUFFICES ASSUME Models!Reference(new) \in registry[b].trained_on PROVE FALSE
        OBVIOUS
      <4>1. PICK row \in corpus[b] : Models!Reference(row) = Models!Reference(new)
        BY <2>1 DEF Models!TrainedOnRecord
      <4>2. row.observed_at = models_now
        BY <1>3, <4>1 DEF Models!Reference
      <4> QED BY <1>1, <1>2, <2>2, <4>2
    <3>2. Models!TrainingRows(b)' = Models!TrainingRows(b)
      BY <1>1, <1>4, <2>2, <3>1 DEF Models!TrainingRows
    <3>3. registry'[b] = registry[b]
          /\ \A row \in corpus[b] :
                \E r \in corpus'[b] : Models!Reference(r) = Models!Reference(row)
      BY <1>1, <1>4, <2>2
    <3> QED BY <2>1, <3>2, <3>3, SameRecord
  <2>3. CASE b # bucket
    <3>1. corpus'[b] = corpus[b] /\ registry'[b] = registry[b]
      BY <1>1, <1>4, <2>3
    <3>2. Models!TrainingRows(b)' = Models!TrainingRows(b)
      BY <3>1 DEF Models!TrainingRows
    <3> QED BY <2>1, <3>1, <3>2, SameRecord
  <2> QED BY <2>2, <2>3
<1>7. ASSUME NEW b \in Buckets, registry[b].ready, bucket_forecast'[b] # None
      PROVE  Models!ForecastIsLater(b)'
  <2>1. CASE b = bucket
    <3>1. bucket_forecast'[b] = Models!ForecastFor(b, payload)
      BY <1>1, <2>1 DEF Models!IInv, Models!TypeOK
    <3>2. payload.schema # None /\ ~Models!Refuses(registry[b], payload, models_now)
      BY <1>7, <3>1 DEF Models!ForecastFor
    <3>3. bucket_forecast'[b] =
                [model |-> "TRAINED",
                 condition |-> Models!ConditionAt(b, models_now),
                 at |-> models_now,
                 schema |-> payload.schema]
      BY <1>7, <3>1, <3>2 DEF Models!ForecastFor
    <3>4. payload.schema = registry[b].schema
      BY <3>2 DEF Models!Refuses
    <3>5. \A row \in Models!TrainingRows(b) : Models!EndOf(row.condition) <= models_now
      <4>1. \A row \in Models!TrainingRows(b) : row \in corpus[b] /\ row.label # None
        BY <1>7 DEF Models!IInv, Models!TrainedOnRecord, Models!TrainingRows
      <4>2. \A row \in corpus[b] : row.label # None => Models!EndOf(row.condition) <= models_now
        BY DEF Models!IInv, Models!TypeOK
      <4> QED BY <4>1, <4>2
    <3>6. Models!TrainingRows(b)' = Models!TrainingRows(b) /\ models_now \in 0..models_now
      BY <1>2, <1>6, <1>7
    <3> QED BY <1>1, <3>3, <3>4, <3>5, <3>6 DEF Models!ForecastIsLater
  <2>2. CASE b # bucket
    <3>1. bucket_forecast'[b] = bucket_forecast[b]
      BY <1>1, <2>2
    <3>2. Models!ForecastIsLater(b) /\ Models!TrainingRows(b)' = Models!TrainingRows(b)
      BY <1>6, <1>7, <3>1 DEF Models!IInv
    <3> QED BY <1>1, <3>1, <3>2 DEF Models!ForecastIsLater
  <2> QED BY <2>1, <2>2
<1> QED BY <1>1, <1>5, <1>6, <1>7 DEF Models!IInv

(* The official winner labels the rows of its market that have no label yet, and no
   model was trained on one of these. *)
LEMMA AttachOutcomeKeepsIInv ==
  ASSUME Models!RegistryConstants, Models!IInv, NEW condition \in Models!BucketConditions,
         NEW winner \in {"UP", "DOWN"},
         Models!AttachOutcome(condition, winner)
  PROVE  Models!IInv'
<1> DEFINE bucket == condition[1]
           labelled(row) == IF Models!Labels(row, condition)
                            THEN [row EXCEPT !.label = winner] ELSE row
<1>1. /\ Models!EndOf(condition) <= models_now
      /\ official[condition] \in {None, winner}
      /\ official' = [official EXCEPT ![condition] = winner]
      /\ corpus' = [corpus EXCEPT ![bucket] = {labelled(row) : row \in corpus[bucket]}]
      /\ UNCHANGED <<models_now, registry, bucket_forecast>>
  BY DEF Models!AttachOutcome
<1>2. bucket \in Buckets /\ None \notin {"UP", "DOWN"}
  BY DEF Models!BucketConditions, Models!RegistryConstants
<1>3. ASSUME NEW row \in Models!Row
      PROVE  /\ labelled(row) \in Models!Row
             /\ labelled(row).condition = row.condition
             /\ labelled(row).observed_at = row.observed_at
             /\ labelled(row).payload = row.payload
             /\ labelled(row).label \in {row.label, winner}
             /\ row.label # None => labelled(row) = row
             /\ labelled(row).label # None =>
                  labelled(row) = row \/ (row.condition = condition /\ labelled(row).label = winner)
             /\ Models!Reference(labelled(row)) = Models!Reference(row)
  <2>1. CASE Models!Labels(row, condition)
    BY <1>2, <2>1, RowFacts, ZenonT(30) DEF Models!Labels, Models!Reference
  <2>2. CASE ~Models!Labels(row, condition)
    <3>1. labelled(row) = row
      BY <2>2
    <3> HIDE DEF labelled
    <3> QED BY <3>1
  <2> QED BY <2>1, <2>2
<1> HIDE DEF labelled
<1>4. /\ \A b \in Buckets : corpus[b] \subseteq Models!Row
      /\ corpus'[bucket] = {labelled(row) : row \in corpus[bucket]}
      /\ \A b \in Buckets \ {bucket} : corpus'[b] = corpus[b]
  BY <1>1, <1>2 DEF Models!IInv, Models!TypeOK
<1>5. corpus' \in [Buckets -> SUBSET Models!Row]
  <2>1. {labelled(row) : row \in corpus[bucket]} \subseteq Models!Row
    BY <1>2, <1>3, <1>4
  <2> QED BY <1>1, <2>1 DEF Models!IInv, Models!TypeOK
<1>6. /\ official' \in [Models!BucketConditions -> {"UP", "DOWN", None}]
      /\ official'[condition] = winner
      /\ \A c \in Models!BucketConditions : official[c] # None => official'[c] = official[c]
  BY <1>1 DEF Models!IInv, Models!TypeOK
<1>7. Models!TypeOK'
  <2>1. IsFiniteSet(corpus'[bucket])
    <3> DEFINE f == [row \in corpus[bucket] |-> labelled(row)]
    <3>1. {f[row] : row \in corpus[bucket]} = corpus'[bucket]
      BY <1>4
    <3>2. IsFiniteSet(corpus[bucket]) /\ DOMAIN f = corpus[bucket]
      BY SameFinite, SameCardinality, <1>2 DEF Models!IInv, Models!TypeOK
    <3> HIDE DEF f
    <3>3. IsFiniteSet({f[row] : row \in corpus[bucket]})
      BY <3>2, FiniteRange
    <3> QED BY <3>1, <3>3
  <2>2. ASSUME NEW b \in Buckets, NEW row \in corpus[b], row.label # None
        PROVE  Models!EndOf(row.condition) <= models_now /\ official'[row.condition] = row.label
    <3>1. row.condition \in Models!BucketConditions
      BY <1>4, RowFacts
    <3> QED BY <1>6, <2>2, <3>1 DEF Models!IInv, Models!TypeOK
  <2>3. ASSUME NEW row \in corpus'[bucket]
        PROVE  /\ row.observed_at <= models_now
               /\ row.condition = Models!ConditionAt(bucket, row.observed_at)
               /\ row.label # None =>
                    /\ Models!EndOf(row.condition) <= models_now
                    /\ official'[row.condition] = row.label
    <3>1. PICK r \in corpus[bucket] : row = labelled(r)
      BY <1>4
    <3>2. r \in Models!Row
      BY <1>2, <1>4
    <3>3. /\ row.observed_at <= models_now
          /\ row.condition = Models!ConditionAt(bucket, row.observed_at)
      BY <1>2, <1>3, <3>1, <3>2 DEF Models!IInv, Models!TypeOK
    <3>4. ASSUME row.label # None
          PROVE  Models!EndOf(row.condition) <= models_now /\ official'[row.condition] = row.label
      <4>1. CASE row = r
        BY <1>2, <2>2, <3>4, <4>1
      <4>2. CASE row # r
        <5>1. row.condition = condition /\ row.label = winner
          BY <1>3, <3>1, <3>2, <3>4, <4>2
        <5> QED BY <1>1, <1>6, <5>1
      <4> QED BY <4>1, <4>2
    <3> QED BY <3>3, <3>4
  <2>4. \A row, other \in corpus'[bucket] : row.observed_at = other.observed_at => row = other
    <3> SUFFICES ASSUME NEW r \in corpus[bucket], NEW o \in corpus[bucket],
                        labelled(r).observed_at = labelled(o).observed_at
                 PROVE  labelled(r) = labelled(o)
      BY <1>4
    <3>1. r.observed_at = o.observed_at
      BY <1>2, <1>3, <1>4
    <3> QED BY <1>2, <3>1 DEF Models!IInv, Models!TypeOK
  <2>5. ASSUME NEW b \in Buckets, b # bucket
        PROVE  /\ IsFiniteSet(corpus'[b])
               /\ \A row \in corpus'[b] :
                    /\ row.observed_at <= models_now
                    /\ row.condition = Models!ConditionAt(b, row.observed_at)
                    /\ row.label # None =>
                         /\ Models!EndOf(row.condition) <= models_now
                         /\ official'[row.condition] = row.label
               /\ \A row, other \in corpus'[b] : row.observed_at = other.observed_at => row = other
    <3>1. corpus'[b] = corpus[b]
      BY <1>4, <2>5
    <3> QED BY SameFinite, SameCardinality, <2>2, <3>1 DEF Models!IInv, Models!TypeOK
  <2>6. ASSUME NEW b \in Buckets
        PROVE  /\ IsFiniteSet(corpus'[b])
               /\ \A row \in corpus'[b] :
                    /\ row.observed_at <= models_now
                    /\ row.condition = Models!ConditionAt(b, row.observed_at)
                    /\ row.label # None =>
                         /\ Models!EndOf(row.condition) <= models_now
                         /\ official'[row.condition] = row.label
               /\ \A row, other \in corpus'[b] : row.observed_at = other.observed_at => row = other
    BY <2>1, <2>3, <2>4, <2>5
  <2>7. /\ models_now' = models_now /\ models_now \in 0..MaxTraining
        /\ DOMAIN bucket_forecast' = Buckets
    BY <1>1 DEF Models!IInv, Models!TypeOK
  <2> HIDE DEF bucket
  <2> QED BY SameFinite, SameCardinality, <1>5, <1>6, <2>6, <2>7 DEF Models!TypeOK
<1>8. ASSUME NEW b \in Buckets, registry[b].ready
      PROVE  Models!TrainingRows(b)' = Models!TrainingRows(b) /\ Models!TrainedOnRecord(b)'
  <2>1. Models!TrainedOnRecord(b)
    BY <1>8 DEF Models!IInv
  <2>2. CASE b = bucket
    <3>1. \A row \in Models!TrainingRows(b) : row \in corpus[b] /\ labelled(row) = row
      BY <1>3, <1>4, <2>1 DEF Models!TrainedOnRecord, Models!TrainingRows
    <3>2. ASSUME NEW row \in Models!TrainingRows(b)' PROVE row \in Models!TrainingRows(b)
      <4>1. row \in corpus'[b] /\ Models!Reference(row) \in registry[b].trained_on
        BY <1>1 DEF Models!TrainingRows
      <4>2. PICK r \in corpus[b] : row = labelled(r)
        BY <1>4, <2>2, <4>1
      <4>3. r \in Models!TrainingRows(b)
        BY <1>3, <1>4, <4>1, <4>2 DEF Models!TrainingRows
      <4> QED BY <3>1, <4>2, <4>3
    <3>3. ASSUME NEW row \in Models!TrainingRows(b) PROVE row \in Models!TrainingRows(b)'
      <4>1. row \in corpus'[b]
        BY <1>4, <2>2, <3>1
      <4> QED BY <1>1, <4>1 DEF Models!TrainingRows
    <3>4. Models!TrainingRows(b)' = Models!TrainingRows(b)
      BY <3>2, <3>3
    <3>5. \A row \in corpus[b] : \E r \in corpus'[b] : Models!Reference(r) = Models!Reference(row)
      BY <1>3, <1>4, <2>2
    <3> QED BY <1>1, <2>1, <3>4, <3>5, SameRecord
  <2>3. CASE b # bucket
    <3>1. corpus'[b] = corpus[b] /\ registry'[b] = registry[b]
      BY <1>1, <1>4, <2>3
    <3>2. Models!TrainingRows(b)' = Models!TrainingRows(b)
      BY <3>1 DEF Models!TrainingRows
    <3> QED BY <2>1, <3>1, <3>2, SameRecord
  <2> QED BY <2>2, <2>3
<1>9. ASSUME NEW b \in Buckets, registry[b].ready, bucket_forecast[b] # None
      PROVE  Models!ForecastIsLater(b)'
  <2>1. Models!ForecastIsLater(b) /\ Models!TrainingRows(b)' = Models!TrainingRows(b)
    BY <1>8, <1>9 DEF Models!IInv
  <2> QED BY <1>1, <2>1 DEF Models!ForecastIsLater
<1> QED BY <1>1, <1>7, <1>8, <1>9 DEF Models!IInv

(* A process that starts trains on rows with a label and one schema, and forecasts
   nothing yet. *)
LEMMA RestartKeepsIInv ==
  ASSUME Models!RegistryConstants, Models!IInv, Models!Restart
  PROVE  Models!IInv'
<1>1. /\ registry' = [b \in Buckets |-> Models!LoadBucket(b)]
      /\ bucket_forecast' = [b \in Buckets |-> None]
      /\ UNCHANGED <<models_now, corpus, official>>
  BY DEF Models!Restart
<1>2. Models!TypeOK'
  BY <1>1 DEF Models!IInv, Models!TypeOK
<1>3. ASSUME NEW b \in Buckets, registry'[b].ready PROVE Models!TrainedOnRecord(b)'
  <2> DEFINE records == Models!TrainingReadyRecords(b)
             count == Cardinality({row.condition : row \in records})
  <2>1. Models!LoadBucket(b).ready /\ registry'[b] = Models!LoadBucket(b)
    BY <1>1, <1>3
  <2>2. \A row \in records : /\ row \in corpus[b] /\ row.label # None
                             /\ row.payload.schema # None /\ row.payload.ptb
    BY DEF Models!TrainingReadyRecords, Models!Oldest, Models!LabelledRows, Models!TrainingReady
  <2>3. records \subseteq corpus[b]
    BY <2>2
  <2>4. count \in Nat
    <3>1. IsFiniteSet(records)
      BY SameFinite, <2>3, FS_Subset DEF Models!IInv, Models!TypeOK
    <3> HIDE DEF records
    <3>2. IsFiniteSet({row.condition : row \in records})
      <4> DEFINE f == [row \in records |-> row.condition]
      <4>1. {f[row] : row \in records} = {row.condition : row \in records}
        OBVIOUS
      <4> HIDE DEF f
      <4>2. IsFiniteSet({f[row] : row \in records})
        BY <3>1, FiniteRange DEF f
      <4> QED BY <4>1, <4>2
    <3> QED BY <3>2, FS_CardinalityType
  <2>5. /\ ~(count = 0 /\ count < Minimum) /\ ~(count > 0 /\ count < Minimum)
        /\ Models!OneSchema(records) /\ Models!Share(records, "UP") # 0
        /\ Models!Share(records, "DOWN") # 0
        /\ Models!LoadBucket(b) = [ready |-> TRUE, state |-> "SHADOW_CANDIDATE", count |-> count,
                  schema |-> (CHOOSE row \in records : TRUE).payload.schema,
                  base_rate |-> Models!BaseRate(Models!Share(records, "UP"), Cardinality(records)),
                  samples |-> Cardinality(records),
                  trained_on |-> {Models!Reference(row) : row \in records},
                  trained_through |-> Models!Max({row.observed_at : row \in records})]
    BY SameCardinality, <2>1 DEF Models!LoadBucket, Models!Unready
  <2> HIDE DEF records
  <2>6. /\ registry'[b].trained_on = {Models!Reference(row) : row \in records}
        /\ registry'[b].base_rate =
             Models!BaseRate(Models!Share(records, "UP"), Cardinality(records))
        /\ registry'[b].samples = Cardinality(records)
        /\ registry'[b].schema = (CHOOSE row \in records : TRUE).payload.schema
    BY <2>1, <2>5
  <2>7. \A winner \in {"UP", "DOWN"} : \E row \in records : row.label = winner
    <3>1. ASSUME NEW winner, {row \in records : row.label = winner} = {}
          PROVE  Models!Share(records, winner) = 0
      BY SameCardinality, <3>1, FS_EmptySet DEF Models!Share
    <3> QED BY <2>5, <3>1
  <2>8. \A row \in records : row.payload.schema = (CHOOSE r \in records : TRUE).payload.schema
    BY <2>5 DEF Models!OneSchema
  <2>9. Models!TrainingRows(b)' = records
    <3>1. ASSUME NEW row \in corpus[b], NEW r \in records,
                 Models!Reference(row) = Models!Reference(r)
          PROVE  row = r
      BY <2>3, <3>1 DEF Models!IInv, Models!TypeOK, Models!Reference
    <3>2. Models!TrainingRows(b)' =
            {row \in corpus[b] : Models!Reference(row) \in {Models!Reference(r) : r \in records}}
      BY <1>1, <2>6 DEF Models!TrainingRows
    <3> QED BY <2>3, <3>1, <3>2
  <2>10. count >= Minimum
    BY <2>4, <2>5 DEF Models!RegistryConstants
  <2>11. \A reference \in registry'[b].trained_on :
               \E row \in corpus'[b] : Models!Reference(row) = reference
    BY <1>1, <2>3, <2>6
  <2>12. Cardinality({row \in records : row.label = "UP"}) = Models!Share(records, "UP")
    BY SameCardinality DEF Models!Share
  <2> QED BY SameCardinality, <2>2, <2>6, <2>7, <2>8, <2>9, <2>10, <2>11, <2>12
             DEF Models!TrainedOnRecord
<1> QED BY <1>1, <1>2, <1>3 DEF Models!IInv

(* Time alone changes no record. *)
LEMMA TickKeepsModels ==
  ASSUME Models!RegistryConstants, Models!IInv, Models!Tick \/ UNCHANGED Models!vars
  PROVE  Models!IInv'
<1>1. /\ models_now' \in 0..MaxTraining /\ models_now \in Nat /\ models_now <= models_now'
      /\ UNCHANGED <<corpus, official, registry, bucket_forecast>>
  BY DEF Models!Tick, Models!vars, Models!IInv, Models!TypeOK, Models!RegistryConstants
<1>2. ASSUME NEW b \in Buckets, NEW row \in corpus[b]
      PROVE  row.observed_at \in Nat /\ (row.label # None => Models!EndOf(row.condition) \in Int)
  <2>1. row.condition \in Models!BucketConditions /\ row.observed_at \in 0..MaxTraining
    BY RowFacts DEF Models!IInv, Models!TypeOK
  <2>2. row.condition[2] \in Nat
    BY <2>1 DEF Models!BucketConditions
  <2> QED BY <2>1, <2>2 DEF Models!EndOf, Models!RegistryConstants
<1>3. Models!TypeOK'
  BY <1>1, <1>2 DEF Models!IInv, Models!TypeOK
<1>4. ASSUME NEW b \in Buckets, registry[b].ready PROVE Models!TrainedOnRecord(b)'
  <2>1. Models!TrainingRows(b)' = Models!TrainingRows(b)
    BY <1>1 DEF Models!TrainingRows
  <2> QED BY <1>1, <1>4, <2>1, SameRecord DEF Models!IInv
<1>5. ASSUME NEW b \in Buckets, registry[b].ready, bucket_forecast[b] # None
      PROVE  Models!ForecastIsLater(b)'
  <2>1. Models!ForecastIsLater(b) /\ Models!TrainingRows(b)' = Models!TrainingRows(b)
    BY <1>1, <1>5 DEF Models!IInv, Models!TrainingRows
  <2> QED BY <1>1, <2>1 DEF Models!ForecastIsLater
<1> QED BY <1>1, <1>3, <1>4, <1>5 DEF Models!IInv

(* Every evaluation, label, restart and tick keeps the inductive invariant. *)
THEOREM ModelsNext ==
  ASSUME Models!RegistryConstants, Models!IInv, [Models!Next]_(Models!vars)
  PROVE  Models!IInv'
BY EvaluateKeepsIInv, AttachOutcomeKeepsIInv, RestartKeepsIInv, TickKeepsModels DEF Models!Next

(* A model that is on record and older than its forecast rests on the past alone. *)
LEMMA RecordsAreThePast ==
  ASSUME Models!RegistryConstants, Models!IInv
  PROVE  Models!TrainedOnThePast
<1> SUFFICES ASSUME NEW b \in Buckets, bucket_forecast[b] # None, registry[b].ready
             PROVE  LET model == registry[b]
                        kept == {row \in corpus[b] : Models!Reference(row) \in model.trained_on}
                        Won(winner) == {row \in kept : official[row.condition] = winner}
                    IN /\ bucket_forecast[b].model = "TRAINED"
                       /\ Cardinality({row.condition : row \in kept}) >= Minimum
                       /\ \A row \in kept :
                            /\ row.condition[1] = b /\ row.condition # bucket_forecast[b].condition
                            /\ Models!EndOf(row.condition) <= bucket_forecast[b].at
                            /\ row.payload.schema = bucket_forecast[b].schema /\ row.payload.ptb
                       /\ Won("UP") # {} /\ Won("DOWN") # {}
                       /\ model.base_rate =
                            Models!BaseRate(Cardinality(Won("UP")), Cardinality(kept))
                       /\ model.samples = Cardinality(kept)
  BY SameCardinality DEF Models!TrainedOnThePast
<1> DEFINE kept == {row \in corpus[b] : Models!Reference(row) \in registry[b].trained_on}
           Won(winner) == {row \in kept : official[row.condition] = winner}
<1>1. kept = Models!TrainingRows(b) /\ Models!TrainedOnRecord(b) /\ Models!ForecastIsLater(b)
  BY DEF Models!IInv, Models!TrainingRows
<1>2. ASSUME NEW row \in kept
      PROVE  /\ row.condition = Models!ConditionAt(b, row.observed_at)
             /\ official[row.condition] = row.label /\ row.label # None
             /\ Models!EndOf(row.condition) <= bucket_forecast[b].at
  BY <1>1 DEF Models!IInv, Models!TypeOK, Models!TrainedOnRecord, Models!ForecastIsLater
<1>3. \A winner \in {"UP", "DOWN"} : Won(winner) = {row \in kept : row.label = winner}
  BY <1>2
<1>4. ASSUME NEW row \in kept PROVE row.condition # bucket_forecast[b].condition
  <2>1. /\ bucket_forecast[b].at \in Nat
        /\ bucket_forecast[b].condition = Models!ConditionAt(b, bucket_forecast[b].at)
    BY <1>1 DEF Models!ForecastIsLater
  <2>2. Models!EndOf(bucket_forecast[b].condition) =
              (bucket_forecast[b].at \div Window + 1) * Window
    BY <2>1 DEF Models!ConditionAt, Models!EndOf
  <2>3. /\ bucket_forecast[b].at < Models!EndOf(bucket_forecast[b].condition)
        /\ Models!EndOf(bucket_forecast[b].condition) \in Int
    <3> DEFINE n == bucket_forecast[b].at
               q == n \div Window
    <3>1. /\ n \in Nat /\ q \in Nat /\ Window \in Nat /\ n < (q + 1) * Window
          /\ Models!EndOf(bucket_forecast[b].condition) = (q + 1) * Window
      BY <2>1, <2>2, Windows DEF Models!RegistryConstants
    <3> HIDE DEF n, q
    <3>2. (q + 1) * Window \in Int
      BY <3>1
    <3> QED BY <3>1, <3>2 DEF n
  <2> SUFFICES ASSUME row.condition = bucket_forecast[b].condition PROVE FALSE
    OBVIOUS
  <2> QED BY <1>2, <2>1, <2>3
<1>5. \A row \in kept : row.condition[1] = b
  BY <1>2 DEF Models!ConditionAt
<1> HIDE DEF kept
<1>6. /\ Cardinality({row.condition : row \in kept}) >= Minimum
      /\ \A row \in kept : row.payload.schema = bucket_forecast[b].schema /\ row.payload.ptb
      /\ \A winner \in {"UP", "DOWN"} : \E row \in kept : row.label = winner
      /\ registry[b].base_rate =
           Models!BaseRate(Cardinality({row \in kept : row.label = "UP"}), Cardinality(kept))
      /\ registry[b].samples = Cardinality(kept)
      /\ bucket_forecast[b].model = "TRAINED"
  BY SameCardinality, <1>1 DEF Models!TrainedOnRecord, Models!ForecastIsLater
<1>7. /\ Won("UP") # {} /\ Won("DOWN") # {}
      /\ registry[b].base_rate = Models!BaseRate(Cardinality(Won("UP")), Cardinality(kept))
  BY <1>3, <1>6
<1> QED BY <1>2, <1>4, <1>5, <1>6, <1>7 DEF kept

-----------------------------------------------------------------------------
(* The three together. *)

(* Labels, replays and models never write each other's records: a history of all three is
   one of each (the corpus is labelled by its worker, a model is trained from rows read
   once, a replay reads a finished log). *)
LEMMA RecordsStayApart == LearningSpec => Spec /\ Replay!Spec /\ Models!Spec
<1>1. LearningInit => Init /\ Replay!Init /\ Models!Init
  BY DEF LearningInit
<1>2. [LearningNext]_<<label_vars, replay_vars, models_vars>> =>
        [Next]_vars /\ [Replay!Next]_(Replay!vars) /\ [Models!Next]_(Models!vars)
  <2>1. /\ UNCHANGED label_vars => UNCHANGED vars
        /\ UNCHANGED replay_vars => UNCHANGED Replay!vars
        /\ UNCHANGED models_vars => UNCHANGED Models!vars
    BY DEF label_vars, replay_vars, Replay!vars, models_vars, Models!vars
  <2> QED BY <2>1 DEF LearningNext
<1> QED BY <1>1, <1>2, PTL DEF LearningSpec, Spec, Replay!Spec, Models!Spec

(* LabelsComplete, next to the models and the replays that read the corpus: no crash between
   two attachments leaves a resolved market labelled by halves
   (attach_verified_outcome_to_condition_once). *)
THEOREM LabelsStayComplete == LearningSpec => []LabelsComplete
BY LearningConstants, RecordsStayApart, NothingIsHalfLabelled, PTL

(* ReplayMatchesLive: a replay of the log, in any order and made at any later time, is what
   an executor with that latency lived through (replay_buy_merge, _as_of). *)
THEOREM ReplaysAreFaithful == LearningSpec => []ReplayMatchesLive
<1>1. Replay!IInv => ReplayMatchesLive
  BY DEF Replay!IInv, ReplayMatchesLive, Replay!ReplayMatchesLive
<1> QED BY <1>1, LearningConstants, RecordsStayApart, ReplayInvariance, PTL

(* TrainedOnThePast: a trained forecast rests on finished markets of its own bucket, with
   their official winners and its own feature schema (load_paper_registry_from_corpus,
   training_ready_records, calibrated_forecast). *)
THEOREM ForecastsRestOnThePast == LearningSpec => []TrainedOnThePast
<1>1. Models!RegistryConstants
  BY LearningConstants
<1>2. Models!Init => Models!IInv
  BY <1>1, ModelsInit
<1>3. Models!IInv /\ [Models!Next]_(Models!vars) => Models!IInv'
  BY <1>1, ModelsNext
<1>4. Models!IInv => TrainedOnThePast
  BY <1>1, RecordsAreThePast DEF TrainedOnThePast
<1> QED BY <1>2, <1>3, <1>4, RecordsStayApart, PTL DEF Models!Spec

-----------------------------------------------------------------------------
-----------------------------------------------------------------------------
(* Depth and fees. *)

(* A level of a book holds some shares, at no more than one USDC (BookLevel). *)
LEMMA LevelFacts ==
  ASSUME NEW level \in BookLevel
  PROVE  level.quantity \in Nat /\ level.quantity # 0 /\ level.price \in Nat /\ level.price <= 100
BY DEF BookLevel

(* Products of natural numbers. *)
LEMMA ProductNatural == ASSUME NEW a \in Nat, NEW b \in Nat PROVE a * b \in Nat
  OBVIOUS

(* What rounding half up can do. *)
LEMMA Rounded ==
  ASSUME NEW x \in Nat
  PROVE  /\ RoundHalfUp(x, 10) \in Nat
         /\ 20 * RoundHalfUp(x, 10) <= 2 * x + 10 /\ 2 * x + 10 < 20 * RoundHalfUp(x, 10) + 20
         /\ RoundHalfUp(x, 1000) \in Nat
         /\ 2000 * RoundHalfUp(x, 1000) <= 2 * x + 1000
         /\ 2 * x + 1000 < 2000 * RoundHalfUp(x, 1000) + 2000
BY DEF RoundHalfUp

(* A fee is a natural number, and nothing taken pays none (quote_fee). *)
LEMMA FeeTyped ==
  ASSUME NEW schedule, schedule.rate \in Nat, NEW quantity \in Nat,
         NEW price \in Nat, price <= 100
  PROVE  QuoteFee(schedule, quantity, price) \in Nat /\ QuoteFee(schedule, 0, price) = 0
<1> DEFINE rate == schedule.rate
<1>1. quantity * price * rate \in Nat
  <2>1. price \in Nat
    OBVIOUS
  <2>2. quantity * price \in Nat
    BY <2>1, ProductNatural
  <2> QED BY <2>2, ProductNatural
<1>2. quantity * rate * price * (100 - price) \in Nat
  <2>1. price \in Nat /\ 100 - price \in Nat
    OBVIOUS
  <2>2. quantity * rate \in Nat
    BY ProductNatural
  <2>3. quantity * rate * price \in Nat
    BY <2>1, <2>2, ProductNatural
  <2> QED BY <2>1, <2>3, ProductNatural
<1>3. 0 * price * rate = 0 /\ 0 * rate * price * (100 - price) = 0
  OBVIOUS
<1>4. RoundHalfUp(0, 10) = 0 /\ RoundHalfUp(0, 1000) = 0
  BY DEF RoundHalfUp
<1> QED BY <1>1, <1>2, <1>3, <1>4, Rounded DEF QuoteFee

(* The levels as places to take from: what they hold, and what taking from one costs. *)
Held(levels) == [i \in DOMAIN levels |-> levels[i].quantity]

Gross(levels) == [i \in DOMAIN levels |-> [q \in Nat |-> levels[i].price * q * Cent]]

Fee(schedule, levels) ==
  [i \in DOMAIN levels |-> [q \in Nat |-> QuoteFee(schedule, q, levels[i].price)]]

(* The places are finitely many natural numbers, and all of this is typed. *)
LEMMA LevelsTyped ==
  ASSUME NEW levels \in Seq(BookLevel), NEW schedule, schedule.rate \in Nat
  PROVE  /\ Positions(DOMAIN levels) /\ IsFiniteSet(DOMAIN levels)
         /\ Held(levels) \in [DOMAIN levels -> Nat]
         /\ Gross(levels) \in [DOMAIN levels -> [Nat -> Int]]
         /\ Fee(schedule, levels) \in [DOMAIN levels -> [Nat -> Int]]
<1>1. DOMAIN levels = 1..Len(levels) /\ Len(levels) \in Nat
  OBVIOUS
<1>2. \A i \in DOMAIN levels :
        levels[i].quantity \in Nat /\ levels[i].price \in Nat /\ levels[i].price <= 100
  <2>1. \A i \in DOMAIN levels : levels[i] \in BookLevel
    OBVIOUS
  <2> QED BY <2>1, LevelFacts
<1>3. IsFiniteSet(DOMAIN levels)
  BY <1>1, FS_Interval
<1>4. Positions(DOMAIN levels)
  BY <1>1 DEF Positions
<1>5. ASSUME NEW i \in DOMAIN levels, NEW q \in Nat
      PROVE  /\ levels[i].price * q * Cent \in Int
             /\ QuoteFee(schedule, q, levels[i].price) \in Int
  <2>1. levels[i].price \in Nat /\ levels[i].price <= 100
    BY <1>2
  <2>2. levels[i].price * q \in Nat
    BY <2>1, ProductNatural
  <2>3. QuoteFee(schedule, q, levels[i].price) \in Nat
    BY <2>1, FeeTyped
  <2> QED BY <2>2, <2>3 DEF Cent
<1> QED BY <1>2, <1>3, <1>4, <1>5 DEF Held, Gross, Fee

(* The state of the walk after the levels of a set, in closed form. *)
Closed(schedule, requested, levels, s) ==
  [remaining |-> Left(Held(levels), requested, s),
   gross |-> Paid(Gross(levels), Taken(Held(levels), requested, s), s),
   fee |-> Paid(Fee(schedule, levels), Taken(Held(levels), requested, s), s)]

(* The closed form takes a level as Fill does. *)
LEMMA ClosedFills ==
  ASSUME NEW levels \in Seq(BookLevel), NEW schedule, schedule.rate \in Nat, NEW requested \in Nat,
         NEW s \in SUBSET DOMAIN levels, s # {}
  PROVE  Closed(schedule, requested, levels, s)
           = Fill(schedule, levels[Max(s)], Closed(schedule, requested, levels, Others(s)))
<1> DEFINE S == DOMAIN levels
           p == Max(s)
           r == Others(s)
           cap == Held(levels)
           gross == Gross(levels)
           fee == Fee(schedule, levels)
           t(u) == Taken(cap, requested, u)
           left(u) == Left(cap, requested, u)
<1>1. /\ Positions(S) /\ IsFiniteSet(S) /\ cap \in [S -> Nat]
      /\ gross \in [S -> [Nat -> Int]] /\ fee \in [S -> [Nat -> Int]] /\ s \in SUBSET S
  BY LevelsTyped
<1>2. /\ p \in s /\ r \in SUBSET S /\ t(s)[p] = Smaller(cap[p], left(r))
      /\ left(s) = left(r) - t(s)[p]
  <2> HIDE DEF S, cap, gross, fee
  <2>1. /\ Max(s) \in s /\ Others(s) \in SUBSET S
        /\ Taken(cap, requested, s)[Max(s)] = Smaller(cap[Max(s)], Left(cap, requested, Others(s)))
        /\ Left(cap, requested, s)
             = Left(cap, requested, Others(s)) - Taken(cap, requested, s)[Max(s)]
    <3>1. Positions(S) /\ IsFiniteSet(S) /\ cap \in [S -> Nat] /\ s \in SUBSET S
      BY <1>1
    <3> HIDE DEF t, left, p, r
    <3> QED BY <3>1, TakenAtLast
  <2> QED BY <2>1
<1>3. /\ Paid(gross, t(s), s) = gross[p][t(s)[p]] + Paid(gross, t(r), r)
      /\ Paid(gross, t(r), r) \in Int
  <2> HIDE DEF S, cap, gross
  <2> QED BY <1>1, PaidAtLast
<1>4. /\ Paid(fee, t(s), s) = fee[p][t(s)[p]] + Paid(fee, t(r), r)
      /\ Paid(fee, t(r), r) \in Int
  <2> HIDE DEF S, cap, fee
  <2> QED BY <1>1, PaidAtLast
<1>5. left(r) \in Nat /\ cap[p] \in Nat
  <2> HIDE DEF S, cap
  <2> QED BY <1>1, <1>2, TakenTyped
<1>6. t(s)[p] = Lesser(levels[p].quantity, left(r)) /\ t(s)[p] \in Nat
  <2>1. cap[p] = levels[p].quantity
    BY <1>2 DEF Held
  <2> HIDE DEF t, left, cap, p, r
  <2> QED BY <1>2, <1>5, <2>1 DEF Smaller, Lesser
<1> DEFINE q == t(s)[p]
<1>7. /\ gross[p][q] = levels[p].price * q * Cent
      /\ fee[p][q] = QuoteFee(schedule, q, levels[p].price)
  <2> HIDE DEF t, p
  <2> QED BY <1>2, <1>6 DEF Gross, Fee
<1>8. levels[p].price \in Nat /\ levels[p].price <= 100
  <2>1. levels[p] \in BookLevel
    BY <1>2
  <2> QED BY <2>1, LevelFacts
<1>9. CASE left(r) = 0
  <2>1. q = 0
    <3> HIDE DEF t, left, cap, p, r
    <3> QED BY <1>2, <1>5, <1>9 DEF Smaller
  <2>2. levels[p].price * 0 * Cent = 0 /\ QuoteFee(schedule, 0, levels[p].price) = 0
    <3> HIDE DEF p
    <3>1. QuoteFee(schedule, 0, levels[p].price) = 0
      BY <1>8, FeeTyped
    <3>2. \A n \in Nat : n * 0 * Cent = 0
      BY DEF Cent
    <3> QED BY <1>8, <3>1, <3>2
  <2> HIDE DEF q
  <2>3. /\ Paid(gross, t(s), s) = Paid(gross, t(r), r) /\ Paid(fee, t(s), s) = Paid(fee, t(r), r)
        /\ left(s) = left(r)
    <3> HIDE DEF p, t, r, gross, fee, left
    <3> QED BY <1>2, <1>3, <1>4, <1>5, <1>7, <1>9, <2>1, <2>2 DEF q
  <2> QED BY <1>9, <2>3 DEF Closed, Fill
<1>10. CASE left(r) # 0
  <2> DEFINE c == Closed(schedule, requested, levels, r)
  <2>1. c.remaining = left(r) /\ c.gross = Paid(gross, t(r), r) /\ c.fee = Paid(fee, t(r), r)
    BY DEF Closed
  <2>2. Fill(schedule, levels[p], c)
          = [remaining |-> left(r) - q, gross |-> Paid(gross, t(r), r) + gross[p][q],
             fee |-> Paid(fee, t(r), r) + fee[p][q]]
    <3> HIDE DEF c, t, left, gross, fee, p, r
    <3> QED BY <1>6, <1>7, <1>10, <2>1 DEF Fill, q
  <2>3. gross[p][q] \in Int /\ fee[p][q] \in Int
    <3> HIDE DEF gross, fee, q, p, S
    <3> QED BY <1>1, <1>2, <1>6 DEF q
  <2>4. /\ left(s) = left(r) - q /\ Paid(gross, t(s), s) = Paid(gross, t(r), r) + gross[p][q]
        /\ Paid(fee, t(s), s) = Paid(fee, t(r), r) + fee[p][q]
    <3> HIDE DEF gross, fee, p, r, t, left
    <3> QED BY <1>2, <1>3, <1>4, <2>3 DEF q
  <2> QED BY <2>2, <2>4 DEF Closed
<1> QED BY <1>9, <1>10

(* The recursion behind a walk. *)
NotWalked(requested) == [remaining |-> requested, gross |-> 0, fee |-> 0]

WalkedTo(walked, schedule, requested, levels, s) ==
  IF s = {} THEN NotWalked(requested)
  ELSE Fill(schedule, levels[Max(s)], walked[Others(s)])

Walks(walked, schedule, requested, levels) ==
  walked = [s \in SUBSET DOMAIN levels |-> WalkedTo(walked, schedule, requested, levels, s)]

(* The walk takes the levels before the last one first (simulate_depth). *)
LEMMA WalkIsRecursive ==
  ASSUME NEW levels, NEW schedule, NEW requested
  PROVE  Walk(schedule, requested, levels)
           = (CHOOSE walked : Walks(walked, schedule, requested, levels))[DOMAIN levels]
BY DEF Walk, FoldLeft, MapThenFoldSet, Walks, WalkedTo, NotWalked, Others

(* The walk is its closed form. *)
LEMMA WalkIsClosed ==
  ASSUME NEW levels \in Seq(BookLevel), NEW schedule, schedule.rate \in Nat, NEW requested \in Nat
  PROVE  Walk(schedule, requested, levels) = Closed(schedule, requested, levels, DOMAIN levels)
<1> DEFINE S == DOMAIN levels
           c(s) == Closed(schedule, requested, levels, s)
           F == [s \in SUBSET S |-> c(s)]
<1>1. c({}) = NotWalked(requested)
  BY NothingTaken DEF Closed, NotWalked
<1>2. \A s \in SUBSET S : s # {} => /\ c(s) = Fill(schedule, levels[Max(s)], c(Others(s)))
                                    /\ Others(s) \in SUBSET S
  BY ClosedFills DEF Others
<1> HIDE DEF c
<1>3. Walks(F, schedule, requested, levels)
  <2>1. \A s \in SUBSET S : c(s) = WalkedTo(F, schedule, requested, levels, s)
    <3>1. ASSUME NEW s \in SUBSET S, s # {}
          PROVE  c(s) = Fill(schedule, levels[Max(s)], F[Others(s)])
      BY <1>2, <3>1
    <3> HIDE DEF F
    <3> QED BY <1>1, <3>1 DEF WalkedTo
  <2> QED BY <2>1 DEF Walks
<1> DEFINE walked == CHOOSE w : Walks(w, schedule, requested, levels)
<1>4. Walks(walked, schedule, requested, levels)
  <2> HIDE DEF F
  <2> QED BY <1>3
<1>5. Walk(schedule, requested, levels) = walked[S]
  BY WalkIsRecursive
<1> HIDE DEF walked
<1> DEFINE T == {s \in SUBSET S : walked[s] # c(s)}
<1> SUFFICES ASSUME S \in T PROVE FALSE
  BY <1>5 DEF c
<1>6. PICK s \in T : \A v \in T : v \subseteq s => v = s
  <2>1. T \subseteq SUBSET S /\ T # {} /\ IsFiniteSet(S)
    BY LevelsTyped
  <2> HIDE DEF T, S
  <2> QED BY <2>1, MinimalSubset
<1>7. s \in SUBSET S /\ walked[s] # c(s)
  OBVIOUS
<1>8. walked[s] = WalkedTo(walked, schedule, requested, levels, s)
  BY <1>4, <1>7 DEF Walks
<1>9. s # {}
  <2> HIDE DEF T
  <2> QED BY <1>1, <1>7, <1>8 DEF WalkedTo
<1>10. Max(s) \in s /\ Others(s) = s \ {Max(s)}
  <2>1. Positions(S) /\ IsFiniteSet(S)
    BY LevelsTyped
  <2>2. Positions(s) /\ IsFiniteSet(s)
    BY <1>7, <2>1, FS_Subset DEF Positions
  <2> QED BY <1>9, <2>2, MaxIsGreatest DEF Others
<1>11. walked[Others(s)] = c(Others(s))
  <2>1. Others(s) \in SUBSET S /\ Others(s) \subseteq s /\ Others(s) # s
    BY <1>7, <1>10
  <2>2. Others(s) \notin T
    BY <1>6, <2>1
  <2> QED BY <2>1, <2>2
<1> HIDE DEF T
<1> QED BY <1>2, <1>7, <1>8, <1>9, <1>11 DEF WalkedTo

(* What taking from a level costs with fees and buffers. *)
Costs(levels, schedule) ==
  [i \in DOMAIN levels |-> [q \in Nat |->
     (Scale + ThePolicy.slippage) * (levels[i].price * q * Cent)
       + (Scale + ThePolicy.fee_buffer) * QuoteFee(schedule, q, levels[i].price)]]

(* A cost is a natural number, and what is not taken costs nothing. *)
LEMMA CostsTyped ==
  ASSUME NEW levels \in Seq(BookLevel), NEW schedule, schedule.rate \in Nat
  PROVE  /\ Costs(levels, schedule) \in [DOMAIN levels -> [Nat -> Int]]
         /\ \A i \in DOMAIN levels : /\ Costs(levels, schedule)[i] \in [Nat -> Nat]
                                     /\ Costs(levels, schedule)[i][0] = 0
<1>1. ASSUME NEW i \in DOMAIN levels, NEW q \in Nat
      PROVE  /\ levels[i].price \in Nat /\ levels[i].price * q * Cent \in Nat
             /\ QuoteFee(schedule, q, levels[i].price) \in Nat
             /\ QuoteFee(schedule, 0, levels[i].price) = 0
  <2>1. levels[i].price \in Nat /\ levels[i].price <= 100
    <3>1. levels[i] \in BookLevel
      OBVIOUS
    <3> QED BY <3>1, LevelFacts
  <2>2. levels[i].price * q \in Nat
    BY <2>1, ProductNatural
  <2>3. QuoteFee(schedule, q, levels[i].price) \in Nat /\ QuoteFee(schedule, 0, levels[i].price) = 0
    BY <2>1, FeeTyped
  <2> QED BY <2>1, <2>2, <2>3 DEF Cent
<1>2. ThePolicy.slippage = 1 /\ ThePolicy.fee_buffer = 50
  BY DEF ThePolicy
<1>3. \A a, b \in Nat : (Scale + 1) * a + (Scale + 50) * b \in Nat
  BY DEF Scale
<1>4. \A i \in DOMAIN levels, q \in Nat : Costs(levels, schedule)[i][q] \in Nat
  BY <1>1, <1>2, <1>3 DEF Costs
<1>5. \A i \in DOMAIN levels : Costs(levels, schedule)[i][0] = 0
  <2>1. \A n \in Nat : (Scale + 1) * (n * 0 * Cent) + (Scale + 50) * 0 = 0
    BY DEF Scale, Cent
  <2> QED BY <1>1, <1>2, <2>1 DEF Costs
<1>6. /\ DOMAIN Costs(levels, schedule) = DOMAIN levels
      /\ \A i \in DOMAIN levels : /\ DOMAIN Costs(levels, schedule)[i] = Nat
                                  /\ Costs(levels, schedule)[i] =
                                       [q \in Nat |-> Costs(levels, schedule)[i][q]]
      /\ Costs(levels, schedule) = [i \in DOMAIN levels |-> Costs(levels, schedule)[i]]
  BY DEF Costs
<1> DEFINE c == Costs(levels, schedule)
<1> HIDE DEF c
<1>7. /\ \A i \in DOMAIN levels : c[i] = [q \in Nat |-> c[i][q]]
      /\ c = [i \in DOMAIN levels |-> c[i]]
      /\ \A i \in DOMAIN levels, q \in Nat : c[i][q] \in Nat
      /\ \A i \in DOMAIN levels : c[i][0] = 0
  BY <1>4, <1>5, <1>6 DEF c
<1>8. \A i \in DOMAIN levels : c[i] \in [Nat -> Nat] /\ c[i] \in [Nat -> Int]
  <2>1. ASSUME NEW i \in DOMAIN levels PROVE c[i] \in [Nat -> Nat] /\ c[i] \in [Nat -> Int]
    <3>1. c[i] = [q \in Nat |-> c[i][q]] /\ \A q \in Nat : c[i][q] \in Nat
      BY <1>7
    <3> QED BY <3>1
  <2> QED BY <2>1
<1>9. c \in [DOMAIN levels -> [Nat -> Int]]
  BY <1>7, <1>8
<1> QED BY <1>7, <1>8, <1>9 DEF c

(* A split of the reference costs what is paid for it. *)
LEMMA SplitCostIsPaid ==
  ASSUME NEW levels \in Seq(BookLevel), NEW schedule, schedule.rate \in Nat,
         NEW split \in [DOMAIN levels -> Nat]
  PROVE  SplitCost(levels, split, schedule, ThePolicy)
           = Paid(Costs(levels, schedule), split, DOMAIN levels)
<1> DEFINE S == DOMAIN levels
           f == [i \in S |-> Costs(levels, schedule)[i][split[i]]]
           P(g) == g = [s \in SUBSET S |-> IF s = {} THEN 0
                          ELSE LevelCost(levels[Some(s)], split[Some(s)], schedule, ThePolicy)
                                 + g[s \ {Some(s)}]]
<1>1. \A i \in S : LevelCost(levels[i], split[i], schedule, ThePolicy) = f[i]
  <2>1. ASSUME NEW i \in S
        PROVE  LevelCost(levels[i], split[i], schedule, ThePolicy) = f[i]
    <3>1. /\ split[i] \in Nat /\ levels[i].price \in Nat
          /\ ThePolicy.slippage = 1 /\ ThePolicy.fee_buffer = 50
      <4>1. levels[i] \in BookLevel
        OBVIOUS
      <4> QED BY <4>1, LevelFacts DEF ThePolicy
    <3>2. CASE split[i] = 0
      <4>1. Costs(levels, schedule)[i][0] = 0
        BY CostsTyped
      <4>2. f[i] = 0
        BY <3>2, <4>1
      <4> HIDE DEF f
      <4> QED BY <3>2, <4>2 DEF LevelCost
    <3>3. CASE split[i] # 0
      <4>1. f[i] = (Scale + 1) * (levels[i].price * split[i] * Cent)
                     + (Scale + 50) * QuoteFee(schedule, split[i], levels[i].price)
        BY <3>1 DEF Costs
      <4>2. \A p, q \in Nat : (Scale + 1) * (p * q * Cent) = (Scale + 1) * p * q * Cent
        BY DEF Scale, Cent
      <4>3. LevelCost(levels[i], split[i], schedule, ThePolicy)
              = (Scale + 1) * levels[i].price * split[i] * Cent
                  + (Scale + 50) * QuoteFee(schedule, split[i], levels[i].price)
        BY <3>1, <3>3 DEF LevelCost
      <4> HIDE DEF f
      <4> QED BY <3>1, <4>1, <4>2, <4>3
    <3> QED BY <3>2, <3>3
  <2> QED BY <2>1
<1>2. \A g : P(g) <=> SumsUp(f, S, g)
  <2>1. ASSUME NEW s \in SUBSET S, NEW g
        PROVE  Unfolded(f, g, s) = IF s = {} THEN 0
                 ELSE LevelCost(levels[Some(s)], split[Some(s)], schedule, ThePolicy)
                        + g[s \ {Some(s)}]
    <3>1. s # {} => Some(s) \in S
      BY SomeIsIn
    <3> HIDE DEF f
    <3> QED BY <1>1, <3>1 DEF Unfolded
  <2> HIDE DEF f
  <2> QED BY <2>1 DEF SumsUp
<1>3. SplitCost(levels, split, schedule, ThePolicy) = (CHOOSE g : P(g))[S]
  BY DEF SplitCost, MapThenSumSet, MapThenFoldSet, Some
<1>4. (CHOOSE g : P(g)) = Partial(f, S)
  <2> HIDE DEF P, f, S
  <2> QED BY <1>2 DEF Partial
<1> HIDE DEF P
<1> QED BY <1>3, <1>4, SumIsPartial DEF Paid

(* Nothing is filled from an empty side. *)
LEMMA WalkOfNothing ==
  ASSUME NEW schedule, NEW requested, NEW levels, DOMAIN levels = {}
  PROVE  Walk(schedule, requested, levels) = NotWalked(requested)
<1> DEFINE F == [s \in SUBSET DOMAIN levels |-> NotWalked(requested)]
<1>1. \A s \in SUBSET DOMAIN levels : s = {}
  OBVIOUS
<1>2. Walks(F, schedule, requested, levels)
  BY <1>1 DEF Walks, WalkedTo
<1> DEFINE walked == CHOOSE w : Walks(w, schedule, requested, levels)
<1>3. Walks(walked, schedule, requested, levels)
  <2> HIDE DEF F
  <2> QED BY <1>2
<1>4. Walk(schedule, requested, levels) = walked[DOMAIN levels]
  BY WalkIsRecursive
<1> HIDE DEF walked
<1> QED BY <1>1, <1>3, <1>4 DEF Walks, WalkedTo

(* Every ask is within the limit of a purchase, one USDC. *)
LEMMA AllAsksEligible ==
  ASSUME NEW book, book.asks \in Seq(BookLevel)
  PROVE  EligibleLevels(book, "BUY", 100) = book.asks
<1> DEFINE asks == book.asks
<1>1. {i \in DOMAIN asks : asks[i].price <= 100} = 1..Len(asks)
  <2>1. \A i \in DOMAIN asks : asks[i].price <= 100
    <3>1. \A i \in DOMAIN asks : asks[i] \in BookLevel
      OBVIOUS
    <3> QED BY <3>1, LevelFacts
  <2> QED BY <2>1
<1>2. Cardinality(1..Len(asks)) = Len(asks)
  BY FS_Interval
<1>3. SubSeq(asks, 1, Len(asks)) = asks
  OBVIOUS
<1> QED BY <1>1, <1>2, <1>3 DEF EligibleLevels

(* Costs of 1001 per mille of the gross and 1050 of the fees add up. *)
LEMMA CostsAdd ==
  ASSUME NEW S, IsFiniteSet(S), NEW gross, NEW fee, NEW cost,
         \A i \in S : gross[i] \in Int, \A i \in S : fee[i] \in Int,
         \A i \in S : cost[i] = 1001 * gross[i] + 1050 * fee[i]
  PROVE  SumFunctionOnSet(cost, S)
           = 1001 * SumFunctionOnSet(gross, S) + 1050 * SumFunctionOnSet(fee, S)
<1>1. 1001 \in Int /\ 1050 \in Int
  OBVIOUS
<1>2. \A i \in S : cost[i] = Multiples(1001, gross[i], 1050, fee[i])
  BY DEF Multiples
<1>3. SumFunctionOnSet(cost, S)
        = Multiples(1001, SumFunctionOnSet(gross, S), 1050, SumFunctionOnSet(fee, S))
  BY <1>1, <1>2, SumOfMultiples
<1> QED BY <1>3 DEF Multiples

(* A purchase that is filled in full was priced, paid the costs of taking the asks in
   order, and used up what was asked for (simulate_depth). *)
LEMMA FilledInOrder ==
  ASSUME NEW book, book.asks \in Seq(BookLevel), NEW schedule, schedule.rate \in Nat \cup {Missing},
         NEW requested \in Nat, requested # 0,
         FullyFilled(SimulateDepth(book, schedule, "BUY", requested, 100, ThePolicy))
  PROVE  /\ schedule.rate \in Nat
         /\ Left(Held(book.asks), requested, DOMAIN book.asks) = 0
         /\ SimulateDepth(book, schedule, "BUY", requested, 100, ThePolicy).all_in
              = Paid(Costs(book.asks, schedule),
                     Taken(Held(book.asks), requested, DOMAIN book.asks), DOMAIN book.asks)
<1> DEFINE asks == book.asks
           S == DOMAIN asks
           walk == Walk(schedule, requested, asks)
           simulation == SimulateDepth(book, schedule, "BUY", requested, 100, ThePolicy)
           cap == Held(asks)
           t == Taken(cap, requested, S)
<1>1. EligibleLevels(book, "BUY", 100) = asks
  BY AllAsksEligible
<1>2. /\ asks # <<>> => schedule.rate # Missing
      /\ simulation.filled = requested - walk.remaining
      /\ simulation.all_in = AllIn("BUY", walk, ThePolicy)
      /\ simulation.requested = requested
  <2> HIDE DEF walk, asks
  <2> QED BY <1>1 DEF SimulateDepth, FullyFilled, Priced, Unpriced, walk, asks
<1>3. simulation.filled = requested
  <2> HIDE DEF walk, asks, simulation
  <2> QED BY <1>2 DEF FullyFilled, simulation
<1>4. asks # <<>>
  <2> SUFFICES ASSUME asks = <<>> PROVE FALSE
    OBVIOUS
  <2>1. walk.remaining = requested
    <3>1. DOMAIN asks = {}
      OBVIOUS
    <3> QED BY <3>1, WalkOfNothing DEF NotWalked
  <2> HIDE DEF walk, simulation
  <2> QED BY <1>2, <1>3, <2>1
<1>5. schedule.rate \in Nat
  BY <1>2, <1>4
<1>6. walk = Closed(schedule, requested, asks, S)
  BY <1>5, WalkIsClosed
<1>7. /\ Positions(S) /\ IsFiniteSet(S) /\ cap \in [S -> Nat] /\ S \in SUBSET S
      /\ Gross(asks) \in [S -> [Nat -> Int]] /\ Fee(schedule, asks) \in [S -> [Nat -> Int]]
  BY <1>5, LevelsTyped
<1>8. Left(cap, requested, S) \in Nat /\ t \in [S -> Nat]
  <2> HIDE DEF S, cap
  <2> QED BY <1>7, TakenTyped
<1>9. Left(cap, requested, S) = 0
  <2>1. walk.remaining = Left(cap, requested, S)
    BY <1>6 DEF Closed
  <2> HIDE DEF walk, simulation, S, cap, asks
  <2> QED BY <1>2, <1>3, <1>8, <2>1
<1> DEFINE gross == [i \in S |-> Gross(asks)[i][t[i]]]
           fee == [i \in S |-> Fee(schedule, asks)[i][t[i]]]
           cost == [i \in S |-> Costs(asks, schedule)[i][t[i]]]
<1>10. \A i \in S : /\ gross[i] \in Int /\ fee[i] \in Int
                     /\ cost[i] = 1001 * gross[i] + 1050 * fee[i]
  <2>1. ASSUME NEW i \in S
        PROVE  /\ gross[i] \in Int /\ fee[i] \in Int
               /\ cost[i] = 1001 * gross[i] + 1050 * fee[i]
    <3>1. t[i] \in Nat
      <4> HIDE DEF t
      <4> QED BY <1>8
    <3> HIDE DEF t, asks
    <3>2. gross[i] \in Int /\ fee[i] \in Int
      BY <1>7, <3>1
    <3>3. Scale + ThePolicy.slippage = 1001 /\ Scale + ThePolicy.fee_buffer = 1050
      BY DEF Scale, ThePolicy
    <3>4. Costs(asks, schedule)[i][t[i]]
            = 1001 * Gross(asks)[i][t[i]] + 1050 * Fee(schedule, asks)[i][t[i]]
      BY <3>1, <3>3 DEF Costs, Gross, Fee
    <3> QED BY <3>2, <3>4
  <2> QED BY <2>1
<1>11. SumFunctionOnSet(cost, S)
         = 1001 * SumFunctionOnSet(gross, S) + 1050 * SumFunctionOnSet(fee, S)
  <2> HIDE DEF gross, fee, cost, S
  <2>1. IsFiniteSet(S) /\ (\A i \in S : gross[i] \in Int) /\ (\A i \in S : fee[i] \in Int)
    BY <1>7, <1>10
  <2>2. \A i \in S : cost[i] = 1001 * gross[i] + 1050 * fee[i]
    BY <1>10
  <2> QED BY <2>1, <2>2, CostsAdd
<1>12. SumFunctionOnSet(gross, S) \in Int /\ SumFunctionOnSet(fee, S) \in Int
  <2> HIDE DEF gross, fee, cost, S
  <2> QED BY <1>7, <1>10, SumTyped
<1>13. walk.gross = SumFunctionOnSet(gross, S) /\ walk.fee = SumFunctionOnSet(fee, S)
  BY <1>6 DEF Closed, Paid
<1>14. AllIn("BUY", walk, ThePolicy) = 1001 * walk.gross + 1050 * walk.fee
  <2>1. ThePolicy.slippage = 1 /\ ThePolicy.fee_buffer = 50
    BY DEF ThePolicy
  <2>2. walk.gross \in Int /\ walk.fee \in Int
    BY <1>12, <1>13
  <2> HIDE DEF walk
  <2> QED BY <2>1, <2>2 DEF AllIn, Scale
<1>15. simulation.all_in = SumFunctionOnSet(cost, S)
  <2> HIDE DEF simulation, cost, gross, fee, walk, S
  <2> QED BY <1>2, <1>11, <1>13, <1>14
<1> QED BY <1>5, <1>9, <1>15 DEF Paid

(* The ways to split a quantity over the levels. *)
LEMMA SplitsTyped ==
  ASSUME NEW levels \in Seq(BookLevel), NEW quantity \in Nat, NEW split \in Splits(levels, quantity)
  PROVE  /\ split \in [DOMAIN levels -> Nat] /\ Fits(Held(levels), split)
         /\ SumFunctionOnSet(split, DOMAIN levels) = quantity
<1>1. /\ split \in [DOMAIN levels -> 0..quantity]
      /\ \A i \in DOMAIN levels : split[i] <= levels[i].quantity
      /\ MapThenSumSet(LAMBDA i : split[i], DOMAIN levels) = quantity
  BY DEF Splits
<1>2. split \in [DOMAIN levels -> Nat]
  <2>1. \A n \in 0..quantity : n \in Nat
    OBVIOUS
  <2> QED BY <1>1, <2>1
<1>3. MapThenSumSet(LAMBDA i : split[i], DOMAIN levels) = SumFunctionOnSet(split, DOMAIN levels)
  BY DEF MapThenSumSet, SumFunctionOnSet, FoldFunctionOnSet, MapThenFoldSet
<1>4. Fits(Held(levels), split)
  BY <1>1 DEF Fits, Held
<1> QED BY <1>1, <1>2, <1>3, <1>4

(* Taking in order is one of them when it leaves nothing. *)
LEMMA TakenIsSplit ==
  ASSUME NEW levels \in Seq(BookLevel), NEW quantity \in Nat,
         Left(Held(levels), quantity, DOMAIN levels) = 0
  PROVE  Taken(Held(levels), quantity, DOMAIN levels) \in Splits(levels, quantity)
<1> DEFINE S == DOMAIN levels
           cap == Held(levels)
           t == Taken(cap, quantity, S)
<1>1. Positions(S) /\ IsFiniteSet(S) /\ cap \in [S -> Nat]
  <2>1. /\ S = 1..Len(levels) /\ Len(levels) \in Nat
        /\ \A i \in S : levels[i] \in BookLevel
    OBVIOUS
  <2>2. \A i \in S : levels[i].quantity \in Nat
    BY <2>1, LevelFacts
  <2>3. Positions(S)
    BY <2>1 DEF Positions
  <2>4. IsFiniteSet(S)
    BY <2>1, FS_Interval
  <2>5. cap \in [S -> Nat]
    BY <2>2 DEF Held
  <2> QED BY <2>3, <2>4, <2>5
<1>2. t \in [S -> Nat] /\ Fits(cap, t) /\ SumFunctionOnSet(t, S) = quantity
  <2> HIDE DEF S, cap
  <2>1. S \in SUBSET S
    OBVIOUS
  <2>2. t \in [S -> Nat]
    BY <1>1, <2>1, TakenTyped
  <2>3. Fits(cap, t)
    BY <1>1, TakenInOrder
  <2>4. SumFunctionOnSet(t, S) = quantity - Left(cap, quantity, S)
    BY <1>1, TakenSum
  <2>5. Left(cap, quantity, S) = 0
    BY DEF S, cap
  <2> QED BY <2>2, <2>3, <2>4, <2>5
<1>3. \A i \in S : t[i] \in 0..quantity
  <2>1. ASSUME NEW i \in S PROVE t[i] <= quantity
    <3> DEFINE b == {k \in S : k < i}
    <3>1. b \in SUBSET S
      OBVIOUS
    <3>2. SumFunctionOnSet(cap, b) \in Nat /\ Left(cap, quantity, b) \in Nat
      <4> HIDE DEF S, cap, b
      <4> QED BY <1>1, <3>1, TakenTyped
    <3>3. Left(cap, quantity, b) <= quantity
      <4> HIDE DEF b, cap
      <4> QED BY <3>2 DEF Left
    <3>4. t[i] = Smaller(cap[i], Left(cap, quantity, b)) /\ cap[i] \in Nat
      BY <1>1 DEF Taken
    <3> HIDE DEF t, b, cap, S
    <3> QED BY <3>2, <3>3, <3>4 DEF Smaller
  <2> HIDE DEF t, S
  <2> QED BY <1>2, <2>1
<1>4. MapThenSumSet(LAMBDA i : t[i], S) = SumFunctionOnSet(t, S)
  BY DEF MapThenSumSet, SumFunctionOnSet, FoldFunctionOnSet, MapThenFoldSet
<1>5. \A i \in S : t[i] <= levels[i].quantity
  <2> HIDE DEF t
  <2> QED BY <1>2 DEF Fits, Held
<1>6. t \in [S -> 0..quantity]
  <2> HIDE DEF t, S
  <2> QED BY <1>2, <1>3
<1> HIDE DEF t
<1>7. t \in Splits(levels, quantity)
  BY <1>2, <1>4, <1>5, <1>6 DEF Splits
<1> QED BY <1>7 DEF t

(* The cheapest way costs no more than any, and is one of them. *)
LEMMA CheapestIsLeast ==
  ASSUME NEW levels \in Seq(BookLevel), NEW schedule, schedule.rate \in Nat, NEW quantity \in Nat,
         Splits(levels, quantity) # {}
  PROVE  /\ \A split \in Splits(levels, quantity) :
              CheapestCost(levels, quantity, schedule, ThePolicy)
                <= Paid(Costs(levels, schedule), split, DOMAIN levels)
         /\ \E split \in Splits(levels, quantity) :
              CheapestCost(levels, quantity, schedule, ThePolicy)
                = Paid(Costs(levels, schedule), split, DOMAIN levels)
         /\ CheapestCost(levels, quantity, schedule, ThePolicy) \in Nat
<1> DEFINE ways == Splits(levels, quantity)
           c(split) == SplitCost(levels, split, schedule, ThePolicy)
           paid(split) == Paid(Costs(levels, schedule), split, DOMAIN levels)
<1>1. ASSUME NEW split \in ways PROVE c(split) = paid(split) /\ c(split) \in Nat
  <2>1. split \in [DOMAIN levels -> Nat]
    BY SplitsTyped
  <2>2. c(split) = paid(split)
    BY <2>1, SplitCostIsPaid
  <2> DEFINE f == [k \in DOMAIN levels |-> Costs(levels, schedule)[k][split[k]]]
  <2>3. \A k \in DOMAIN levels : f[k] \in Nat
    BY <2>1, CostsTyped
  <2>4. IsFiniteSet(DOMAIN levels)
    BY LevelsTyped
  <2>5. SumFunctionOnSet(f, DOMAIN levels) \in Nat
    <3> HIDE DEF f
    <3> QED BY <2>3, <2>4, SumTyped
  <2> QED BY <2>2, <2>5 DEF Paid
<1> HIDE DEF c, paid
<1> DEFINE T == {c(split) : split \in ways}
<1>2. T \subseteq Nat /\ T # {}
  BY <1>1
<1>3. Min(T) \in T /\ \A n \in T : Min(T) <= n
  <2> HIDE DEF T
  <2> QED BY <1>2, MinIsLeast
<1>4. CheapestCost(levels, quantity, schedule, ThePolicy) = Min(T)
  BY DEF CheapestCost, c
<1> DEFINE m == Min(T)
<1>5. m \in T /\ m \in Nat /\ \A split \in ways : m <= c(split)
  <2> HIDE DEF m
  <2>1. m \in T /\ \A n \in T : m <= n
    BY <1>3 DEF m
  <2>2. \A split \in ways : c(split) \in T
    OBVIOUS
  <2> HIDE DEF T
  <2> QED BY <1>2, <2>1, <2>2
<1>6. PICK best \in ways : m = c(best)
  <2> HIDE DEF m
  <2> QED BY <1>5
<1> HIDE DEF m, T, ways
<1>7. /\ \A split \in ways : m <= paid(split)
      /\ \E split \in ways : m = paid(split)
      /\ m \in Nat
  BY <1>1, <1>5, <1>6
<1> QED BY <1>4, <1>7 DEF m, paid, ways

(* A purchase that is filled in full can be made, for no less than the cheapest. *)
LEMMA FilledIsPossible ==
  ASSUME NEW book, book.asks \in Seq(BookLevel), NEW schedule, schedule.rate \in Nat \cup {Missing},
         NEW requested \in Nat, requested # 0,
         FullyFilled(SimulateDepth(book, schedule, "BUY", requested, 100, ThePolicy))
  PROVE  /\ Splits(book.asks, requested) # {}
         /\ CheapestCost(book.asks, requested, schedule, ThePolicy) \in Nat
         /\ SimulateDepth(book, schedule, "BUY", requested, 100, ThePolicy).all_in \in Int
         /\ CheapestCost(book.asks, requested, schedule, ThePolicy)
              <= SimulateDepth(book, schedule, "BUY", requested, 100, ThePolicy).all_in
<1> DEFINE asks == book.asks
           t == Taken(Held(asks), requested, DOMAIN asks)
           paid == Paid(Costs(asks, schedule), t, DOMAIN asks)
<1>1. /\ schedule.rate \in Nat /\ Left(Held(asks), requested, DOMAIN asks) = 0
      /\ SimulateDepth(book, schedule, "BUY", requested, 100, ThePolicy).all_in = paid
  BY FilledInOrder
<1>2. t \in Splits(asks, requested)
  BY <1>1, TakenIsSplit
<1>3. paid \in Int
  <2>1. t \in [DOMAIN asks -> Nat]
    <3> HIDE DEF t
    <3> QED BY <1>2, SplitsTyped
  <2>2. IsFiniteSet(DOMAIN asks) /\ Costs(asks, schedule) \in [DOMAIN asks -> [Nat -> Int]]
    BY <1>1, LevelsTyped, CostsTyped
  <2> HIDE DEF t
  <2> QED BY <2>1, <2>2, PaidTyped
<1> HIDE DEF t
<1>4. /\ CheapestCost(asks, requested, schedule, ThePolicy) <= paid
      /\ CheapestCost(asks, requested, schedule, ThePolicy) \in Nat
  BY <1>1, <1>2, CheapestIsLeast
<1> QED BY <1>1, <1>2, <1>3, <1>4

(* The decision an evaluation records, of the inputs as they are. *)
Decided(execution) ==
  [assessment |-> Assess(Signal), execution |-> execution,
   gates |-> DecisionAudit(Assess(Signal), execution),
   impact |-> DiagnosticImpact(Assess(Signal)), structural |-> EvaluateStructural]

Book ==
  [condition_id : {Condition}, token_id : Sides, asks : Seq(BookLevel), bids : Seq(BookLevel),
   minimum_order_size : Nat \ {0}, source_age : Int \cup {Missing}, recv_age : Nat]

Schedule ==
  [condition_id : {Condition}, mode : {"bps", "dynamic"}, rate : Nat \cup {Missing}, age : Nat]

InputsTyped ==
  /\ observed_at \in Nat
  /\ books \in [Sides -> Book \cup {Missing}] /\ fees \in [Sides -> Schedule \cup {Missing}]
  /\ \A s \in Sides : books[s] # Missing => books[s].token_id = s
  /\ features \in Features \cup {Missing} /\ ptb \in BOOLEAN
  /\ forecast # Missing => forecast.p_up \in 0..100

DecisionIsCurrent ==
  decision # Missing =>
    \E execution \in Executions :
      /\ decision = Decided(execution)
      /\ execution # NotExecuted => Assess(Signal).action = "TRADE" /\ GovernancePermits

(* An evaluation does not change what it was made of. *)
LEMMA DecidedStays ==
  ASSUME UNCHANGED <<observed_at, books, fees, features, ptb, forecast>>
  PROVE  /\ \A execution : Decided(execution)' = Decided(execution)
         /\ Assess(Signal)' = Assess(Signal) /\ GovernancePermits' = GovernancePermits
<1> USE DEF Condition
<1>1. MinimumSize' = MinimumSize
  BY DEF MinimumSize
<1>2. \A s : Simulated(s)' = Simulated(s)
  BY <1>1 DEF Simulated, ThePolicy
<1>3. DirectionalPricing' = DirectionalPricing
  BY <1>2 DEF DirectionalPricing
<1>4. \A s, pricing : NetEdge(s, pricing)' = NetEdge(s, pricing)
  BY DEF NetEdge, Probability
<1>5. AssessEdge' = AssessEdge
  BY <1>3, <1>4 DEF AssessEdge, ChosenPricing
<1>6. \A signal : Assess(signal)' = Assess(signal)
  BY <1>5 DEF Assess
<1>7. Signal' = Signal /\ DiagnosticSignal' = DiagnosticSignal
  BY DEF Signal, DiagnosticSignal
<1>8. Assess(Signal)' = Assess(Signal) /\ Assess(DiagnosticSignal)' = Assess(DiagnosticSignal)
  BY <1>6, <1>7
<1>9. \A a : DiagnosticImpact(a)' = DiagnosticImpact(a)
  BY <1>8 DEF DiagnosticImpact
<1>10. PairFault' = PairFault
  BY DEF PairFault
<1>11. \A action : ScanCompleteSet(action)' = ScanCompleteSet(action)
  BY <1>1, <1>10 DEF ScanCompleteSet, ThePolicy
<1>12. EvaluateStructural' = EvaluateStructural
  BY <1>1, <1>11 DEF EvaluateStructural
<1>13. \A execution : Decided(execution)' = Decided(execution)
  BY <1>8, <1>9, <1>12 DEF Decided
<1>14. GovernancePermits' = GovernancePermits
  BY DEF GovernancePermits
<1> QED BY <1>8, <1>13, <1>14

(* The inputs keep their types. *)
LEMMA InputsTypedNext ==
  ASSUME InputsTyped, [DecisionNext]_decision_vars
  PROVE  InputsTyped'
<1>1. CASE UNCHANGED decision_vars
  BY <1>1 DEF decision_vars, InputsTyped
<1>2. CASE \E execution \in Executions : Evaluate(execution)
  BY <1>2 DEF Evaluate, InputsTyped
<1>3. ASSUME NEW side \in Sides, NEW snapshot \in BookSnapshots, ReceiveBook(side, snapshot)
      PROVE  InputsTyped'
  <2> DEFINE book == [condition_id |-> Condition, token_id |-> side, asks |-> snapshot.asks,
                      bids |-> snapshot.bids,
                      minimum_order_size |-> snapshot.minimum_order_size,
                      source_age |-> snapshot.source_age, recv_age |-> 0]
  <2>1. snapshot \in [asks : Seq(BookLevel), bids : Seq(BookLevel),
                      minimum_order_size : Nat \ {0}, source_age : Int \cup {Missing}]
    BY DecisionConstants
  <2>2. book \in Book /\ book.token_id = side
    BY <2>1 DEF Book
  <2>3. books' = [books EXCEPT ![side] = book]
    BY <1>3 DEF ReceiveBook
  <2>4. UNCHANGED <<observed_at, fees, features, ptb, forecast>>
    BY <1>3 DEF ReceiveBook
  <2> HIDE DEF book
  <2>5. /\ books' \in [Sides -> Book \cup {Missing}]
        /\ \A s \in Sides : (books[s])' # Missing => (books[s])'.token_id = s
    BY <2>2, <2>3 DEF InputsTyped
  <2> QED BY <2>4, <2>5 DEF InputsTyped
<1>4. ASSUME NEW fee \in FeeModes, ReceiveFees(fee) PROVE InputsTyped'
  <2>1. fee \in [mode : {"bps", "dynamic"}, rate : Nat \cup {Missing}]
    BY DecisionConstants
  <2>2. [condition_id |-> Condition, mode |-> fee.mode, rate |-> fee.rate, age |-> 0] \in Schedule
    BY <2>1 DEF Schedule
  <2>3. fees' \in [Sides -> Schedule \cup {Missing}]
    BY <1>4, <2>2 DEF ReceiveFees
  <2> QED BY <1>4, <2>3 DEF ReceiveFees, InputsTyped
<1>5. ASSUME NEW input \in Inputs, BuildFeatures(input) PROVE InputsTyped'
  <2>1. /\ features' \in Features \cup {Missing} /\ ptb' \in BOOLEAN
        /\ forecast' # Missing => forecast'.p_up \in 0..100
    BY <1>5, DecisionConstants DEF BuildFeatures
  <2> QED BY <1>5, <2>1 DEF BuildFeatures, InputsTyped
<1>6. CASE TimePasses
  <2>1. \A age \in Int \cup {Missing} : Older(age) \in Int \cup {Missing}
    BY DecisionConstants DEF Older
  <2>2. \A age \in Nat : Older(age) \in Nat
    BY DecisionConstants DEF Older
  <2>3. \A b \in Book :
          /\ [b EXCEPT !.source_age = Older(@), !.recv_age = Older(@)] \in Book
          /\ [b EXCEPT !.source_age = Older(@), !.recv_age = Older(@)].token_id = b.token_id
    BY <2>1, <2>2 DEF Book
  <2>4. \A f \in Schedule : [f EXCEPT !.age = Older(@)] \in Schedule
    BY <2>2 DEF Schedule
  <2>5. /\ books' \in [Sides -> Book \cup {Missing}]
        /\ \A s \in Sides : (books[s])' # Missing => (books[s])'.token_id = s
    <3> DEFINE aged(b) == [b EXCEPT !.source_age = Older(@), !.recv_age = Older(@)]
    <3>1. books' = [s \in Sides |-> IF books[s] = Missing THEN Missing ELSE aged(books[s])]
      BY <1>6 DEF TimePasses
    <3>2. \A b \in Book : aged(b) \in Book /\ aged(b).token_id = b.token_id
      BY <2>3
    <3>3. /\ books \in [Sides -> Book \cup {Missing}]
          /\ \A s \in Sides : books[s] # Missing => books[s].token_id = s
      BY DEF InputsTyped
    <3> HIDE DEF aged
    <3> QED BY <3>1, <3>2, <3>3
  <2>6. fees' \in [Sides -> Schedule \cup {Missing}]
    <3> DEFINE aged(f) == [f EXCEPT !.age = Older(@)]
    <3>1. fees' = [s \in Sides |-> IF fees[s] = Missing THEN Missing ELSE aged(fees[s])]
      BY <1>6 DEF TimePasses
    <3>2. \A f \in Schedule : aged(f) \in Schedule
      BY <2>4
    <3>3. fees \in [Sides -> Schedule \cup {Missing}]
      BY DEF InputsTyped
    <3> HIDE DEF aged
    <3> QED BY <3>1, <3>2, <3>3
  <2>7. observed_at' \in Nat /\ UNCHANGED <<features, ptb, forecast>>
    <3>1. observed_at \in Nat
      BY DEF InputsTyped
    <3>2. observed_at' = observed_at + 1 /\ UNCHANGED <<features, ptb, forecast>>
      BY <1>6 DEF TimePasses
    <3> QED BY <3>1, <3>2
  <2> QED BY <2>5, <2>6, <2>7 DEF InputsTyped
<1> QED BY <1>1, <1>2, <1>3, <1>4, <1>5, <1>6 DEF DecisionNext

(* A decision is of the inputs as they are: whatever changes an input clears it. *)
LEMMA DecisionIsCurrentNext ==
  ASSUME DecisionIsCurrent, [DecisionNext]_decision_vars
  PROVE  DecisionIsCurrent'
<1>1. CASE UNCHANGED decision_vars
  <2>1. UNCHANGED <<observed_at, books, fees, features, ptb, forecast, decision>>
    BY <1>1 DEF decision_vars
  <2>2. /\ \A execution : Decided(execution)' = Decided(execution)
        /\ Assess(Signal)' = Assess(Signal) /\ GovernancePermits' = GovernancePermits
    BY <2>1, DecidedStays
  <2> SUFFICES ASSUME decision' # Missing
               PROVE  \E execution \in Executions :
                        /\ decision' = Decided(execution)'
                        /\ execution # NotExecuted =>
                             Assess(Signal)'.action = "TRADE" /\ GovernancePermits'
    BY DEF DecisionIsCurrent, Executions, NotExecuted
  <2> QED BY <2>1, <2>2 DEF DecisionIsCurrent
<1>2. ASSUME NEW execution \in Executions, Evaluate(execution) PROVE DecisionIsCurrent'
  <2>1. UNCHANGED <<observed_at, books, fees, features, ptb, forecast>>
    BY <1>2 DEF Evaluate
  <2>2. /\ Decided(execution)' = Decided(execution)
        /\ Assess(Signal)' = Assess(Signal) /\ GovernancePermits' = GovernancePermits
    BY <2>1, DecidedStays
  <2>3. /\ decision' = Decided(execution)
        /\ execution # NotExecuted => Assess(Signal).action = "TRADE" /\ GovernancePermits
    BY <1>2 DEF Evaluate, Decided
  <2> QED BY <2>2, <2>3 DEF DecisionIsCurrent, Executions, NotExecuted
<1>3. CASE decision' = Missing
  BY <1>3 DEF DecisionIsCurrent
<1> QED
  BY <1>1, <1>2, <1>3 DEF DecisionNext, ReceiveBook, ReceiveFees, BuildFeatures, TimePasses

(* The decisions keep both. *)
THEOREM DecisionsAreCurrent ==
  DecisionSpec => [](InputsTyped /\ DecisionIsCurrent)
<1>1. DecisionInit => InputsTyped /\ DecisionIsCurrent
  <2> SUFFICES ASSUME DecisionInit PROVE InputsTyped /\ DecisionIsCurrent
    OBVIOUS
  <2>1. /\ books \in [Sides -> Book \cup {Missing}] /\ fees \in [Sides -> Schedule \cup {Missing}]
        /\ \A s \in Sides : books[s] = Missing
        /\ observed_at \in Nat /\ features = Missing /\ forecast = Missing /\ decision = Missing
    BY DEF DecisionInit
  <2>2. ptb \in BOOLEAN
    BY DEF DecisionInit
  <2> QED BY <2>1, <2>2 DEF InputsTyped, DecisionIsCurrent
<1>2. InputsTyped /\ DecisionIsCurrent /\ [DecisionNext]_decision_vars
        => InputsTyped' /\ DecisionIsCurrent'
  BY InputsTypedNext, DecisionIsCurrentNext
<1> QED BY <1>1, <1>2, PTL DEF DecisionSpec

(* What is known of a side that can be simulated. *)
LEMMA SideTyped ==
  ASSUME InputsTyped, NEW s \in Sides, books[s] # Missing, fees[s] # Missing
  PROVE  /\ books[s].asks \in Seq(BookLevel) /\ books[s].minimum_order_size \in Nat
         /\ books[s].minimum_order_size # 0 /\ books[s].token_id = s
         /\ books[s].condition_id = Condition /\ books[s].recv_age \in Nat
         /\ books[s].source_age \in Int \cup {Missing}
         /\ fees[s].rate \in Nat \cup {Missing} /\ fees[s].mode \in {"bps", "dynamic"}
         /\ fees[s].condition_id = Condition /\ fees[s].age \in Nat
<1>1. books[s] \in Book /\ books[s].token_id = s /\ fees[s] \in Schedule
  BY DEF InputsTyped
<1>2. /\ books[s].asks \in Seq(BookLevel) /\ books[s].minimum_order_size \in Nat \ {0}
      /\ books[s].condition_id = Condition /\ books[s].recv_age \in Nat
      /\ books[s].source_age \in Int \cup {Missing}
  BY <1>1 DEF Book
<1>3. /\ fees[s].rate \in Nat \cup {Missing} /\ fees[s].mode \in {"bps", "dynamic"}
      /\ fees[s].condition_id = Condition /\ fees[s].age \in Nat
  BY <1>1 DEF Schedule
<1> QED BY <1>1, <1>2, <1>3

(* A quantity is asked for: the larger of the two minimum order sizes. *)
LEMMA MinimumSizeTyped ==
  ASSUME InputsTyped, \A s \in Sides : books[s] # Missing /\ fees[s] # Missing
  PROVE  MinimumSize \in Nat /\ MinimumSize # 0
<1>1. \A s \in Sides : books[s].minimum_order_size \in Nat /\ books[s].minimum_order_size # 0
  BY SideTyped
<1> QED BY <1>1 DEF MinimumSize, Larger, Sides

(* A set is bought for what its two legs cost. *)
LEMMA ExecutedSet ==
  ASSUME InputsTyped, EvaluateStructural.execute
  PROVE  /\ \A s \in Sides : books[s] # Missing /\ fees[s] # Missing
         /\ EvaluateStructural.shares = MinimumSize
         /\ \A s \in Sides : FullyFilled(Simulated(s))
         /\ LET cost == Simulated("UP").all_in + Simulated("DOWN").all_in
            IN MinimumSize * 100 * Cent * Scale - cost - CycleBuffer(MinimumSize)
                 >= MinimumNetProfit
<1> DEFINE buy == ScanCompleteSet("BUY_MERGE")
<1>1. /\ \A s \in Sides : books[s] # Missing /\ fees[s] # Missing
      /\ EvaluateStructural.shares = MinimumSize /\ buy.profit # Missing
  <2> HIDE DEF buy
  <2> QED BY DEF EvaluateStructural, buy
<1> DEFINE leg == [s \in Sides |-> Simulated(s)]
           profit == MinimumSize * 100 * Cent * Scale - (leg["UP"].all_in + leg["DOWN"].all_in)
                       - CycleBuffer(MinimumSize)
<1>2. PairedDepth(leg) /\ ~(profit < MinimumNetProfit)
  BY <1>1 DEF ScanCompleteSet, Simulated
<1>3. \A s \in Sides : FullyFilled(Simulated(s))
  BY <1>2 DEF PairedDepth
<1>4. MinimumSize \in Nat /\ MinimumSize # 0
  BY <1>1, MinimumSizeTyped
<1>5. \A s \in Sides : Simulated(s).all_in \in Int
  <2>1. ASSUME NEW s \in Sides PROVE Simulated(s).all_in \in Int
    <3>1. books[s].asks \in Seq(BookLevel) /\ fees[s].rate \in Nat \cup {Missing}
      BY <1>1, SideTyped
    <3> QED BY <1>3, <1>4, <3>1, FilledIsPossible DEF Simulated
  <2> QED BY <2>1
<1>6. profit >= MinimumNetProfit
  <2>1. "UP" \in Sides /\ "DOWN" \in Sides
    BY DEF Sides
  <2>2. profit \in Int /\ MinimumNetProfit \in Int
    BY <1>4, <1>5, <2>1 DEF Cent, Scale, CycleBuffer, MinimumNetProfit
  <2> HIDE DEF profit
  <2> QED BY <1>2, <2>2
<1>7. profit = MinimumSize * 100 * Cent * Scale
                 - (Simulated("UP").all_in + Simulated("DOWN").all_in) - CycleBuffer(MinimumSize)
  BY DEF Sides
<1> QED BY <1>1, <1>3, <1>6, <1>7

(* A complete set is bought only when its real cost, the cheapest way to take both legs,
   leaves the minimum profit (scan_complete_set). *)
THEOREM SetsPayForThemselves == DecisionSpec => []ExecutedSetPaysForItself
<1>1. InputsTyped /\ DecisionIsCurrent => ExecutedSetPaysForItself
  <2> SUFFICES ASSUME InputsTyped, DecisionIsCurrent, decision # Missing,
                      decision.structural.execute
               PROVE  /\ \A s \in Sides : Splits(books[s].asks, MinimumSize) # {}
                      /\ LET cost ==
                               CheapestCost(books["UP"].asks, MinimumSize, fees["UP"], ThePolicy)
                               + CheapestCost(books["DOWN"].asks, MinimumSize, fees["DOWN"],
                                              ThePolicy)
                         IN decision.structural.shares * 100 * Cent * Scale - cost
                              - CycleBuffer(decision.structural.shares) >= MinimumNetProfit
    BY DEF ExecutedSetPaysForItself
  <2>1. decision.structural = EvaluateStructural
    BY DEF DecisionIsCurrent, Decided
  <2>2. /\ \A s \in Sides : books[s] # Missing /\ fees[s] # Missing
        /\ EvaluateStructural.shares = MinimumSize
        /\ \A s \in Sides : FullyFilled(Simulated(s))
        /\ MinimumSize * 100 * Cent * Scale
             - (Simulated("UP").all_in + Simulated("DOWN").all_in) - CycleBuffer(MinimumSize)
             >= MinimumNetProfit
    BY <2>1, ExecutedSet
  <2>3. MinimumSize \in Nat /\ MinimumSize # 0
    BY <2>2, MinimumSizeTyped
  <2> DEFINE cheapest(s) == CheapestCost(books[s].asks, MinimumSize, fees[s], ThePolicy)
  <2>4. ASSUME NEW s \in Sides
        PROVE  /\ Splits(books[s].asks, MinimumSize) # {}
               /\ cheapest(s) \in Nat /\ Simulated(s).all_in \in Int
               /\ cheapest(s) <= Simulated(s).all_in
    <3>1. books[s].asks \in Seq(BookLevel) /\ fees[s].rate \in Nat \cup {Missing}
      BY <2>2, SideTyped
    <3> QED BY <2>2, <2>3, <3>1, FilledIsPossible DEF Simulated
  <2> HIDE DEF cheapest
  <2>5. MinimumSize * 100 * Cent * Scale - (cheapest("UP") + cheapest("DOWN"))
          - CycleBuffer(MinimumSize) >= MinimumNetProfit
    <3>1. "UP" \in Sides /\ "DOWN" \in Sides
      BY DEF Sides
    <3> QED BY <2>2, <2>3, <2>4, <3>1 DEF Cent, Scale, CycleBuffer, MinimumNetProfit
  <2> QED BY <2>1, <2>2, <2>4, <2>5 DEF cheapest
<1> QED BY <1>1, DecisionsAreCurrent, PTL

(* A number near n / d. *)
Near(n, r, d) == r \in Nat /\ 2 * d * r <= 2 * n + d /\ 2 * n + d < 2 * d * r + 2 * d

Steps(w, x, y, z, k, l, d) ==
  /\ w \in Int /\ x \in Int /\ y \in Int /\ z \in Int
  /\ 2 * d * (w - x - y + z) >= 2 * (l - k) - 4 * d

RoundedSteps(m, n, k, l, d) ==
  Steps(RoundHalfUp(m + l, d), RoundHalfUp(m, d), RoundHalfUp(n + k, d), RoundHalfUp(n, d),
        k, l, d)

(* What a share more does to two rounded fees. *)
LEMMA FeeSteps ==
  ASSUME NEW k \in Nat, NEW l \in Nat, NEW m \in Nat, NEW n \in Nat, NEW d \in {10, 1000}
  PROVE  RoundedSteps(m, n, k, l, d)
<1>1. \A q \in Nat : Near(q, RoundHalfUp(q, d), d)
  <2>1. CASE d = 10
    BY <2>1, Rounded DEF Near
  <2>2. CASE d = 1000
    BY <2>2, Rounded DEF Near
  <2> QED BY <2>1, <2>2
<1> DEFINE w == RoundHalfUp(m + l, d)
           x == RoundHalfUp(m, d)
           y == RoundHalfUp(n + k, d)
           z == RoundHalfUp(n, d)
<1>2. Near(m + l, w, d) /\ Near(m, x, d) /\ Near(n + k, y, d) /\ Near(n, z, d)
  <2>1. m + l \in Nat /\ n + k \in Nat
    OBVIOUS
  <2> QED BY <1>1, <2>1
<1> HIDE DEF w, x, y, z
<1>3. w \in Nat /\ x \in Nat /\ y \in Nat /\ z \in Nat
  BY <1>2 DEF Near
<1>4. Steps(w, x, y, z, k, l, d)
  <2>1. CASE d = 10
    BY <1>2, <1>3, <2>1 DEF Near, Steps
  <2>2. CASE d = 1000
    BY <1>2, <1>3, <2>2 DEF Near, Steps
  <2> QED BY <2>1, <2>2
<1> QED BY <1>4 DEF RoundedSteps, w, x, y, z

(* The slope of the fee: per share, before it is rounded. *)
Slope(schedule, price) ==
  IF schedule.mode = "bps" THEN price * schedule.rate
  ELSE schedule.rate * (price * (100 - price))

Unit(schedule) == IF schedule.mode = "bps" THEN 10 ELSE 1000

(* A fee is the quantity times its slope, rounded (quote_fee). *)
LEMMA FeeIsRoundedSlope ==
  ASSUME NEW schedule, schedule.rate \in Nat, NEW price \in Nat, price <= 100
  PROVE  /\ Slope(schedule, price) \in Nat /\ Unit(schedule) \in {10, 1000}
         /\ \A q \in Nat : QuoteFee(schedule, q, price)
                             = RoundHalfUp(q * Slope(schedule, price), Unit(schedule))
<1> DEFINE rate == schedule.rate
<1>1. price * rate \in Nat
  BY ProductNatural
<1>2. 100 - price \in Nat /\ rate * (price * (100 - price)) \in Nat
  <2>1. 100 - price \in Nat
    OBVIOUS
  <2>2. price * (100 - price) \in Nat
    BY <2>1, ProductNatural
  <2> QED BY <2>1, <2>2, ProductNatural
<1>3. ASSUME NEW q \in Nat
      PROVE  /\ q * price * rate = q * (price * rate)
             /\ q * rate * price * (100 - price) = q * (rate * (price * (100 - price)))
  OBVIOUS
<1> QED BY <1>1, <1>2, <1>3 DEF Slope, Unit, QuoteFee

(* A higher price is never won back by a lower fee. *)
LEMMA SlopesOfPrices ==
  ASSUME NEW schedule, schedule.rate \in Nat, schedule.mode # "bps" => schedule.rate <= 9600,
         NEW p \in Nat, NEW r \in Nat, p < r, r <= 100
  PROVE  1001000 * (r - p) * (2 * Unit(schedule))
           + 1050 * (2 * (Slope(schedule, r) - Slope(schedule, p)) - 4 * Unit(schedule)) >= 0
<1> DEFINE rate == schedule.rate
           gap == r - p
<1>1. gap \in Nat /\ gap >= 1
  OBVIOUS
<1>2. CASE schedule.mode = "bps"
  <2>1. r * rate - p * rate = gap * rate
    OBVIOUS
  <2>2. gap * rate \in Nat /\ p * rate \in Nat /\ r * rate \in Nat
    BY <1>1, ProductNatural
  <2> DEFINE x == r * rate
             y == p * rate
  <2>3. x - y >= 0 /\ x \in Nat /\ y \in Nat
    BY <2>1, <2>2
  <2>4. Slope(schedule, r) = x /\ Slope(schedule, p) = y /\ Unit(schedule) = 10
    BY <1>2 DEF Slope, Unit
  <2> HIDE DEF x, y, gap
  <2>5. 1001000 * gap * (2 * 10) + 1050 * (2 * (x - y) - 4 * 10) >= 0
    BY <1>1, <2>3
  <2> QED BY <2>4, <2>5 DEF gap
<1>3. CASE schedule.mode # "bps"
  <2> DEFINE x == rate * (r * (100 - r))
             y == rate * (p * (100 - p))
             s == gap * rate
  <2>1. y - x = s * (r + p - 100)
    OBVIOUS
  <2>2. s \in Nat /\ s <= 9600 * gap
    <3>1. rate \in Nat /\ rate <= 9600
      BY <1>3
    <3>2. s \in Nat
      BY <1>1, <3>1, ProductNatural
    <3>3. gap * (9600 - rate) \in Nat
      BY <1>1, <3>1, ProductNatural
    <3>4. gap * (9600 - rate) = 9600 * gap - gap * rate
      BY <1>1, <3>1
    <3> HIDE DEF gap
    <3> QED BY <3>2, <3>3, <3>4, <1>1
  <2>3. s * (r + p - 100) <= 99 * s
    <3> DEFINE n == 199 - (r + p)
    <3>1. n \in Nat
      OBVIOUS
    <3>2. s * n \in Nat
      BY <2>2, <3>1, ProductNatural
    <3>3. s * n = 99 * s - s * (r + p - 100)
      <4> HIDE DEF s
      <4> QED BY <2>2
    <3> DEFINE t == s * (r + p - 100)
               u == s * n
    <3>4. u \in Nat /\ u = 99 * s - t /\ t \in Int
      BY <2>2, <3>2, <3>3
    <3> HIDE DEF s, n, t, u
    <3>5. t <= 99 * s
      BY <3>4, <2>2
    <3> QED BY <3>5 DEF t
  <2>4. x \in Int /\ y \in Int
    OBVIOUS
  <2> DEFINE t == s * (r + p - 100)
  <2>5. t = y - x /\ t <= 99 * s
    BY <2>1, <2>3
  <2>6. Slope(schedule, r) = x /\ Slope(schedule, p) = y /\ Unit(schedule) = 1000
    BY <1>3 DEF Slope, Unit
  <2> HIDE DEF x, y, s, t, gap
  <2>7. 1001000 * gap * (2 * 1000) + 1050 * (2 * (x - y) - 4 * 1000) >= 0
    BY <1>1, <2>2, <2>4, <2>5
  <2> QED BY <2>6, <2>7 DEF gap
<1> QED BY <1>2, <1>3

(* Prices rise strictly. *)
Ascending(levels) ==
  \A i, j \in DOMAIN levels : i < j => levels[i].price < levels[j].price

(* What a quantity costs at a price. *)
PriceCost(schedule, quantity, price) ==
  1001 * (price * quantity * 1000) + 1050 * QuoteFee(schedule, quantity, price)

(* A share more at a lower price never costs more than one at a higher price. *)
LEMMA LowerPriceFirst ==
  ASSUME NEW schedule, schedule.rate \in Nat, schedule.mode # "bps" => schedule.rate <= 9600,
         NEW p \in Nat, NEW r \in Nat, p < r, r <= 100, NEW a \in Nat, NEW b \in Nat
  PROVE  PriceCost(schedule, a + 1, p) + PriceCost(schedule, b, r)
           <= PriceCost(schedule, a, p) + PriceCost(schedule, b + 1, r)
<1> DEFINE d == Unit(schedule)
           k == Slope(schedule, p)
           l == Slope(schedule, r)
           w == QuoteFee(schedule, b + 1, r)
           x == QuoteFee(schedule, b, r)
           y == QuoteFee(schedule, a + 1, p)
           z == QuoteFee(schedule, a, p)
<1>1. p <= 100 /\ a + 1 \in Nat /\ b + 1 \in Nat
  OBVIOUS
<1>2. /\ k \in Nat /\ d \in {10, 1000}
      /\ \A q \in Nat : QuoteFee(schedule, q, p) = RoundHalfUp(q * k, d)
  BY <1>1, FeeIsRoundedSlope
<1>3. l \in Nat /\ \A q \in Nat : QuoteFee(schedule, q, r) = RoundHalfUp(q * l, d)
  BY <1>1, FeeIsRoundedSlope
<1> DEFINE m == b * l
           n == a * k
<1>4. /\ w = RoundHalfUp(m + l, d) /\ x = RoundHalfUp(m, d)
      /\ y = RoundHalfUp(n + k, d) /\ z = RoundHalfUp(n, d)
  <2> HIDE DEF k, l, d
  <2>1. (b + 1) * l = b * l + l /\ (a + 1) * k = a * k + k
    BY <1>2, <1>3
  <2>2. /\ w = RoundHalfUp((b + 1) * l, d) /\ x = RoundHalfUp(b * l, d)
        /\ y = RoundHalfUp((a + 1) * k, d) /\ z = RoundHalfUp(a * k, d)
    BY <1>1, <1>2, <1>3
  <2> QED BY <2>1, <2>2
<1>5. /\ w \in Int /\ x \in Int /\ y \in Int /\ z \in Int
      /\ 2 * d * (w - x - y + z) >= 2 * (l - k) - 4 * d
  <2> HIDE DEF k, l, d, w, x, y, z
  <2>1. m \in Nat /\ n \in Nat
    BY <1>2, <1>3, ProductNatural
  <2> HIDE DEF m, n
  <2>2. RoundedSteps(m, n, k, l, d)
    <3>1. k \in Nat /\ l \in Nat /\ d \in {10, 1000}
      BY <1>2, <1>3
    <3> QED BY <2>1, <3>1, FeeSteps
  <2>3. Steps(w, x, y, z, k, l, d)
    BY <1>4, <2>2 DEF RoundedSteps
  <2> QED BY <2>3 DEF Steps
<1> HIDE DEF k, l, d, w, x, y, z, m, n
<1>6. 1001000 * (r - p) * (2 * d) + 1050 * (2 * (l - k) - 4 * d) >= 0
  BY SlopesOfPrices DEF k, l, d
<1>7. 1001000 * (r - p) + 1050 * (w - x - y + z) >= 0
  <2>1. CASE d = 10
    BY <1>2, <1>3, <1>5, <1>6, <2>1
  <2>2. CASE d = 1000
    BY <1>2, <1>3, <1>5, <1>6, <2>2
  <2> QED BY <1>2, <2>1, <2>2
<1> DEFINE g == p * a
           h == r * b
<1>8. g \in Nat /\ h \in Nat
  BY ProductNatural
<1>9. \A u, v \in Nat : /\ 1001 * (u * (v + 1) * 1000) = 1001000 * (u * v) + 1001000 * u
                        /\ 1001 * (u * v * 1000) = 1001000 * (u * v)
  OBVIOUS
<1>10. /\ PriceCost(schedule, a + 1, p) = 1001000 * g + 1001000 * p + 1050 * y
       /\ PriceCost(schedule, a, p) = 1001000 * g + 1050 * z
       /\ PriceCost(schedule, b + 1, r) = 1001000 * h + 1001000 * r + 1050 * w
       /\ PriceCost(schedule, b, r) = 1001000 * h + 1050 * x
  BY <1>9 DEF PriceCost, w, x, y, z
<1> HIDE DEF g, h
<1> QED BY <1>5, <1>7, <1>8, <1>10

(* So the costs of a book never favour a later level. *)
LEMMA CheaperLevelFirst ==
  ASSUME NEW levels \in Seq(BookLevel), NEW schedule, schedule.rate \in Nat,
         schedule.mode # "bps" => schedule.rate <= 9600, Ascending(levels)
  PROVE  EarlierIsNoDearer(Costs(levels, schedule))
<1> DEFINE cost == Costs(levels, schedule)
<1>1. \A i \in DOMAIN levels, q \in Nat : cost[i][q] = PriceCost(schedule, q, levels[i].price)
  <2>1. Scale + ThePolicy.slippage = 1001 /\ Scale + ThePolicy.fee_buffer = 1050 /\ Cent = 1000
    BY DEF Scale, ThePolicy, Cent
  <2> QED BY <2>1 DEF Costs, PriceCost
<1>2. DOMAIN cost = DOMAIN levels
  BY DEF Costs
<1> HIDE DEF cost
<1>3. SUFFICES ASSUME NEW i \in DOMAIN cost, NEW j \in DOMAIN cost, i < j,
                      NEW a \in Nat, NEW b \in Nat
               PROVE  cost[i][a + 1] + cost[j][b] <= cost[i][a] + cost[j][b + 1]
  BY DEF EarlierIsNoDearer, cost
<1>4. i \in DOMAIN levels /\ j \in DOMAIN levels
  BY <1>2
<1> DEFINE p == levels[i].price
           r == levels[j].price
<1>5. p \in Nat /\ r \in Nat /\ p < r /\ r <= 100
  <2>1. levels[i] \in BookLevel /\ levels[j] \in BookLevel
    BY <1>4
  <2>2. p < r
    BY <1>3, <1>4 DEF Ascending
  <2> QED BY <2>1, <2>2, LevelFacts
<1>6. /\ cost[i][a + 1] = PriceCost(schedule, a + 1, p) /\ cost[i][a] = PriceCost(schedule, a, p)
      /\ cost[j][b + 1] = PriceCost(schedule, b + 1, r) /\ cost[j][b] = PriceCost(schedule, b, r)
  BY <1>1, <1>4
<1> HIDE DEF p, r
<1>7. PriceCost(schedule, a + 1, p) + PriceCost(schedule, b, r)
        <= PriceCost(schedule, a, p) + PriceCost(schedule, b + 1, r)
  BY <1>5, LowerPriceFirst
<1> QED BY <1>6, <1>7

(* No fee of the schedule outgrows the prices. *)
BelowPrices(schedule) ==
  schedule.mode # "bps" /\ schedule.rate # Missing => schedule.rate <= 9600

(* A purchase that is filled in full costs what the cheapest of all ways to take the
   quantity costs, if the book quotes a price once and no fee outgrows the prices
   (simulate_depth). *)
THEOREM FilledIsCheapest ==
  ASSUME NEW book, book.asks \in Seq(BookLevel), NEW schedule,
         schedule.rate \in Nat \cup {Missing}, NEW requested \in Nat, requested # 0,
         BelowPrices(schedule), Ascending(book.asks),
         FullyFilled(SimulateDepth(book, schedule, "BUY", requested, 100, ThePolicy))
  PROVE  CheapestCost(book.asks, requested, schedule, ThePolicy)
           = SimulateDepth(book, schedule, "BUY", requested, 100, ThePolicy).all_in
<1>0. schedule.rate \in Nat => schedule.rate # Missing
  BY DecisionConstants
<1> DEFINE asks == book.asks
           S == DOMAIN asks
           t == Taken(Held(asks), requested, S)
           cost == Costs(asks, schedule)
           all_in == SimulateDepth(book, schedule, "BUY", requested, 100, ThePolicy).all_in
           cheapest == CheapestCost(asks, requested, schedule, ThePolicy)
<1>1. /\ schedule.rate \in Nat /\ Left(Held(asks), requested, S) = 0
      /\ all_in = Paid(cost, t, S)
  BY FilledInOrder
<1>2. Splits(asks, requested) # {} /\ cheapest \in Nat /\ all_in \in Int /\ cheapest <= all_in
  BY FilledIsPossible
<1>3. PICK best \in Splits(asks, requested) : cheapest = Paid(cost, best, S)
  BY <1>1, <1>2, CheapestIsLeast
<1>4. /\ Positions(S) /\ IsFiniteSet(S) /\ Held(asks) \in [S -> Nat]
      /\ cost \in [S -> [Nat -> Int]] /\ EarlierIsNoDearer(cost)
  <2>1. schedule.mode # "bps" => schedule.rate <= 9600
    BY <1>0, <1>1 DEF BelowPrices
  <2> QED BY <1>1, <2>1, LevelsTyped, CostsTyped, CheaperLevelFirst
<1>5. t \in Splits(asks, requested)
  BY <1>1, TakenIsSplit
<1>6. /\ t \in [S -> Nat] /\ Fits(Held(asks), t) /\ SumFunctionOnSet(t, S) = requested
      /\ best \in [S -> Nat] /\ Fits(Held(asks), best) /\ SumFunctionOnSet(best, S) = requested
  <2> HIDE DEF t
  <2> QED BY <1>5, SplitsTyped
<1>7. InOrder(Held(asks), t)
  <2> DEFINE cap == Held(asks)
  <2>1. Positions(S) /\ IsFiniteSet(S) /\ cap \in [S -> Nat]
    BY <1>4
  <2> HIDE DEF cap, S
  <2>2. InOrder(cap, Taken(cap, requested, S))
    BY <2>1, TakenInOrder
  <2> QED BY <2>2 DEF cap
<1>8. Paid(cost, t, S) <= Paid(cost, best, S)
  <2> DEFINE cap == Held(asks)
  <2>1. /\ Positions(S) /\ IsFiniteSet(S) /\ cap \in [S -> Nat]
        /\ cost \in [S -> [Nat -> Int]] /\ EarlierIsNoDearer(cost)
        /\ t \in [S -> Nat] /\ Fits(cap, t) /\ InOrder(cap, t)
        /\ best \in [S -> Nat] /\ Fits(cap, best)
        /\ SumFunctionOnSet(best, S) = SumFunctionOnSet(t, S)
    BY <1>4, <1>6, <1>7
  <2> HIDE DEF cap, S, cost, t
  <2> QED BY <2>1, InOrderIsCheapest, Zenon
<1> HIDE DEF all_in, cheapest, t, cost, S
<1>9. all_in = cheapest
  BY <1>1, <1>2, <1>3, <1>8
<1> QED BY <1>9 DEF all_in, cheapest

(* The books and schedules that reach an evaluation are of the assumed kind, and both sides
   are charged by the same schedule. *)
BooksAscend == \A s \in Sides : books[s] # Missing => Ascending(books[s].asks)

RatesBelowPrices == \A s \in Sides : fees[s] # Missing => BelowPrices(fees[s])

OneSchedule == \A s, r \in Sides : fees[s] = fees[r]

(* The books stay in order: they come so, and age as they are. *)
LEMMA BooksAscendNext ==
  ASSUME InputsTyped, BooksAscend, [DecisionNext]_decision_vars
  PROVE  BooksAscend'
<1>1. CASE UNCHANGED books
  BY <1>1 DEF BooksAscend
<1>2. ASSUME NEW side \in Sides, NEW snapshot \in BookSnapshots, ReceiveBook(side, snapshot)
      PROVE  BooksAscend'
  <2> DEFINE book == [condition_id |-> Condition, token_id |-> side, asks |-> snapshot.asks,
                      bids |-> snapshot.bids,
                      minimum_order_size |-> snapshot.minimum_order_size,
                      source_age |-> snapshot.source_age, recv_age |-> 0]
  <2>1. books' = [books EXCEPT ![side] = book] /\ book.asks = snapshot.asks
    BY <1>2 DEF ReceiveBook
  <2>2. Ascending(book.asks)
    BY <2>1, OneLevelPerPrice DEF Ascending
  <2> HIDE DEF book
  <2> QED BY <2>1, <2>2 DEF BooksAscend, InputsTyped
<1>3. CASE TimePasses
  <2> DEFINE aged(b) == [b EXCEPT !.source_age = Older(@), !.recv_age = Older(@)]
  <2>1. books' = [s \in Sides |-> IF books[s] = Missing THEN Missing ELSE aged(books[s])]
    BY <1>3 DEF TimePasses
  <2>2. \A b \in Book : aged(b).asks = b.asks
    BY DEF Book
  <2>3. books \in [Sides -> Book \cup {Missing}]
    BY DEF InputsTyped
  <2> HIDE DEF aged
  <2> QED BY <2>1, <2>2, <2>3 DEF BooksAscend
<1> QED
  BY <1>1, <1>2, <1>3 DEF DecisionNext, Evaluate, ReceiveFees, BuildFeatures, decision_vars

(* The schedules stay as they were fetched, the same for both sides. *)
LEMMA SchedulesNext ==
  ASSUME InputsTyped, RatesBelowPrices, OneSchedule, [DecisionNext]_decision_vars
  PROVE  RatesBelowPrices' /\ OneSchedule'
<1>1. CASE UNCHANGED fees
  BY <1>1 DEF RatesBelowPrices, OneSchedule
<1>2. ASSUME NEW fee \in FeeModes, ReceiveFees(fee) PROVE RatesBelowPrices' /\ OneSchedule'
  <2> DEFINE schedule == [condition_id |-> Condition, mode |-> fee.mode, rate |-> fee.rate,
                          age |-> 0]
  <2>1. fees' = [s \in Sides |-> schedule] /\ schedule.mode = fee.mode /\ schedule.rate = fee.rate
    BY <1>2 DEF ReceiveFees
  <2>2. BelowPrices(schedule)
    <3>1. fee.mode \in {"bps", "dynamic"}
      BY DecisionConstants
    <3> QED BY <2>1, <3>1, FeesBelowPrices DEF BelowPrices
  <2> HIDE DEF schedule
  <2> QED BY <2>1, <2>2 DEF RatesBelowPrices, OneSchedule
<1>3. CASE TimePasses
  <2> DEFINE aged(f) == [f EXCEPT !.age = Older(@)]
  <2>1. fees' = [s \in Sides |-> IF fees[s] = Missing THEN Missing ELSE aged(fees[s])]
    BY <1>3 DEF TimePasses
  <2>2. \A f \in Schedule : aged(f).mode = f.mode /\ aged(f).rate = f.rate
    BY DEF Schedule
  <2>3. fees \in [Sides -> Schedule \cup {Missing}]
    BY DEF InputsTyped
  <2> HIDE DEF aged
  <2>4. RatesBelowPrices'
    BY <2>1, <2>2, <2>3 DEF RatesBelowPrices, BelowPrices
  <2>5. OneSchedule'
    BY <2>1 DEF OneSchedule
  <2> QED BY <2>4, <2>5
<1> QED
  BY <1>1, <1>2, <1>3 DEF DecisionNext, Evaluate, ReceiveBook, BuildFeatures, decision_vars

(* What every decision is made of. *)
DecisionInv ==
  /\ InputsTyped /\ DecisionIsCurrent
  /\ BooksAscend /\ RatesBelowPrices /\ OneSchedule

(* Whatever comes, decisions are made of typed inputs, and of those that are there when
   they are read (_evaluate_cycle). *)
THEOREM DecisionInvHolds == DecisionSpec => []DecisionInv
<1>1. DecisionInit => BooksAscend /\ RatesBelowPrices /\ OneSchedule
  BY DEF DecisionInit, BooksAscend, RatesBelowPrices, OneSchedule
<1>2. /\ InputsTyped /\ BooksAscend /\ RatesBelowPrices /\ OneSchedule
      /\ [DecisionNext]_decision_vars
      => BooksAscend' /\ RatesBelowPrices' /\ OneSchedule'
  BY BooksAscendNext, SchedulesNext
<1>3. DecisionSpec => [](BooksAscend /\ RatesBelowPrices /\ OneSchedule)
  BY <1>1, <1>2, DecisionsAreCurrent, PTL DEF DecisionSpec
<1> QED BY <1>3, DecisionsAreCurrent, PTL DEF DecisionInv

(* A simulation is priced from a fresh book and a fresh schedule. *)
LEMMA PricedIsFresh ==
  ASSUME InputsTyped, NEW s \in Sides, books[s] # Missing, fees[s] # Missing
  PROVE  Priced(Simulated(s)) =>
           /\ books[s].source_age \in 0..MaxInputAge /\ books[s].recv_age \in 0..MaxInputAge
           /\ fees[s].age <= MaxInputAge /\ Simulated(s).requested = MinimumSize
<1> SUFFICES ASSUME Priced(Simulated(s))
             PROVE  /\ books[s].source_age \in 0..MaxInputAge
                    /\ books[s].recv_age \in 0..MaxInputAge
                    /\ fees[s].age <= MaxInputAge /\ Simulated(s).requested = MinimumSize
  OBVIOUS
<1>1. /\ BookFault(books[s], ThePolicy) = "none"
      /\ FeeFault(fees[s], books[s].condition_id, ThePolicy) = "none"
      /\ Simulated(s).requested = MinimumSize
  BY DEF Simulated, SimulateDepth, Priced, Unpriced
<1>2. /\ books[s].source_age \in Int \cup {Missing} /\ books[s].recv_age \in Nat
      /\ fees[s].age \in Nat
  BY SideTyped
<1>3. MaxInputAge \in Nat /\ Missing \notin Int
  BY DecisionConstants
<1>4. ThePolicy.max_book_age = MaxInputAge /\ ThePolicy.max_fee_age = MaxInputAge
  BY DEF ThePolicy
<1>5. books[s].source_age \in 0..MaxInputAge /\ books[s].recv_age \in 0..MaxInputAge
  BY <1>1, <1>2, <1>3, <1>4 DEF BookFault
<1>6. fees[s].age <= MaxInputAge
  BY <1>1, <1>2, <1>3, <1>4 DEF FeeFault
<1> QED BY <1>1, <1>5, <1>6

(* A side that can be bought in full, at the cheapest cost. *)
Bought(s) ==
  /\ Splits(books[s].asks, MinimumSize) # {}
  /\ Simulated(s).all_in = CheapestCost(books[s].asks, MinimumSize, fees[s], ThePolicy)
  /\ Simulated(s).all_in \in Int
  /\ Simulated(s).filled = MinimumSize
  /\ fees[s].rate # Missing

(* A simulation filled in full is a purchase, at the cheapest cost (simulate_depth). *)
LEMMA FilledIsBought ==
  ASSUME DecisionInv, \A s \in Sides : books[s] # Missing /\ fees[s] # Missing,
         NEW s \in Sides, FullyFilled(Simulated(s))
  PROVE  Bought(s)
<1>1. InputsTyped /\ BooksAscend /\ RatesBelowPrices
  BY DEF DecisionInv
<1>2. /\ books[s].asks \in Seq(BookLevel) /\ fees[s].rate \in Nat \cup {Missing}
  BY <1>1, SideTyped
<1>3. MinimumSize \in Nat /\ MinimumSize # 0
  BY <1>1, MinimumSizeTyped
<1>4. /\ Ascending(books[s].asks)
      /\ BelowPrices(fees[s])
  BY <1>1 DEF BooksAscend, RatesBelowPrices
<1>5. FullyFilled(SimulateDepth(books[s], fees[s], "BUY", MinimumSize, 100, ThePolicy))
  BY DEF Simulated
<1>6. /\ Splits(books[s].asks, MinimumSize) # {} /\ Simulated(s).all_in \in Int
  BY <1>2, <1>3, <1>5, FilledIsPossible DEF Simulated
<1>7. Simulated(s).all_in = CheapestCost(books[s].asks, MinimumSize, fees[s], ThePolicy)
  BY <1>2, <1>3, <1>4, <1>5, FilledIsCheapest DEF Simulated
<1>8. fees[s].rate # Missing
  <2>1. fees[s].rate \in Nat
    BY <1>2, <1>3, <1>5, FilledInOrder
  <2> QED BY <2>1, DecisionConstants
<1>9. Simulated(s).filled = MinimumSize
  <2>1. Priced(Simulated(s)) /\ Simulated(s).filled = Simulated(s).requested
    BY DEF FullyFilled
  <2> QED BY <1>1, <2>1, PricedIsFresh
<1> QED BY <1>6, <1>7, <1>8, <1>9 DEF Bought

(* The margin of a purchase, and what the net edge asks. *)
LEMMA EdgeIsMargin ==
  ASSUME DecisionInv, forecast # Missing, NEW s \in Sides, NEW pricing,
         pricing.filled \in Nat, pricing.all_in \in Int
  PROVE  ~(NetEdge(s, pricing) < MinimumNetEdge * pricing.filled * Cent * Scale)
           <=> pricing.all_in <= ((IF s = "UP" THEN forecast.p_up ELSE 100 - forecast.p_up)
                  - UncertaintyBuffer - MinimumNetEdge) * pricing.filled * Cent * Scale
<1> DEFINE p == Probability(s)
           q == pricing.filled
           cost == pricing.all_in
<1>1. forecast.p_up \in 0..100
  BY DEF DecisionInv, InputsTyped
<1>2. p \in Int /\ p = IF s = "UP" THEN forecast.p_up ELSE 100 - forecast.p_up
  BY <1>1 DEF Probability
<1>3. NetEdge(s, pricing) = (p - 1) * q * 1000 * 1000 - cost
  BY DEF NetEdge, UncertaintyBuffer, Cent, Scale
<1> HIDE DEF p, q, cost
<1>4. q \in Nat /\ cost \in Int
  BY DEF q, cost
<1> DEFINE pq == p * q
<1>5. pq \in Int
  BY <1>2, <1>4
<1>6. /\ (p - 1) * q * 1000 * 1000 = 1000000 * pq - 1000000 * q
      /\ (p - 1 - 3) * q * 1000 * 1000 = 1000000 * pq - 4000000 * q
      /\ 3 * q * 1000 * 1000 = 3000000 * q
  BY <1>2, <1>4
<1> HIDE DEF pq
<1>7. ~((p - 1) * q * 1000 * 1000 - cost < 3 * q * 1000 * 1000)
        <=> cost <= (p - 1 - 3) * q * 1000 * 1000
  <2> DEFINE x == (p - 1) * q * 1000 * 1000
             y == (p - 1 - 3) * q * 1000 * 1000
             z == 3 * q * 1000 * 1000
  <2>1. /\ x = 1000000 * pq - 1000000 * q /\ y = 1000000 * pq - 4000000 * q
        /\ z = 3000000 * q
    BY <1>6
  <2> HIDE DEF x, y, z
  <2>2. ~(x - cost < z) <=> cost <= y
    BY <1>4, <1>5, <2>1
  <2> QED BY <2>2 DEF x, y, z
<1> QED BY <1>2, <1>3, <1>7 DEF UncertaintyBuffer, MinimumNetEdge, Cent, Scale, q, cost

(* A trade passed every gate of the assessment. *)
LEMMA TradePasses ==
  ASSUME NEW signal, Assess(signal).action = "TRADE"
  PROVE  LET side == IF forecast.p_up > 50 THEN "UP" ELSE "DOWN"
             pricing == DirectionalPricing[side]
         IN /\ forecast # Missing /\ forecast.p_up # 50
            /\ pricing # Missing /\ FullyFilled(pricing)
            /\ ~(NetEdge(side, pricing) < MinimumNetEdge * pricing.filled * Cent * Scale)
            /\ Assess(signal) = [action |-> "TRADE", reason |-> "PRE_RISK_CANDIDATE", side |-> side,
                                 quantity |-> pricing.filled, required_capital |-> pricing.all_in]
<1>1. Assess(signal) = AssessEdge /\ forecast # Missing
  BY DEF Assess, Abstains
<1> DEFINE side == IF forecast.p_up > 50 THEN "UP" ELSE "DOWN"
           pricing == DirectionalPricing[side]
<1>2. AssessEdge.action = "TRADE"
  BY <1>1
<1> QED BY <1>1, <1>2 DEF AssessEdge, Abstains, ChosenPricing

(* A side is priced only if both are, by its own simulation (_directional_pricing). *)
LEMMA PricingIsSimulated ==
  ASSUME NEW s \in Sides, DirectionalPricing[s] # Missing
  PROVE  /\ \A r \in Sides : books[r] # Missing /\ fees[r] # Missing /\ Priced(Simulated(r))
         /\ DirectionalPricing[s] = Simulated(s)
BY DEF DirectionalPricing

(* A directional candidate can be bought in full from its side's fresh book for the capital
   it asks for, and keeps its margin (assess_directional_edge). *)
THEOREM CandidatesArePayable == DecisionSpec => []CandidateIsPayable
<1>1. DecisionInv => CandidateIsPayable
  <2> SUFFICES ASSUME DecisionInv, decision # Missing, decision.assessment.action = "TRADE"
               PROVE  LET side == decision.assessment.side
                          quantity == decision.assessment.quantity
                          cost == CheapestCost(books[side].asks, quantity, fees[side], ThePolicy)
                          probability == IF side = "UP" THEN forecast.p_up ELSE 100 - forecast.p_up
                      IN /\ probability > 50 /\ quantity = MinimumSize
                         /\ books[side].recv_age <= MaxInputAge /\ fees[side].age <= MaxInputAge
                         /\ Splits(books[side].asks, quantity) # {}
                         /\ decision.assessment.required_capital = cost
                         /\ (probability - UncertaintyBuffer - MinimumNetEdge)
                              * quantity * Cent * Scale >= cost
    BY DEF CandidateIsPayable
  <2> DEFINE side == IF forecast.p_up > 50 THEN "UP" ELSE "DOWN"
             pricing == DirectionalPricing[side]
             trade == [action |-> "TRADE", reason |-> "PRE_RISK_CANDIDATE", side |-> side,
                       quantity |-> pricing.filled, required_capital |-> pricing.all_in]
             probability == IF side = "UP" THEN forecast.p_up ELSE 100 - forecast.p_up
  <2>1. decision.assessment = Assess(Signal)
    BY DEF DecisionInv, DecisionIsCurrent, Decided
  <2>2. /\ forecast # Missing /\ forecast.p_up # 50
        /\ pricing # Missing /\ FullyFilled(pricing)
        /\ ~(NetEdge(side, pricing) < MinimumNetEdge * pricing.filled * Cent * Scale)
        /\ decision.assessment = trade
    BY <2>1, TradePasses
  <2>3. side \in Sides
    BY DEF Sides
  <2>4. /\ \A r \in Sides : books[r] # Missing /\ fees[r] # Missing
        /\ pricing = Simulated(side) /\ Priced(Simulated(side))
    BY <2>2, <2>3, PricingIsSimulated
  <2>5. Bought(side)
    BY <2>2, <2>3, <2>4, FilledIsBought
  <2>6. MinimumSize \in Nat
    BY <2>4, MinimumSizeTyped DEF DecisionInv
  <2>7. pricing.filled = MinimumSize /\ pricing.all_in \in Int
    BY <2>4, <2>5 DEF Bought
  <2>8. pricing.all_in <= (probability - UncertaintyBuffer - MinimumNetEdge)
                            * pricing.filled * Cent * Scale
    <3> HIDE DEF pricing, side
    <3> QED BY <2>2, <2>3, <2>6, <2>7, EdgeIsMargin
  <2>9. probability > 50
    <3>1. forecast.p_up \in 0..100
      BY <2>2 DEF DecisionInv, InputsTyped
    <3> QED BY <2>2, <3>1
  <2>10. books[side].recv_age \in 0..MaxInputAge /\ fees[side].age <= MaxInputAge
    BY <2>3, <2>4, PricedIsFresh DEF DecisionInv
  <2>11. books[side].recv_age <= MaxInputAge
    BY <2>10, DecisionConstants
  <2>12. /\ decision.assessment.side = side /\ decision.assessment.quantity = pricing.filled
         /\ decision.assessment.required_capital = pricing.all_in
    BY <2>2
  <2> DEFINE cost == CheapestCost(books[side].asks, MinimumSize, fees[side], ThePolicy)
             margin == (probability - UncertaintyBuffer - MinimumNetEdge)
                         * MinimumSize * Cent * Scale
  <2>13. /\ pricing.all_in = cost /\ cost \in Int /\ Splits(books[side].asks, MinimumSize) # {}
    BY <2>4, <2>5 DEF Bought
  <2>14. cost <= margin
    BY <2>7, <2>8, <2>13
  <2>15. margin >= cost
    <3>1. margin \in Int
      <4>1. probability \in Int
        BY <2>2 DEF DecisionInv, InputsTyped
      <4> HIDE DEF probability
      <4> QED BY <2>6, <4>1 DEF UncertaintyBuffer, MinimumNetEdge, Cent, Scale
    <3> HIDE DEF margin, cost
    <3> QED BY <2>13, <2>14, <3>1
  <2> HIDE DEF pricing, side, trade
  <2> QED BY <2>7, <2>9, <2>10, <2>11, <2>12, <2>13, <2>15
<1> QED BY <1>1, DecisionInvHolds, PTL

(* What is left of a quantity is at most the quantity, and nothing of one that can be split. *)
LEMMA LeftOfQuantity ==
  ASSUME NEW levels \in Seq(BookLevel), NEW quantity \in Nat
  PROVE  /\ Left(Held(levels), quantity, DOMAIN levels) \in Nat
         /\ Left(Held(levels), quantity, DOMAIN levels) <= quantity
         /\ Splits(levels, quantity) # {} => Left(Held(levels), quantity, DOMAIN levels) = 0
<1> DEFINE S == DOMAIN levels
           cap == Held(levels)
           depth == SumFunctionOnSet(cap, S)
<1>1. IsFiniteSet(S) /\ cap \in [S -> Nat] /\ DOMAIN cap = S
  <2>1. /\ S = 1..Len(levels) /\ Len(levels) \in Nat
        /\ \A i \in S : levels[i] \in BookLevel
    OBVIOUS
  <2>2. \A i \in S : levels[i].quantity \in Nat
    BY <2>1, LevelFacts
  <2>3. IsFiniteSet(S)
    BY <2>1, FS_Interval
  <2> QED BY <2>2, <2>3 DEF Held
<1>2. depth \in Nat
  <2> HIDE DEF S, cap
  <2>1. \A i \in S : cap[i] \in Nat
    BY <1>1
  <2> QED BY <1>1, <2>1, SumTyped
<1>3. Splits(levels, quantity) # {} => quantity <= depth
  <2> SUFFICES ASSUME NEW split \in Splits(levels, quantity) PROVE quantity <= depth
    OBVIOUS
  <2>1. /\ split \in [S -> Nat] /\ Fits(cap, split)
        /\ SumFunctionOnSet(split, S) = quantity
    BY SplitsTyped
  <2>2. \A i \in S : split[i] \in Int /\ cap[i] \in Int /\ split[i] <= cap[i]
    <3> HIDE DEF S, cap
    <3> QED BY <1>1, <2>1 DEF Fits
  <2> HIDE DEF S, cap
  <2>3. SumFunctionOnSet(split, S) <= SumFunctionOnSet(cap, S)
    BY <1>1, <2>2, SumMonotonic
  <2> QED BY <2>1, <2>3
<1> DEFINE left == Left(cap, quantity, S)
<1>4. left = IF depth < quantity THEN quantity - depth ELSE 0
  BY DEF Left
<1>5. left \in Nat /\ left <= quantity /\ (Splits(levels, quantity) # {} => left = 0)
  <2> HIDE DEF depth, left, S, cap
  <2> QED BY <1>2, <1>3, <1>4
<1> QED BY <1>5

(* Fresh inputs with a fee are priced, and what is left of them is what is not filled. *)
LEMMA FreshIsPriced ==
  ASSUME InputsTyped, \A s \in Sides : books[s] # Missing /\ fees[s] # Missing,
         NEW s \in Sides, books[s].source_age \in 0..MaxInputAge,
         books[s].recv_age \in 0..MaxInputAge, fees[s].age <= MaxInputAge,
         fees[s].rate # Missing
  PROVE  /\ Priced(Simulated(s)) /\ Simulated(s) # Missing
         /\ Simulated(s).filled
              = MinimumSize - Left(Held(books[s].asks), MinimumSize, DOMAIN books[s].asks)
<1> DEFINE book == books[s]
           schedule == fees[s]
           size == MinimumSize
           asks == book.asks
           S == DOMAIN asks
           walk == Walk(schedule, size, asks)
           all_in == AllIn("BUY", walk, ThePolicy)
           t == Taken(Held(asks), size, S)
<1>1. /\ asks \in Seq(BookLevel) /\ book.token_id = s /\ book.condition_id = Condition
      /\ schedule.rate \in Nat /\ schedule.condition_id = Condition /\ schedule.age \in Nat
      /\ book.recv_age \in Nat
  BY SideTyped
<1>2. size \in Nat
  BY MinimumSizeTyped
<1>3. EligibleLevels(book, "BUY", 100) = asks
  BY <1>1, AllAsksEligible
<1>4. /\ MaxInputAge \in Nat /\ Missing \notin Int /\ Missing \notin Simulations
      /\ ThePolicy.max_book_age = MaxInputAge /\ ThePolicy.max_fee_age = MaxInputAge
      /\ ThePolicy.slippage = 1 /\ ThePolicy.fee_buffer = 50
  BY DecisionConstants DEF ThePolicy
<1>5. BookFault(book, ThePolicy) = "none"
  <2>1. book.source_age \in Int /\ 0 <= book.source_age /\ book.source_age <= MaxInputAge
    BY <1>4
  <2>2. book.recv_age \in Int /\ 0 <= book.recv_age /\ book.recv_age <= MaxInputAge
    BY <1>4
  <2>3. book.source_age # Missing
    BY <1>4, <2>1
  <2> HIDE DEF book
  <2> QED BY <1>4, <2>1, <2>2, <2>3 DEF BookFault
<1>6. FeeFault(schedule, book.condition_id, ThePolicy) = "none"
  <2> HIDE DEF schedule, book
  <2>1. schedule.age <= MaxInputAge
    BY DEF schedule
  <2> QED BY <1>1, <1>4, <2>1 DEF FeeFault
<1>7. walk = Closed(schedule, size, asks, S)
  BY <1>1, <1>2, WalkIsClosed
<1>8. /\ walk.remaining = Left(Held(asks), size, S)
      /\ walk.gross \in Nat /\ walk.fee \in Nat
  <2>1. IsFiniteSet(S) /\ Held(asks) \in [S -> Nat] /\ S \in SUBSET S
    BY <1>1, LevelsTyped
  <2>2. t \in [S -> Nat]
    <3> HIDE DEF S, asks, size
    <3> QED BY <1>2, <2>1, TakenTyped
  <2> DEFINE gross == [i \in S |-> Gross(asks)[i][t[i]]]
             fee == [i \in S |-> Fee(schedule, asks)[i][t[i]]]
  <2>3. ASSUME NEW i \in S PROVE gross[i] \in Nat /\ fee[i] \in Nat
    <3>1. asks[i] \in BookLevel
      BY <1>1
    <3>2. asks[i].price \in Nat /\ asks[i].price <= 100
      BY <3>1, LevelFacts
    <3>3. t[i] \in Nat
      <4> HIDE DEF t
      <4> QED BY <2>2
    <3> HIDE DEF t, asks, schedule, S
    <3>4. asks[i].price * t[i] \in Nat
      BY <3>2, <3>3, ProductNatural
    <3>5. QuoteFee(schedule, t[i], asks[i].price) \in Nat
      BY <1>1, <3>2, <3>3, FeeTyped
    <3>6. /\ gross[i] = asks[i].price * t[i] * Cent
          /\ fee[i] = QuoteFee(schedule, t[i], asks[i].price)
      BY <3>3 DEF Gross, Fee, S
    <3> QED BY <3>4, <3>5, <3>6 DEF Cent
  <2>4. SumFunctionOnSet(gross, S) \in Nat /\ SumFunctionOnSet(fee, S) \in Nat
    <3> HIDE DEF gross, fee, S
    <3> QED BY <2>1, <2>3, SumTyped
  <2>5. /\ walk.remaining = Left(Held(asks), size, S)
        /\ walk.gross = SumFunctionOnSet(gross, S) /\ walk.fee = SumFunctionOnSet(fee, S)
    <3> HIDE DEF walk
    <3> QED BY <1>7 DEF Closed, Paid
  <2> QED BY <2>4, <2>5
<1> HIDE DEF t
<1>9. all_in \in Nat
  <2> HIDE DEF walk
  <2> QED BY <1>4, <1>8 DEF AllIn, Scale
<1> DEFINE priced == [fault |-> "none", filled |-> size - walk.remaining, requested |-> size,
                      all_in |-> all_in, token_id |-> book.token_id,
                      condition_id |-> book.condition_id]
<1>10. Simulated(s) = priced
  <2>1. ~(all_in < 0)
    <3> HIDE DEF all_in
    <3> QED BY <1>9
  <2>2. schedule.rate # Missing
    BY <1>1, <1>4
  <2> HIDE DEF walk, asks, size
  <2> QED BY <1>3, <1>5, <1>6, <2>1, <2>2 DEF Simulated, SimulateDepth, walk, size
<1>11. size - walk.remaining \in Nat
  <2>1. Left(Held(asks), size, S) \in Nat /\ Left(Held(asks), size, S) <= size
    BY <1>1, <1>2, LeftOfQuantity
  <2> HIDE DEF walk, size, asks, S
  <2> QED BY <1>2, <1>8, <2>1
<1>12. priced \in Simulations
  <2> HIDE DEF walk, size, all_in
  <2> QED BY <1>1, <1>2, <1>9, <1>11 DEF Simulations, Sides, Condition
<1>13. Simulated(s) # Missing
  BY <1>4, <1>10, <1>12
<1> HIDE DEF walk
<1> QED BY <1>8, <1>10, <1>13 DEF Priced

(* A side is priced and filled in full exactly if its inputs are available. *)
LEMMA FilledIsAvailable ==
  ASSUME DecisionInv, NEW s \in Sides
  PROVE  Available(s) <=> /\ DirectionalPricing[s] # Missing
                          /\ FullyFilled(DirectionalPricing[s])
<1>1. InputsTyped /\ OneSchedule
  BY DEF DecisionInv
<1>2. ASSUME DirectionalPricing[s] # Missing, FullyFilled(DirectionalPricing[s])
      PROVE  Available(s)
  <2>1. /\ \A r \in Sides : books[r] # Missing /\ fees[r] # Missing /\ Priced(Simulated(r))
        /\ DirectionalPricing[s] = Simulated(s)
    BY <1>2, PricingIsSimulated
  <2>2. Bought(s)
    BY <1>2, <2>1, FilledIsBought
  <2>3. \A r \in Sides : fees[r].rate # Missing
    BY <1>1, <2>2 DEF Bought, OneSchedule
  <2>4. \A r \in Sides : /\ books[r].source_age \in 0..MaxInputAge
                         /\ books[r].recv_age \in 0..MaxInputAge
                         /\ fees[r].age <= MaxInputAge
    BY <1>1, <2>1, PricedIsFresh
  <2> QED BY <2>1, <2>2, <2>3, <2>4 DEF Available, Bought
<1>3. ASSUME Available(s)
      PROVE  DirectionalPricing[s] # Missing /\ FullyFilled(DirectionalPricing[s])
  <2>1. /\ \A r \in Sides : books[r] # Missing /\ fees[r] # Missing
        /\ \A r \in Sides : /\ books[r].source_age \in 0..MaxInputAge
                            /\ books[r].recv_age \in 0..MaxInputAge
                            /\ fees[r].age <= MaxInputAge /\ fees[r].rate # Missing
        /\ Splits(books[s].asks, MinimumSize) # {}
    BY <1>3 DEF Available
  <2>2. \A r \in Sides : Priced(Simulated(r)) /\ Simulated(r) # Missing
    BY <1>1, <2>1, FreshIsPriced
  <2>3. DirectionalPricing[s] = Simulated(s)
    BY <2>1, <2>2 DEF DirectionalPricing
  <2>4. Simulated(s).requested = MinimumSize
    BY <1>1, <2>1, <2>2, PricedIsFresh
  <2>5. MinimumSize \in Nat /\ books[s].asks \in Seq(BookLevel)
    BY <1>1, <2>1, MinimumSizeTyped, SideTyped
  <2>6. Simulated(s).filled
          = MinimumSize - Left(Held(books[s].asks), MinimumSize, DOMAIN books[s].asks)
    BY <1>1, <2>1, FreshIsPriced
  <2>7. Left(Held(books[s].asks), MinimumSize, DOMAIN books[s].asks) = 0
    BY <2>1, <2>5, LeftOfQuantity
  <2>8. Simulated(s).filled = MinimumSize
    BY <2>5, <2>6, <2>7
  <2> QED BY <2>2, <2>3, <2>4, <2>8 DEF FullyFilled
<1> QED BY <1>2, <1>3

(* The gates of the strategy, in order (_gate_statuses). *)
LEMMA GatesInOrder ==
  /\ StrategyGates =
       {"MARKET_GATE", "PTB_GATE", "FEATURE_GATE", "MODEL_GATE", "CALIBRATION_GATE",
        "IDENTITY_GATE", "FORECAST_FRESHNESS_GATE", "SIGNAL_STABILITY_GATE", "FLIP_RATE_GATE",
        "DIRECTION_GATE", "PRICING_GATE", "PRICING_IDENTITY_GATE", "NET_EDGE_GATE"}
  /\ Range(GateOrder) = StrategyGates \cup {"RISK_GATE", "EXECUTION_GATE"}
  /\ Position("MARKET_GATE") = 1 /\ Position("PTB_GATE") = 2 /\ Position("FEATURE_GATE") = 3
  /\ Position("MODEL_GATE") = 4 /\ Position("CALIBRATION_GATE") = 5
  /\ Position("IDENTITY_GATE") = 6 /\ Position("FORECAST_FRESHNESS_GATE") = 7
  /\ Position("SIGNAL_STABILITY_GATE") = 8 /\ Position("FLIP_RATE_GATE") = 9
  /\ Position("DIRECTION_GATE") = 10 /\ Position("PRICING_GATE") = 11
  /\ Position("PRICING_IDENTITY_GATE") = 12 /\ Position("NET_EDGE_GATE") = 13
<1>1. DOMAIN GateOrder = 1..15
  BY DEF GateOrder
<1>2. /\ GateOrder[1] = "MARKET_GATE" /\ GateOrder[2] = "PTB_GATE"
      /\ GateOrder[3] = "FEATURE_GATE" /\ GateOrder[4] = "MODEL_GATE"
      /\ GateOrder[5] = "CALIBRATION_GATE" /\ GateOrder[6] = "IDENTITY_GATE"
      /\ GateOrder[7] = "FORECAST_FRESHNESS_GATE" /\ GateOrder[8] = "SIGNAL_STABILITY_GATE"
      /\ GateOrder[9] = "FLIP_RATE_GATE" /\ GateOrder[10] = "DIRECTION_GATE"
      /\ GateOrder[11] = "PRICING_GATE" /\ GateOrder[12] = "PRICING_IDENTITY_GATE"
      /\ GateOrder[13] = "NET_EDGE_GATE" /\ GateOrder[14] = "RISK_GATE"
      /\ GateOrder[15] = "EXECUTION_GATE"
  BY DEF GateOrder
<1>3. \A i \in 1..15 : i \in {1, 2, 3, 4, 5, 6, 7, 8, 9, 10, 11, 12, 13, 14, 15}
  OBVIOUS
<1>4. Range(GateOrder) =
       {"MARKET_GATE", "PTB_GATE", "FEATURE_GATE", "MODEL_GATE", "CALIBRATION_GATE",
        "IDENTITY_GATE", "FORECAST_FRESHNESS_GATE", "SIGNAL_STABILITY_GATE", "FLIP_RATE_GATE",
        "DIRECTION_GATE", "PRICING_GATE", "PRICING_IDENTITY_GATE", "NET_EDGE_GATE",
        "RISK_GATE", "EXECUTION_GATE"}
  BY <1>1, <1>2, <1>3 DEF Range
<1>5. StrategyGates =
       {"MARKET_GATE", "PTB_GATE", "FEATURE_GATE", "MODEL_GATE", "CALIBRATION_GATE",
        "IDENTITY_GATE", "FORECAST_FRESHNESS_GATE", "SIGNAL_STABILITY_GATE", "FLIP_RATE_GATE",
        "DIRECTION_GATE", "PRICING_GATE", "PRICING_IDENTITY_GATE", "NET_EDGE_GATE"}
  BY <1>4 DEF StrategyGates
<1>6. \A i, j \in 1..15 : GateOrder[i] = GateOrder[j] => i = j
  BY <1>2, <1>3
<1>7. ASSUME NEW i \in 1..15 PROVE Position(GateOrder[i]) = i
  BY <1>1, <1>6 DEF Position
<1>8. /\ 1 \in 1..15 /\ 2 \in 1..15 /\ 3 \in 1..15 /\ 4 \in 1..15 /\ 5 \in 1..15 /\ 6 \in 1..15
      /\ 7 \in 1..15 /\ 8 \in 1..15 /\ 9 \in 1..15 /\ 10 \in 1..15 /\ 11 \in 1..15
      /\ 12 \in 1..15 /\ 13 \in 1..15
  OBVIOUS
<1> QED BY <1>2, <1>4, <1>5, <1>7, <1>8

(* A verdict that explains: the gate it names does not hold and the ones before it do;
   if it names none, all of them hold. *)
Explains(failing) ==
  /\ failing # Missing => failing \in StrategyGates /\ ~Holds(failing)
  /\ \A g \in StrategyGates :
       failing = Missing \/ Position(g) < Position(failing) => Holds(g)

(* What each gate asks, one by one. *)
LEMMA GateByGate ==
  /\ Holds("MARKET_GATE") <=> Opens <= observed_at /\ observed_at < Closes
  /\ Holds("PTB_GATE") <=> ptb
  /\ Holds("FEATURE_GATE") <=> features # Missing
  /\ Holds("MODEL_GATE") <=> forecast # Missing
  /\ Holds("CALIBRATION_GATE") /\ Holds("IDENTITY_GATE") /\ Holds("FORECAST_FRESHNESS_GATE")
  /\ Holds("SIGNAL_STABILITY_GATE") <=> /\ features.stability # Missing
                                        /\ features.flip_rate # Missing
                                        /\ features.stability >= MinimumStability
  /\ Holds("FLIP_RATE_GATE") <=> features.flip_rate <= MaximumFlipRate
  /\ Holds("DIRECTION_GATE") <=> forecast.p_up # 50
  /\ Holds("PRICING_GATE") <=> Available(IF forecast.p_up > 50 THEN "UP" ELSE "DOWN")
  /\ Holds("PRICING_IDENTITY_GATE")
<1>1. Holds("MARKET_GATE") <=> Opens <= observed_at /\ observed_at < Closes
  BY DEF Holds
<1>2. Holds("PTB_GATE") <=> ptb
  BY DEF Holds
<1>3. Holds("FEATURE_GATE") <=> features # Missing
  BY DEF Holds
<1>4. Holds("MODEL_GATE") <=> forecast # Missing
  BY DEF Holds
<1>5. /\ Holds("CALIBRATION_GATE") /\ Holds("IDENTITY_GATE") /\ Holds("FORECAST_FRESHNESS_GATE")
      /\ Holds("PRICING_IDENTITY_GATE")
  BY DEF Holds
<1>6. Holds("SIGNAL_STABILITY_GATE") <=> /\ features.stability # Missing
                                        /\ features.flip_rate # Missing
                                        /\ features.stability >= MinimumStability
  BY DEF Holds
<1>7. Holds("FLIP_RATE_GATE") <=> features.flip_rate <= MaximumFlipRate
  BY DEF Holds
<1>8. Holds("DIRECTION_GATE") <=> forecast.p_up # 50
  BY DEF Holds
<1>9. Holds("PRICING_GATE") <=> Available(IF forecast.p_up > 50 THEN "UP" ELSE "DOWN")
  BY DEF Holds
<1> QED BY <1>1, <1>2, <1>3, <1>4, <1>5, <1>6, <1>7, <1>8, <1>9

(* What the gate of the net edge asks: the cheapest cost leaves the margin. *)
LEMMA NetEdgeGate ==
  LET side == IF forecast.p_up > 50 THEN "UP" ELSE "DOWN" IN
  Holds("NET_EDGE_GATE") <=>
    CheapestCost(books[side].asks, MinimumSize, fees[side], ThePolicy)
      <= ((IF side = "UP" THEN forecast.p_up ELSE 100 - forecast.p_up)
           - UncertaintyBuffer - MinimumNetEdge) * MinimumSize * Cent * Scale
<1> DEFINE side == IF forecast.p_up > 50 THEN "UP" ELSE "DOWN"
           cost == CheapestCost(books[side].asks, MinimumSize, fees[side], ThePolicy)
           limit == ((IF side = "UP" THEN forecast.p_up ELSE 100 - forecast.p_up)
                      - UncertaintyBuffer - MinimumNetEdge) * MinimumSize * Cent * Scale
<1>1. Holds("NET_EDGE_GATE") = (cost <= limit)
  <2> HIDE DEF cost, limit
  <2> QED BY DEF Holds, cost, limit
<1> QED BY <1>1

(* Each reason is filed under its gate (_reason_to_gate). *)
LEMMA ReasonsByGate ==
  /\ ReasonToGate("MARKET_NOT_ACTIVE") = "MARKET_GATE"
  /\ ReasonToGate("OFFICIAL_PTB_UNAVAILABLE") = "PTB_GATE"
  /\ ReasonToGate("FEATURES_UNAVAILABLE") = "FEATURE_GATE"
  /\ ReasonToGate("MODEL_UNAVAILABLE") = "MODEL_GATE"
  /\ ReasonToGate("SIGNAL_QUALITY_FEATURES_MISSING") = "SIGNAL_STABILITY_GATE"
  /\ ReasonToGate("SIGNAL_UNSTABLE") = "SIGNAL_STABILITY_GATE"
  /\ ReasonToGate("FLIP_RATE_TOO_HIGH") = "FLIP_RATE_GATE"
  /\ ReasonToGate("NO_DIRECTIONAL_SIDE") = "DIRECTION_GATE"
  /\ ReasonToGate("EXECUTABLE_PRICE_UNAVAILABLE") = "PRICING_GATE"
  /\ ReasonToGate("NET_EDGE_BELOW_MINIMUM") = "NET_EDGE_GATE"
  /\ ReasonToGate("PRE_RISK_CANDIDATE") = Missing
BY DEF ReasonToGate

(* The signal is the features' own, and there is one exactly if there are features. *)
LEMMA SignalOfFeatures ==
  ASSUME InputsTyped
  PROVE  /\ Signal = Missing <=> features = Missing
         /\ features # Missing =>
              /\ Signal.stability = features.stability /\ Signal.flip_rate = features.flip_rate
              /\ features.stability \in Int \cup {Missing}
              /\ features.flip_rate \in Int \cup {Missing}
<1>1. CASE features = Missing
  BY <1>1 DEF Signal
<1>2. CASE features # Missing
  <2>1. features \in Features
    BY <1>2 DEF InputsTyped
  <2>2. /\ features.stability \in Int \cup {Missing}
        /\ features.flip_rate \in Int \cup {Missing}
    BY <2>1 DEF Features
  <2> DEFINE signal == [stability |-> features.stability, flip_rate |-> features.flip_rate]
  <2>3. Signal = signal
    BY <1>2 DEF Signal
  <2>4. signal \in Signals
    BY <2>2 DEF Signals
  <2>5. signal # Missing
    <3> HIDE DEF signal
    <3> QED BY <2>4, DecisionConstants
  <2> QED BY <1>2, <2>2, <2>3, <2>5
<1> QED BY <1>1, <1>2

(* The verdict before the price: the first gate that fails, if one of the first nine does. *)
LEMMA VerdictBeforeEdge ==
  ASSUME InputsTyped
  PROVE  LET verdict(reason) == Assess(Signal) = Abstains(reason) IN
         /\ ~Holds("MARKET_GATE") => verdict("MARKET_NOT_ACTIVE")
         /\ Holds("MARKET_GATE") /\ ~Holds("PTB_GATE") => verdict("OFFICIAL_PTB_UNAVAILABLE")
         /\ Holds("MARKET_GATE") /\ Holds("PTB_GATE") =>
              /\ ~Holds("FEATURE_GATE") => verdict("FEATURES_UNAVAILABLE")
              /\ Holds("FEATURE_GATE") =>
                   /\ ~Holds("MODEL_GATE") => verdict("MODEL_UNAVAILABLE")
                   /\ Holds("MODEL_GATE") =>
                        /\ ~Holds("SIGNAL_STABILITY_GATE") =>
                             \/ verdict("SIGNAL_QUALITY_FEATURES_MISSING")
                             \/ verdict("SIGNAL_UNSTABLE")
                        /\ Holds("SIGNAL_STABILITY_GATE") =>
                             /\ ~Holds("FLIP_RATE_GATE") => verdict("FLIP_RATE_TOO_HIGH")
                             /\ Holds("FLIP_RATE_GATE") => Assess(Signal) = AssessEdge
<1> DEFINE verdict(reason) == Assess(Signal) = Abstains(reason)
<1>1. /\ observed_at \in Int /\ Opens \in Int /\ Closes \in Int
      /\ MinimumStability \in Int /\ MaximumFlipRate \in Int
  BY DecisionConstants DEF InputsTyped, MinimumStability, MaximumFlipRate
<1>2. Holds("MARKET_GATE") <=> ~(observed_at < Opens \/ observed_at >= Closes)
  BY <1>1, GateByGate
<1>3. Holds("PTB_GATE") <=> ptb
  BY GateByGate
<1>4. /\ ~Holds("MARKET_GATE") => verdict("MARKET_NOT_ACTIVE")
      /\ Holds("MARKET_GATE") /\ ~Holds("PTB_GATE") => verdict("OFFICIAL_PTB_UNAVAILABLE")
  <2>1. CASE ~Holds("MARKET_GATE")
    BY <1>1, <1>2, <2>1 DEF Assess
  <2>2. CASE Holds("MARKET_GATE") /\ ~Holds("PTB_GATE")
    BY <1>1, <1>2, <1>3, <2>2 DEF Assess
  <2> QED BY <2>1, <2>2
<1>5. Holds("FEATURE_GATE") <=> Signal # Missing
  BY GateByGate, SignalOfFeatures
<1>6. Holds("MODEL_GATE") <=> forecast # Missing
  BY GateByGate
<1>7. Holds("MARKET_GATE") /\ Holds("PTB_GATE") =>
        Assess(Signal) = IF Signal = Missing THEN Abstains("FEATURES_UNAVAILABLE")
                         ELSE IF forecast = Missing THEN Abstains("MODEL_UNAVAILABLE")
                         ELSE IF SignalFailure(Signal) # "none" THEN Abstains(SignalFailure(Signal))
                         ELSE AssessEdge
  BY <1>1, <1>2, <1>3 DEF Assess
<1>8. Holds("FEATURE_GATE") =>
        /\ ~Holds("SIGNAL_STABILITY_GATE") =>
             SignalFailure(Signal) \in {"SIGNAL_QUALITY_FEATURES_MISSING", "SIGNAL_UNSTABLE"}
        /\ Holds("SIGNAL_STABILITY_GATE") /\ ~Holds("FLIP_RATE_GATE") =>
             SignalFailure(Signal) = "FLIP_RATE_TOO_HIGH"
        /\ Holds("SIGNAL_STABILITY_GATE") /\ Holds("FLIP_RATE_GATE") =>
             SignalFailure(Signal) = "none"
  <2> SUFFICES ASSUME Holds("FEATURE_GATE")
               PROVE  /\ ~Holds("SIGNAL_STABILITY_GATE") =>
                           SignalFailure(Signal)
                             \in {"SIGNAL_QUALITY_FEATURES_MISSING", "SIGNAL_UNSTABLE"}
                      /\ Holds("SIGNAL_STABILITY_GATE") /\ ~Holds("FLIP_RATE_GATE") =>
                           SignalFailure(Signal) = "FLIP_RATE_TOO_HIGH"
                      /\ Holds("SIGNAL_STABILITY_GATE") /\ Holds("FLIP_RATE_GATE") =>
                           SignalFailure(Signal) = "none"
    OBVIOUS
  <2> DEFINE a == Signal.stability
             b == Signal.flip_rate
  <2>1. /\ a \in Int \cup {Missing} /\ b \in Int \cup {Missing}
        /\ Holds("SIGNAL_STABILITY_GATE") <=> a # Missing /\ b # Missing /\ a >= MinimumStability
        /\ Holds("FLIP_RATE_GATE") <=> b <= MaximumFlipRate
    BY GateByGate, SignalOfFeatures
  <2>2. CASE a = Missing \/ b = Missing
    BY <2>1, <2>2 DEF SignalFailure
  <2>3. CASE a # Missing /\ b # Missing
    <3>1. a \in Int /\ b \in Int
      BY <2>1, <2>3
    <3>2. CASE a < MinimumStability
      BY <1>1, <2>1, <2>3, <3>1, <3>2 DEF SignalFailure
    <3>3. CASE ~(a < MinimumStability) /\ b > MaximumFlipRate
      BY <1>1, <2>1, <2>3, <3>1, <3>3 DEF SignalFailure
    <3>4. CASE ~(a < MinimumStability) /\ ~(b > MaximumFlipRate)
      BY <1>1, <2>1, <2>3, <3>1, <3>4 DEF SignalFailure
    <3> QED BY <3>2, <3>3, <3>4
  <2> QED BY <2>2, <2>3
<1>9. Holds("MARKET_GATE") /\ Holds("PTB_GATE") =>
        /\ ~Holds("FEATURE_GATE") => verdict("FEATURES_UNAVAILABLE")
        /\ Holds("FEATURE_GATE") =>
             /\ ~Holds("MODEL_GATE") => verdict("MODEL_UNAVAILABLE")
             /\ Holds("MODEL_GATE") =>
                  /\ SignalFailure(Signal) # "none" => verdict(SignalFailure(Signal))
                  /\ SignalFailure(Signal) = "none" => Assess(Signal) = AssessEdge
  BY <1>5, <1>6, <1>7
<1> QED BY <1>4, <1>8, <1>9

(* The verdict on the price, once signal and model are accepted. *)
LEMMA VerdictOnEdge ==
  ASSUME DecisionInv, Holds("MODEL_GATE")
  PROVE  LET abstains(reason) == AssessEdge.action = "ABSTAIN" /\ AssessEdge.reason = reason IN
         /\ ~Holds("DIRECTION_GATE") => abstains("NO_DIRECTIONAL_SIDE")
         /\ Holds("DIRECTION_GATE") =>
              /\ ~Holds("PRICING_GATE") => abstains("EXECUTABLE_PRICE_UNAVAILABLE")
              /\ Holds("PRICING_GATE") =>
                   /\ ~Holds("NET_EDGE_GATE") => abstains("NET_EDGE_BELOW_MINIMUM")
                   /\ Holds("NET_EDGE_GATE") =>
                        AssessEdge.action = "TRADE" /\ AssessEdge.reason = "PRE_RISK_CANDIDATE"
<1> DEFINE abstains(reason) == AssessEdge.action = "ABSTAIN" /\ AssessEdge.reason = reason
           side == IF forecast.p_up > 50 THEN "UP" ELSE "DOWN"
           pricing == DirectionalPricing[side]
           edge == NetEdge(side, pricing) < MinimumNetEdge * pricing.filled * Cent * Scale
<1>1. InputsTyped /\ forecast # Missing /\ side \in Sides
  BY GateByGate DEF DecisionInv, Sides
<1>2. Holds("DIRECTION_GATE") <=> forecast.p_up # 50
  BY GateByGate
<1>3. Holds("PRICING_GATE") <=> pricing # Missing /\ FullyFilled(pricing)
  BY <1>1, GateByGate, FilledIsAvailable
<1>4. ~Holds("DIRECTION_GATE") => abstains("NO_DIRECTIONAL_SIDE")
  BY <1>2 DEF AssessEdge, Abstains
<1>5. Holds("DIRECTION_GATE") /\ ~Holds("PRICING_GATE") =>
        abstains("EXECUTABLE_PRICE_UNAVAILABLE")
  <2> SUFFICES ASSUME forecast.p_up # 50, ~(pricing # Missing /\ FullyFilled(pricing))
               PROVE  abstains("EXECUTABLE_PRICE_UNAVAILABLE")
    BY <1>2, <1>3
  <2>1. (IF pricing = Missing THEN TRUE ELSE ~FullyFilled(pricing)) = TRUE
    <3> HIDE DEF pricing
    <3> QED OBVIOUS
  <2>2. AssessEdge = Abstains("EXECUTABLE_PRICE_UNAVAILABLE")
    BY <2>1 DEF AssessEdge, ChosenPricing
  <2> QED BY <2>2 DEF Abstains
<1>6. ASSUME Holds("DIRECTION_GATE"), Holds("PRICING_GATE")
      PROVE  /\ ~Holds("NET_EDGE_GATE") => abstains("NET_EDGE_BELOW_MINIMUM")
             /\ Holds("NET_EDGE_GATE") =>
                  AssessEdge.action = "TRADE" /\ AssessEdge.reason = "PRE_RISK_CANDIDATE"
  <2>1. /\ pricing # Missing /\ FullyFilled(pricing) /\ forecast.p_up # 50
    BY <1>2, <1>3, <1>6
  <2>2. /\ \A r \in Sides : books[r] # Missing /\ fees[r] # Missing /\ Priced(Simulated(r))
        /\ pricing = Simulated(side)
    BY <1>1, <2>1, PricingIsSimulated
  <2>3. Bought(side)
    BY <1>1, <2>1, <2>2, FilledIsBought
  <2>4. pricing.condition_id = Condition /\ pricing.token_id = side
    <3>1. books[side].condition_id = Condition /\ books[side].token_id = side
      BY <1>1, <2>2, SideTyped
    <3> HIDE DEF side, pricing
    <3>2. /\ Simulated(side).condition_id = books[side].condition_id
          /\ Simulated(side).token_id = books[side].token_id
      BY <1>1, <2>2 DEF Simulated, SimulateDepth, Priced, Unpriced
    <3> QED BY <2>2, <3>1, <3>2
  <2>5. Holds("NET_EDGE_GATE") <=> ~edge
    <3>1. MinimumSize \in Nat
      BY <1>1, <2>2, MinimumSizeTyped
    <3>2. /\ pricing.filled = MinimumSize /\ pricing.all_in \in Int
          /\ pricing.all_in = CheapestCost(books[side].asks, MinimumSize, fees[side], ThePolicy)
      BY <2>2, <2>3 DEF Bought
    <3>3. Holds("NET_EDGE_GATE") <=>
            pricing.all_in
              <= ((IF side = "UP" THEN forecast.p_up ELSE 100 - forecast.p_up)
                    - UncertaintyBuffer - MinimumNetEdge) * pricing.filled * Cent * Scale
      BY <3>2, NetEdgeGate
    <3> HIDE DEF pricing, side
    <3>4. ~edge <=>
            pricing.all_in
              <= ((IF side = "UP" THEN forecast.p_up ELSE 100 - forecast.p_up)
                    - UncertaintyBuffer - MinimumNetEdge) * pricing.filled * Cent * Scale
      BY <1>1, <3>1, <3>2, EdgeIsMargin
    <3> QED BY <3>3, <3>4
  <2>6. AssessEdge = IF edge
                     THEN [action |-> "ABSTAIN", reason |-> "NET_EDGE_BELOW_MINIMUM", side |-> side]
                     ELSE [action |-> "TRADE", reason |-> "PRE_RISK_CANDIDATE", side |-> side,
                           quantity |-> pricing.filled, required_capital |-> pricing.all_in]
    BY <2>1, <2>4 DEF AssessEdge, ChosenPricing
  <2> HIDE DEF edge, pricing, side
  <2> QED BY <2>5, <2>6
<1> QED BY <1>4, <1>5, <1>6

(* What the audit is built from explains the decision. *)
LEMMA VerdictExplains ==
  ASSUME DecisionInv
  PROVE  /\ Explains(ReasonToGate(Assess(Signal).reason))
         /\ ReasonToGate(Assess(Signal).reason) = Missing <=> Assess(Signal).action = "TRADE"
<1> DEFINE a == Assess(Signal)
           f == ReasonToGate(a.reason)
           Goal == Explains(f) /\ (f = Missing <=> a.action = "TRADE")
<1> SUFFICES Goal
  OBVIOUS
<1>1. InputsTyped
  BY DEF DecisionInv
<1>2. \A reason : Abstains(reason).action = "ABSTAIN" /\ Abstains(reason).reason = reason
  BY DEF Abstains
<1>3. \A g \in StrategyGates : g # Missing
  BY MissingIsNoGate, GatesInOrder
<1>19. f = ReasonToGate(a.reason)
  OBVIOUS
<1> HIDE DEF a, f
<1> DEFINE Fails(g) == /\ g \in StrategyGates /\ f = g /\ ~Holds(g) /\ a.action = "ABSTAIN"
                       /\ \A h \in StrategyGates : Position(h) < Position(g) => Holds(h)
<1>4. ASSUME NEW g, Fails(g) PROVE Goal
  <2>1. Explains(g)
    BY <1>3, <1>4 DEF Explains
  <2> QED BY <1>3, <1>4, <2>1
<1>20. \A g \in {"MARKET_GATE", "PTB_GATE", "FEATURE_GATE", "MODEL_GATE", "SIGNAL_STABILITY_GATE",
                 "FLIP_RATE_GATE", "DIRECTION_GATE", "PRICING_GATE", "NET_EDGE_GATE"} :
         g \in StrategyGates
  BY GatesInOrder
<1> HIDE DEF Goal
<1>5. CASE ~Holds("MARKET_GATE")
  <2>1. f = "MARKET_GATE" /\ a.action = "ABSTAIN"
    BY <1>1, <1>2, <1>5, <1>19, VerdictBeforeEdge, ReasonsByGate DEF a
  <2>2. \A h \in StrategyGates : Position(h) < Position("MARKET_GATE") => Holds(h)
    BY GatesInOrder
  <2>3. Fails("MARKET_GATE")
    BY <1>5, <1>20, <2>1, <2>2
  <2> QED BY <1>4, <2>3
<1>6. CASE Holds("MARKET_GATE") /\ ~Holds("PTB_GATE")
  <2>1. f = "PTB_GATE" /\ a.action = "ABSTAIN"
    BY <1>1, <1>2, <1>6, <1>19, VerdictBeforeEdge, ReasonsByGate DEF a
  <2>2. \A h \in StrategyGates : Position(h) < Position("PTB_GATE") => Holds(h)
    BY <1>6, GatesInOrder
  <2>3. Fails("PTB_GATE")
    BY <1>6, <1>20, <2>1, <2>2
  <2> QED BY <1>4, <2>3
<1>7. CASE Holds("MARKET_GATE") /\ Holds("PTB_GATE") /\ ~Holds("FEATURE_GATE")
  <2>1. f = "FEATURE_GATE" /\ a.action = "ABSTAIN"
    BY <1>1, <1>2, <1>7, <1>19, VerdictBeforeEdge, ReasonsByGate DEF a
  <2>2. \A h \in StrategyGates : Position(h) < Position("FEATURE_GATE") => Holds(h)
    BY <1>7, GatesInOrder
  <2>3. Fails("FEATURE_GATE")
    BY <1>7, <1>20, <2>1, <2>2
  <2> QED BY <1>4, <2>3
<1> DEFINE Ready == Holds("MARKET_GATE") /\ Holds("PTB_GATE") /\ Holds("FEATURE_GATE")
<1>8. CASE Ready /\ ~Holds("MODEL_GATE")
  <2>1. f = "MODEL_GATE" /\ a.action = "ABSTAIN"
    BY <1>1, <1>2, <1>8, <1>19, VerdictBeforeEdge, ReasonsByGate DEF a
  <2>2. \A h \in StrategyGates : Position(h) < Position("MODEL_GATE") => Holds(h)
    BY <1>8, GatesInOrder
  <2>3. Fails("MODEL_GATE")
    BY <1>8, <1>20, <2>1, <2>2
  <2> QED BY <1>4, <2>3
<1> DEFINE Modelled == /\ Ready /\ Holds("MODEL_GATE") /\ Holds("CALIBRATION_GATE")
                       /\ Holds("IDENTITY_GATE") /\ Holds("FORECAST_FRESHNESS_GATE")
<1>9. Ready /\ Holds("MODEL_GATE") => Modelled
  BY GateByGate
<1>10. CASE Modelled /\ ~Holds("SIGNAL_STABILITY_GATE")
  <2>1. f = "SIGNAL_STABILITY_GATE" /\ a.action = "ABSTAIN"
    BY <1>1, <1>2, <1>10, <1>19, VerdictBeforeEdge, ReasonsByGate DEF a
  <2>2. \A h \in StrategyGates : Position(h) < Position("SIGNAL_STABILITY_GATE") => Holds(h)
    BY <1>10, GatesInOrder
  <2>3. Fails("SIGNAL_STABILITY_GATE")
    BY <1>10, <1>20, <2>1, <2>2
  <2> QED BY <1>4, <2>3
<1>11. CASE Modelled /\ Holds("SIGNAL_STABILITY_GATE") /\ ~Holds("FLIP_RATE_GATE")
  <2>1. f = "FLIP_RATE_GATE" /\ a.action = "ABSTAIN"
    BY <1>1, <1>2, <1>11, <1>19, VerdictBeforeEdge, ReasonsByGate DEF a
  <2>2. \A h \in StrategyGates : Position(h) < Position("FLIP_RATE_GATE") => Holds(h)
    BY <1>11, GatesInOrder
  <2>3. Fails("FLIP_RATE_GATE")
    BY <1>11, <1>20, <2>1, <2>2
  <2> QED BY <1>4, <2>3
<1> DEFINE Stable == Modelled /\ Holds("SIGNAL_STABILITY_GATE") /\ Holds("FLIP_RATE_GATE")
<1>12. Stable => a = AssessEdge /\ Holds("MODEL_GATE")
  BY <1>1, VerdictBeforeEdge DEF a
<1>13. CASE Stable /\ ~Holds("DIRECTION_GATE")
  <2>1. f = "DIRECTION_GATE" /\ a.action = "ABSTAIN"
    BY <1>12, <1>13, <1>19, VerdictOnEdge, ReasonsByGate
  <2>2. \A h \in StrategyGates : Position(h) < Position("DIRECTION_GATE") => Holds(h)
    BY <1>13, GatesInOrder
  <2>3. Fails("DIRECTION_GATE")
    BY <1>13, <1>20, <2>1, <2>2
  <2> QED BY <1>4, <2>3
<1>14. CASE Stable /\ Holds("DIRECTION_GATE") /\ ~Holds("PRICING_GATE")
  <2>1. f = "PRICING_GATE" /\ a.action = "ABSTAIN"
    BY <1>12, <1>14, <1>19, VerdictOnEdge, ReasonsByGate
  <2>2. \A h \in StrategyGates : Position(h) < Position("PRICING_GATE") => Holds(h)
    BY <1>14, GatesInOrder
  <2>3. Fails("PRICING_GATE")
    BY <1>14, <1>20, <2>1, <2>2
  <2> QED BY <1>4, <2>3
<1> DEFINE Bookable == /\ Stable /\ Holds("DIRECTION_GATE") /\ Holds("PRICING_GATE")
                       /\ Holds("PRICING_IDENTITY_GATE")
<1>15. CASE Bookable /\ ~Holds("NET_EDGE_GATE")
  <2>1. f = "NET_EDGE_GATE" /\ a.action = "ABSTAIN"
    BY <1>12, <1>15, <1>19, VerdictOnEdge, ReasonsByGate
  <2>2. \A h \in StrategyGates : Position(h) < Position("NET_EDGE_GATE") => Holds(h)
    BY <1>15, GatesInOrder
  <2>3. Fails("NET_EDGE_GATE")
    BY <1>15, <1>20, <2>1, <2>2
  <2> QED BY <1>4, <2>3
<1>16. CASE Bookable /\ Holds("NET_EDGE_GATE")
  <2>1. f = Missing /\ a.action = "TRADE"
    BY <1>12, <1>16, <1>19, VerdictOnEdge, ReasonsByGate
  <2>2. \A h \in StrategyGates : Holds(h)
    BY <1>16, GatesInOrder
  <2>3. Explains(f)
    BY <2>1, <2>2 DEF Explains
  <2> QED BY <2>1, <2>3 DEF Goal
<1>17. Stable /\ Holds("DIRECTION_GATE") /\ Holds("PRICING_GATE") => Bookable
  BY GateByGate
<1> QED
  BY <1>5, <1>6, <1>7, <1>8, <1>9, <1>10, <1>11, <1>13, <1>14, <1>15, <1>16, <1>17

(* A gate of the strategy passes before the failing one, fails at it, and is not reached
   after it (_gate_statuses). *)
LEMMA StrategyGateStatus ==
  ASSUME NEW g \in StrategyGates, NEW failing, NEW execution
  PROVE  GateStatus(g, failing, execution) =
           IF failing = Missing \/ Position(g) < Position(failing) THEN "PASS"
           ELSE IF g = failing THEN "FAIL" ELSE "NOT_REACHED"
<1>1. g # "RISK_GATE" /\ g # "EXECUTION_GATE"
  BY DEF StrategyGates
<1> QED BY <1>1 DEF GateStatus

(* Positions are numbers. *)
LEMMA GatePosition == \A g \in StrategyGates : Position(g) \in Nat
BY GatesInOrder

(* Risk and execution are judged only of what was executed, and a fill needs an approval. *)
LEMMA ExecutionGateStatus ==
  ASSUME NEW execution \in Executions, NEW failing
  PROVE  /\ GateStatus("RISK_GATE", failing, execution) # "NOT_REACHED" => execution # NotExecuted
         /\ GateStatus("EXECUTION_GATE", failing, execution) = "PASS" =>
              GateStatus("RISK_GATE", failing, execution) = "PASS"
<1>1. CASE execution.risk_approved = Missing
  <2>1. /\ GateStatus("RISK_GATE", failing, execution) = "NOT_REACHED"
        /\ GateStatus("EXECUTION_GATE", failing, execution) = "NOT_REACHED"
    BY <1>1 DEF GateStatus
  <2> QED BY <2>1
<1>2. CASE execution.risk_approved # Missing
  <2>1. execution # NotExecuted
    BY <1>2 DEF NotExecuted
  <2>2. /\ GateStatus("RISK_GATE", failing, execution)
             = IF execution.risk_approved THEN "PASS" ELSE "FAIL"
        /\ GateStatus("EXECUTION_GATE", failing, execution)
             = IF execution.risk_approved /\ execution.fill_status # Missing THEN "PASS"
               ELSE "NOT_REACHED"
    BY <1>2 DEF GateStatus
  <2> QED BY <2>1, <2>2
<1> QED BY <1>1, <1>2

(* Only an abstention is a trade of the diagnostic features alone
   (_diagnostic_decision_impact). *)
LEMMA DiagnosticTrade ==
  ASSUME NEW assessment, DiagnosticImpact(assessment).evaluated,
         DiagnosticImpact(assessment).abstain_to_trade
  PROVE  assessment.action # "TRADE"
<1> DEFINE trade == Assess(DiagnosticSignal).action = "TRADE"
           same == /\ assessment.action = Assess(DiagnosticSignal).action
                   /\ assessment.reason = Assess(DiagnosticSignal).reason
           changes == assessment.action # "TRADE" /\ trade
<1>1. DiagnosticImpact(assessment) =
        IF features = Missing THEN [evaluated |-> FALSE]
        ELSE [evaluated |-> TRUE, same_decision |-> same, abstain_to_trade |-> changes]
  BY DEF DiagnosticImpact
<1> HIDE DEF same, changes
<1>2. features # Missing
  <2> SUFFICES ASSUME features = Missing PROVE FALSE
    OBVIOUS
  <2>1. DiagnosticImpact(assessment).evaluated = FALSE
    BY <1>1
  <2> QED BY <2>1
<1>3. DiagnosticImpact(assessment).abstain_to_trade = changes
  BY <1>1, <1>2
<1>4. changes
  BY <1>3
<1> QED BY <1>4 DEF changes

(* The audit of a decision tells the truth of its inputs. *)
THEOREM AuditTellsTheTruth == DecisionSpec => []AuditExplainsDecision
<1>1. DecisionInv => AuditExplainsDecision
  <2> DEFINE gates == decision.gates
  <2> SUFFICES ASSUME DecisionInv, decision # Missing
               PROVE  /\ \A g \in StrategyGates : gates[g] = "PASS" => Holds(g)
                      /\ \A g \in StrategyGates : gates[g] = "FAIL" => ~Holds(g)
                      /\ \A g, h \in StrategyGates :
                           gates[g] = "FAIL" /\ Position(h) > Position(g)
                             => gates[h] = "NOT_REACHED"
                      /\ (\A g \in StrategyGates : gates[g] = "PASS")
                           <=> decision.assessment.action = "TRADE"
                      /\ gates["RISK_GATE"] # "NOT_REACHED" =>
                           decision.assessment.action = "TRADE"
                             /\ forecast.version \in PromotedModels
                      /\ gates["EXECUTION_GATE"] = "PASS" => gates["RISK_GATE"] = "PASS"
                      /\ (decision.impact.evaluated /\ decision.impact.abstain_to_trade) =>
                           decision.execution = NotExecuted
    BY DEF AuditExplainsDecision
  <2> DEFINE a == Assess(Signal)
             f == ReasonToGate(a.reason)
  <2>1. PICK execution \in Executions :
          /\ decision = Decided(execution)
          /\ execution # NotExecuted => a.action = "TRADE" /\ GovernancePermits
    BY DEF DecisionInv, DecisionIsCurrent
  <2>2. /\ decision.assessment = a /\ decision.execution = execution
        /\ decision.impact = DiagnosticImpact(a)
        /\ \A g \in Range(GateOrder) : gates[g] = GateStatus(g, f, execution)
    <3> HIDE DEF a
    <3>1. gates = DecisionAudit(a, execution)
      BY <2>1 DEF Decided, a
    <3> HIDE DEF gates
    <3> QED BY <2>1, <3>1 DEF Decided, DecisionAudit, a
  <2>3. Explains(f) /\ (f = Missing <=> a.action = "TRADE")
    BY VerdictExplains
  <2> HIDE DEF a, f, gates
  <2>4. \A g \in StrategyGates :
          gates[g] = IF f = Missing \/ Position(g) < Position(f) THEN "PASS"
                     ELSE IF g = f THEN "FAIL" ELSE "NOT_REACHED"
    <3>1. \A g \in StrategyGates : g \in Range(GateOrder)
      BY DEF StrategyGates
    <3> QED BY <2>2, <3>1, StrategyGateStatus
  <2>5. \A g \in StrategyGates : Position(g) \in Nat
    BY GatePosition
  <2>6. f # Missing => f \in StrategyGates
    BY <2>3 DEF Explains
  <2>7. \A g \in StrategyGates : gates[g] = "PASS" => Holds(g)
    BY <2>3, <2>4 DEF Explains
  <2>8. \A g \in StrategyGates : gates[g] = "FAIL" => f = g /\ f # Missing
    BY <2>4
  <2>9. \A g \in StrategyGates : gates[g] = "FAIL" => ~Holds(g)
    BY <2>3, <2>8 DEF Explains
  <2>10. \A g, h \in StrategyGates :
           gates[g] = "FAIL" /\ Position(h) > Position(g) => gates[h] = "NOT_REACHED"
    BY <2>4, <2>5, <2>8
  <2>11. (\A g \in StrategyGates : gates[g] = "PASS") <=> f = Missing
    <3>1. CASE f = Missing
      BY <2>4, <3>1
    <3>2. CASE f # Missing
      <4>1. gates[f] = "FAIL"
        BY <2>4, <2>5, <2>6, <3>2
      <4> QED BY <2>6, <3>2, <4>1
    <3> QED BY <3>1, <3>2
  <2>12. /\ gates["RISK_GATE"] = GateStatus("RISK_GATE", f, execution)
         /\ gates["EXECUTION_GATE"] = GateStatus("EXECUTION_GATE", f, execution)
    BY <2>2, GatesInOrder
  <2>13. /\ gates["RISK_GATE"] # "NOT_REACHED" => execution # NotExecuted
         /\ gates["EXECUTION_GATE"] = "PASS" => gates["RISK_GATE"] = "PASS"
    BY <2>12, ExecutionGateStatus
  <2>14. (decision.impact.evaluated /\ decision.impact.abstain_to_trade) =>
            a.action # "TRADE"
    BY <2>2, DiagnosticTrade
  <2> QED
    BY <2>1, <2>2, <2>3, <2>7, <2>9, <2>10, <2>11, <2>13, <2>14 DEF GovernancePermits
<1> QED BY <1>1, DecisionInvHolds, PTL
=============================================================================
