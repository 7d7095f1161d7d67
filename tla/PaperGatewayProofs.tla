------------------------- MODULE PaperGatewayProofs -------------------------
(***************************************************************************)
(* Proofs about PaperOrders.  The gateway, for every set of callers, plans *)
(* and evidence: the inductive invariant IInv, the permanence of a durable *)
(* row, and that execute implements FirstResultLedger.  The order, for any *)
(* quantity, prices and number of fills: it settles exactly its own fills. *)
(***************************************************************************)
EXTENDS PaperOrders, FiniteLemmas

(* An element of a sequence over S is in S. *)
LEMMA ElementOfSequence ==
  ASSUME NEW S, NEW s \in Seq(S), NEW n \in DOMAIN s
  PROVE  s[n] \in S
OBVIOUS

(* What the evidence gate guarantees: the plan's intents are exactly the ids
   of the evidence, so each intent has a fill and it does not exceed the
   request. *)
LEMMA FilledByIsBounded ==
  ASSUME NEW k \in Keys, NEW e \in Evidence, EvidenceMatchesPlan(k, e), NoOverfill(e),
         NEW i \in IntentsOf[k]
  PROVE  FilledBy(e, i) \in Nat /\ FilledBy(e, i) <= Requested[i]
<1>1. e \in Seq([client_order_id : Intents, filled_quantity : Nat])
  BY GatewayConstants DEF GatewayConstants
<1>2. PICK n \in DOMAIN e : e[n].client_order_id = i
  BY DEF EvidenceMatchesPlan, EvidenceIds
<1> DEFINE m == CHOOSE x \in DOMAIN e : e[x].client_order_id = i
<1>3. m \in DOMAIN e /\ e[m].client_order_id = i
  BY <1>2
<1>4. e[m] \in [client_order_id : Intents, filled_quantity : Nat]
  <2> HIDE DEF m
  <2> QED BY <1>1, <1>3, ElementOfSequence
<1>5. e[m].filled_quantity \in Nat /\ e[m].filled_quantity <= Requested[i]
  BY <1>3, <1>4 DEF NoOverfill
<1> QED BY <1>5 DEF FilledBy

(* The status the gateway gives an order agrees with its fill. *)
LEMMA StatusAgreesWithFill ==
  ASSUME NEW q \in Nat, NEW r \in Nat \ {0}, q <= r
  PROVE  /\ StatusOf(q, r) \in Status
         /\ (StatusOf(q, r) = "FILLED") <=> (q = r)
         /\ (StatusOf(q, r) = "ACKNOWLEDGED") <=> (q = 0)
BY DEF StatusOf, Status

(* A result built behind the gates is well formed and honours its plan. *)
LEMMA BuiltResultHonoursPlan ==
  ASSUME NEW k \in Keys, NEW e \in Evidence, ModeOf[k] = "PAPER", now \in 0..MaxNow,
         NEW kill, NEW reconciled, GatesPass(k, e, kill, reconciled)
  PROVE  BuildResult(k, e) \in Result /\ HonoursPlan(k, BuildResult(k, e))
<1> DEFINE r == BuildResult(k, e)
           o(i) == [status |-> StatusOf(FilledBy(e, i), Requested[i]),
                    requested_quantity |-> Requested[i],
                    filled_quantity |-> FilledBy(e, i)]
<1>1. IntentsOf[k] \subseteq Intents
  BY GatewayConstants DEF GatewayConstants
<1>2. ASSUME NEW i \in IntentsOf[k]
      PROVE  /\ o(i) \in Order
             /\ o(i).filled_quantity <= Requested[i]
             /\ (o(i).status = "FILLED") <=> (o(i).filled_quantity = Requested[i])
             /\ (o(i).status = "ACKNOWLEDGED") <=> (o(i).filled_quantity = 0)
  <2>1. FilledBy(e, i) \in Nat /\ FilledBy(e, i) <= Requested[i]
    BY FilledByIsBounded DEF GatesPass
  <2>2. Requested[i] \in Nat \ {0}
    BY <1>1, GatewayConstants DEF GatewayConstants
  <2>3. /\ StatusOf(FilledBy(e, i), Requested[i]) \in Status
        /\ (StatusOf(FilledBy(e, i), Requested[i]) = "FILLED")
             <=> (FilledBy(e, i) = Requested[i])
        /\ (StatusOf(FilledBy(e, i), Requested[i]) = "ACKNOWLEDGED")
             <=> (FilledBy(e, i) = 0)
    BY <2>1, <2>2, StatusAgreesWithFill
  <2> QED BY <2>1, <2>2, <2>3 DEF Order
<1>3. \A i \in Intents : r.orders[i] = IF i \in IntentsOf[k] THEN o(i) ELSE None
  BY DEF BuildResult
<1>4. r \in Result
  <2>1. r.orders \in [Intents -> Order \cup {None}]
    BY <1>2 DEF BuildResult
  <2>2. r.recorded_at \in Nat /\ r = [orders |-> r.orders, recorded_at |-> r.recorded_at]
    BY GatewayConstants DEF BuildResult, GatewayConstants
  <2> QED BY <2>1, <2>2 DEF Result
<1>5. HonoursPlan(k, r)
  <2>1. r.recorded_at <= ExpiresAt[k]
    BY DEF BuildResult, GatesPass
  <2>2. \A i \in Intents : (r.orders[i] # None) <=> (i \in IntentsOf[k])
    BY <1>2, <1>3, SentinelsAreDistinct DEF SentinelsAreDistinct
  <2>3. \A i \in IntentsOf[k] : r.orders[i] = o(i)
    BY <1>1, <1>3
  <2> HIDE DEF r, o
  <2> QED BY <1>2, <2>1, <2>2, <2>3 DEF HonoursPlan
<1> QED BY <1>4, <1>5

(* Before any call nothing is stored, told or in flight. *)
THEOREM InitIInv == Init => IInv
<1> SUFFICES ASSUME Init PROVE IInv
  OBVIOUS
<1>1. TypeOK
  BY GatewayConstants DEF Init, TypeOK, GatewayConstants
<1>2. AnswersAreDurable /\ AuditMirrorsExecutions /\ StoredResultHonoursPlan /\ InFlightCalls
  BY SentinelsAreDistinct
  DEF Init, AnswersAreDurable, AuditMirrorsExecutions, StoredResultHonoursPlan,
      InFlightCalls, SentinelsAreDistinct
<1> QED BY <1>1, <1>2 DEF IInv

(* Each step of a call, a crash and a clock tick preserve the invariant. *)
THEOREM NextIInv == IInv /\ [Next]_vars => IInv'
<1> SUFFICES ASSUME IInv, [Next]_vars PROVE IInv'
  OBVIOUS
<1> USE DEF IInv
<1>1. ASSUME NEW c \in Callers, NEW k \in Keys, ReturnExisting(c, k)
      PROVE  IInv'
  <2>1. paper_executions[k] \in Result
    BY <1>1 DEF TypeOK, ReturnExisting
  <2>2. TypeOK'
    BY <1>1, <2>1 DEF TypeOK, ReturnExisting, Answer
  <2>3. AnswersAreDurable'
    BY <1>1, <2>1 DEF TypeOK, ReturnExisting, AnswersAreDurable
  <2>4. AuditMirrorsExecutions' /\ StoredResultHonoursPlan' /\ InFlightCalls'
    BY <1>1 DEF ReturnExisting, AuditMirrorsExecutions, StoredResultHonoursPlan, InFlightCalls
  <2> QED BY <2>2, <2>3, <2>4
<1>2. ASSUME NEW c \in Callers, NEW k \in Keys, NEW e \in Evidence,
             NEW kill \in BOOLEAN, NEW reconciled \in BOOLEAN,
             Raise(c, k, e, kill, reconciled)
      PROVE  IInv'
  <2>1. TypeOK'
    BY <1>2 DEF TypeOK, Raise
  <2>2. AnswersAreDurable'
    BY <1>2, SentinelsAreDistinct
    DEF TypeOK, Raise, AnswersAreDurable, SentinelsAreDistinct
  <2>3. AuditMirrorsExecutions' /\ StoredResultHonoursPlan' /\ InFlightCalls'
    BY <1>2 DEF Raise, AuditMirrorsExecutions, StoredResultHonoursPlan, InFlightCalls
  <2> QED BY <2>1, <2>2, <2>3
<1>3. ASSUME NEW c \in Callers, NEW k \in Keys, NEW e \in Evidence,
             NEW kill \in BOOLEAN, NEW reconciled \in BOOLEAN,
             Build(c, k, e, kill, reconciled)
      PROVE  IInv'
  <2> DEFINE r == BuildResult(k, e)
  <2>1. r \in Result /\ HonoursPlan(k, r)
    BY <1>3, BuiltResultHonoursPlan DEF Build, TypeOK
  <2> HIDE DEF r
  <2>2. call' = [call EXCEPT ![c] = [key |-> k, result |-> r]]
    BY <1>3 DEF Build, r
  <2>3. TypeOK'
    BY <1>3, <2>1, <2>2 DEF TypeOK, Build
  <2>4. AnswersAreDurable'
    BY <1>3, SentinelsAreDistinct
    DEF TypeOK, Build, AnswersAreDurable, SentinelsAreDistinct
  <2>5. AuditMirrorsExecutions' /\ StoredResultHonoursPlan'
    BY <1>3 DEF Build, AuditMirrorsExecutions, StoredResultHonoursPlan
  <2>6. InFlightCalls'
    BY <1>3, <2>1, <2>2 DEF Build, InFlightCalls, TypeOK
  <2> QED BY <2>3, <2>4, <2>5, <2>6
<1>4. ASSUME NEW c \in Callers, SaveOnce(c)
      PROVE  IInv'
  <2> DEFINE k == call[c].key
             r == call[c].result
  <2>1. k \in Keys /\ r \in Result /\ HonoursPlan(k, r)
    BY <1>4 DEF SaveOnce, InFlightCalls
  <2> HIDE DEF k, r
  <2>2. /\ paper_executions' = InsertOrIgnore(paper_executions, k, r)
        /\ audit_events' = InsertOrIgnore(audit_events, k, r)
        /\ pc' = [pc EXCEPT ![c] = "saved"]
        /\ UNCHANGED <<call, answer, now>>
    BY <1>4 DEF SaveOnce, k, r
  <2>3. TypeOK'
    BY <2>1, <2>2 DEF TypeOK, InsertOrIgnore
  <2>4. \A x \in Keys : paper_executions[x] # None => paper_executions'[x] = paper_executions[x]
    BY <2>1, <2>2 DEF TypeOK, InsertOrIgnore
  <2>5. paper_executions'[k] # None
    BY <2>1, <2>2, SentinelsAreDistinct DEF TypeOK, InsertOrIgnore, SentinelsAreDistinct
  <2>6. AnswersAreDurable'
    <3> SUFFICES ASSUME NEW d \in Callers, answer[d] \in Answer
                 PROVE  answer[d].result = paper_executions'[answer[d].key]
      BY <2>2 DEF AnswersAreDurable
    <3>1. answer[d].result = paper_executions[answer[d].key]
      BY DEF AnswersAreDurable
    <3>2. answer[d].key \in Keys /\ answer[d].result # None
      BY SentinelsAreDistinct DEF Answer, SentinelsAreDistinct
    <3> QED BY <2>4, <3>1, <3>2
  <2>7. AuditMirrorsExecutions'
    BY <2>2 DEF AuditMirrorsExecutions
  <2>8. StoredResultHonoursPlan'
    BY <2>1, <2>2 DEF StoredResultHonoursPlan, InsertOrIgnore, TypeOK
  <2>9. InFlightCalls'
    <3> SUFFICES ASSUME NEW d \in Callers, pc'[d] # "idle"
                 PROVE  /\ call[d] \in [key : Keys, result : Result]
                        /\ HonoursPlan(call[d].key, call[d].result)
                        /\ pc'[d] = "saved" => paper_executions'[call[d].key] # None
      BY <2>2 DEF InFlightCalls
    <3>1. CASE d = c
      BY <1>4, <2>5, <3>1 DEF InFlightCalls, SaveOnce, k
    <3>2. CASE d # c
      BY <2>2, <2>4, <3>2 DEF InFlightCalls, TypeOK
    <3> QED BY <3>1, <3>2
  <2> QED BY <2>3, <2>6, <2>7, <2>8, <2>9
<1>5. ASSUME NEW c \in Callers, Reread(c)
      PROVE  IInv'
  <2> DEFINE k == call[c].key
  <2>1. k \in Keys /\ paper_executions[k] \in Result
    BY <1>5 DEF Reread, InFlightCalls, TypeOK
  <2> HIDE DEF k
  <2>2. answer' = [answer EXCEPT ![c] =
          [key |-> k, result |-> paper_executions[k], duplicate |-> FALSE]]
    BY <1>5 DEF Reread, k
  <2>3. TypeOK'
    BY <1>5, <2>1, <2>2 DEF TypeOK, Reread, Answer
  <2>4. AnswersAreDurable'
    BY <1>5, <2>1, <2>2 DEF TypeOK, Reread, AnswersAreDurable
  <2>5. AuditMirrorsExecutions' /\ StoredResultHonoursPlan'
    BY <1>5 DEF Reread, AuditMirrorsExecutions, StoredResultHonoursPlan
  <2>6. InFlightCalls'
    BY <1>5 DEF Reread, InFlightCalls, TypeOK
  <2> QED BY <2>3, <2>4, <2>5, <2>6
<1>6. ASSUME NEW c \in Callers, Crash(c)
      PROVE  IInv'
  <2>1. TypeOK'
    BY <1>6 DEF TypeOK, Crash
  <2>2. AnswersAreDurable'
    BY <1>6, SentinelsAreDistinct DEF TypeOK, Crash, AnswersAreDurable, SentinelsAreDistinct
  <2>3. AuditMirrorsExecutions' /\ StoredResultHonoursPlan'
    BY <1>6 DEF Crash, AuditMirrorsExecutions, StoredResultHonoursPlan
  <2>4. InFlightCalls'
    BY <1>6 DEF Crash, InFlightCalls, TypeOK
  <2> QED BY <2>1, <2>2, <2>3, <2>4
<1>7. CASE Tick
  <2>1. TypeOK'
    BY <1>7, GatewayConstants DEF TypeOK, Tick, GatewayConstants
  <2> QED
    BY <1>7, <2>1
    DEF Tick, AnswersAreDurable, AuditMirrorsExecutions, StoredResultHonoursPlan, InFlightCalls
<1>8. CASE UNCHANGED vars
  BY <1>8
  DEF vars, TypeOK, AnswersAreDurable, AuditMirrorsExecutions, StoredResultHonoursPlan,
      InFlightCalls
<1> QED BY <1>1, <1>2, <1>3, <1>4, <1>5, <1>6, <1>7, <1>8 DEF Next, Execute

(* The inductive invariant holds of every behaviour. *)
THEOREM Invariance == Spec => []IInv
BY InitIInv, NextIInv, PTL DEF Spec

(* PaperGateway.execute keeps the tables, program counters and answers in
   their types. *)
THEOREM TypeCorrect == Spec => []TypeOK
BY Invariance, PTL DEF IInv

(* Every standing answer of execute is the durable first result of its key,
   for any number of concurrent, crashed and restarted callers. *)
THEOREM AnswersDurable == Spec => []AnswersAreDurable
BY Invariance, PTL DEF IInv

(* save_once never leaves an execution without its audit event, or an audit
   event that disagrees with the execution. *)
THEOREM AuditMirrors == Spec => []AuditMirrorsExecutions
BY Invariance, PTL DEF IInv

(* What save_once made durable passed the gates of execute. *)
THEOREM StoredResultsHonourPlans == Spec => []StoredResultHonoursPlan
BY Invariance, PTL DEF IInv

(* No step of any caller replaces or deletes a durable result. *)
THEOREM RowsArePermanent == Spec => FirstResultWins
<1>1. ASSUME TypeOK, Next PROVE RowIsPermanent
  <2>1. ASSUME NEW c \in Callers, SaveOnce(c) PROVE RowIsPermanent
    BY <1>1, <2>1 DEF SaveOnce, InsertOrIgnore, RowIsPermanent, TypeOK
  <2>2. CASE UNCHANGED paper_executions
    BY <2>2 DEF RowIsPermanent
  <2> QED BY <1>1, <2>1, <2>2
    DEF Next, Execute, ReturnExisting, Raise, Build, Reread, Crash, Tick
<1>2. TypeOK /\ [Next]_vars => [RowIsPermanent]_vars
  BY <1>1
<1> QED BY <1>2, TypeCorrect, PTL DEF Spec, FirstResultWins

(* execute, its transactions and its crashes implement the ledger docs/10
   promises: the first commit of a key records, a commit that lost the race
   stutters, and every return tells the recorded result. *)
THEOREM RefinesLedger == Spec => ImplementsLedger
<1> DEFINE told == [c \in Callers |-> ToldBy(c)]
<1>1. Init => Ledger!Init
  BY SentinelsAreDistinct DEF Init, Ledger!Init, ToldBy, SentinelsAreDistinct
<1>2. IInv /\ [Next]_vars => [Ledger!Next]_(Ledger!vars)
  <2> SUFFICES ASSUME IInv, [Next]_vars PROVE [Ledger!Next]_(Ledger!vars)
    OBVIOUS
  <2> USE DEF IInv
  <2>0. /\ None \notin Answer /\ Denied \notin Answer /\ Denied # None /\ None \notin Result
    BY SentinelsAreDistinct DEF SentinelsAreDistinct
  <2>1. ASSUME UNCHANGED <<paper_executions, answer>>
        PROVE  UNCHANGED Ledger!vars
    BY <2>1 DEF Ledger!vars, ToldBy
  <2>2. ASSUME NEW c \in Callers, NEW k \in Keys, NEW dup \in BOOLEAN,
               paper_executions[k] \in Result, UNCHANGED paper_executions,
               answer' = [answer EXCEPT
                 ![c] = [key |-> k, result |-> paper_executions[k], duplicate |-> dup]]
        PROVE  Ledger!Tell(c, k)
    <3>1. answer'[c] \in Answer
      BY <2>2 DEF TypeOK, Answer
    <3>2. told' = [told EXCEPT ![c] = [key |-> k, result |-> paper_executions[k]]]
      BY <2>2, <3>1 DEF TypeOK, ToldBy
    <3> QED BY <2>0, <2>2, <3>2 DEF Ledger!Tell
  <2>3. ASSUME NEW c \in Callers, UNCHANGED paper_executions,
               answer' = [answer EXCEPT ![c] = Denied]
        PROVE  Ledger!Refuse(c)
    <3>1. told' = [told EXCEPT ![c] = Denied]
      BY <2>0, <2>3 DEF TypeOK, ToldBy
    <3> QED BY <2>3, <3>1 DEF Ledger!Refuse
  <2>4. ASSUME NEW c \in Callers, UNCHANGED paper_executions,
               answer' = [answer EXCEPT ![c] = None]
        PROVE  Ledger!Forget(c)
    <3>1. told' = [told EXCEPT ![c] = None]
      BY <2>0, <2>4 DEF TypeOK, ToldBy
    <3> QED BY <2>4, <3>1 DEF Ledger!Forget
  <2>5. ASSUME NEW c \in Callers, SaveOnce(c)
        PROVE  Ledger!Record(call[c].key) \/ UNCHANGED Ledger!vars
    <3> DEFINE k == call[c].key
    <3>1. k \in Keys /\ call[c].result \in Result
      BY <2>5 DEF SaveOnce, InFlightCalls
    <3>2. UNCHANGED told
      BY <2>5 DEF SaveOnce, ToldBy
    <3>3. CASE paper_executions[k] = None
      <4>1. paper_executions' = [paper_executions EXCEPT ![k] = call[c].result]
        BY <2>5, <3>3 DEF SaveOnce, InsertOrIgnore
      <4>2. paper_executions'[k] = call[c].result
        BY <3>1, <4>1 DEF TypeOK
      <4> QED BY <3>1, <3>2, <3>3, <4>1, <4>2 DEF Ledger!Record
    <3>4. CASE paper_executions[k] # None
      BY <2>1, <2>5, <3>4 DEF SaveOnce, InsertOrIgnore
    <3> QED BY <3>3, <3>4
  <2>6. ASSUME NEW c \in Callers, Reread(c)
        PROVE  \E k \in Keys : Ledger!Tell(c, k)
    <3>1. call[c].key \in Keys /\ paper_executions[call[c].key] \in Result
      BY <2>6 DEF Reread, InFlightCalls, TypeOK
    <3> QED BY <2>2, <2>6, <3>1 DEF Reread
  <2>7. ASSUME NEW c \in Callers, NEW k \in Keys, ReturnExisting(c, k)
        PROVE  Ledger!Tell(c, k)
    <3>1. paper_executions[k] \in Result
      BY <2>7 DEF ReturnExisting, TypeOK
    <3> QED BY <2>2, <2>7, <3>1 DEF ReturnExisting
  <2>8. ASSUME NEW c \in Callers, Execute(c)
        PROVE  Ledger!Refuse(c) \/ Ledger!Forget(c) \/ \E k \in Keys : Ledger!Tell(c, k)
    BY <2>3, <2>4, <2>7, <2>8 DEF Execute, Raise, Build
  <2>9. ASSUME NEW c \in Callers, Crash(c)
        PROVE  Ledger!Forget(c)
    BY <2>4, <2>9 DEF Crash
  <2>10. CASE Tick
    BY <2>1, <2>10 DEF Tick
  <2>11. CASE UNCHANGED vars
    BY <2>1, <2>11 DEF vars
  <2>12. ASSUME NEW c \in Callers, SaveOnce(c)
         PROVE  Ledger!Next \/ UNCHANGED Ledger!vars
    <3>1. call[c].key \in Keys
      BY <2>12 DEF SaveOnce, InFlightCalls
    <3> QED BY <2>5, <2>12, <3>1 DEF Ledger!Next
  <2> QED
    BY <2>6, <2>8, <2>9, <2>10, <2>11, <2>12 DEF Next, Ledger!Next
<1> QED BY <1>1, <1>2, Invariance, PTL DEF Spec, ImplementsLedger, Ledger!Spec

-----------------------------------------------------------------------------
(* The order. *)

(* The library's operators, as the instance of OrderLifecycle sees them. *)
LEMMA SameFinite == \A S : Lifecycle!IsFiniteSet(S) <=> IsFiniteSet(S)
BY DEF Lifecycle!IsFiniteSet, IsFiniteSet

(* So do they count, *)
LEMMA SameCardinality == \A S : Lifecycle!Cardinality(S) = Cardinality(S)
BY DEF Lifecycle!Cardinality, Cardinality

(* and add. *)
LEMMA SameSum == \A f : Lifecycle!SumFunction(f) = SumFunction(f)
<1> TAKE f
<1>1. Lifecycle!SumFunctionOnSet(f, DOMAIN f) = Partial(f, DOMAIN f)[DOMAIN f]
  BY DEF Lifecycle!SumFunctionOnSet, Lifecycle!FoldFunctionOnSet, Lifecycle!MapThenFoldSet,
         Partial, SumsUp, Unfolded, Some
<1> QED BY <1>1, SumIsPartial DEF Lifecycle!SumFunction, SumFunction

(* What a fill counts for. *)
LEMMA FillFacts ==
  ASSUME Lifecycle!LifecycleConstants, NEW f \in Lifecycle!Fill
  PROVE  f.quantity \in Nat /\ f.quantity > 0 /\ f.quantity * f.price \in Nat /\ f.fee \in Nat
<1>1. f.quantity \in 1..OrderQuantity /\ f.price \in Prices /\ OrderQuantity \in Nat
  BY DEF Lifecycle!Fill, Lifecycle!LifecycleConstants
<1>2. f.price \in Nat /\ f.fee \in Nat
  <2>1. Prices \subseteq 0..100 /\ 0..100 \subseteq Nat /\ Fees \subseteq Nat
    BY DEF Lifecycle!LifecycleConstants
  <2> QED BY <1>1, <2>1 DEF Lifecycle!Fill
<1> QED BY <1>1, <1>2

(* What some copies of a fill count for. *)
LEMMA CopiesCount ==
  ASSUME Lifecycle!LifecycleConstants, NEW f \in Lifecycle!Fill, NEW n \in Nat
  PROVE  /\ n * f.quantity \in Nat /\ n * (f.quantity * f.price) \in Nat /\ n * f.fee \in Nat
<1> DEFINE c == f.quantity * f.price
<1>1. f.quantity \in Nat /\ c \in Nat /\ f.fee \in Nat
  BY FillFacts
<1> HIDE DEF c
<1>2. n * f.quantity \in Nat /\ n * c \in Nat /\ n * f.fee \in Nat
  BY <1>1
<1> QED BY <1>2 DEF c

(* Sums over a report. *)
LEMMA SumsOfReport ==
  ASSUME Lifecycle!LifecycleConstants, NEW S, IsFiniteSet(S), S \subseteq Lifecycle!Fill,
         NEW report \in [S -> Nat]
  PROVE  /\ Lifecycle!QuantityOf(report) \in Nat /\ Lifecycle!CostOf(report) \in Nat
         /\ Lifecycle!FeesOf(report) \in Nat
<1>1. /\ [f \in DOMAIN report |-> report[f] * f.quantity] \in [S -> Nat]
      /\ [f \in DOMAIN report |-> report[f] * (f.quantity * f.price)] \in [S -> Nat]
      /\ [f \in DOMAIN report |-> report[f] * f.fee] \in [S -> Nat]
  BY CopiesCount
<1> QED
  BY SameSum, <1>1, SumFunctionTyped
     DEF Lifecycle!QuantityOf, Lifecycle!CostOf, Lifecycle!FeesOf

(* Fewer fills have less in them, and only all of them have all. *)
LEMMA FewerFills ==
  ASSUME Lifecycle!LifecycleConstants, NEW S, IsFiniteSet(S), S \subseteq Lifecycle!Fill,
         NEW R \in SUBSET S
  PROVE  /\ Lifecycle!QuantityOf(Lifecycle!Once(R)) \in Nat
         /\ Lifecycle!QuantityOf(Lifecycle!Once(R)) <= Lifecycle!QuantityOf(Lifecycle!Once(S))
         /\ Lifecycle!QuantityOf(Lifecycle!Once(R)) = Lifecycle!QuantityOf(Lifecycle!Once(S))
              => R = S
<1> DEFINE g(T) == [f \in T |-> f.quantity]
           sum(T) == SumFunction(g(T))
<1>1. ASSUME NEW T \in SUBSET S
      PROVE  /\ IsFiniteSet(T) /\ g(T) \in [T -> Nat] /\ sum(T) \in Nat
             /\ Lifecycle!QuantityOf(Lifecycle!Once(T)) = sum(T)
  <2>1. IsFiniteSet(T) /\ g(T) \in [T -> Nat]
    BY FS_Subset, FillFacts
  <2>2. sum(T) \in Nat
    <3> HIDE DEF g
    <3> QED BY <2>1, SumFunctionTyped
  <2>3. \A f \in T : f.quantity \in Nat
    BY FillFacts
  <2>4. DOMAIN Lifecycle!Once(T) = T /\ \A f \in T : Lifecycle!Once(T)[f] = 1
    BY DEF Lifecycle!Once
  <2>5. [f \in DOMAIN Lifecycle!Once(T) |-> Lifecycle!Once(T)[f] * f.quantity] = g(T)
    BY <2>3, <2>4
  <2> HIDE DEF g
  <2> QED BY SameSum, <2>1, <2>2, <2>5 DEF Lifecycle!QuantityOf
<1>2. ASSUME NEW T \in SUBSET S, NEW U \in SUBSET T PROVE sum(U) <= sum(T)
  <2>1. T \in SUBSET S /\ U \in SUBSET S /\ \A f \in U : g(U)[f] = g(T)[f]
    OBVIOUS
  <2>2. IsFiniteSet(T) /\ g(U) \in [U -> Nat] /\ g(T) \in [T -> Nat]
    BY <1>1, <2>1
  <2> HIDE DEF g
  <2> QED BY <2>1, <2>2, SumFunctionOfFewer
<1>3. ASSUME NEW x \in S \ R PROVE sum(R) # sum(S)
  <2> DEFINE rest == S \ {x}
             some == g(rest)
             all == g(S)
  <2>1. /\ rest \in SUBSET S /\ S \in SUBSET S /\ R \in SUBSET rest /\ R \in SUBSET S
        /\ S = rest \cup {x} /\ x \notin rest /\ x \in S
    BY <1>3
  <2>2. all[x] = x.quantity /\ x.quantity \in Nat /\ x.quantity > 0
    BY <2>1, FillFacts
  <2>3. IsFiniteSet(rest) /\ some \in [rest -> Nat] /\ all \in [S -> Nat]
    BY <1>1, <2>1
  <2>4. \A f \in rest : some[f] = all[f]
    OBVIOUS
  <2>5. sum(R) <= sum(rest) /\ sum(R) \in Nat /\ sum(rest) \in Nat
    BY <1>1, <1>2, <2>1
  <2>6. sum(rest) = SumFunction(some) /\ sum(S) = SumFunction(all)
    OBVIOUS
  <2> HIDE DEF rest, some, all, g, sum
  <2>7. some \in [rest -> Int] /\ all \in [S -> Int]
    BY <2>3
  <2>8. SumFunction(all) = SumFunction(some) + all[x]
    BY <2>1, <2>3, <2>4, <2>7, SumFunctionAdd
  <2>9. \A p, q, n \in Nat : p <= q /\ n > 0 => p # q + n
    OBVIOUS
  <2> QED BY <2>2, <2>5, <2>6, <2>8, <2>9, Zenon
<1>4. R \in SUBSET S /\ S \in SUBSET S
  OBVIOUS
<1>5. sum(R) <= sum(S) /\ (sum(R) = sum(S) => R = S)
  BY <1>2, <1>3, <1>4
<1>6. /\ sum(R) \in Nat /\ Lifecycle!QuantityOf(Lifecycle!Once(R)) = sum(R)
      /\ Lifecycle!QuantityOf(Lifecycle!Once(S)) = sum(S)
  BY <1>1, <1>4
<1> HIDE DEF g, sum
<1> QED BY <1>5, <1>6

(* A report names fills the venue has, each some number of times; the matching part
   of it names fills of the order. *)
LEMMA ReportFacts ==
  ASSUME Lifecycle!LifecycleConstants, Lifecycle!TypeOK, NEW report \in Lifecycle!Reports
  PROVE  /\ DOMAIN report \subseteq fills /\ IsFiniteSet(DOMAIN report)
         /\ DOMAIN report \subseteq Lifecycle!Fill /\ report \in [DOMAIN report -> Nat]
         /\ DOMAIN Lifecycle!Matching(report) \subseteq Lifecycle!OwnFills
         /\ Lifecycle!QuantityOf(Lifecycle!Matching(report)) \in Nat
         /\ Lifecycle!CostOf(Lifecycle!Matching(report)) \in Nat
<1>1. PICK seen \in SUBSET fills : report \in [seen -> 1..MaxCopies]
  BY DEF Lifecycle!Reports
<1>2. MaxCopies \in Nat /\ IsFiniteSet(fills) /\ fills \subseteq Lifecycle!Fill
  BY SameFinite DEF Lifecycle!LifecycleConstants, Lifecycle!TypeOK
<1>3. 1..MaxCopies \subseteq Nat
  BY <1>2
<1>4. /\ DOMAIN report \subseteq fills /\ IsFiniteSet(DOMAIN report)
      /\ DOMAIN report \subseteq Lifecycle!Fill /\ report \in [DOMAIN report -> Nat]
  BY <1>1, <1>2, <1>3, FS_Subset
<1> DEFINE own == {f \in DOMAIN report : f.own}
<1>5. Lifecycle!Matching(report) \in [own -> Nat]
  BY <1>4 DEF Lifecycle!Matching
<1>6. own \subseteq Lifecycle!OwnFills /\ IsFiniteSet(own) /\ own \subseteq Lifecycle!Fill
  BY <1>4, FS_Subset DEF Lifecycle!OwnFills
<1> HIDE DEF own
<1> QED BY <1>4, <1>5, <1>6, SumsOfReport

(* The initial states satisfy the inductive invariant: nothing is filled. *)
THEOREM LifecycleInit == ASSUME Lifecycle!LifecycleConstants PROVE Lifecycle!Init => Lifecycle!IInv
<1> SUFFICES ASSUME Lifecycle!Init PROVE Lifecycle!IInv
  OBVIOUS
<1>1. final = Lifecycle!Once({}) /\ DOMAIN final = {} /\ final \in [{} -> 1..MaxCopies]
  BY DEF Lifecycle!Init, Lifecycle!Once
<1>2. DOMAIN Lifecycle!Matching(final) = {}
  BY <1>1 DEF Lifecycle!Matching
<1>3. Lifecycle!Believed
  <2>1. /\ Lifecycle!QuantityOf(Lifecycle!Matching(final)) = 0
        /\ Lifecycle!CostOf(Lifecycle!Matching(final)) = 0
    BY SameSum, <1>2, SumFunctionOfNothing DEF Lifecycle!QuantityOf, Lifecycle!CostOf
  <2> QED BY <2>1 DEF Lifecycle!Init, Lifecycle!Believed
<1>4. Lifecycle!TypeOK
  <2>1. final \in Lifecycle!Reports
    BY <1>1 DEF Lifecycle!Reports
  <2> QED BY <2>1, SameFinite, FS_EmptySet DEF Lifecycle!Init, Lifecycle!TypeOK
<1>5. Lifecycle!ValidOrder
  BY DEF Lifecycle!Init, Lifecycle!ValidOrder, Lifecycle!LifecycleConstants
<1> QED BY <1>3, <1>4, <1>5 DEF Lifecycle!IInv

(* What the order believes in is untouched while order and report are. *)
LEMMA StillBelieved ==
  ASSUME Lifecycle!Believed, UNCHANGED <<filled, cost, final>>
  PROVE  Lifecycle!Believed'
BY DEF Lifecycle!Believed, Lifecycle!Matching, Lifecycle!QuantityOf, Lifecycle!CostOf

(* A fill the program does not see takes nothing from what it knows. *)
LEMMA VenueFillsKeepsIInv ==
  ASSUME Lifecycle!LifecycleConstants, Lifecycle!IInv, NEW own \in BOOLEAN,
         NEW quantity \in 1..OrderQuantity,
         NEW price \in Prices, NEW fee \in Fees, Lifecycle!VenueFills(own, quantity, price, fee)
  PROVE  Lifecycle!IInv'
<1> DEFINE n == [id |-> Cardinality(fills) + 1, own |-> own,
                 quantity |-> quantity, price |-> price, fee |-> fee]
<1>1. fills' = fills \cup {n} /\ UNCHANGED <<status, filled, cost, priced, final>>
  BY SameCardinality DEF Lifecycle!VenueFills
<1>2. n \in Lifecycle!Fill
  <2>1. Cardinality(fills) + 1 \in Nat
    BY SameFinite, FS_CardinalityType DEF Lifecycle!IInv, Lifecycle!TypeOK
  <2> QED BY SameCardinality, <2>1 DEF Lifecycle!Fill
<1>3. IsFiniteSet(fills') /\ fills' \subseteq Lifecycle!Fill
  BY SameFinite, <1>1, <1>2, FS_AddElement DEF Lifecycle!IInv, Lifecycle!TypeOK
<1>4. final' \in Lifecycle!Reports'
  BY <1>1 DEF Lifecycle!IInv, Lifecycle!TypeOK, Lifecycle!Reports
<1>5. Lifecycle!Believed'
  BY <1>1, StillBelieved DEF Lifecycle!IInv
<1>6. Lifecycle!ValidOrder'
  BY <1>1 DEF Lifecycle!IInv, Lifecycle!ValidOrder
<1> QED BY SameFinite, <1>1, <1>3, <1>4, <1>5, <1>6 DEF Lifecycle!IInv, Lifecycle!TypeOK

(* Steps that keep what is known and only change the status. *)
LEMMA StatusStepKeepsIInv ==
  ASSUME Lifecycle!LifecycleConstants, Lifecycle!IInv,
         UNCHANGED <<filled, cost, priced, final, fills>>,
         status' \notin {"ACKNOWLEDGED", "PARTIALLY_FILLED", "FILLED"}
  PROVE  Lifecycle!IInv'
<1>1. Lifecycle!TypeOK' /\ Lifecycle!ValidOrder'
  BY DEF Lifecycle!IInv, Lifecycle!TypeOK, Lifecycle!ValidOrder, Lifecycle!Reports
<1>2. Lifecycle!Believed'
  BY StillBelieved DEF Lifecycle!IInv
<1> QED BY <1>1, <1>2 DEF Lifecycle!IInv

(* The final word becomes what the order believes in. *)
LEMMA ReconcileFinalKeepsIInv ==
  ASSUME Lifecycle!LifecycleConstants, Lifecycle!IInv, NEW report \in Lifecycle!Reports,
         Lifecycle!ReconcileFinal(report)
  PROVE  Lifecycle!IInv'
<1> DEFINE q == Lifecycle!QuantityOf(Lifecycle!Matching(report))
           c == Lifecycle!CostOf(Lifecycle!Matching(report))
<1>1. /\ filled' = q /\ cost' = c /\ priced' = (q > 0)
      /\ status' = CASE q = 0 -> "ACKNOWLEDGED" [] q = OrderQuantity -> "FILLED"
                     [] OTHER -> "PARTIALLY_FILLED"
      /\ final' = report /\ UNCHANGED fills /\ q <= OrderQuantity
  BY DEF Lifecycle!ReconcileFinal, Lifecycle!Reconcilable
<1>2. q \in Nat /\ c \in Nat
  BY ReportFacts DEF Lifecycle!IInv
<1>3. OrderQuantity \in Nat \ {0}
  BY DEF Lifecycle!LifecycleConstants
<1>4. Lifecycle!Believed'
  BY <1>1 DEF Lifecycle!Believed, Lifecycle!Matching, Lifecycle!QuantityOf, Lifecycle!CostOf
<1> HIDE DEF q, c
<1>5. Lifecycle!TypeOK'
  BY <1>1, <1>2 DEF Lifecycle!IInv, Lifecycle!TypeOK, Lifecycle!Reports
<1>6. Lifecycle!ValidOrder'
  <2>1. priced' <=> filled' > 0
    BY <1>1, Zenon
  <2>2. /\ status' = "ACKNOWLEDGED" => q = 0
        /\ status' = "PARTIALLY_FILLED" => q # 0 /\ q # OrderQuantity
        /\ status' = "FILLED" => q = OrderQuantity
    BY <1>1
  <2>3. /\ filled' <= OrderQuantity
        /\ status' = "ACKNOWLEDGED" => filled' = 0
        /\ status' = "PARTIALLY_FILLED" => filled' \in 1..(OrderQuantity - 1)
        /\ status' = "FILLED" => filled' = OrderQuantity
    BY <1>1, <1>2, <1>3, <2>2
  <2> QED BY <2>1, <2>3 DEF Lifecycle!ValidOrder
<1> QED BY <1>4, <1>5, <1>6 DEF Lifecycle!IInv

(* Every step keeps the inductive invariant. *)
THEOREM LifecycleNext ==
  ASSUME Lifecycle!LifecycleConstants, Lifecycle!IInv, [Lifecycle!Next]_(Lifecycle!vars)
  PROVE  Lifecycle!IInv'
<1>1. CASE UNCHANGED Lifecycle!vars
  BY <1>1, StillBelieved
     DEF Lifecycle!vars, Lifecycle!IInv, Lifecycle!TypeOK, Lifecycle!ValidOrder,
         Lifecycle!Reports
<1>2. CASE Lifecycle!CancelOrder
  BY <1>2, StatusStepKeepsIInv DEF Lifecycle!CancelOrder
<1>3. ASSUME NEW report \in Lifecycle!Reports,
             Lifecycle!ReconcileUncertain(report)
      PROVE  Lifecycle!IInv'
  BY <1>3, StatusStepKeepsIInv DEF Lifecycle!ReconcileUncertain
<1> QED BY <1>1, <1>2, <1>3, VenueFillsKeepsIInv, ReconcileFinalKeepsIInv DEF Lifecycle!Next

(* A final word that repeats nothing is some of the venue's fills; if it is as much as
   the venue filled, it is all of them. *)
LEMMA SettlesWhatItKnows ==
  ASSUME Lifecycle!LifecycleConstants, Lifecycle!IInv
  PROVE  Lifecycle!SettlesOwnFills
<1> DEFINE matching == Lifecycle!Matching(final)
           known == DOMAIN matching
<1>1. /\ filled = Lifecycle!QuantityOf(matching) /\ cost = Lifecycle!CostOf(matching)
      /\ filled \in Nat /\ cost \in Nat /\ final \in Lifecycle!Reports
  BY DEF Lifecycle!IInv, Lifecycle!Believed, Lifecycle!TypeOK
<1>2. /\ known \subseteq Lifecycle!OwnFills /\ IsFiniteSet(DOMAIN final)
      /\ DOMAIN final \subseteq Lifecycle!Fill /\ final \in [DOMAIN final -> Nat]
  BY <1>1, ReportFacts DEF Lifecycle!IInv
<1>3. IsFiniteSet(Lifecycle!OwnFills) /\ Lifecycle!OwnFills \subseteq Lifecycle!Fill
  BY SameFinite, FS_Subset DEF Lifecycle!IInv, Lifecycle!TypeOK, Lifecycle!OwnFills
<1>4. Lifecycle!NamesNoOther => matching = final
  BY <1>2 DEF Lifecycle!NamesNoOther, Lifecycle!Matching
<1>5. Lifecycle!RepeatsNoFill => matching = Lifecycle!Once(known)
  BY DEF Lifecycle!RepeatsNoFill, Lifecycle!Matching, Lifecycle!Once
<1>6. Lifecycle!FeesOf(final) \in Nat
  BY <1>2, SumsOfReport
<1> HIDE DEF matching, known
<1>7. ASSUME Lifecycle!RepeatsNoFill
      PROVE  /\ filled <= Lifecycle!VenueFilled
             /\ filled = Lifecycle!VenueFilled
                  => matching = Lifecycle!Once(Lifecycle!OwnFills)
  <2>1. known \in SUBSET Lifecycle!OwnFills
    BY <1>2
  <2>2. /\ Lifecycle!QuantityOf(Lifecycle!Once(known))
             <= Lifecycle!QuantityOf(Lifecycle!Once(Lifecycle!OwnFills))
        /\ Lifecycle!QuantityOf(Lifecycle!Once(known))
             = Lifecycle!QuantityOf(Lifecycle!Once(Lifecycle!OwnFills))
             => known = Lifecycle!OwnFills
    BY <1>3, <2>1, FewerFills
  <2> QED BY <1>1, <1>5, <1>7, <2>2 DEF Lifecycle!VenueFilled
<1>8. ASSUME Lifecycle!NamesNoOther, NEW won \in BOOLEAN
      PROVE  Lifecycle!SettledPnl(final, won, 100)
               = (IF won THEN 100 * filled ELSE 0) - cost - Lifecycle!FeesOf(final)
  <2>1. /\ Lifecycle!QuantityOf(final) = filled /\ Lifecycle!CostOf(final) = cost
    BY <1>1, <1>4, <1>8
  <2> QED BY <1>1, <1>6, <2>1 DEF Lifecycle!SettledPnl
<1>9. ASSUME Lifecycle!RepeatsNoFill, Lifecycle!NamesNoOther, filled = Lifecycle!VenueFilled,
             NEW won \in BOOLEAN
      PROVE  Lifecycle!SettledPnl(final, won, 100)
               = Lifecycle!SettledPnl(Lifecycle!Once(Lifecycle!OwnFills), won, 100)
  <2>1. final = Lifecycle!Once(Lifecycle!OwnFills)
    BY <1>4, <1>7, <1>9
  <2> QED BY <2>1, Zenon
<1> QED BY <1>7, <1>8, <1>9 DEF Lifecycle!IInv, Lifecycle!SettlesOwnFills

-----------------------------------------------------------------------------
(* The two together. *)

(* A history of the gateway and of an order is one of each: reconciling and cancelling
   return an order and write no row (reconcile_order, cancel_order). *)
LEMMA OrdersAreIndependent == OrdersSpec => Spec /\ Lifecycle!Spec
<1>1. OrdersInit => Init /\ Lifecycle!Init
  BY DEF OrdersInit
<1>2. [OrdersNext]_<<gateway_vars, order_vars>> =>
        [Next]_vars /\ [Lifecycle!Next]_(Lifecycle!vars)
  <2>1. /\ UNCHANGED gateway_vars => UNCHANGED vars
        /\ UNCHANGED order_vars => UNCHANGED Lifecycle!vars
    BY DEF gateway_vars, order_vars, Lifecycle!vars
  <2> QED BY <2>1 DEF OrdersNext
<1> QED BY <1>1, <1>2, PTL DEF OrdersSpec, Spec, Lifecycle!Spec

(* SettlesOwnFills: for any quantity, prices and number of fills, no sequence of
   cancellations and of late, partial and misdirected reports builds an order its contract
   refuses, believes in more than the venue filled, or settles the whole of it for anything
   but what it bought and cost (cancel_order, reconcile_order, settled_pnl). *)
THEOREM OrdersSettleOwnFills == OrdersSpec => []SettlesOwnFills
<1>1. Lifecycle!LifecycleConstants
  BY OrderConstants
<1>2. Lifecycle!Init => Lifecycle!IInv
  BY <1>1, LifecycleInit
<1>3. Lifecycle!IInv /\ [Lifecycle!Next]_(Lifecycle!vars) => Lifecycle!IInv'
  BY <1>1, LifecycleNext
<1>4. Lifecycle!IInv => SettlesOwnFills
  BY <1>1, SettlesWhatItKnows DEF SettlesOwnFills
<1> QED BY <1>2, <1>3, <1>4, OrdersAreIndependent, PTL DEF Lifecycle!Spec
=============================================================================
