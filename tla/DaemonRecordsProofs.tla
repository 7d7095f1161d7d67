------------------------ MODULE DaemonRecordsProofs ------------------------
(***************************************************************************)
(* Proofs about DaemonRecords.  ShadowEvidence, for any number of buckets, *)
(* processes, cycles and attempts, wherever a process dies and whoever     *)
(* holds the write lock: evidence refers to a stored window, no decision   *)
(* is without its market data, and a reported cycle accounts for every     *)
(* bucket, for good. OfficialIdentity, for any trades, any faulty answers  *)
(* of the venues and any size of a pass: a trade is settled with the final *)
(* winner of its own market, the identity recovered for it is its own, and *)
(* neither is ever replaced.                                               *)
(***************************************************************************)
EXTENDS DaemonRecords, TLAPS

(* The constants as the proofs use them. *)
LEMMA OrderFacts ==
  /\ Len(Order) \in Nat \ {0}
  /\ \A i \in 1..Len(Order) : Order[i] \in Buckets
  /\ \A i, j \in 1..Len(Order) : Order[i] = Order[j] => i = j
  /\ \A b \in Buckets : \E i \in 1..Len(Order) : Order[i] = b
<1>1. Order \in Seq(Buckets) /\ Order # <<>>
  BY EvidenceConstants DEF EvidenceConstants
<1>2. Len(Order) \in Nat \ {0} /\ DOMAIN Order = 1..Len(Order)
  BY <1>1
<1>3. \A i, j \in DOMAIN Order : Order[i] = Order[j] => i = j
  BY EvidenceConstants DEF EvidenceConstants, IsInjective
<1>4. \A b \in Buckets : \E i \in DOMAIN Order : Order[i] = b
  BY EvidenceConstants DEF EvidenceConstants, Range
<1> QED BY <1>1, <1>2, <1>3, <1>4

(* The bounds are numbers. *)
LEMMA BoundFacts ==
  /\ StartupAttempts \in Nat \ {0} /\ EventAttempts \in Nat \ {0}
  /\ MaxProcesses \in Nat \ {0} /\ MaxCycles \in Nat \ {0}
  /\ 0 \in 0..(StartupAttempts + EventAttempts)
BY EvidenceConstants DEF EvidenceConstants

(* A step that changes neither the tables nor the cycle, and stays where it is or
   leaves the buckets, keeps what was accounted for. *)
LEMMA QuietStep ==
  ASSUME IInv, UNCHANGED <<shadow_events, ledger, cycle, collected, position>>,
         evidence_windows \subseteq evidence_windows',
         pc' \in {pc, "down", "idle", "markdown"} \cup Startup,
         pc' # "down" => process' > 0,
         pc' \in Running => process' \in evidence_windows',
         pc' \in Running \ {"idle"} => pc \in Running \ {"idle"}
  PROVE  DecisionsHaveMarketData' /\ CycleAccounted' /\ CycleProgress'
<1> USE DEF IInv
<1>1. \A c : \A b : Accounted(c, b)' <=> Accounted(c, b)
  BY DEF Accounted, Stored, InLedger
<1>2. \A c : \A b : Untouched(c, b)' <=> Untouched(c, b)
  BY DEF Untouched, Stored
<1>3. \A type, c, b : Stored(type, c, b)' <=> Stored(type, c, b)
  BY DEF Stored
<1>4. \A s, c, b : InLedger(s, c, b)' <=> InLedger(s, c, b)
  BY DEF InLedger
<1>5. DecisionsHaveMarketData' /\ CycleAccounted'
  BY <1>1, <1>3 DEF DecisionsHaveMarketData, CycleAccounted
<1>6. CycleProgress'
  BY <1>1, <1>2, <1>3, <1>4
  DEF CycleProgress, InBuckets, Startup, Running, PerBucket, Evaluating, Bucket
<1> QED BY <1>5, <1>6
(* What one more event changes in the records of market data. *)
LEMMA EventEffect ==
  ASSUME NEW type, NEW b, UNCHANGED cycle,
         \/ shadow_events' = shadow_events \cup {Event(type, b)}
         \/ shadow_events' = shadow_events /\ type # "MARKET_DATA_PIPELINE"
  PROVE  \A c, x : Stored("MARKET_DATA_PIPELINE", c, x)' <=>
           \/ Stored("MARKET_DATA_PIPELINE", c, x)
           \/ type = "MARKET_DATA_PIPELINE" /\ c = cycle /\ x = b
<1> DEFINE n == Event(type, b)
<1>1. n.type = type /\ n.cycle = cycle /\ n.bucket = b
  BY DEF Event
<1>2. \/ shadow_events' = shadow_events \cup {n}
      \/ shadow_events' = shadow_events /\ type # "MARKET_DATA_PIPELINE"
  OBVIOUS
<1> HIDE DEF n
<1> QED BY <1>1, <1>2 DEF Stored

(* An event that is neither market data nor the end of a cycle, stored or dropped,
   leaves what was accounted for as it is. *)
LEMMA OtherEvent ==
  ASSUME IInv, NEW type \in EventTypes \ {"MARKET_DATA_PIPELINE", "REAL_SHADOW_CYCLE"},
         NEW b \in Buckets \cup {NoBucket},
         UNCHANGED <<process, evidence_windows, ledger, cycle, collected>>,
         shadow_events' \in {shadow_events, shadow_events \cup {Event(type, b)}}
  PROVE  /\ \A c, x : Stored("MARKET_DATA_PIPELINE", c, x)' <=>
                       Stored("MARKET_DATA_PIPELINE", c, x)
         /\ \A c, x : Accounted(c, x)' <=> Accounted(c, x)
         /\ \A c, x : Untouched(c, x)' <=> Untouched(c, x)
         /\ \A e \in shadow_events' : e.type = "REAL_SHADOW_CYCLE" => e \in shadow_events
         /\ DecisionsHaveMarketData' /\ CycleAccounted'
<1>1. \A c, x : Stored("MARKET_DATA_PIPELINE", c, x)' <=> Stored("MARKET_DATA_PIPELINE", c, x)
  BY EventEffect
<1>2. \A c, x : Accounted(c, x)' <=> Accounted(c, x)
  BY <1>1 DEF Accounted, InLedger
<1>3. \A c, x : Untouched(c, x)' <=> Untouched(c, x)
  BY <1>1 DEF Untouched
<1>4. \A e \in shadow_events' : e.type = "REAL_SHADOW_CYCLE" => e \in shadow_events
  BY DEF Event
<1>5. DecisionsHaveMarketData' /\ CycleAccounted'
  BY <1>1, <1>2, <1>4 DEF IInv, DecisionsHaveMarketData, CycleAccounted
<1> QED BY <1>1, <1>2, <1>3, <1>4, <1>5

(* The rows of the bucket that is evaluated touch no other bucket and no other cycle. *)
LEMMA RowsEffect ==
  ASSUME IInv, InBuckets,
         NEW rows \in SUBSET {Row(s, Bucket) : s \in Strategies}, Recorded(rows)
  PROVE  /\ \A c, x : Stored("MARKET_DATA_PIPELINE", c, x)' <=>
                       Stored("MARKET_DATA_PIPELINE", c, x)
         /\ \A s, c, x : InLedger(s, c, x)' <=>
              InLedger(s, c, x) \/ (c = cycle /\ x = Bucket /\ Row(s, Bucket) \in rows)
         /\ \A c, x : c # cycle \/ x # Bucket =>
              /\ Accounted(c, x) => Accounted(c, x)'
              /\ Untouched(c, x) => Untouched(c, x)'
         /\ CycleAccounted'
<1>1. \A c, x : Stored("MARKET_DATA_PIPELINE", c, x)' <=> Stored("MARKET_DATA_PIPELINE", c, x)
  BY DEF Recorded, Stored
<1>2. ASSUME NEW s, NEW c, NEW x
      PROVE  InLedger(s, c, x)' <=>
               InLedger(s, c, x) \/ (c = cycle /\ x = Bucket /\ Row(s, Bucket) \in rows)
  BY DEF Recorded, InLedger, Row
<1>3. ASSUME NEW c, NEW x, c # cycle \/ x # Bucket
      PROVE  /\ Accounted(c, x) => Accounted(c, x)'
             /\ Untouched(c, x) => Untouched(c, x)'
  <2>1. cycle' = cycle /\ collected' = collected
    BY DEF Recorded
  <2>2. \A s : InLedger(s, c, x)' <=> InLedger(s, c, x)
    BY <1>2, <1>3
  <2>3. Accounted(c, x) => Accounted(c, x)'
    BY <1>1, <2>1, <2>2 DEF Accounted
  <2>4. \A r \in ledger' : r \in ledger \/ (r.cycle = cycle /\ r.bucket = Bucket)
    BY DEF Recorded, Row
  <2>5. Untouched(c, x) => Untouched(c, x)'
    BY <1>1, <1>3, <2>4 DEF Untouched
  <2> QED BY <2>3, <2>5
<1>4. CycleAccounted'
  BY <1>3 DEF IInv, CycleProgress, CycleAccounted, Recorded
<1> QED BY <1>1, <1>2, <1>3, <1>4
(* An event of the process is well-formed and names a window of the table. *)
LEMMA AppendEventIsSound ==
  ASSUME IInv, NEW type \in EventTypes, NEW b \in Buckets \cup {NoBucket},
         NEW stored_next, NEW dropped_next, pc \in Running \ {"idle"},
         {stored_next, dropped_next} \subseteq Running,
         AppendEvent(Event(type, b), stored_next, dropped_next),
         UNCHANGED <<process, locked, evidence_windows, ledger, cycle, collected, files>>,
         position' \in 1..Len(Order)
  PROVE  /\ TypeOK' /\ EvidenceReferential'
         /\ shadow_events' \in {shadow_events, shadow_events \cup {Event(type, b)}}
         /\ pc' \in {pc, stored_next, dropped_next}
         /\ pc' = stored_next /\ stored_next # pc /\ stored_next # dropped_next
              => shadow_events' = shadow_events \cup {Event(type, b)}
         /\ pc' = pc /\ pc \notin {stored_next, dropped_next} => shadow_events' = shadow_events
         /\ pc' = dropped_next /\ dropped_next # pc /\ stored_next # dropped_next
              => shadow_events' = shadow_events
<1> USE DEF IInv
<1>1. /\ shadow_events' \in {shadow_events, shadow_events \cup {Event(type, b)}}
      /\ attempt' \in 0..(StartupAttempts + EventAttempts)
      /\ pc' \in {pc, stored_next, dropped_next}
  BY EvidenceConstants DEF AppendEvent, Retried, To, TypeOK, EvidenceConstants
<1>2. process \in 1..process /\ cycle \in 1..cycle /\ process \in evidence_windows
  BY DEF CycleProgress, TypeOK, Running
<1>3. Event(type, b) \in [type : EventTypes, window : 1..process, cycle : 1..cycle,
                          bucket : Buckets \cup {NoBucket}]
  BY <1>2 DEF Event
<1>4. TypeOK'
  BY <1>1, <1>3 DEF TypeOK, files
<1>5. EvidenceReferential'
  <2>1. Event(type, b).window = process
    BY DEF Event
  <2> QED BY <1>1, <1>2, <2>1 DEF EvidenceReferential, files
<1>6. /\ pc' = stored_next /\ stored_next # pc /\ stored_next # dropped_next
           => shadow_events' = shadow_events \cup {Event(type, b)}
      /\ pc' = pc /\ pc \notin {stored_next, dropped_next} => shadow_events' = shadow_events
      /\ pc' = dropped_next /\ dropped_next # pc /\ stored_next # dropped_next
           => shadow_events' = shadow_events
  BY DEF AppendEvent, Retried, To
<1> QED BY <1>1, <1>4, <1>5, <1>6

(* The row of an evaluation is well-formed, and the next position is a position. *)
LEMMA RecordedIsSound ==
  ASSUME IInv, InBuckets, NEW rows \in SUBSET {Row(s, Bucket) : s \in Strategies},
         Recorded(rows), pc' \in Running, attempt' = 0, position' \in 1..Len(Order)
  PROVE  TypeOK' /\ EvidenceReferential'
<1> USE DEF IInv
<1>1. cycle \in 1..cycle /\ Bucket \in Buckets
  BY OrderFacts DEF CycleProgress, InBuckets, PerBucket, Running, TypeOK, Bucket
<1>2. ledger' \subseteq [strategy : Strategies, cycle : 1..cycle, bucket : Buckets]
  BY <1>1 DEF TypeOK, Recorded, Row
<1>3. TypeOK'
  BY <1>2, EvidenceConstants DEF TypeOK, Recorded, files, EvidenceConstants
<1>4. EvidenceReferential'
  BY DEF EvidenceReferential, Recorded, files
<1> QED BY <1>3, <1>4

(* The loop over the buckets goes on from one that is accounted for, when the step
   touched no other. *)
LEMMA LeavingKeepsProgress ==
  ASSUME IInv, pc \in PerBucket,
         NEW n, n = cycle, NEW b, b = Bucket, Accounted(n, b)',
         UNCHANGED <<process, evidence_windows, cycle>>,
         pc' = Following,
         position' = IF position < Len(Order) THEN position + 1 ELSE position,
         \A e \in shadow_events' : e.type = "REAL_SHADOW_CYCLE" => e \in shadow_events,
         \A c, x : c # n \/ x # b =>
           /\ Accounted(c, x) => Accounted(c, x)'
           /\ Untouched(c, x) => Untouched(c, x)'
  PROVE  CycleProgress'
<1> USE DEF IInv
<1>1. /\ InBuckets /\ pc \in Running \ {"idle"}
      /\ cycle' = n /\ process' = process /\ evidence_windows' = evidence_windows
      /\ b \in Buckets
      /\ position \in 1..Len(Order) /\ Len(Order) \in Nat
  BY OrderFacts DEF InBuckets, PerBucket, Running, Bucket, TypeOK
<1>2. /\ \A i \in 1..(position - 1) : Accounted(n, Order[i])
      /\ \A i \in (position + 1)..Len(Order) : Untouched(n, Order[i])
      /\ \A e \in shadow_events' : e.type = "REAL_SHADOW_CYCLE" => e.cycle # n
      /\ process > 0 /\ process \in evidence_windows /\ n > 0
  BY <1>1 DEF CycleProgress, PerBucket, Running
<1>3. \A i \in 1..Len(Order) : i # position => Order[i] # b
  BY <1>1, OrderFacts DEF Bucket
<1>4. \A i \in 1..position : Accounted(n, Order[i])'
  <2>1. \A i \in 1..(position - 1) : Accounted(n, Order[i])'
    BY <1>1, <1>2, <1>3
  <2>2. Order[position] = b
    BY DEF Bucket
  <2> QED BY <1>1, <2>1, <2>2
<1>5. \A i \in (position + 1)..Len(Order) : Untouched(n, Order[i])'
  BY <1>1, <1>2, <1>3
<1>6. CASE position < Len(Order)
  <2>1. position' = position + 1 /\ pc' = "pipeline"
    BY <1>6 DEF Following
  <2>2. PICK x : x = Order[position + 1]
    OBVIOUS
  <2>3. Bucket' = x
    BY <2>1, <2>2 DEF Bucket
  <2>4. Untouched(n, x)'
    BY <1>1, <1>6, <2>2, <1>2, <1>3
  <2>5. Untouched(cycle, Bucket)'
    BY <1>1, <2>3, <2>4
  <2> QED
    BY <1>1, <1>2, <1>4, <1>5, <2>1, <2>5
    DEF CycleProgress, InBuckets, PerBucket, Evaluating, Running
<1>7. CASE ~(position < Len(Order))
  <2>1. position' = position /\ pc' = "cycle_event" /\ position = Len(Order)
    BY <1>1, <1>7 DEF Following
  <2>2. \A x \in Buckets : Accounted(n, x)'
    BY <1>1, <1>4, <2>1, OrderFacts
  <2>3. (\A x \in Buckets : Accounted(cycle, x))'
    BY <1>1, <2>2
  <2> QED
    BY <1>1, <1>2, <2>1, <2>3 DEF CycleProgress, InBuckets, PerBucket, Evaluating, Running
<1> QED BY <1>6, <1>7
(* Before the first process nothing is stored. *)
THEOREM InitIInv == Init => IInv
<1> SUFFICES ASSUME Init PROVE IInv
  OBVIOUS
<1>1. TypeOK
  <2>1. NoReport \in [process : 0..0, cycle : 0..0]
    BY DEF NoReport
  <2>2. /\ process = 0 /\ cycle = 0 /\ pc = "down" /\ attempt = 0 /\ locked = FALSE
        /\ evidence_windows = {} /\ shadow_events = {} /\ ledger = {}
        /\ position = 1 /\ json = NoReport /\ markdown = NoReport
    BY DEF Init
  <2>3. collected \in [Buckets -> Found] /\ position \in 1..Len(Order)
    BY OrderFacts DEF Init, Found
  <2>4. process \in 0..MaxProcesses /\ cycle \in 0..MaxCycles
    BY <2>2, BoundFacts
  <2> QED BY <2>1, <2>2, <2>3, <2>4, BoundFacts DEF TypeOK
<1>2. EvidenceReferential /\ DecisionsHaveMarketData /\ CycleAccounted /\ CycleProgress
  BY DEF Init, EvidenceReferential, DecisionsHaveMarketData, CycleAccounted, CycleProgress,
         InBuckets, PerBucket, Evaluating, Running, NoReport
<1> QED BY <1>1, <1>2 DEF IInv

(* A process that starts, stores its window or dies touches no cycle. *)
LEMMA StartupKeepsIInv ==
  ASSUME IInv, StartProcess \/ StartupWrite \/ VerifyWindow \/ Crash \/ OtherWriter
  PROVE  IInv'
<1> USE DEF IInv
<1>1. UNCHANGED <<shadow_events, ledger, cycle, collected, position>>
  BY DEF StartProcess, StartupWrite, VerifyWindow, Crash, OtherWriter, cycle_state
<1>2. /\ TypeOK' /\ EvidenceReferential'
      /\ evidence_windows \subseteq evidence_windows'
      /\ pc' \in {pc, "down", "idle"} \cup Startup
      /\ pc' # "down" => process' > 0
      /\ pc' \in Running => process' \in evidence_windows'
      /\ pc' \in Running \ {"idle"} => pc \in Running \ {"idle"}
  <2>1. CASE StartProcess
    <3>1. /\ process' = process + 1 /\ pc' = "schema" /\ attempt' = 0
          /\ evidence_windows' = evidence_windows /\ json' = json /\ markdown' = markdown
          /\ locked' = locked /\ process < MaxProcesses
      BY <2>1 DEF StartProcess, To, files
    <3>2. process' \in 0..MaxProcesses /\ 1..process \subseteq 1..process'
                                       /\ 0..process \subseteq 0..process'
      BY <3>1, EvidenceConstants DEF TypeOK, EvidenceConstants
    <3>3. TypeOK'
      BY <1>1, <3>1, <3>2, EvidenceConstants DEF TypeOK, Startup, EvidenceConstants
    <3>4. EvidenceReferential'
      BY <1>1, <3>1 DEF EvidenceReferential
    <3> QED
      BY <3>1, <3>2, <3>3, <3>4 DEF Startup, Running, PerBucket, TypeOK
  <2>2. CASE StartupWrite
    <3>1. /\ process' = process /\ locked' = locked /\ json' = json /\ markdown' = markdown
          /\ pc \in {"schema", "window"} /\ pc' \in {pc, "window", "verify", "down"}
          /\ attempt' \in 0..(StartupAttempts + EventAttempts)
          /\ evidence_windows' \in {evidence_windows, evidence_windows \cup {process}}
      BY <2>2, EvidenceConstants
      DEF StartupWrite, Retried, StartupGivenUp, To, files, TypeOK, EvidenceConstants
    <3>2. process \in 1..process
      BY <3>1 DEF CycleProgress, TypeOK
    <3>3. TypeOK'
      BY <1>1, <3>1, <3>2 DEF TypeOK, Startup
    <3>4. EvidenceReferential'
      BY <1>1, <3>1 DEF EvidenceReferential
    <3> QED BY <3>1, <3>2, <3>3, <3>4 DEF Startup, Running, PerBucket
  <2>3. CASE VerifyWindow
    <3>1. TypeOK'
      BY <2>3, <1>1, EvidenceConstants
      DEF VerifyWindow, To, files, TypeOK, Running, EvidenceConstants
    <3>2. EvidenceReferential'
      BY <2>3, <1>1 DEF VerifyWindow, To, files, EvidenceReferential
    <3> QED
      BY <2>3, <3>1, <3>2
      DEF VerifyWindow, To, Startup, Running, PerBucket, CycleProgress
  <2>4. CASE Crash \/ OtherWriter
    <3>1. /\ attempt' \in {attempt, 0} /\ pc' \in {pc, "down"}
          /\ UNCHANGED <<process, evidence_windows, json, markdown>>
      BY <2>4 DEF Crash, OtherWriter, To, files
    <3>2. locked' \in BOOLEAN
      BY <2>4 DEF Crash, OtherWriter, TypeOK
    <3>3. TypeOK'
      BY <1>1, <3>1, <3>2, BoundFacts DEF TypeOK
    <3>4. EvidenceReferential'
      BY <1>1, <3>1 DEF EvidenceReferential
    <3> QED BY <3>1, <3>3, <3>4 DEF Startup, Running, PerBucket, CycleProgress
  <2> QED BY <2>1, <2>2, <2>3, <2>4
<1> QED BY <1>1, <1>2, QuietStep

(* The report files of a cycle, whose events are stored. *)
LEMMA ReportsKeepIInv ==
  ASSUME IInv, WriteJson \/ WriteMarkdown
  PROVE  IInv'
<1> USE DEF IInv
<1>1. /\ UNCHANGED <<shadow_events, ledger, cycle, collected, position, process,
                     evidence_windows, locked>>
      /\ pc \in {"json", "markdown"} /\ pc' \in {"markdown", "idle"} /\ attempt' = 0
      /\ json' \in {json, [process |-> process, cycle |-> cycle]}
      /\ markdown' \in {markdown, [process |-> process, cycle |-> cycle]}
  BY DEF WriteJson, WriteMarkdown, To, cycle_state
<1>2. process > 0 /\ process \in evidence_windows /\ pc \in Running \ {"idle"}
  BY <1>1 DEF CycleProgress, Running
<1>3. process \in 0..process /\ cycle \in 0..cycle
  BY DEF TypeOK
<1>4. TypeOK'
  BY <1>1, <1>3, EvidenceConstants DEF TypeOK, Running, EvidenceConstants
<1>5. EvidenceReferential'
  BY <1>1, <1>2 DEF EvidenceReferential
<1>6. DecisionsHaveMarketData' /\ CycleAccounted' /\ CycleProgress'
  BY <1>1, <1>2, QuietStep DEF Running
<1> QED BY <1>4, <1>5, <1>6

(* A new cycle: nothing is stored under its number. *)
LEMMA BeginCycleKeepsIInv ==
  ASSUME IInv, BeginCycle
  PROVE  IInv'
<1> USE DEF IInv
<1>1. PICK n : n = cycle + 1
  OBVIOUS
<1>2. /\ UNCHANGED <<shadow_events, ledger, process, evidence_windows, locked, json, markdown>>
      /\ pc = "idle" /\ pc' = "settlement" /\ attempt' = 0 /\ position' = 1
      /\ cycle' = n /\ cycle < MaxCycles /\ collected' \in [Buckets -> Found]
  BY <1>1 DEF BeginCycle, To, files
<1>3. process > 0 /\ process \in evidence_windows /\ n \in 1..MaxCycles /\ cycle < n
  BY <1>1, <1>2, EvidenceConstants DEF CycleProgress, Running, TypeOK, EvidenceConstants
<1>4. 1..cycle \subseteq 1..n /\ 0..cycle \subseteq 0..n
  BY <1>1 DEF TypeOK
<1>5. TypeOK'
  <2>1. /\ evidence_windows \subseteq 1..process /\ locked \in BOOLEAN
        /\ shadow_events \subseteq [type : EventTypes, window : 1..process, cycle : 1..n,
                                    bucket : Buckets \cup {NoBucket}]
        /\ ledger \subseteq [strategy : Strategies, cycle : 1..n, bucket : Buckets]
        /\ {json, markdown} \subseteq [process : 0..process, cycle : 0..n]
        /\ process \in 0..MaxProcesses
    BY <1>4 DEF TypeOK
  <2> QED BY <1>2, <1>3, <2>1, OrderFacts, BoundFacts DEF TypeOK, Running
<1>6. \A e \in shadow_events : e.cycle \in Nat /\ e.cycle # n
  BY <1>3 DEF TypeOK
<1>7. \A r \in ledger : r.cycle \in Nat /\ r.cycle # n
  BY <1>3 DEF TypeOK
<1>8. EvidenceReferential' /\ DecisionsHaveMarketData'
  BY <1>2 DEF EvidenceReferential, DecisionsHaveMarketData, Stored
<1>9. CycleAccounted'
  <2>1. ASSUME NEW c, NEW b, c # n, Accounted(c, b)
        PROVE  Accounted(c, b)'
    BY <1>2, <2>1 DEF Accounted, Stored, InLedger
  <2> QED BY <1>2, <1>6, <2>1 DEF CycleAccounted
<1>10. \A b : Untouched(n, b)'
  BY <1>2, <1>6, <1>7 DEF Untouched, Stored
<1>11. CycleProgress'
  <2>1. \A b : Untouched(cycle, b)'
    BY <1>2, <1>10
  <2> QED
    BY <1>2, <1>3, <1>6, <2>1
    DEF CycleProgress, InBuckets, PerBucket, Evaluating, Running
<1> QED BY <1>5, <1>8, <1>9, <1>11
(* An event between two steps of a cycle that is neither market data nor its end. *)
LEMMA MinorEventKeepsIInv ==
  ASSUME IInv, AppendSettlementScan \/ AppendEvaluation \/ AppendStructural
  PROVE  IInv'
<1> USE DEF IInv
<1>1. PICK type \in EventTypes \ {"MARKET_DATA_PIPELINE", "REAL_SHADOW_CYCLE"},
           b \in Buckets \cup {NoBucket},
           next \in {"pipeline", "structural", "abstain", "decision"} :
        /\ AppendEvent(Event(type, b), next, next)
        /\ <<pc, next>> \in {<<"settlement", "pipeline">>, <<"entered", "structural">>,
                             <<"assessed", "abstain">>, <<"structural", "decision">>}
        /\ UNCHANGED <<process, locked, evidence_windows, ledger, cycle_state, files>>
  <2>1. pc = "settlement" \/ Bucket \in Buckets
    BY OrderFacts DEF Bucket, TypeOK
  <2>2. CASE AppendSettlementScan
    BY <2>2 DEF AppendSettlementScan, EventTypes
  <2>3. CASE AppendEvaluation
    <3>1. CASE pc = "entered"
      BY <2>1, <2>3, <3>1 DEF AppendEvaluation, EventTypes
    <3>2. CASE pc = "assessed"
      BY <2>1, <2>3, <3>2 DEF AppendEvaluation, EventTypes
    <3> QED BY <2>3, <3>1, <3>2 DEF AppendEvaluation
  <2>4. CASE AppendStructural
    BY <2>1, <2>4 DEF AppendStructural, EventTypes
  <2> QED BY <2>2, <2>3, <2>4
<1>2. pc \in Running \ {"idle"} /\ next \in Running
  BY <1>1 DEF Running, PerBucket
<1>3. UNCHANGED <<process, evidence_windows, ledger, cycle, collected, position>>
      /\ position' \in 1..Len(Order)
  BY <1>1 DEF cycle_state, TypeOK
<1>4. /\ TypeOK' /\ EvidenceReferential' /\ pc' \in {pc, next}
      /\ shadow_events' \in {shadow_events, shadow_events \cup {Event(type, b)}}
  BY <1>1, <1>2, <1>3, AppendEventIsSound
<1>5. /\ \A c, x : Stored("MARKET_DATA_PIPELINE", c, x)' <=>
                   Stored("MARKET_DATA_PIPELINE", c, x)
      /\ \A c, x : Accounted(c, x)' <=> Accounted(c, x)
      /\ \A c, x : Untouched(c, x)' <=> Untouched(c, x)
      /\ \A e \in shadow_events' : e.type = "REAL_SHADOW_CYCLE" => e \in shadow_events
      /\ DecisionsHaveMarketData' /\ CycleAccounted'
  BY <1>3, <1>4, OtherEvent
<1>6. \A s, c, x : InLedger(s, c, x)' <=> InLedger(s, c, x)
  BY <1>3 DEF InLedger
<1>7. CycleProgress'
  BY <1>1, <1>2, <1>3, <1>4, <1>5, <1>6
  DEF CycleProgress, InBuckets, PerBucket, Evaluating, Running, Bucket
<1> QED BY <1>4, <1>5, <1>7

(* The event of a scan that failed, whose bucket is accounted for. *)
LEMMA AppendFaultKeepsIInv ==
  ASSUME IInv, AppendFault
  PROVE  IInv'
<1> USE DEF IInv
<1>1. PICK n, b : n = cycle /\ b = Bucket
  OBVIOUS
<1>2. /\ pc = "fault" /\ pc \in PerBucket /\ pc \in Running \ {"idle"} /\ b \in Buckets
      /\ position \in 1..Len(Order) /\ Len(Order) \in Nat
      /\ AppendEvent(Event("STRUCTURAL_EVALUATION", b), Following, Following)
      /\ position' = IF pc' = "pipeline" THEN position + 1 ELSE position
      /\ UNCHANGED <<process, locked, evidence_windows, ledger, cycle, collected, files>>
  BY <1>1, OrderFacts DEF AppendFault, Running, PerBucket, Bucket, TypeOK
<1>3. /\ Following \in {"pipeline", "cycle_event"} /\ Following \in Running
      /\ Following = "pipeline" <=> position < Len(Order)
  BY DEF Following, Running, PerBucket
<1>4. pc' \in {"fault", Following}
  BY <1>2 DEF AppendEvent, Retried, To
<1>5. position' \in 1..Len(Order)
  BY <1>2, <1>3, <1>4
<1>6. /\ TypeOK' /\ EvidenceReferential'
      /\ shadow_events' \in {shadow_events,
                             shadow_events \cup {Event("STRUCTURAL_EVALUATION", b)}}
      /\ pc' = pc => shadow_events' = shadow_events
  BY <1>2, <1>3, <1>5, AppendEventIsSound DEF EventTypes
<1>7. /\ \A c, x : Accounted(c, x)' <=> Accounted(c, x)
      /\ \A c, x : Untouched(c, x)' <=> Untouched(c, x)
      /\ \A e \in shadow_events' : e.type = "REAL_SHADOW_CYCLE" => e \in shadow_events
      /\ DecisionsHaveMarketData' /\ CycleAccounted'
  BY <1>2, <1>6, OtherEvent DEF EventTypes
<1>8. Accounted(n, b)
  BY <1>1, <1>2 DEF CycleProgress, Evaluating, Accounted
<1>9. CASE pc' = "fault"
  <2>1. UNCHANGED <<shadow_events, ledger, cycle, collected, position>>
        /\ evidence_windows \subseteq evidence_windows'
    BY <1>2, <1>6, <1>9
  <2>2. process' > 0 /\ process' \in evidence_windows'
    BY <1>2 DEF CycleProgress
  <2>3. CycleProgress'
    BY <1>2, <1>9, <2>1, <2>2, QuietStep
  <2> QED BY <1>6, <1>7, <2>3
<1>10. CASE pc' = Following
  <2>1. position' = IF position < Len(Order) THEN position + 1 ELSE position
    BY <1>2, <1>3, <1>10
  <2>2. CycleProgress'
    BY <1>1, <1>2, <1>7, <1>8, <1>10, <2>1, LeavingKeepsProgress
  <2> QED BY <1>6, <1>7, <2>2
<1> QED BY <1>4, <1>9, <1>10

(* The market data of a bucket, stored or dropped. *)
LEMMA RecordPipelineStateKeepsIInv ==
  ASSUME IInv, RecordPipelineState
  PROVE  IInv'
<1> USE DEF IInv
<1>1. PICK n, b : n = cycle /\ b = Bucket
  OBVIOUS
<1>2. /\ pc = "pipeline" /\ pc \in Running \ {"idle"} /\ InBuckets /\ b \in Buckets
      /\ AppendEvent(Event("MARKET_DATA_PIPELINE", b), "directional", "degraded")
      /\ UNCHANGED <<process, locked, evidence_windows, ledger, cycle_state, files>>
  BY <1>1, OrderFacts DEF RecordPipelineState, Running, PerBucket, InBuckets, Bucket, TypeOK
<1>3. /\ TypeOK' /\ EvidenceReferential' /\ pc' \in {"pipeline", "directional", "degraded"}
      /\ shadow_events' \in {shadow_events,
                             shadow_events \cup {Event("MARKET_DATA_PIPELINE", b)}}
      /\ pc' = "directional" =>
           shadow_events' = shadow_events \cup {Event("MARKET_DATA_PIPELINE", b)}
      /\ pc' # "directional" => shadow_events' = shadow_events
  <2>1. UNCHANGED <<cycle, collected, position>> /\ position' \in 1..Len(Order)
    BY <1>2 DEF cycle_state, TypeOK
  <2> QED BY <1>2, <2>1, AppendEventIsSound DEF EventTypes, Running, PerBucket
<1>4. UNCHANGED <<process, evidence_windows, ledger, cycle, collected, position>> /\ cycle' = n
      /\ b' = b /\ Bucket' = b
  BY <1>1, <1>2 DEF cycle_state, Bucket
<1>5. CASE pc' = "pipeline"
  BY <1>2, <1>3, <1>4, <1>5, QuietStep DEF CycleProgress, Running, PerBucket
<1>6. CASE pc' = "degraded"
  <2>1. shadow_events' = shadow_events
    BY <1>3, <1>6
  <2>2. /\ \A c, x : Accounted(c, x)' <=> Accounted(c, x)
        /\ \A c, x : Untouched(c, x)' <=> Untouched(c, x)
        /\ \A t, c, x : Stored(t, c, x)' <=> Stored(t, c, x)
    BY <1>4, <2>1 DEF Accounted, Untouched, Stored, InLedger
  <2>3. DecisionsHaveMarketData' /\ CycleAccounted'
    BY <1>4, <2>1, <2>2 DEF DecisionsHaveMarketData, CycleAccounted
  <2>4. CycleProgress'
    BY <1>2, <1>4, <1>6, <2>1, <2>2
    DEF CycleProgress, InBuckets, PerBucket, Evaluating, Running, Bucket
  <2> QED BY <1>3, <2>3, <2>4
<1>7. CASE pc' = "directional"
  <2>1. shadow_events' = shadow_events \cup {Event("MARKET_DATA_PIPELINE", b)}
    BY <1>3, <1>7
  <2>2. \A c, x : Stored("MARKET_DATA_PIPELINE", c, x)' <=>
          Stored("MARKET_DATA_PIPELINE", c, x) \/ (c = n /\ x = b)
    BY <1>1, <1>4, <2>1, EventEffect
  <2>3. \A s, c, x : InLedger(s, c, x)' <=> InLedger(s, c, x)
    BY <1>4 DEF InLedger
  <2>4. \A c, x : c # n \/ x # b =>
          (Accounted(c, x)' <=> Accounted(c, x)) /\ (Untouched(c, x)' <=> Untouched(c, x))
    <3>1. \A c, x : c # n \/ x # b => (Accounted(c, x)' <=> Accounted(c, x))
      BY <1>4, <2>2, <2>3 DEF Accounted
    <3>2. \A c, x : c # n \/ x # b => (Untouched(c, x)' <=> Untouched(c, x))
      BY <1>4, <2>2 DEF Untouched
    <3> QED BY <3>1, <3>2
  <2>5. \A e \in shadow_events' : e.type = "REAL_SHADOW_CYCLE" =>
          e \in shadow_events /\ e.cycle # n
    BY <1>1, <1>2, <2>1 DEF CycleProgress, Event
  <2>6. DecisionsHaveMarketData' /\ CycleAccounted'
    BY <1>4, <2>2, <2>4, <2>5 DEF DecisionsHaveMarketData, CycleAccounted
  <2>7. \A i \in 1..Len(Order) : i # position => Order[i] # b
    BY <1>1, OrderFacts DEF Bucket, TypeOK
  <2>8. /\ \A i \in 1..(position - 1) : Accounted(n, Order[i])'
        /\ \A i \in (position + 1)..Len(Order) : Untouched(n, Order[i])'
    BY <1>1, <1>2, <2>4, <2>7, OrderFacts DEF CycleProgress, TypeOK
  <2>9. Stored("MARKET_DATA_PIPELINE", n, b)' /\ ~InLedger("SHADOW_STORAGE_DEGRADED", n, b)'
    <3>1. Untouched(n, b)
      BY <1>1, <1>2 DEF CycleProgress
    <3> QED BY <2>2, <2>3, <3>1 DEF Untouched, InLedger
  <2>10. CycleProgress'
    BY <1>2, <1>4, <1>7, <2>5, <2>8, <2>9
    DEF CycleProgress, InBuckets, PerBucket, Evaluating, Running
  <2> QED BY <1>3, <2>6, <2>10
<1> QED BY <1>3, <1>5, <1>6, <1>7
(* The rows that end the work on a bucket, and the state they are recorded in. *)
LastRows(rows) ==
  \/ pc = "degraded" /\ rows = {Row("SHADOW_STORAGE_DEGRADED", Bucket)}
  \/ /\ pc = "directional" /\ collected[Bucket] = "no_market"
     /\ rows = {Row("DIRECTIONAL_EDGE", Bucket)}
  \/ /\ pc \in {"closed", "structural", "decision"}
     /\ rows = {Row("STRUCTURAL_ARBITRAGE", Bucket)}

(* The rows after which the work on the bucket goes on. *)
EarlierRows(rows) ==
  \/ /\ <<pc, pc'>> \in {<<"directional", "closed">>, <<"directional", "entered">>,
                         <<"abstain", "structural">>}
     /\ rows = {Row("DIRECTIONAL_EDGE", Bucket)}
  \/ <<pc, pc'>> = <<"directional", "assessed">> /\ rows = {}
  \/ /\ <<pc, pc'>> = <<"structural", "fault">>
     /\ rows = {Row("STRUCTURAL_ARBITRAGE", Bucket)}

(* Every decision records such rows. *)
LEMMA DecisionRows ==
  ASSUME \/ AbstainDegraded \/ AbstainUnavailable \/ AbstainClosed
         \/ ExecuteDirectional \/ AbstainDirectional
         \/ StructuralUnavailable \/ StructuralFault \/ ExecuteStructural
  PROVE  \E rows \in SUBSET {Row(s, Bucket) : s \in Strategies} :
           /\ Recorded(rows) /\ pc \in PerBucket /\ attempt' = 0
           /\ \/ NextBucket /\ LastRows(rows)
              \/ position' = position /\ EarlierRows(rows)
<1> DEFINE dir == {Row("DIRECTIONAL_EDGE", Bucket)}
           struct == {Row("STRUCTURAL_ARBITRAGE", Bucket)}
           degraded == {Row("SHADOW_STORAGE_DEGRADED", Bucket)}
           all == {Row(s, Bucket) : s \in Strategies}
<1>1. dir \in SUBSET all /\ struct \in SUBSET all /\ degraded \in SUBSET all
      /\ {} \in SUBSET all
  BY DEF Strategies
<1>2. CASE AbstainDegraded
  <2>1. Recorded(degraded) /\ LastRows(degraded) /\ NextBucket /\ attempt' = 0
        /\ pc \in PerBucket
    BY <1>2 DEF AbstainDegraded, LastRows, PerBucket, NextBucket, To
  <2> QED BY <1>1, <2>1
<1>3. CASE AbstainUnavailable
  <2>1. Recorded(dir) /\ attempt' = 0 /\ pc \in PerBucket
    BY <1>3 DEF AbstainUnavailable, PerBucket, NextBucket, To
  <2>2. \/ NextBucket /\ LastRows(dir)
        \/ position' = position /\ EarlierRows(dir)
    BY <1>3 DEF AbstainUnavailable, LastRows, EarlierRows, To
  <2> QED BY <1>1, <2>1, <2>2
<1>4. CASE AbstainClosed \/ StructuralUnavailable \/ ExecuteStructural
  <2>1. Recorded(struct) /\ LastRows(struct) /\ NextBucket /\ attempt' = 0
        /\ pc \in PerBucket
    BY <1>4
    DEF AbstainClosed, StructuralUnavailable, ExecuteStructural, LastRows, PerBucket,
        NextBucket, To
  <2> QED BY <1>1, <2>1
<1>5. CASE ExecuteDirectional
  <2>1. \/ Recorded(dir) /\ EarlierRows(dir)
        \/ Recorded({}) /\ EarlierRows({})
    BY <1>5 DEF ExecuteDirectional, EarlierRows, To
  <2>2. attempt' = 0 /\ position' = position /\ pc \in PerBucket
    BY <1>5 DEF ExecuteDirectional, PerBucket, To
  <2> QED BY <1>1, <2>1, <2>2
<1>6. CASE AbstainDirectional
  <2>1. Recorded(dir) /\ EarlierRows(dir) /\ attempt' = 0 /\ position' = position
        /\ pc \in PerBucket
    BY <1>6 DEF AbstainDirectional, EarlierRows, PerBucket, To
  <2> QED BY <1>1, <2>1
<1>7. CASE StructuralFault
  <2>1. Recorded(struct) /\ EarlierRows(struct) /\ attempt' = 0 /\ position' = position
        /\ pc \in PerBucket
    BY <1>7 DEF StructuralFault, EarlierRows, PerBucket, To
  <2> QED BY <1>1, <2>1
<1> QED BY <1>2, <1>3, <1>4, <1>5, <1>6, <1>7

(* The decisions of a bucket: those that end its evaluation, and those that precede an
   event or the structural evaluation. *)
LEMMA DecisionKeepsIInv ==
  ASSUME IInv,
         \/ AbstainDegraded \/ AbstainUnavailable \/ AbstainClosed
         \/ ExecuteDirectional \/ AbstainDirectional
         \/ StructuralUnavailable \/ StructuralFault \/ ExecuteStructural
  PROVE  IInv'
<1> USE DEF IInv
<1>1. PICK n, b : n = cycle /\ b = Bucket
  OBVIOUS
<1>2. PICK rows \in SUBSET {Row(s, Bucket) : s \in Strategies} :
        /\ Recorded(rows) /\ pc \in PerBucket /\ attempt' = 0
        /\ \/ NextBucket /\ LastRows(rows)
           \/ position' = position /\ EarlierRows(rows)
  BY DecisionRows
<1>3. /\ InBuckets /\ pc \in Running \ {"idle"} /\ b \in Buckets
      /\ position \in 1..Len(Order) /\ Len(Order) \in Nat
      /\ cycle' = n /\ shadow_events' = shadow_events /\ collected' = collected
      /\ process' = process /\ evidence_windows' = evidence_windows
  BY <1>1, <1>2, OrderFacts DEF InBuckets, PerBucket, Running, Recorded, Bucket, TypeOK
<1>4. /\ \A c, x : Stored("MARKET_DATA_PIPELINE", c, x)' <=>
                   Stored("MARKET_DATA_PIPELINE", c, x)
      /\ \A s, c, x : InLedger(s, c, x)' <=>
           InLedger(s, c, x) \/ (c = n /\ x = b /\ Row(s, Bucket) \in rows)
      /\ \A c, x : c # n \/ x # b =>
           /\ Accounted(c, x) => Accounted(c, x)'
           /\ Untouched(c, x) => Untouched(c, x)'
      /\ CycleAccounted'
  BY <1>1, <1>2, <1>3, RowsEffect
<1>5. /\ pc = "degraded" => Untouched(n, b)
      /\ pc \in Evaluating =>
           /\ Stored("MARKET_DATA_PIPELINE", n, b)
           /\ ~InLedger("SHADOW_STORAGE_DEGRADED", n, b)
      /\ pc \in {"closed", "structural", "decision"} => InLedger("DIRECTIONAL_EDGE", n, b)
  BY <1>1 DEF CycleProgress, Evaluating, PerBucket
<1>6. \A s, t \in Strategies : Row(s, Bucket) = Row(t, Bucket) <=> s = t
  BY DEF Row
<1>7. DecisionsHaveMarketData'
  <2>1. \A r \in rows : r.strategy # "SHADOW_STORAGE_DEGRADED" =>
          Stored("MARKET_DATA_PIPELINE", r.cycle, r.bucket)
    <3>1. ASSUME NEW r \in rows, r.strategy # "SHADOW_STORAGE_DEGRADED"
          PROVE  r.cycle = n /\ r.bucket = b /\ pc \in Evaluating
      BY <1>1, <1>2, <3>1 DEF Row, LastRows, EarlierRows, Evaluating, PerBucket
    <3> QED BY <1>5, <3>1
  <2>2. ledger' = ledger \cup rows
    BY <1>2 DEF Recorded
  <2> QED BY <1>4, <2>1, <2>2 DEF DecisionsHaveMarketData
<1>8. CASE NextBucket /\ LastRows(rows)
  <2>1. pc' = Following /\ position' = IF position < Len(Order) THEN position + 1 ELSE position
    BY <1>8 DEF NextBucket, To
  <2>2. Accounted(n, b)'
    <3>1. CASE pc = "degraded"
      <4>1. rows = {Row("SHADOW_STORAGE_DEGRADED", Bucket)}
        BY <1>8, <3>1 DEF LastRows
      <4>2. \A s : ~InLedger(s, n, b)
        BY <1>5, <3>1 DEF Untouched, InLedger
      <4>3. ~Stored("MARKET_DATA_PIPELINE", n, b)
        BY <1>5, <3>1 DEF Untouched
      <4>4. InLedger("SHADOW_STORAGE_DEGRADED", n, b)' /\ ~InLedger("DIRECTIONAL_EDGE", n, b)'
        BY <1>4, <1>6, <4>1, <4>2 DEF Strategies
      <4> QED BY <1>4, <4>3, <4>4 DEF Accounted
    <3>2. CASE pc # "degraded"
      <4>1. /\ Stored("MARKET_DATA_PIPELINE", n, b)'
            /\ ~InLedger("SHADOW_STORAGE_DEGRADED", n, b)
        BY <1>2, <1>4, <1>5, <1>8, <3>2 DEF LastRows, Evaluating, PerBucket
      <4>2. ~InLedger("SHADOW_STORAGE_DEGRADED", n, b)'
        <5>1. Row("SHADOW_STORAGE_DEGRADED", Bucket) \notin rows
          BY <1>6, <1>8, <3>2 DEF LastRows, Strategies
        <5> QED BY <1>4, <4>1, <5>1
      <4>3. InLedger("DIRECTIONAL_EDGE", n, b)'
        BY <1>4, <1>5, <1>8, <3>2 DEF LastRows
      <4>4. collected[b] # "no_market" => InLedger("STRUCTURAL_ARBITRAGE", n, b)'
        BY <1>1, <1>4, <1>8, <3>2 DEF LastRows
      <4> QED BY <1>3, <4>1, <4>2, <4>3, <4>4 DEF Accounted
    <3> QED BY <3>1, <3>2
  <2>3. CycleProgress'
    BY <1>1, <1>2, <1>3, <1>4, <2>1, <2>2, LeavingKeepsProgress
  <2>4. pc' \in Running /\ position' \in 1..Len(Order)
    BY <1>3, <2>1 DEF Following, Running, PerBucket
  <2> QED BY <1>2, <1>3, <1>4, <1>7, <2>3, <2>4, RecordedIsSound
<1>9. CASE position' = position /\ EarlierRows(rows)
  <2>1. /\ pc \in Evaluating /\ pc' \in Evaluating \ {"directional"}
        /\ pc' \in PerBucket /\ pc' \notin {"pipeline", "degraded", "abstain"}
    BY <1>9 DEF EarlierRows, Evaluating, PerBucket
  <2>2. pc' \in Running /\ Bucket' = b /\ position' \in 1..Len(Order)
    BY <1>1, <1>3, <1>9, <2>1 DEF Running, Bucket
  <2>3. /\ Stored("MARKET_DATA_PIPELINE", n, b)' /\ ~InLedger("SHADOW_STORAGE_DEGRADED", n, b)'
    <3>1. Row("SHADOW_STORAGE_DEGRADED", Bucket) \notin rows
      BY <1>6, <1>9 DEF EarlierRows, Strategies
    <3> QED BY <1>4, <1>5, <2>1, <3>1
  <2>4. /\ pc' # "assessed" => InLedger("DIRECTIONAL_EDGE", n, b)'
        /\ pc' = "fault" => InLedger("STRUCTURAL_ARBITRAGE", n, b)'
    BY <1>4, <1>5, <1>9 DEF EarlierRows
  <2>5. \A i \in 1..Len(Order) : i # position => Order[i] # b
    BY <1>1, <1>3, OrderFacts DEF Bucket
  <2>6. /\ \A i \in 1..(position - 1) : Accounted(n, Order[i])'
        /\ \A i \in (position + 1)..Len(Order) : Untouched(n, Order[i])'
    BY <1>1, <1>3, <1>4, <2>5 DEF CycleProgress
  <2>7. /\ process > 0 /\ process \in evidence_windows /\ cycle > 0
        /\ \A e \in shadow_events : e.type = "REAL_SHADOW_CYCLE" => e.cycle # n
    BY <1>1, <1>2, <1>3 DEF CycleProgress, Running, PerBucket
  <2>8. CycleProgress'
    BY <1>1, <1>3, <1>9, <2>1, <2>2, <2>3, <2>4, <2>6, <2>7
    DEF CycleProgress, InBuckets, PerBucket, Evaluating, Running
  <2> QED BY <1>2, <1>3, <1>4, <1>7, <2>2, <2>8, RecordedIsSound
<1> QED BY <1>2, <1>8, <1>9

(* The event that reports a cycle comes when every bucket is accounted for. *)
LEMMA AppendCycleKeepsIInv ==
  ASSUME IInv, AppendCycle
  PROVE  IInv'
<1> USE DEF IInv
<1>1. /\ pc = "cycle_event" /\ pc \in Running \ {"idle"} /\ "json" \in Running
      /\ AppendEvent(Event("REAL_SHADOW_CYCLE", NoBucket), "json", "json")
      /\ UNCHANGED <<process, locked, evidence_windows, ledger, cycle_state, files>>
  BY DEF AppendCycle, Running
<1>2. /\ TypeOK' /\ EvidenceReferential' /\ pc' \in {"cycle_event", "json"}
      /\ shadow_events' \in {shadow_events,
                             shadow_events \cup {Event("REAL_SHADOW_CYCLE", NoBucket)}}
  <2>1. UNCHANGED <<cycle, collected, position>> /\ position' \in 1..Len(Order)
    BY <1>1 DEF cycle_state, TypeOK
  <2> QED BY <1>1, <2>1, AppendEventIsSound DEF EventTypes
<1>3. UNCHANGED <<process, evidence_windows, ledger, cycle, collected, position>>
  BY <1>1 DEF cycle_state
<1>4. \A c, x : Stored("MARKET_DATA_PIPELINE", c, x)' <=> Stored("MARKET_DATA_PIPELINE", c, x)
  BY <1>2, <1>3, EventEffect
<1>5. \A c, x : Accounted(c, x)' <=> Accounted(c, x)
  BY <1>3, <1>4 DEF Accounted, InLedger
<1>6. \A x \in Buckets : Accounted(cycle, x)
  BY <1>1 DEF CycleProgress
<1>7. \A e \in shadow_events' : e \in shadow_events \/ e.cycle = cycle
  BY <1>2 DEF Event
<1>8. DecisionsHaveMarketData'
  BY <1>3, <1>4 DEF DecisionsHaveMarketData
<1>9. CycleAccounted'
  BY <1>5, <1>6, <1>7 DEF CycleAccounted
<1>10. CycleProgress'
  <2>1. PICK n : n = cycle
    OBVIOUS
  <2>2. \A x \in Buckets : Accounted(n, x)'
    BY <1>5, <1>6, <2>1
  <2>3. \A x \in Buckets : Accounted(cycle, x)'
    BY <1>3, <2>1, <2>2
  <2> QED
    BY <1>1, <1>2, <1>3, <2>3
    DEF CycleProgress, InBuckets, PerBucket, Evaluating, Running
<1> QED BY <1>2, <1>8, <1>9, <1>10

(* Every step of the daemon, of its supervisor and of other writers preserves the
   invariant. *)
THEOREM NextIInv == IInv /\ [Next]_vars => IInv'
<1> SUFFICES ASSUME IInv, [Next]_vars PROVE IInv'
  OBVIOUS
<1>1. CASE StartProcess \/ StartupWrite \/ VerifyWindow \/ Crash \/ OtherWriter
  BY <1>1, StartupKeepsIInv
<1>2. CASE BeginCycle
  BY <1>2, BeginCycleKeepsIInv
<1>3. CASE AppendSettlementScan \/ AppendEvaluation \/ AppendStructural
  BY <1>3, MinorEventKeepsIInv
<1>4. CASE RecordPipelineState
  BY <1>4, RecordPipelineStateKeepsIInv
<1>5. CASE \/ AbstainDegraded \/ AbstainUnavailable \/ AbstainClosed
           \/ ExecuteDirectional \/ AbstainDirectional
           \/ StructuralUnavailable \/ StructuralFault \/ ExecuteStructural
  BY <1>5, DecisionKeepsIInv
<1>6. CASE AppendCycle
  BY <1>6, AppendCycleKeepsIInv
<1>7. CASE WriteJson \/ WriteMarkdown
  BY <1>7, ReportsKeepIInv
<1>8. CASE UNCHANGED vars
  BY <1>8, SMTT(20)
  DEF vars, IInv, TypeOK, EvidenceReferential, DecisionsHaveMarketData, CycleAccounted,
      CycleProgress, InBuckets, Accounted, Untouched, Stored, InLedger, Bucket
<1>9. CASE AppendFault
  BY <1>9, AppendFaultKeepsIInv
<1> QED BY <1>1, <1>2, <1>3, <1>4, <1>5, <1>6, <1>7, <1>8, <1>9 DEF Next, Work

(* The invariant holds throughout. *)
THEOREM Invariance == Spec => []IInv
BY InitIInv, NextIInv, PTL DEF Spec

(* Every variable holds what the program could hold, in any number of processes and
   cycles. *)
THEOREM TypeCorrect == Spec => []TypeOK
BY Invariance, PTL DEF IInv

(* The window of every event and report is stored, whoever competes for the lock. *)
THEOREM EvidenceIsReferential == Spec => []EvidenceReferential
BY Invariance, PTL DEF IInv

(* No decision is in the ledger without the record of its market data. *)
THEOREM DecisionsAreBacked == Spec => []DecisionsHaveMarketData
BY Invariance, PTL DEF IInv

(* A cycle that is reported as done has accounted for every bucket. *)
THEOREM ReportedCyclesAreComplete == Spec => []CycleAccounted
BY Invariance, PTL DEF IInv

(* Records of the current cycle change nothing in the cycles that were reported. *)
LEMMA OwnCycleOnly ==
  ASSUME NotYetReported, InBuckets \/ pc = "cycle_event",
         NEW events, NEW rows, \A r \in events \cup rows : r.cycle = cycle,
         shadow_events' = shadow_events \cup events, ledger' = ledger \cup rows
  PROVE  ReportStands
BY DEF NotYetReported, ReportStands, OfCycle

(* Every step leaves the reported cycles as they are, and none is reported early. *)
LEMMA StepKeepsReports ==
  ASSUME IInv, NotYetReported, [Next]_vars
  PROVE  NotYetReported' /\ ReportStands
<1> DEFINE Unreported == {"settlement", "cycle_event"} \cup PerBucket
<1>0. InBuckets \/ pc = "cycle_event" <=> pc \in Unreported
  BY DEF InBuckets
<1>1. ASSUME UNCHANGED <<shadow_events, ledger>> PROVE ReportStands
  BY <1>1 DEF ReportStands, OfCycle
<1>2. ASSUME UNCHANGED <<shadow_events, ledger, cycle>>,
             pc' \in Unreported => pc \in Unreported
      PROVE  NotYetReported' /\ ReportStands
  BY <1>0, <1>1, <1>2 DEF NotYetReported, InBuckets
<1>3. ASSUME NEW type \in EventTypes \ {"REAL_SHADOW_CYCLE"}, NEW b, NEW stored, NEW dropped,
             pc \in Unreported, AppendEvent(Event(type, b), stored, dropped),
             UNCHANGED <<ledger, cycle>>
      PROVE  NotYetReported' /\ ReportStands
  <2>1. PICK events \in {{}, {Event(type, b)}} : shadow_events' = shadow_events \cup events
    BY <1>3 DEF AppendEvent
  <2>2. \A e \in events : e.cycle = cycle /\ e.type # "REAL_SHADOW_CYCLE"
    BY <1>3, <2>1 DEF Event
  <2>3. ledger' = ledger \cup {} /\ cycle' = cycle
    BY <1>3
  <2>4. ReportStands
    BY <1>0, <1>3, <2>1, <2>2, <2>3, OwnCycleOnly
  <2> QED BY <1>0, <1>3, <2>1, <2>2, <2>3, <2>4 DEF NotYetReported
<1>4. ASSUME NEW rows \in SUBSET {Row(s, Bucket) : s \in Strategies}, Recorded(rows),
             pc \in Unreported
      PROVE  NotYetReported' /\ ReportStands
  <2>1. \A r \in rows : r.cycle = cycle
    BY DEF Row
  <2>2. shadow_events' = shadow_events \cup {} /\ ledger' = ledger \cup rows /\ cycle' = cycle
    BY <1>4 DEF Recorded
  <2>3. ReportStands
    BY <1>0, <1>4, <2>1, <2>2, OwnCycleOnly
  <2> QED BY <1>0, <1>4, <2>2, <2>3 DEF NotYetReported
<1>5. CASE StartProcess \/ StartupWrite \/ VerifyWindow \/ Crash \/ OtherWriter
  <2>1. UNCHANGED <<shadow_events, ledger, cycle>>
    BY <1>5
    DEF StartProcess, StartupWrite, VerifyWindow, Crash, OtherWriter, cycle_state, To
  <2>2. pc' \in {pc, "schema", "window", "verify", "idle", "down"}
    BY <1>5
    DEF StartProcess, StartupWrite, VerifyWindow, Crash, OtherWriter, To, Retried,
        StartupGivenUp
  <2> QED BY <1>2, <2>1, <2>2 DEF PerBucket
<1>6. CASE BeginCycle
  <2>1. UNCHANGED <<shadow_events, ledger>> /\ cycle' = cycle + 1 /\ cycle \in Nat
    BY <1>6 DEF BeginCycle, IInv, TypeOK
  <2>2. \A e \in shadow_events : e.cycle \in 1..cycle
    BY DEF IInv, TypeOK
  <2> QED BY <1>1, <2>1, <2>2 DEF NotYetReported
<1>7. CASE \/ AppendSettlementScan \/ RecordPipelineState
           \/ AppendEvaluation \/ AppendStructural \/ AppendFault
  <2>1. UNCHANGED <<ledger, cycle>> /\ pc \in Unreported
    BY <1>7
    DEF AppendSettlementScan, RecordPipelineState, AppendEvaluation, AppendStructural,
        AppendFault, cycle_state, PerBucket
  <2>2. \E type \in EventTypes \ {"REAL_SHADOW_CYCLE"} : \E b, stored, dropped :
          AppendEvent(Event(type, b), stored, dropped)
    BY <1>7
    DEF AppendSettlementScan, RecordPipelineState, AppendEvaluation, AppendStructural,
        AppendFault, EventTypes
  <2> QED BY <1>3, <2>1, <2>2
<1>8. CASE \/ AbstainDegraded \/ AbstainUnavailable \/ AbstainClosed
           \/ ExecuteDirectional \/ AbstainDirectional
           \/ StructuralUnavailable \/ StructuralFault \/ ExecuteStructural
  <2>1. \E rows \in SUBSET {Row(s, Bucket) : s \in Strategies} :
          Recorded(rows) /\ pc \in PerBucket
    BY <1>8, DecisionRows
  <2> QED BY <1>4, <2>1
<1>9. CASE AppendCycle
  <2>1. /\ pc = "cycle_event" /\ UNCHANGED <<ledger, cycle>>
        /\ AppendEvent(Event("REAL_SHADOW_CYCLE", NoBucket), "json", "json")
    BY <1>9 DEF AppendCycle, cycle_state
  <2>2. PICK events \in {{}, {Event("REAL_SHADOW_CYCLE", NoBucket)}} :
          shadow_events' = shadow_events \cup events
    BY <2>1 DEF AppendEvent
  <2>3. \A e \in events : e.cycle = cycle
    BY <2>2 DEF Event
  <2>4. ReportStands
    <3>1. ledger' = ledger \cup {}
      BY <2>1
    <3> QED BY <2>1, <2>2, <2>3, <3>1, OwnCycleOnly
  <2>5. pc' = "json" \/ (pc' = pc /\ UNCHANGED shadow_events)
    BY <2>1 DEF AppendEvent, To, Retried
  <2> QED BY <2>1, <2>4, <2>5 DEF NotYetReported, InBuckets, PerBucket
<1>10. CASE WriteJson \/ WriteMarkdown
  <2>1. UNCHANGED <<shadow_events, ledger, cycle>> /\ pc' \in {"markdown", "idle"}
    BY <1>10 DEF WriteJson, WriteMarkdown, cycle_state, To
  <2> QED BY <1>2, <2>1 DEF PerBucket
<1>11. CASE UNCHANGED vars
  BY <1>2, <1>11 DEF vars
<1> QED BY <1>5, <1>6, <1>7, <1>8, <1>9, <1>10, <1>11 DEF Next, Work

(* ReportsStand: what a cycle event reports stays true of its cycle, whatever is retried,
   dropped or restarted afterwards (run_once, _evaluate_cycle). *)
THEOREM ReportsAreForGood == Spec => ReportsStand
<1>1. Init => NotYetReported
  BY DEF Init, NotYetReported
<1>2. IInv /\ NotYetReported /\ [Next]_vars => NotYetReported' /\ [ReportStands]_vars
  BY StepKeepsReports
<1> QED BY <1>1, <1>2, Invariance, PTL DEF Spec, ReportsStand

-----------------------------------------------------------------------------
(* The inductive invariant: the settlements and the overlays are compared with a venue
   whose markets only go forward. *)
SettledInv == Identity!TypeOK /\ Identity!SettledByOwnMarket /\ Identity!RecoveredIdentityIsOwn

Attempted == {"PENDING", "BLOCKED_RETRYABLE", "BLOCKED_PERMANENT", "SETTLED"}

(* Recording an attempt ends the condition's turn in the pass. *)
LEMMA RecordAttemptKeepsType ==
  ASSUME Identity!TypeOK, NEW state \in Attempted, Identity!RecordAttempt(state)
  PROVE  /\ condition_attempt' \in [Conditions -> Attempted \cup {Identity!Missing}]
         /\ pass' \in {"idle", "identity"}
BY DEF Identity!TypeOK, Attempted, Identity!RecordAttempt, Identity!SaveAttempt,
       Identity!NextCondition

(* Blocking a condition settles nothing, whatever the reason. *)
LEMMA BlockSettlesNothing ==
  ASSUME Identity!TypeOK, NEW reason, Identity!Block(reason)
  PROVE  /\ condition_attempt' \in [Conditions -> Attempted \cup {Identity!Missing}]
         /\ pass' \in {"idle", "identity"}
         /\ settled' = settled
<1>1. Identity!AttemptState(reason) \in Attempted
  BY DEF Identity!AttemptState, Attempted
<1> QED BY <1>1, RecordAttemptKeepsType DEF Identity!Block

(* With its identity known a condition waits, or Gamma is asked next. *)
LEMMA ResolveSettlesNothing ==
  ASSUME Identity!TypeOK, NEW c, Identity!Resolve(c)
  PROVE  /\ condition_attempt' \in [Conditions -> Attempted \cup {Identity!Missing}]
         /\ pass' \in {"idle", "identity", "gamma"}
         /\ settled' = settled
<1>1. CASE phase[c] = "running"
  <2>1. Identity!Block("WINDOW_NOT_ENDED")
    BY <1>1 DEF Identity!Resolve
  <2> QED BY <2>1, BlockSettlesNothing
<1>2. CASE phase[c] # "running"
  BY <1>2 DEF Identity!Resolve, Identity!TypeOK, Attempted
<1> QED BY <1>1, <1>2

(* What is stored once in an overlay is the condition itself or a blocker. *)
LEMMA OverlayIsOwn ==
  ASSUME Identity!TypeOK, Identity!RecoveredIdentityIsOwn, NEW d, NEW value \in {d, "BLOCKED"},
         Identity!SaveIdentityOverlayOnce(d, value)
  PROVE  /\ overlay' \in [Conditions -> Conditions \cup {Identity!Missing, "BLOCKED"}]
         /\ Identity!RecoveredIdentityIsOwn'
<1>1. /\ overlay' = [overlay EXCEPT ![d] = value]
      /\ overlay \in [Conditions -> Conditions \cup {Identity!Missing, "BLOCKED"}]
  BY DEF Identity!TypeOK, Identity!SaveIdentityOverlayOnce
<1>2. ASSUME NEW c \in Conditions PROVE overlay'[c] \in {Identity!Missing, "BLOCKED", c}
  BY <1>1, <1>2 DEF Identity!RecoveredIdentityIsOwn
<1>3. overlay' \in [Conditions -> Conditions \cup {Identity!Missing, "BLOCKED"}]
  BY <1>1, <1>2
<1> QED BY <1>2, <1>3 DEF Identity!RecoveredIdentityIsOwn

(* An answer of CLOB that yields a winner is about the condition that was asked for,
   whose market is final, and names its winner. *)
LEMMA AcceptedWinnerIsOwn ==
  ASSUME Identity!TypeOK, NEW c \in Conditions, NEW clob \in Identity!ClobRecords(c), NEW g,
         Identity!BlockReason(g, clob, c) = Identity!Missing
  PROVE  /\ phase[c] = "final"
         /\ Identity!OfficialWinner(clob) = winner[c]
         /\ winner[c] \in Identity!Sides
<1>1. clob.condition = c /\ clob.closed /\ Identity!OfficialWinner(clob) # Identity!Missing
  BY DEF Identity!BlockReason, Identity!Missing
<1>2. \E s \in Identity!Sides : clob.winners = {s}
  BY <1>1 DEF Identity!OfficialWinner
<1>3. clob.winners # Identity!Sides /\ clob.winners # {}
  BY <1>2 DEF Identity!Sides
<1>4. clob.winners = {s \in Identity!Sides : phase[c] = "final" /\ s = winner[c]}
  <2>1. PICK d : clob = Identity!ClobRecord(d, TRUE, {s \in Identity!Sides :
                                                         phase[d] = "final" /\ s = winner[d]})
    BY <1>1, <1>3 DEF Identity!ClobRecords, Identity!ClobRecord
  <2> QED BY <2>1, <1>1 DEF Identity!ClobRecord
<1>5. phase[c] = "final" /\ clob.winners = {winner[c]} /\ winner[c] \in Identity!Sides
  BY <1>3, <1>4 DEF Identity!TypeOK
<1> QED BY <1>5 DEF Identity!OfficialWinner

(* A winner is only ever missing from the answers that settle nothing. *)
LEMMA SettleTradeKeepsSettled ==
  ASSUME Identity!TypeOK, Identity!SettledByOwnMarket, UNCHANGED Identity!venue,
         NEW clob \in Identity!ClobRecords(Identity!Current),
         Identity!BlockReason(gamma, clob, Identity!Current) = Identity!Missing,
         Identity!SettleTrade(clob)
  PROVE  /\ settled' \in [Conditions -> Identity!Sides \cup {Identity!Missing}]
         /\ Identity!SettledByOwnMarket'
<1>1. settled' = [settled EXCEPT ![Identity!Current] = Identity!OfficialWinner(clob)]
  BY DEF Identity!SettleTrade
<1>2. PICK d : d = Identity!Current
  OBVIOUS
<1>3. CASE d \in Conditions
  <2>1. /\ phase[d] = "final"
        /\ Identity!OfficialWinner(clob) = winner[d]
        /\ winner[d] \in Identity!Sides
    BY <1>2, <1>3, AcceptedWinnerIsOwn
  <2>2. settled' = [settled EXCEPT ![d] = winner[d]]
    BY <1>1, <1>2, <2>1
  <2> QED BY <1>3, <2>1, <2>2 DEF Identity!TypeOK, Identity!SettledByOwnMarket, Identity!venue
<1>4. CASE d \notin Conditions
  <2>1. settled' = settled
    BY <1>1, <1>2, <1>4 DEF Identity!TypeOK
  <2> QED BY <2>1 DEF Identity!TypeOK, Identity!SettledByOwnMarket, Identity!venue
<1> QED BY <1>3, <1>4

(* The initial states satisfy the inductive invariant. *)
THEOREM InitSettled == Identity!Init => SettledInv
BY DEF Identity!Init, SettledInv, Identity!TypeOK, Identity!SettledByOwnMarket,
       Identity!RecoveredIdentityIsOwn

(* A step that settles nothing and leaves the venue alone keeps the invariant. *)
LEMMA QuietSettlement ==
  ASSUME SettledInv, UNCHANGED Identity!venue, settled' = settled,
         overlay' \in [Conditions -> Conditions \cup {Identity!Missing, "BLOCKED"}],
         Identity!RecoveredIdentityIsOwn',
         condition_attempt' \in [Conditions -> Attempted \cup {Identity!Missing}],
         pass' \in {"idle", "identity", "metadata", "gamma", "clob", "record"}
  PROVE  SettledInv'
<1>1. Identity!TypeOK'
  BY DEF SettledInv, Identity!TypeOK, Identity!venue, Attempted
<1>2. Identity!SettledByOwnMarket'
  BY DEF SettledInv, Identity!SettledByOwnMarket, Identity!venue
<1> QED BY <1>1, <1>2 DEF SettledInv

(* An unchanged overlay is still the conditions' own. *)
LEMMA OverlayKept ==
  ASSUME SettledInv, overlay' = overlay
  PROVE  /\ overlay' \in [Conditions -> Conditions \cup {Identity!Missing, "BLOCKED"}]
         /\ Identity!RecoveredIdentityIsOwn'
BY DEF SettledInv, Identity!TypeOK, Identity!RecoveredIdentityIsOwn

(* Every step of the pass, every abandoned pass and every step of time keeps the
   inductive invariant. *)
THEOREM NextSettled == ASSUME SettledInv, [Identity!Next]_(Identity!vars) PROVE SettledInv'
<1> USE DEF SettledInv
<1>a. condition_attempt \in [Conditions -> Attempted \cup {Identity!Missing}]
  BY DEF Identity!TypeOK, Attempted
<1>1. CASE Identity!StartPass
  BY <1>1, <1>a, QuietSettlement, OverlayKept DEF Identity!StartPass, Identity!tables
<1>2. CASE Identity!EffectiveIdentity
  <2>1. UNCHANGED Identity!venue
    BY <1>2 DEF Identity!EffectiveIdentity
  <2>2. CASE overlay[Identity!Current] = "BLOCKED"
    <3>1. Identity!Block("OVERLAY_BLOCKER") /\ UNCHANGED overlay
      BY <1>2, <2>2 DEF Identity!EffectiveIdentity, Identity!Missing
    <3> QED BY <2>1, <3>1, BlockSettlesNothing, OverlayKept, QuietSettlement
  <2>3. CASE /\ overlay[Identity!Current] # "BLOCKED"
             /\ overlay[Identity!Current] # Identity!Missing \/ Identity!Current \notin Legacy
    <3>1. Identity!Resolve(Identity!Current) /\ UNCHANGED overlay
      BY <1>2, <2>3 DEF Identity!EffectiveIdentity
    <3> QED BY <2>1, <3>1, ResolveSettlesNothing, OverlayKept, QuietSettlement
  <2>4. CASE /\ overlay[Identity!Current] = Identity!Missing /\ Identity!Current \in Legacy
             /\ Identity!Current \in InCorpus
    <3>1. Identity!RecoverFromCorpus(Identity!Current)
      BY <1>2, <2>4 DEF Identity!EffectiveIdentity, Identity!Missing
    <3>2. /\ Identity!SaveIdentityOverlayOnce(Identity!Current, Identity!Current)
          /\ Identity!Resolve(Identity!Current)
      BY <3>1 DEF Identity!RecoverFromCorpus
    <3> QED BY <2>1, <3>2, ResolveSettlesNothing, OverlayIsOwn, QuietSettlement
  <2>5. CASE /\ overlay[Identity!Current] = Identity!Missing /\ Identity!Current \in Legacy
             /\ Identity!Current \notin InCorpus
    <3>1. /\ pass' = "metadata"
          /\ UNCHANGED <<overlay, condition_attempt, waiting, settled, queue, gamma>>
      BY <1>2, <2>5 DEF Identity!EffectiveIdentity, Identity!Missing
    <3> QED BY <2>1, <3>1, <1>a, OverlayKept, QuietSettlement
  <2> QED BY <2>2, <2>3, <2>4, <2>5
<1>3. CASE Identity!ReceiveMetadata
  <2>1. UNCHANGED Identity!venue
    BY <1>3 DEF Identity!ReceiveMetadata
  <2>2. PICK answer \in Identity!MetadataAnswers(Identity!Current) :
          \/ Identity!RecoverIdentity(answer)
          \/ Identity!IdentityIncomplete(answer)
          \/ Identity!MetadataRaises(answer)
    BY <1>3 DEF Identity!ReceiveMetadata
  <2>3. CASE Identity!RecoverIdentity(answer)
    <3>1. /\ Identity!SaveIdentityOverlayOnce(Identity!Current, Identity!Current)
          /\ Identity!Resolve(Identity!Current)
      BY <2>3 DEF Identity!RecoverIdentity
    <3> QED BY <2>1, <3>1, ResolveSettlesNothing, OverlayIsOwn, QuietSettlement
  <2>4. CASE Identity!IdentityIncomplete(answer)
    <3>1. Identity!Block("IDENTITY_INCOMPLETE")
      BY <2>4 DEF Identity!IdentityIncomplete
    <3>2. Identity!SaveIdentityOverlayOnce(Identity!Current, "BLOCKED") \/ overlay' = overlay
      BY <2>4 DEF Identity!IdentityIncomplete
    <3> QED BY <2>1, <3>1, <3>2, BlockSettlesNothing, OverlayIsOwn, OverlayKept, QuietSettlement
  <2>5. CASE Identity!MetadataRaises(answer)
    BY <2>1, <2>5, <1>a, OverlayKept, QuietSettlement DEF Identity!MetadataRaises, Identity!tables
  <2> QED BY <2>2, <2>3, <2>4, <2>5
<1>4. CASE Identity!ReceiveGamma
  <2>1. UNCHANGED Identity!venue /\ overlay' = overlay
    BY <1>4 DEF Identity!ReceiveGamma
  <2>2. CASE Identity!Block("GAMMA_MARKET_ID_NOT_FOUND")
    BY <2>1, <2>2, BlockSettlesNothing, OverlayKept, QuietSettlement
  <2>3. CASE pass' = "clob" /\ UNCHANGED <<condition_attempt, waiting, settled, queue>>
    BY <2>1, <2>3, <1>a, OverlayKept, QuietSettlement
  <2> QED BY <1>4, <2>2, <2>3 DEF Identity!ReceiveGamma
<1>5. CASE Identity!ReceiveClob
  <2>1. UNCHANGED Identity!venue /\ overlay' = overlay
    BY <1>5 DEF Identity!ReceiveClob
  <2>2. ASSUME NEW reason, Identity!Block(reason) PROVE SettledInv'
    BY <2>1, <2>2, BlockSettlesNothing, OverlayKept, QuietSettlement
  <2>3. ASSUME NEW clob \in Identity!ClobRecords(Identity!Current), Identity!SettleTrade(clob),
               Identity!BlockReason(gamma, clob, Identity!Current) = Identity!Missing
        PROVE  SettledInv'
    <3>1. /\ settled' \in [Conditions -> Identity!Sides \cup {Identity!Missing}]
          /\ Identity!SettledByOwnMarket'
      BY <2>1, <2>3, SettleTradeKeepsSettled
    <3>2. pass' = "record" /\ condition_attempt' = condition_attempt
      BY <2>3 DEF Identity!SettleTrade
    <3>3. Identity!TypeOK'
      BY <2>1, <3>1, <3>2 DEF Identity!TypeOK, Identity!venue
    <3> QED BY <2>1, <3>1, <3>3, OverlayKept
  <2> QED BY <1>5, <2>2, <2>3 DEF Identity!ReceiveClob
<1>6. CASE Identity!RecordSettled
  <2>1. /\ Identity!RecordAttempt("SETTLED") /\ UNCHANGED <<Identity!venue, overlay, settled>>
        /\ "SETTLED" \in Attempted
    BY <1>6 DEF Identity!RecordSettled, Attempted
  <2> QED BY <2>1, RecordAttemptKeepsType, OverlayKept, QuietSettlement
<1>7. CASE Identity!Abandon
  BY <1>7, <1>a, QuietSettlement, OverlayKept DEF Identity!Abandon, Identity!tables
<1>8. ASSUME NEW c \in Conditions, Identity!ComeDue(c) PROVE SettledInv'
  <2>1. UNCHANGED <<Identity!venue, overlay, condition_attempt, settled, pass>>
    BY <1>8 DEF Identity!ComeDue
  <2> QED BY <2>1, <1>a, QuietSettlement, OverlayKept DEF Identity!TypeOK
<1>9. ASSUME NEW c \in Conditions, Identity!Progress(c) PROVE SettledInv'
  <2>1. /\ phase[c] # "final" /\ phase' = [phase EXCEPT ![c] = Identity!Following[phase[c]]]
        /\ UNCHANGED <<winner, Identity!tables, pass, queue, gamma>>
    BY <1>9 DEF Identity!Progress
  <2>2. phase[c] \in {"running", "ended", "closed"}
    BY <2>1 DEF Identity!TypeOK
  <2>3. Identity!Following[phase[c]] \in {"ended", "closed", "final"}
    BY <2>2 DEF Identity!Following
  <2>4. phase' \in [Conditions -> {"running", "ended", "closed", "final"}]
    BY <2>1, <2>3 DEF Identity!TypeOK
  <2>5. Identity!TypeOK' /\ Identity!RecoveredIdentityIsOwn'
    BY <2>1, <2>4 DEF Identity!TypeOK, Identity!RecoveredIdentityIsOwn, Identity!tables
  <2>6. ASSUME NEW d \in Conditions, settled[d] # Identity!Missing PROVE phase'[d] = "final"
    BY <2>1, <2>6 DEF Identity!SettledByOwnMarket, Identity!TypeOK
  <2>7. Identity!SettledByOwnMarket'
    BY <2>1, <2>6 DEF Identity!SettledByOwnMarket, Identity!tables
  <2> QED BY <2>5, <2>7
<1>10. CASE UNCHANGED Identity!vars
  BY <1>10, <1>a, QuietSettlement, OverlayKept DEF Identity!vars, Identity!tables, Identity!TypeOK
<1>11. CASE Identity!DieAfterOverlay
  <2>1. /\ UNCHANGED <<Identity!venue, condition_attempt, settled>> /\ pass' = "idle"
        /\ \/ Identity!SaveIdentityOverlayOnce(Identity!Current, Identity!Current)
           \/ Identity!SaveIdentityOverlayOnce(Identity!Current, "BLOCKED")
    BY <1>11 DEF Identity!DieAfterOverlay
  <2> QED BY <2>1, <1>a, OverlayIsOwn, QuietSettlement
<1> QED BY <1>1, <1>2, <1>3, <1>4, <1>5, <1>6, <1>7, <1>8, <1>9, <1>10, <1>11
    DEF Identity!Next, Identity!Pass

(* The inductive invariant holds in every behaviour. *)
THEOREM IdentityInvariance == Identity!Spec => []SettledInv
<1>1. SettledInv /\ [Identity!Next]_(Identity!vars) => SettledInv'
  BY NextSettled
<1> QED BY <1>1, InitSettled, PTL DEF Identity!Spec

(* TypeOK: the venue and the tables stay well formed. *)
THEOREM IdentityTypeCorrect == Identity!Spec => []Identity!TypeOK
BY IdentityInvariance, PTL DEF SettledInv

(* The daemon keeps either record by its own rules, whatever it does with the other. *)
LEMMA RecordsAreIndependent == RecordsSpec => Spec /\ Identity!Spec
<1>1. RecordsInit => Init /\ Identity!Init
  BY DEF RecordsInit
<1>2. [RecordsNext]_<<vars, identity_vars>> => [Next]_vars /\ [Identity!Next]_(Identity!vars)
  <2>1. UNCHANGED identity_vars => UNCHANGED Identity!vars
    BY DEF identity_vars, Identity!vars, Identity!tables, Identity!venue
  <2> QED BY <2>1 DEF RecordsNext
<1> QED BY <1>1, <1>2, PTL DEF RecordsSpec, Spec, Identity!Spec

(* SettledByOwnMarket: a trade is settled only once its own market is final and with that
   market's winner, whatever the two venues serve (parse_polymarket_official_settlement). *)
THEOREM SettlementsAreOfficial == RecordsSpec => []SettledByOwnMarket
<1>1. SettledInv => SettledByOwnMarket
  BY DEF SettledInv, SettledByOwnMarket
<1> QED BY <1>1, RecordsAreIndependent, IdentityInvariance, PTL

(* RecoveredIdentityIsOwn: an overlay never gives a condition another market's identity
   (_recover_identity_from_official_metadata, save_identity_overlay_once). *)
THEOREM OverlaysAreOwn == Identity!Spec => []Identity!RecoveredIdentityIsOwn
BY IdentityInvariance, PTL DEF SettledInv

(* A pass leaves the winners of the venue alone, settles by an accepted answer or not at
   all, and stores overlays by save_identity_overlay_once only. *)
LEMMA HowResultsChange ==
  ASSUME Identity!TypeOK, [Identity!Next]_(Identity!vars)
  PROVE  /\ winner' = winner
         /\ \/ settled' = settled
            \/ \E clob \in Identity!ClobRecords(Identity!Current) :
                 /\ Identity!BlockReason(gamma, clob, Identity!Current) = Identity!Missing
                 /\ Identity!SettleTrade(clob)
         /\ \/ overlay' = overlay
            \/ \E value : Identity!SaveIdentityOverlayOnce(Identity!Current, value)
<1>1. CASE Identity!StartPass \/ Identity!Abandon
  BY <1>1 DEF Identity!StartPass, Identity!Abandon, Identity!venue, Identity!tables
<1>2. CASE Identity!EffectiveIdentity
  <2>1. winner' = winner
    BY <1>2 DEF Identity!EffectiveIdentity, Identity!venue
  <2>2. ASSUME NEW c, Identity!Resolve(c) PROVE settled' = settled
    BY <2>2, ResolveSettlesNothing
  <2>3. settled' = settled
    BY <1>2, <2>2, BlockSettlesNothing DEF Identity!EffectiveIdentity, Identity!RecoverFromCorpus
  <2>4. \/ overlay' = overlay
        \/ \E value : Identity!SaveIdentityOverlayOnce(Identity!Current, value)
    BY <1>2 DEF Identity!EffectiveIdentity, Identity!RecoverFromCorpus
  <2> QED BY <2>1, <2>3, <2>4
<1>3. CASE Identity!ReceiveMetadata
  <2>1. winner' = winner
    BY <1>3 DEF Identity!ReceiveMetadata, Identity!venue
  <2>2. PICK answer :
          \/ Identity!RecoverIdentity(answer)
          \/ Identity!IdentityIncomplete(answer)
          \/ Identity!MetadataRaises(answer)
    BY <1>3 DEF Identity!ReceiveMetadata
  <2>3. settled' = settled
    BY <2>2, ResolveSettlesNothing, BlockSettlesNothing
    DEF Identity!RecoverIdentity, Identity!IdentityIncomplete, Identity!MetadataRaises,
        Identity!tables
  <2>4. \/ overlay' = overlay
        \/ \E value : Identity!SaveIdentityOverlayOnce(Identity!Current, value)
    BY <2>2
    DEF Identity!RecoverIdentity, Identity!IdentityIncomplete, Identity!MetadataRaises,
        Identity!tables
  <2> QED BY <2>1, <2>3, <2>4
<1>4. CASE Identity!ReceiveGamma
  BY <1>4, BlockSettlesNothing DEF Identity!ReceiveGamma, Identity!venue
<1>5. CASE Identity!ReceiveClob
  <2>1. winner' = winner /\ overlay' = overlay
    BY <1>5 DEF Identity!ReceiveClob, Identity!venue
  <2> QED BY <1>5, <2>1, BlockSettlesNothing DEF Identity!ReceiveClob
<1>6. CASE Identity!RecordSettled
  BY <1>6 DEF Identity!RecordSettled, Identity!venue
<1>7. CASE Identity!DieAfterOverlay
  BY <1>7 DEF Identity!DieAfterOverlay, Identity!venue
<1>8. CASE \E c \in Conditions : Identity!ComeDue(c) \/ Identity!Progress(c)
  BY <1>8 DEF Identity!ComeDue, Identity!Progress, Identity!venue, Identity!tables
<1>9. CASE UNCHANGED Identity!vars
  BY <1>9 DEF Identity!vars, Identity!venue, Identity!tables
<1> QED BY <1>1, <1>2, <1>3, <1>4, <1>5, <1>6, <1>7, <1>8, <1>9
    DEF Identity!Next, Identity!Pass

(* A step never replaces a settlement or an overlay: a second settlement of the same trade
   would be by the same winner. *)
LEMMA StepKeepsResults ==
  ASSUME SettledInv, [Identity!Next]_(Identity!vars)
  PROVE  Identity!ResultStands
<1>1. ASSUME NEW c \in Conditions, settled[c] # Identity!Missing
      PROVE  settled'[c] = settled[c]
  <2>1. CASE settled' = settled
    BY <2>1
  <2>2. CASE \E clob \in Identity!ClobRecords(Identity!Current) :
               /\ Identity!BlockReason(gamma, clob, Identity!Current) = Identity!Missing
               /\ Identity!SettleTrade(clob)
    <3>1. PICK clob \in Identity!ClobRecords(Identity!Current) :
            /\ Identity!BlockReason(gamma, clob, Identity!Current) = Identity!Missing
            /\ Identity!SettleTrade(clob)
      BY <2>2
    <3>2. settled' = [settled EXCEPT ![Identity!Current] = Identity!OfficialWinner(clob)]
      BY <3>1 DEF Identity!SettleTrade
    <3>3. CASE c = Identity!Current
      <4>1. Identity!OfficialWinner(clob) = winner[c]
        BY <3>1, <3>3, AcceptedWinnerIsOwn DEF SettledInv
      <4>2. settled[c] = winner[c]
        BY <1>1 DEF SettledInv, Identity!SettledByOwnMarket
      <4> QED BY <3>2, <3>3, <4>1, <4>2 DEF SettledInv, Identity!TypeOK
    <3>4. CASE c # Identity!Current
      BY <3>2, <3>4 DEF SettledInv, Identity!TypeOK
    <3> QED BY <3>3, <3>4
  <2> QED BY <2>1, <2>2, HowResultsChange DEF SettledInv
<1>2. ASSUME NEW c \in Conditions, overlay[c] # Identity!Missing
      PROVE  overlay'[c] = overlay[c]
  <2>1. CASE overlay' = overlay
    BY <2>1
  <2>2. ASSUME NEW value, Identity!SaveIdentityOverlayOnce(Identity!Current, value)
        PROVE  overlay'[c] = overlay[c]
    BY <1>2, <2>2 DEF Identity!SaveIdentityOverlayOnce, SettledInv, Identity!TypeOK
  <2> QED BY <2>1, <2>2, HowResultsChange DEF SettledInv
<1> QED BY <1>1, <1>2 DEF Identity!ResultStands

(* ResultsStand: a settlement and a recovered identity are for good, whatever later
   passes are answered (save_settlement_once, save_identity_overlay_once). *)
THEOREM ResultsAreForGood == Identity!Spec => Identity!ResultsStand
<1>1. SettledInv /\ [Identity!Next]_(Identity!vars) => [Identity!ResultStands]_(Identity!vars)
  BY StepKeepsResults
<1> QED BY <1>1, IdentityInvariance, PTL DEF Identity!Spec, Identity!ResultsStand
=============================================================================
