-------------------------- MODULE OfficialPricesProofs --------------------------
(***************************************************************************)
(* Proofs about OfficialPrices.  PriceToBeat, for any markets, feeds,      *)
(* delays, tolerances and number of restarts: every stored price is proven *)
(* by its boundary, all callers work with the one that is stored, it never *)
(* changes, and no window the scheduler has taken up is forgotten          *)
(* silently. ChainlinkFeed, for any assets, averages and number of         *)
(* attempts: no history mixes assets or outgrows its limit, and the latest *)
(* average is the newest.                                                  *)
(***************************************************************************)
EXTENDS OfficialPrices, TLAPS

(* The bounded history holds averages that were received, and nothing else. *)
LEMMA RecordedIsHistory ==
  ASSUME NEW S, NEW h \in Seq(S), Len(h) <= HistoryLimit, NEW t \in S
  PROVE  Recorded(h, t) \in Seq(S) /\ Len(Recorded(h, t)) <= HistoryLimit
<1>1. Append(h, t) \in Seq(S) /\ Len(Append(h, t)) = Len(h) + 1
  OBVIOUS
<1>2. Tail(Append(h, t)) \in Seq(S) /\ Len(Tail(Append(h, t))) = Len(h)
  BY <1>1
<1>3. HistoryLimit \in Nat /\ Len(h) \in Nat
  BY HistoryLimitIsPositive DEF HistoryLimitIsPositive
<1> QED BY <1>1, <1>2, <1>3 DEF Recorded, Appended

(* What opening_twap finds is an average of the history. *)
LEMMA OpeningIsRecorded ==
  ASSUME NEW S, NEW h \in Seq(S), NEW boundary, NEW tolerance,
         NEW t \in OpeningTwaps(h, boundary, tolerance)
  PROVE  t \in S
BY DEF OpeningTwaps

(* What may be established is proven. *)
LEMMA EstablishableIsProven ==
  ASSUME NEW m \in Markets, NEW r \in Record, Establishable(m, r)
  PROVE  Proven(m, r)
<1>1. Start[m] \in Nat /\ Tolerance \in Nat /\ r.effective_ts \in Nat /\ r.recv_ts \in Nat
  BY PriceToBeatConstants DEF PriceToBeatConstants, Record
<1> QED BY <1>1 DEF Establishable, Proven, Deadline, Distance

(* A call that gets an answer, while the stored prices only grow, keeps the invariant
   when what it is given as ready is the stored price. *)
LEMMA AnswerKeepsIInv ==
  ASSUME IInv, NEW c \in Callers, NEW m \in Markets,
         UNCHANGED <<now, shadow_events, process, retry_at, lost>>,
         NEW step \in Steps \ {"none"}, NEW r \in Record \cup {None}, Answers(c, m, step, r),
         price_to_beat' \in [Markets -> Record \cup {None}],
         \A x \in Markets : price_to_beat[x] # None => price_to_beat'[x] = price_to_beat[x],
         BoundaryProven',
         step = "ready" => r # None /\ r = price_to_beat'[m]
  PROVE  IInv'
<1> USE DEF IInv
<1>1. /\ \A k \in Callers \X Markets : call'[k] = IF k = <<c, m>> THEN step ELSE call[k]
      /\ \A k \in Callers \X Markets : answer'[k] = IF k = <<c, m>> THEN r ELSE answer[k]
      /\ call' \in [Callers \X Markets -> Steps]
      /\ answer' \in [Callers \X Markets -> Record \cup {None}]
  BY DEF Answers, TypeOK
<1>2. TypeOK'
  BY <1>1 DEF TypeOK, process
<1>3. OnePricePerWindow'
  <2>1. ASSUME NEW d \in Callers, NEW x \in Markets, call'[<<d, x>>] = "ready"
        PROVE  answer'[<<d, x>>] # None /\ answer'[<<d, x>>] = price_to_beat'[x]
    <3>1. CASE <<d, x>> = <<c, m>>
      BY <1>1, <2>1, <3>1
    <3>2. CASE <<d, x>> # <<c, m>>
      BY <1>1, <2>1, <3>2 DEF OnePricePerWindow
    <3> QED BY <3>1, <3>2
  <2>2. ASSUME NEW e \in shadow_events', e.outcome = "PTB_READY"
        PROVE  e.record # None /\ e.record = price_to_beat'[e.market]
    <3>1. e \in shadow_events /\ e.market \in Markets
      BY DEF TypeOK
    <3> QED BY <2>2, <3>1 DEF OnePricePerWindow
  <2> QED BY <2>1, <2>2 DEF OnePricePerWindow
<1>4. NoSilentWindow'
  BY <1>1 DEF NoSilentWindow, process, Callers, TypeOK
<1> QED BY <1>2, <1>3, <1>4

(* Establishing stores a proven record, or keeps the one that is there. *)
LEMMA EstablishKeepsIInv ==
  ASSUME IInv, NEW c \in Callers, NEW m \in Markets, NEW r \in Record, Establish(c, m, r),
         UNCHANGED <<now, shadow_events, process, retry_at, lost>>
  PROVE  IInv'
<1> USE DEF IInv
<1>1. CASE Establishable(m, r)
  <2>1. /\ price_to_beat' = [price_to_beat EXCEPT ![m] = Saved(m, r)]
        /\ Answers(c, m, "ready", Saved(m, r))
    BY <1>1 DEF Establish, Given
  <2>2. Saved(m, r) \in Record /\ Saved(m, r) # None /\ Proven(m, Saved(m, r))
    BY <1>1, EstablishableIsProven, NoneIsNoRecord
    DEF Saved, TypeOK, BoundaryProven, NoneIsNoRecord
  <2>3. /\ price_to_beat' \in [Markets -> Record \cup {None}]
        /\ \A x \in Markets : price_to_beat[x] # None => price_to_beat'[x] = price_to_beat[x]
        /\ price_to_beat'[m] = Saved(m, r)
        /\ \A x \in Markets : x # m => price_to_beat'[x] = price_to_beat[x]
    BY <2>1, <2>2 DEF TypeOK, Saved
  <2>4. BoundaryProven'
    BY <2>2, <2>3 DEF BoundaryProven, Proven, Deadline
  <2> QED BY <2>1, <2>2, <2>3, <2>4, AnswerKeepsIInv DEF Steps
<1>2. CASE ~Establishable(m, r)
  <2>1. Answers(c, m, "unavailable", None) /\ price_to_beat' = price_to_beat
    BY <1>2 DEF Establish
  <2>2. BoundaryProven'
    BY <2>1 DEF BoundaryProven, Proven, Deadline
  <2> QED BY <2>1, <2>2, AnswerKeepsIInv DEF Steps, TypeOK
<1> QED BY <1>1, <1>2
(* The three ways a discovery that was answered goes on, and the others that end it. *)
LEMMA ResolveKeepsIInv ==
  ASSUME IInv, NEW c \in Callers, NEW m \in Markets,
         Resolve(c, m) \/ FinishFetch(c, m) \/ FailDiscovery(c, m)
  PROVE  IInv'
<1> USE DEF IInv
<1>1. UNCHANGED <<now, shadow_events, process, retry_at, lost>>
  BY DEF Resolve, FinishFetch, FailDiscovery
<1>2. ASSUME NEW step \in Steps \ {"none"}, NEW r \in Record \cup {None},
             Answers(c, m, step, r), UNCHANGED price_to_beat,
             step = "ready" => r # None /\ r = price_to_beat[m]
      PROVE  IInv'
  <2>1. BoundaryProven' /\ price_to_beat' \in [Markets -> Record \cup {None}]
    BY <1>2 DEF BoundaryProven, Proven, Deadline, TypeOK
  <2> QED BY <1>1, <1>2, <2>1, AnswerKeepsIInv
<1>3. CASE RestoreStored(c, m)
  <2>1. price_to_beat[m] \in Record \cup {None}
    BY DEF TypeOK
  <2>2. CASE Restorable(m, price_to_beat[m])
    BY <1>2, <1>3, <2>1, <2>2 DEF RestoreStored, Steps
  <2>3. CASE ~Restorable(m, price_to_beat[m])
    BY <1>2, <1>3, <2>3 DEF RestoreStored, Steps
  <2> QED BY <2>2, <2>3
<1>4. CASE EstablishShort(c, m)
  <2>1. CASE OpeningTwaps(history[AssetOf[m]], Start[m], Tolerance) = {}
    <3>1. Answers(c, m, "unavailable", None) /\ UNCHANGED price_to_beat
      BY <1>4, <2>1 DEF EstablishShort
    <3> QED BY <1>2, <3>1 DEF Steps
  <2>2. CASE OpeningTwaps(history[AssetOf[m]], Start[m], Tolerance) # {}
    <3>1. PICK t \in OpeningTwaps(history[AssetOf[m]], Start[m], Tolerance) :
            Establish(c, m, FromTwap(t))
      BY <1>4, <2>2 DEF EstablishShort
    <3>2. history[AssetOf[m]] \in Seq(Twap)
      BY PriceToBeatConstants DEF PriceToBeatConstants, TypeOK
    <3>3. t \in Twap
      BY <3>1, <3>2, OpeningIsRecorded
    <3>4. FromTwap(t) \in Record
      BY <3>3, PriceToBeatConstants DEF FromTwap, Twap, Record, PriceToBeatConstants
    <3> QED BY <1>1, <3>1, <3>4, EstablishKeepsIInv
  <2> QED BY <2>1, <2>2
<1>5. CASE BeginFetch(c, m)
  <2>1. /\ answer[<<c, m>>] \in Record \cup {None}
        /\ answer = [answer EXCEPT ![<<c, m>>] = answer[<<c, m>>]]
    BY DEF TypeOK
  <2>2. Answers(c, m, "fetching", answer[<<c, m>>]) /\ UNCHANGED price_to_beat
    BY <1>5, <2>1 DEF BeginFetch, Answers
  <2> QED BY <1>2, <2>1, <2>2 DEF Steps
<1>6. CASE FinishFetch(c, m)
  <2>1. CASE Answers(c, m, "unavailable", None) /\ UNCHANGED price_to_beat
    BY <1>2, <2>1 DEF Steps
  <2>2. ASSUME NEW open \in Values, Establish(c, m, FromCandle(m, open))
        PROVE  IInv'
    <3>1. FromCandle(m, open) \in Record
      BY PriceToBeatConstants DEF FromCandle, Record, TypeOK, PriceToBeatConstants
    <3> QED BY <1>1, <2>2, <3>1, EstablishKeepsIInv
  <2> QED BY <1>6, <2>1, <2>2 DEF FinishFetch
<1>7. CASE FailDiscovery(c, m)
  <2>1. Answers(c, m, "unavailable", None) /\ UNCHANGED price_to_beat
    BY <1>7 DEF FailDiscovery
  <2> QED BY <1>2, <2>1 DEF Steps
<1> QED BY <1>3, <1>4, <1>5, <1>6, <1>7 DEF Resolve

(* A call that goes on without an answer: it waits, queues or is cancelled. *)
LEMMA WaitingKeepsIInv ==
  ASSUME IInv, NEW k \in Callers \X Markets,
         UNCHANGED <<now, price_to_beat, shadow_events, process, lost>>,
         NEW step \in Steps \ {"ready"}, call' = [call EXCEPT ![k] = step],
         answer' \in {answer, [answer EXCEPT ![k] = None]},
         retry_at' \in [Markets -> Nat],
         step = "none" => k[1] = "cycle"
  PROVE  IInv'
<1> USE DEF IInv
<1>1. \A d \in Callers \X Markets : call'[d] = IF d = k THEN step ELSE call[d]
  BY DEF TypeOK
<1>2. \A d \in Callers \X Markets : d # k => answer'[d] = answer[d]
  BY DEF TypeOK
<1>3. TypeOK'
  BY DEF TypeOK, process
<1>4. BoundaryProven'
  BY DEF BoundaryProven, Proven, Deadline
<1>5. OnePricePerWindow'
  <2>1. ASSUME NEW c \in Callers, NEW m \in Markets, call'[<<c, m>>] = "ready"
        PROVE  answer'[<<c, m>>] # None /\ answer'[<<c, m>>] = price_to_beat[m]
    <3>1. <<c, m>> \in Callers \X Markets /\ <<c, m>> # k
      BY <1>1, <2>1
    <3> QED BY <1>1, <1>2, <2>1, <3>1 DEF OnePricePerWindow
  <2> QED BY <2>1 DEF OnePricePerWindow
<1>6. NoSilentWindow'
  <2>1. ASSUME NEW m \in states, call[<<"scheduler", m>>] # "none"
        PROVE  call'[<<"scheduler", m>>] # "none"
    <3>1. <<"scheduler", m>> \in Callers \X Markets
      BY DEF TypeOK, Callers
    <3>2. k = <<"scheduler", m>> => k[1] = "scheduler"
      OBVIOUS
    <3> QED BY <1>1, <2>1, <3>1, <3>2
  <2> QED BY <2>1 DEF NoSilentWindow, process
<1> QED BY <1>3, <1>4, <1>5, <1>6

(* INSERT OR IGNORE keeps the events of a process apart: one for each window, and each
   window that is reported has one. *)
LEMMA EventsStayUnique ==
  ASSUME IInv, NEW new, new \subseteq [window : {evidence_window}, market : Markets,
                                       outcome : Outcomes, record : Record \cup {None}],
         \A e, f \in new : e.market = f.market => e = f
  PROVE  /\ WithEvents(new) \subseteq
              [window : 0..MaxRestarts, market : Markets, outcome : Outcomes,
               record : Record \cup {None}]
         /\ shadow_events \subseteq WithEvents(new)
         /\ \A e, f \in WithEvents(new) :
              e.window = f.window /\ e.market = f.market => e = f
         /\ \A e \in new : \E f \in WithEvents(new) :
              f.window = evidence_window /\ f.market = e.market
<1> USE DEF IInv
<1>1. \A e \in new : e.window = evidence_window
  OBVIOUS
<1>2. evidence_window \in 0..MaxRestarts
  BY DEF TypeOK
<1>3. \A e, f \in WithEvents(new) : e.window = f.window /\ e.market = f.market => e = f
  BY DEF WithEvents, NoSilentWindow
<1>4. \A e \in new : \E f \in WithEvents(new) :
        f.window = evidence_window /\ f.market = e.market
  BY <1>1 DEF WithEvents
<1>5. shadow_events \subseteq WithEvents(new)
  BY DEF WithEvents
<1>6. WithEvents(new) \subseteq
        [window : 0..MaxRestarts, market : Markets, outcome : Outcomes,
         record : Record \cup {None}]
  BY <1>2 DEF WithEvents, TypeOK
<1> QED BY <1>3, <1>4, <1>5, <1>6
(* New events keep the invariant when those that report a price report the stored one. *)
LEMMA EventsKeepOnePrice ==
  ASSUME IInv, NEW new, new \subseteq [window : {evidence_window}, market : Markets,
                                       outcome : Outcomes, record : Record \cup {None}],
         \A e \in new : e.outcome = "PTB_READY" =>
           e.record # None /\ e.record = price_to_beat[e.market]
  PROVE  \A e \in WithEvents(new) :
           e.outcome = "PTB_READY" => e.record # None /\ e.record = price_to_beat[e.market]
BY DEF IInv, OnePricePerWindow, WithEvents

(* A task ends with its event, or is lost. *)
LEMMA EndTaskKeepsIInv ==
  ASSUME IInv, NEW m \in Markets, NEW outcome \in Outcomes, NEW r \in Record \cup {None},
         UNCHANGED <<now, price_to_beat, process, retry_at>>,
         Answers("scheduler", m, "none", None),
         \/ /\ shadow_events' = WithEvents({Event(m, outcome, r)}) /\ UNCHANGED lost
            /\ outcome = "PTB_READY" => r # None /\ r = price_to_beat[m]
         \/ lost' = lost \cup {<<evidence_window, m>>} /\ UNCHANGED shadow_events
  PROVE  IInv'
<1> USE DEF IInv
<1> DEFINE new == {Event(m, outcome, r)}
<1>1. /\ new \subseteq [window : {evidence_window}, market : Markets,
                        outcome : Outcomes, record : Record \cup {None}]
      /\ \A e, f \in new : e.market = f.market => e = f
      /\ \A e \in new : e.market = m /\ e.outcome = outcome /\ e.record = r
  BY DEF Event
<1>2. /\ \A d \in Callers \X Markets :
           call'[d] = IF d = <<"scheduler", m>> THEN "none" ELSE call[d]
      /\ \A d \in Callers \X Markets : d # <<"scheduler", m>> => answer'[d] = answer[d]
      /\ call' \in [Callers \X Markets -> Steps]
      /\ answer' \in [Callers \X Markets -> Record \cup {None}]
  BY DEF Answers, TypeOK, Steps, Callers
<1> HIDE DEF new
<1>3. \/ shadow_events' = shadow_events
      \/ /\ shadow_events' = WithEvents(new)
         /\ outcome = "PTB_READY" => r # None /\ r = price_to_beat[m]
  BY DEF new
<1>4. /\ shadow_events' \subseteq [window : 0..MaxRestarts, market : Markets,
                                   outcome : Outcomes, record : Record \cup {None}]
      /\ \A e, f \in shadow_events' : e.window = f.window /\ e.market = f.market => e = f
      /\ shadow_events \subseteq shadow_events'
  BY <1>1, <1>3, EventsStayUnique DEF TypeOK, NoSilentWindow
<1>5. evidence_window \in 0..MaxRestarts
      /\ lost' \subseteq (0..MaxRestarts) \X Markets /\ lost \subseteq lost'
  BY DEF TypeOK
<1>6. TypeOK'
  BY <1>2, <1>4, <1>5 DEF TypeOK, process
<1>7. BoundaryProven'
  BY DEF BoundaryProven, Proven, Deadline
<1>8. OnePricePerWindow'
  <2>1. ASSUME NEW c \in Callers, NEW x \in Markets, call'[<<c, x>>] = "ready"
        PROVE  answer'[<<c, x>>] # None /\ answer'[<<c, x>>] = price_to_beat[x]
    BY <1>2, <2>1 DEF OnePricePerWindow
  <2>2. ASSUME NEW e \in shadow_events', e.outcome = "PTB_READY"
        PROVE  e.record # None /\ e.record = price_to_beat[e.market]
    <3>1. CASE shadow_events' = shadow_events
      BY <2>2, <3>1 DEF OnePricePerWindow
    <3>2. CASE shadow_events' = WithEvents(new)
               /\ (outcome = "PTB_READY" => r # None /\ r = price_to_beat[m])
      BY <1>1, <2>2, <3>2, EventsKeepOnePrice
    <3> QED BY <1>3, <3>1, <3>2
  <2> QED BY <2>1, <2>2 DEF OnePricePerWindow
<1>9. NoSilentWindow'
  <2>1. \/ \E f \in shadow_events' : f.window = evidence_window /\ f.market = m
        \/ <<evidence_window, m>> \in lost'
    <3>1. CASE shadow_events' = WithEvents({Event(m, outcome, r)})
      BY <1>1, <3>1, EventsStayUnique DEF new
    <3> QED BY <3>1
  <2>2. ASSUME NEW x \in states, x # m
        PROVE  call'[<<"scheduler", x>>] = call[<<"scheduler", x>>]
    BY <1>2, <2>2 DEF TypeOK, Callers
  <2> QED BY <1>4, <1>5, <2>1, <2>2 DEF NoSilentWindow, process
<1> QED BY <1>6, <1>7, <1>8, <1>9

(* The events of windows the scheduler is too late for. *)
LEMMA MissedEvents ==
  ASSUME NEW M \in SUBSET Markets,
         NEW new, new = {Event(m, "MISSED_BOUNDARY", None) : m \in M}
  PROVE  /\ new \subseteq [window : {evidence_window}, market : Markets,
                           outcome : Outcomes, record : Record \cup {None}]
         /\ \A e, f \in new : e.market = f.market => e = f
         /\ \A e \in new : e.outcome # "PTB_READY"
         /\ \A m \in M : \E e \in new : e.market = m
<1>1. \A m \in M : /\ Event(m, "MISSED_BOUNDARY", None) \in
                        [window : {evidence_window}, market : Markets,
                         outcome : Outcomes, record : Record \cup {None}]
                   /\ Event(m, "MISSED_BOUNDARY", None).market = m
                   /\ Event(m, "MISSED_BOUNDARY", None).outcome # "PTB_READY"
  BY DEF Event, Outcomes
<1> QED BY <1>1

(* The scheduler takes up every window that is due, and records those it is late for. *)
LEMMA RunDueOnceKeepsIInv ==
  ASSUME IInv, RunDueOnce
  PROVE  IInv'
<1> USE DEF IInv
<1> DEFINE new == {Event(m, "MISSED_BOUNDARY", None) : m \in Missed}
<1>1. /\ Missed \subseteq Due /\ Due \subseteq Markets /\ Kept \subseteq states
      /\ \A m \in Due : m \notin Kept /\ call[<<"scheduler", m>>] = "none"
  BY DEF Missed, Due, Kept
<1>2. /\ new \subseteq [window : {evidence_window}, market : Markets,
                        outcome : Outcomes, record : Record \cup {None}]
      /\ \A e, f \in new : e.market = f.market => e = f
      /\ \A e \in new : e.outcome # "PTB_READY"
      /\ \A m \in Missed : \E e \in new : e.market = m
  <2>1. Missed \in SUBSET Markets
    BY <1>1
  <2> QED BY <2>1, MissedEvents
<1>3. shadow_events' = WithEvents(new) /\ states' = Kept \cup Due
  BY DEF RunDueOnce
<1> HIDE DEF new
<1>4. /\ call' = [d \in Callers \X Markets |->
                    IF d[1] = "scheduler" /\ d[2] \in Due \ Missed THEN "attempt" ELSE call[d]]
      /\ UNCHANGED <<now, history, price_to_beat, evidence_window, answer, retry_at, lost>>
  BY DEF RunDueOnce
<1>5. /\ \A m \in Markets : call'[<<"scheduler", m>>] =
           IF m \in Due \ Missed THEN "attempt" ELSE call[<<"scheduler", m>>]
      /\ \A m \in Markets : call'[<<"cycle", m>>] = call[<<"cycle", m>>]
      /\ call' \in [Callers \X Markets -> Steps]
  BY <1>4 DEF TypeOK, Callers, Steps
<1>6. /\ shadow_events' \subseteq [window : 0..MaxRestarts, market : Markets,
                                   outcome : Outcomes, record : Record \cup {None}]
      /\ \A e, f \in shadow_events' : e.window = f.window /\ e.market = f.market => e = f
      /\ shadow_events \subseteq shadow_events'
      /\ \A e \in new : \E f \in shadow_events' :
           f.window = evidence_window /\ f.market = e.market
  BY <1>2, <1>3, EventsStayUnique
<1>7. TypeOK'
  BY <1>1, <1>3, <1>4, <1>5, <1>6 DEF TypeOK
<1>8. BoundaryProven'
  BY <1>4 DEF BoundaryProven, Proven, Deadline
<1>9. OnePricePerWindow'
  <2>1. ASSUME NEW c \in Callers, NEW m \in Markets, call'[<<c, m>>] = "ready"
        PROVE  answer[<<c, m>>] # None /\ answer[<<c, m>>] = price_to_beat[m]
    BY <1>5, <2>1 DEF OnePricePerWindow, Callers
  <2> QED BY <1>2, <1>3, <1>4, <2>1, EventsKeepOnePrice DEF OnePricePerWindow
<1>10. NoSilentWindow'
  <2>1. ASSUME NEW m \in Due
        PROVE  \/ call'[<<"scheduler", m>>] # "none"
               \/ \E e \in shadow_events' : e.window = evidence_window /\ e.market = m
    BY <1>1, <1>2, <1>5, <1>6
  <2>2. ASSUME NEW m \in Kept
        PROVE  \/ call'[<<"scheduler", m>>] # "none"
               \/ \E e \in shadow_events' : e.window = evidence_window /\ e.market = m
               \/ <<evidence_window, m>> \in lost
    <3>1. m \in states /\ m \in Markets /\ m \notin Due
      BY <1>1 DEF TypeOK
    <3> QED BY <1>5, <1>6, <3>1 DEF NoSilentWindow
  <2> QED BY <1>3, <1>4, <1>6, <2>1, <2>2 DEF NoSilentWindow
<1> QED BY <1>7, <1>8, <1>9, <1>10

(* A new process remembers nothing but the tables. *)
LEMMA RestartKeepsIInv ==
  ASSUME IInv, Restart
  PROVE  IInv'
<1> USE DEF IInv
<1>1. PICK recorded \in SUBSET Missed :
        shadow_events' = WithEvents({Event(m, "MISSED_BOUNDARY", None) : m \in recorded})
  BY DEF Restart
<1> DEFINE new == {Event(m, "MISSED_BOUNDARY", None) : m \in recorded}
<1>2. /\ new \subseteq [window : {evidence_window}, market : Markets,
                        outcome : Outcomes, record : Record \cup {None}]
      /\ \A e, f \in new : e.market = f.market => e = f
      /\ \A e \in new : e.outcome # "PTB_READY"
  <2>1. recorded \in SUBSET Markets
    BY DEF Missed, Due
  <2> QED BY <2>1, MissedEvents
<1>3. shadow_events' = WithEvents(new)
  BY <1>1
<1> HIDE DEF new
<1>4. /\ shadow_events' \subseteq [window : 0..MaxRestarts, market : Markets,
                                   outcome : Outcomes, record : Record \cup {None}]
      /\ \A e, f \in shadow_events' : e.window = f.window /\ e.market = f.market => e = f
  BY <1>2, <1>3, EventsStayUnique
<1>5. /\ evidence_window' = evidence_window + 1 /\ evidence_window < MaxRestarts
      /\ history' = [a \in Assets |-> <<>>] /\ states' = {}
      /\ call' = [d \in Callers \X Markets |-> "none"]
      /\ answer' = [d \in Callers \X Markets |-> None]
      /\ retry_at' = [m \in Markets |-> 0]
      /\ UNCHANGED <<now, price_to_beat, lost>>
  BY DEF Restart
<1>6. evidence_window' \in 0..MaxRestarts /\ HistoryLimit \in Nat /\ Len(<<>>) = 0
  BY <1>5, PriceToBeatConstants, HistoryLimitIsPositive
  DEF TypeOK, PriceToBeatConstants, HistoryLimitIsPositive
<1>7. TypeOK'
  BY <1>4, <1>5, <1>6 DEF TypeOK, Steps
<1>8. BoundaryProven' /\ NoSilentWindow'
  BY <1>4, <1>5 DEF BoundaryProven, Proven, Deadline, NoSilentWindow
<1>9. OnePricePerWindow'
  BY <1>2, <1>3, <1>5, EventsKeepOnePrice DEF OnePricePerWindow
<1> QED BY <1>7, <1>8, <1>9

(* The feed and the clock touch no call, no table and no window. *)
LEMMA WorldKeepsIInv ==
  ASSUME IInv,
         Tick \/ \E a \in Assets, p \in PublisherTimes, v \in Values : ReceiveTwap(a, p, v)
  PROVE  IInv'
<1> USE DEF IInv
<1>1. UNCHANGED <<price_to_beat, shadow_events, evidence_window, states, call, answer,
                  retry_at, lost>>
  BY DEF Tick, ReceiveTwap, process
<1>2. BoundaryProven' /\ OnePricePerWindow' /\ NoSilentWindow'
  BY <1>1 DEF BoundaryProven, Proven, Deadline, OnePricePerWindow, NoSilentWindow
<1>3. now' \in 0..MaxNow
  <2>1. MaxNow \in Nat /\ now \in 0..MaxNow
    BY PriceToBeatConstants DEF PriceToBeatConstants, TypeOK
  <2>2. now' = now \/ (now < MaxNow /\ now' = now + 1)
    BY DEF Tick, ReceiveTwap
  <2> QED BY <2>1, <2>2
<1>4. /\ history' \in [Assets -> Seq(Twap)]
      /\ \A b \in Assets : Len(history'[b]) <= HistoryLimit
  <2>1. CASE Tick
    BY <2>1 DEF Tick, process, TypeOK
  <2>2. ASSUME NEW a \in Assets, NEW p \in PublisherTimes, NEW v \in Values,
               ReceiveTwap(a, p, v)
        PROVE  /\ history' \in [Assets -> Seq(Twap)]
               /\ \A b \in Assets : Len(history'[b]) <= HistoryLimit
    <3> DEFINE t == [publisher_ts |-> p, value |-> v, recv_ts |-> now]
    <3>1. t \in Twap
      BY DEF Twap, TypeOK
    <3>2. history[a] \in Seq(Twap) /\ Len(history[a]) <= HistoryLimit
      BY DEF TypeOK
    <3>3. Recorded(history[a], t) \in Seq(Twap) /\ Len(Recorded(history[a], t)) <= HistoryLimit
      BY <3>1, <3>2, RecordedIsHistory
    <3>4. history' = [history EXCEPT ![a] = Recorded(history[a], t)]
      BY <2>2 DEF ReceiveTwap
    <3> QED BY <3>3, <3>4 DEF TypeOK
  <2> QED BY <2>1, <2>2
<1>5. TypeOK'
  BY <1>1, <1>3, <1>4 DEF TypeOK
<1> QED BY <1>2, <1>5
(* Nothing has happened in the first process. *)
THEOREM InitIInv == Init => IInv
<1> SUFFICES ASSUME Init PROVE IInv
  OBVIOUS
<1>1. /\ history \in [Assets -> Seq(Twap)] /\ evidence_window \in 0..MaxRestarts
      /\ \A a \in Assets : Len(history[a]) <= HistoryLimit
  BY PriceToBeatConstants, HistoryLimitIsPositive
  DEF Init, PriceToBeatConstants, HistoryLimitIsPositive
<1>2. TypeOK
  BY <1>1 DEF Init, TypeOK, Steps
<1>3. BoundaryProven /\ OnePricePerWindow /\ NoSilentWindow
  BY DEF Init, BoundaryProven, OnePricePerWindow, NoSilentWindow
<1> QED BY <1>2, <1>3 DEF IInv

(* A step of the scheduler's task of a window. *)
LEMMA SchedulerKeepsIInv ==
  ASSUME IInv, NEW m \in Markets, SchedulerStep(m)
  PROVE  IInv'
<1> USE DEF IInv
<1>1. <<"scheduler", m>> \in Callers \X Markets /\ "scheduler" \in Callers
  BY DEF Callers
<1>2. CASE Resolve("scheduler", m) \/ FinishFetch("scheduler", m)
           \/ FailDiscovery("scheduler", m)
  BY <1>1, <1>2, ResolveKeepsIInv
<1>3. CASE StartAttempt(m) \/ AcquirePermit(m)
  <2>1. PICK step \in {"queued", "discovering"} :
          /\ call' = [call EXCEPT ![<<"scheduler", m>>] = step]
          /\ UNCHANGED <<now, price_to_beat, shadow_events, process, answer, retry_at, lost>>
    BY <1>3 DEF StartAttempt, AcquirePermit
  <2> QED BY <1>1, <2>1, WaitingKeepsIInv DEF Steps, TypeOK
<1>4. CASE GiveUp(m)
  BY <1>4, EndTaskKeepsIInv DEF GiveUp, EndTask, Outcomes
<1>5. CASE RecordReady(m)
  <2>1. /\ answer[<<"scheduler", m>>] # None
        /\ answer[<<"scheduler", m>>] = price_to_beat[m]
    BY <1>1, <1>5 DEF RecordReady, OnePricePerWindow
  <2>2. answer[<<"scheduler", m>>] \in Record \cup {None}
    BY <1>1 DEF TypeOK
  <2> QED BY <1>5, <2>1, <2>2, EndTaskKeepsIInv DEF RecordReady, EndTask, Outcomes
<1>6. CASE RetryLater(m)
  <2>1. CASE now + RetryInterval > Deadline(m)
    BY <1>6, <2>1, EndTaskKeepsIInv DEF RetryLater, EndTask, Outcomes
  <2>2. CASE ~(now + RetryInterval > Deadline(m))
    <3>1. /\ call' = [call EXCEPT ![<<"scheduler", m>>] = "sleeping"]
          /\ retry_at' = [retry_at EXCEPT ![m] = now + RetryInterval]
          /\ UNCHANGED <<now, price_to_beat, shadow_events, process, answer, lost>>
      BY <1>6, <2>2 DEF RetryLater
    <3>2. now + RetryInterval \in Nat
      BY PriceToBeatConstants DEF PriceToBeatConstants, TypeOK
    <3>3. retry_at' \in [Markets -> Nat]
      BY <3>1, <3>2 DEF TypeOK
    <3> QED BY <1>1, <3>1, <3>3, WaitingKeepsIInv DEF Steps
  <2> QED BY <2>1, <2>2
<1>7. CASE WakeUp(m)
  <2>1. /\ call' = [call EXCEPT ![<<"scheduler", m>>] = "attempt"]
        /\ retry_at' = [retry_at EXCEPT ![m] = 0]
        /\ UNCHANGED <<now, price_to_beat, shadow_events, process, answer, lost>>
    BY <1>7 DEF WakeUp
  <2>2. retry_at' \in [Markets -> Nat]
    BY <2>1 DEF TypeOK
  <2> QED BY <1>1, <2>1, <2>2, WaitingKeepsIInv DEF Steps
<1>8. CASE LoseTask(m)
  BY <1>8, EndTaskKeepsIInv DEF LoseTask, Outcomes
<1> QED BY <1>2, <1>3, <1>4, <1>5, <1>6, <1>7, <1>8 DEF SchedulerStep

(* A step of the daemon's collection of a window. *)
LEMMA CycleKeepsIInv ==
  ASSUME IInv, NEW m \in Markets, CycleStep(m)
  PROVE  IInv'
<1> USE DEF IInv
<1>1. <<"cycle", m>> \in Callers \X Markets /\ "cycle" \in Callers
  BY DEF Callers
<1>2. CASE Resolve("cycle", m) \/ FinishFetch("cycle", m) \/ FailDiscovery("cycle", m)
  BY <1>1, <1>2, ResolveKeepsIInv
<1>3. CASE CollectBucket(m)
  <2>1. /\ call' = [call EXCEPT ![<<"cycle", m>>] = "discovering"]
        /\ UNCHANGED <<now, price_to_beat, shadow_events, process, answer, retry_at, lost>>
    BY <1>3 DEF CollectBucket
  <2> QED BY <1>1, <2>1, WaitingKeepsIInv DEF Steps, TypeOK
<1>4. CASE EndCollection(m)
  <2>1. /\ call' = [call EXCEPT ![<<"cycle", m>>] = "none"]
        /\ answer' = [answer EXCEPT ![<<"cycle", m>>] = None]
        /\ UNCHANGED <<now, price_to_beat, shadow_events, process, retry_at, lost>>
    BY <1>4 DEF EndCollection, Answers
  <2> QED BY <1>1, <2>1, WaitingKeepsIInv DEF Steps, TypeOK
<1> QED BY <1>2, <1>3, <1>4 DEF CycleStep

(* Every step of scheduler, cycle, feed, clock and supervisor preserves the invariant. *)
THEOREM NextIInv == IInv /\ [Next]_vars => IInv'
<1> SUFFICES ASSUME IInv, [Next]_vars PROVE IInv'
  OBVIOUS
<1>1. CASE RunDueOnce
  BY <1>1, RunDueOnceKeepsIInv
<1>2. CASE Restart
  BY <1>2, RestartKeepsIInv
<1>3. CASE Tick \/ \E a \in Assets, p \in PublisherTimes, v \in Values : ReceiveTwap(a, p, v)
  BY <1>3, WorldKeepsIInv
<1>4. ASSUME NEW m \in Markets, SchedulerStep(m) \/ CycleStep(m)
      PROVE  IInv'
  BY <1>4, SchedulerKeepsIInv, CycleKeepsIInv
<1>5. CASE UNCHANGED vars
  BY <1>5 DEF vars, IInv, TypeOK, BoundaryProven, Proven, Deadline, OnePricePerWindow,
              NoSilentWindow
<1> QED BY <1>1, <1>2, <1>3, <1>4, <1>5 DEF Next

(* The invariant holds throughout. *)
THEOREM Invariance == Spec => []IInv
BY InitIInv, NextIInv, PTL DEF Spec

(* The tables and the process hold what their types say, and the history its limit. *)
THEOREM TypeCorrect == Spec => []TypeOK
BY Invariance, PTL DEF IInv

(* Every price to beat is proven by the boundary of its window. *)
THEOREM BoundaryIsProven == Spec => []BoundaryProven
BY Invariance, PTL DEF IInv

(* Scheduler, collection and later processes work with one price. *)
THEOREM PriceIsShared == Spec => []OnePricePerWindow
BY Invariance, PTL DEF IInv

(* A window that was taken up is worked on, recorded or known to be lost. *)
THEOREM NoWindowIsSilent == Spec => []NoSilentWindow
BY Invariance, PTL DEF IInv

(* Whatever is stored stays: INSERT OR IGNORE and no update. *)
LEMMA StepKeepsPrices ==
  ASSUME TypeOK, [Next]_vars
  PROVE  \A m \in Markets : price_to_beat[m] # None => price_to_beat'[m] = price_to_beat[m]
<1>1. ASSUME NEW c \in Callers, NEW m \in Markets, NEW r, Establish(c, m, r)
      PROVE  \A x \in Markets : price_to_beat[x] # None => price_to_beat'[x] = price_to_beat[x]
  BY <1>1 DEF Establish, Saved, TypeOK
<1>2. ASSUME NEW c \in Callers, NEW m \in Markets,
             Resolve(c, m) \/ FinishFetch(c, m) \/ FailDiscovery(c, m)
      PROVE  \A x \in Markets : price_to_beat[x] # None => price_to_beat'[x] = price_to_beat[x]
  <2>1. \/ price_to_beat' = price_to_beat
        \/ \E r : Establish(c, m, r)
    BY <1>2 DEF Resolve, RestoreStored, EstablishShort, BeginFetch, FinishFetch, FailDiscovery
  <2> QED BY <1>1, <2>1
<1>3. ASSUME NEW m \in Markets, SchedulerStep(m) \/ CycleStep(m)
      PROVE  \A x \in Markets : price_to_beat[x] # None => price_to_beat'[x] = price_to_beat[x]
  <2>1. \/ price_to_beat' = price_to_beat
        \/ \E c \in Callers : Resolve(c, m) \/ FinishFetch(c, m) \/ FailDiscovery(c, m)
    BY <1>3 DEF SchedulerStep, CycleStep, StartAttempt, GiveUp, AcquirePermit, RecordReady,
                RetryLater, WakeUp, LoseTask, EndTask, CollectBucket, EndCollection, Callers
  <2> QED BY <1>2, <2>1
<1>4. CASE RunDueOnce \/ Restart \/ Tick \/ UNCHANGED vars
           \/ \E a \in Assets, p \in PublisherTimes, v \in Values : ReceiveTwap(a, p, v)
  BY <1>4 DEF RunDueOnce, Restart, Tick, ReceiveTwap, vars
<1> QED BY <1>3, <1>4 DEF Next

(* A stored price to beat is never recomputed, by no task, collection or later process. *)
THEOREM PricesArePermanent == Spec => PriceToBeatIsPermanent
<1>1. TypeOK /\ [Next]_vars =>
        [\A m \in Markets :
           price_to_beat[m] # None => price_to_beat'[m] = price_to_beat[m]]_vars
  BY StepKeepsPrices
<1> QED BY <1>1, TypeCorrect, PTL DEF Spec, PriceToBeatIsPermanent

-----------------------------------------------------------------------------
(* The recorded history is made of what it held and of the new average. *)
LEMMA FeedRecordedFacts ==
  ASSUME NEW S, NEW h \in Seq(S), Len(h) <= HistoryLimit, NEW t \in S
  PROVE  /\ Feed!Recorded(h, t) \in Seq(S) /\ Len(Feed!Recorded(h, t)) <= HistoryLimit
         /\ \A i \in DOMAIN Feed!Recorded(h, t) :
              \/ Feed!Recorded(h, t)[i] = t
              \/ \E k \in DOMAIN h : Feed!Recorded(h, t)[i] = h[k]
<1> DEFINE longer == Append(h, t)
<1>1. longer \in Seq(S) /\ Len(longer) = Len(h) + 1
  OBVIOUS
<1>2. ASSUME NEW i \in DOMAIN longer
      PROVE  longer[i] = t \/ \E k \in DOMAIN h : longer[i] = h[k]
  OBVIOUS
<1>3. Tail(longer) \in Seq(S) /\ Len(Tail(longer)) = Len(h)
      /\ \A i \in DOMAIN Tail(longer) : i + 1 \in DOMAIN longer /\ Tail(longer)[i] = longer[i + 1]
  BY <1>1
<1>4. HistoryLimit \in Nat /\ Len(h) \in Nat
  BY HistoryLimitIsPositive
<1>5. CASE Feed!Recorded(h, t) = h
  BY <1>5
<1>6. CASE Feed!Recorded(h, t) = longer /\ Len(longer) <= HistoryLimit
  BY <1>1, <1>2, <1>6
<1>7. CASE Feed!Recorded(h, t) = Tail(longer)
  <2> HIDE DEF longer
  <2>1. ASSUME NEW i \in DOMAIN Tail(longer)
        PROVE  Tail(longer)[i] = t \/ \E k \in DOMAIN h : Tail(longer)[i] = h[k]
    <3>1. i + 1 \in DOMAIN longer /\ Tail(longer)[i] = longer[i + 1]
      BY <1>3
    <3>2. PICK j \in DOMAIN longer : Tail(longer)[i] = longer[j]
      BY <3>1
    <3> QED BY <1>2, <3>2
  <2> QED BY <1>3, <1>4, <1>7, <2>1
<1> QED BY <1>1, <1>4, <1>5, <1>6, <1>7 DEF Feed!Recorded, Feed!Appended, Feed!RepeatsLast

(* The initial states satisfy the inductive invariant. *)
THEOREM FeedInit == ASSUME Feed!FeedConstants PROVE Feed!Init => Feed!IInv
<1>1. 1 \in 1..MaxAttempts /\ 0 <= HistoryLimit
  BY HistoryLimitIsPositive DEF Feed!FeedConstants
<1> QED BY <1>1 DEF Feed!Init, Feed!IInv, Feed!TypeOK, Feed!LatestIsNewest

(* What an update records is filed under its own asset and never overtakes the latest. *)
LEMMA HandleUpdateKeepsFeed ==
  ASSUME Feed!FeedConstants, Feed!NoneIsNoTwap, Feed!IInv, NEW a \in Subscribed,
         NEW twap \in Feed!Twap, Feed!HandleUpdate(a, twap)
  PROVE  Feed!IInv'
<1> USE DEF Feed!IInv
<1> DEFINE b == twap.asset
<1>1. b \in Subscribed /\ twap.publisher_ts \in Nat
  BY DEF Feed!Twap, Feed!FeedConstants
<1>2. /\ latest' = (IF Feed!NewerThanLatest(twap) THEN [latest EXCEPT ![b] = twap] ELSE latest)
      /\ averages' = [averages EXCEPT ![b] = Feed!Recorded(averages[b], twap)]
      /\ UNCHANGED <<connection, attempt, status>>
  BY DEF Feed!HandleUpdate, Feed!FiledUnder
<1> HIDE DEF b
<1>3. averages[b] \in Seq(Feed!Twap) /\ Len(averages[b]) <= HistoryLimit
  BY <1>1 DEF Feed!TypeOK
<1>4. /\ Feed!Recorded(averages[b], twap) \in Seq(Feed!Twap)
      /\ Len(Feed!Recorded(averages[b], twap)) <= HistoryLimit
      /\ \A i \in DOMAIN Feed!Recorded(averages[b], twap) :
           \/ Feed!Recorded(averages[b], twap)[i] = twap
           \/ \E k \in DOMAIN averages[b] : Feed!Recorded(averages[b], twap)[i] = averages[b][k]
  BY <1>3, FeedRecordedFacts
<1>5. /\ averages'[b] = Feed!Recorded(averages[b], twap)
      /\ \A c \in Subscribed \ {b} : averages'[c] = averages[c]
      /\ averages' \in [Subscribed -> Seq(Feed!Twap)]
  BY <1>1, <1>2, <1>4 DEF Feed!TypeOK
<1>6. /\ latest' \in [Subscribed -> Feed!Twap \cup {None}]
      /\ \A c \in Subscribed \ {b} : latest'[c] = latest[c]
      /\ latest'[b] = IF Feed!NewerThanLatest(twap) THEN twap ELSE latest[b]
  BY <1>1, <1>2 DEF Feed!TypeOK
<1>7. Feed!TypeOK'
  BY <1>2, <1>4, <1>5, <1>6 DEF Feed!TypeOK
<1>8. \A c \in Subscribed : latest'[c] # None => latest'[c].asset = c
  BY <1>6 DEF b
<1>9. \A c \in Subscribed : \A k \in DOMAIN averages[c] :
        /\ averages[c][k].asset = c
        /\ latest[c] # None /\ latest[c].asset = c
        /\ averages[c][k].publisher_ts <= latest[c].publisher_ts
        /\ averages[c][k].publisher_ts \in Nat /\ latest[c].publisher_ts \in Nat
  <2> SUFFICES ASSUME NEW c \in Subscribed, NEW k \in DOMAIN averages[c]
               PROVE  /\ averages[c][k].asset = c
                      /\ latest[c] # None /\ latest[c].asset = c
                      /\ averages[c][k].publisher_ts <= latest[c].publisher_ts
                      /\ averages[c][k].publisher_ts \in Nat /\ latest[c].publisher_ts \in Nat
    OBVIOUS
  <2>1. /\ averages[c][k].asset = c
        /\ latest[c] # None /\ latest[c].asset = c
        /\ averages[c][k].publisher_ts <= latest[c].publisher_ts
    BY DEF Feed!LatestIsNewest
  <2>2. averages[c] \in Seq(Feed!Twap) /\ latest[c] \in Feed!Twap
    BY <2>1 DEF Feed!TypeOK
  <2>3. averages[c][k] \in Feed!Twap
    BY <2>2
  <2>4. \A x \in Feed!Twap : x.publisher_ts \in Nat
    BY DEF Feed!Twap, Feed!FeedConstants
  <2> QED BY <2>1, <2>2, <2>3, <2>4
<1>10. /\ latest'[b] # None /\ latest'[b].asset = b /\ latest'[b].publisher_ts \in Nat
       /\ twap.publisher_ts <= latest'[b].publisher_ts
       /\ latest[b] # None => latest[b].publisher_ts <= latest'[b].publisher_ts
  <2>1. twap # None /\ twap.asset = b
    BY DEF Feed!NoneIsNoTwap, b
  <2>2. \A x \in Feed!Twap : x.publisher_ts \in Nat
    BY DEF Feed!Twap, Feed!FeedConstants
  <2>3. CASE Feed!NewerThanLatest(twap)
    <3>1. latest'[b] = twap
      BY <1>6, <2>3
    <3>2. latest[b] = None \/ twap.publisher_ts >= latest[b].publisher_ts
      BY <2>3 DEF Feed!NewerThanLatest, b
    <3>3. latest[b] # None => latest[b] \in Feed!Twap
      BY <1>1 DEF Feed!TypeOK
    <3> QED BY <1>1, <2>1, <2>2, <3>1, <3>2, <3>3
  <2>4. CASE ~Feed!NewerThanLatest(twap)
    <3>1. latest'[b] = latest[b]
      BY <1>6, <2>4
    <3>2. latest[b] # None /\ ~(twap.publisher_ts >= latest[b].publisher_ts)
      BY <2>4 DEF Feed!NewerThanLatest, b
    <3>3. latest[b] \in Feed!Twap /\ latest[b].asset = b
      BY <1>1, <3>2 DEF Feed!TypeOK
    <3>4. latest[b].publisher_ts \in Nat
      BY <2>2, <3>3
    <3> QED BY <1>1, <3>1, <3>2, <3>3, <3>4
  <2> QED BY <2>3, <2>4
<1>11. ASSUME NEW i \in DOMAIN averages'[b]
       PROVE  /\ averages'[b][i].asset = b
              /\ averages'[b][i].publisher_ts <= latest'[b].publisher_ts
  <2>1. CASE averages'[b][i] = twap
    BY <1>10, <2>1 DEF b
  <2>2. ASSUME NEW k \in DOMAIN averages[b], averages'[b][i] = averages[b][k]
        PROVE  /\ averages'[b][i].asset = b
               /\ averages'[b][i].publisher_ts <= latest'[b].publisher_ts
    BY <1>1, <1>9, <1>10, <2>2
  <2> QED BY <1>4, <1>5, <2>1, <2>2
<1>12. Feed!LatestIsNewest'
  <2>1. ASSUME NEW c \in Subscribed, c # b, NEW i \in DOMAIN averages'[c]
        PROVE  /\ averages'[c][i].asset = c
               /\ latest'[c] # None /\ latest'[c].asset = c
               /\ averages'[c][i].publisher_ts <= latest'[c].publisher_ts
    BY <1>5, <1>6, <1>9, <2>1
  <2> QED BY <1>10, <1>11, <2>1 DEF Feed!LatestIsNewest
<1> QED BY <1>7, <1>8, <1>12

(* Every step of an asset's connection and every frame keeps the invariant. *)
THEOREM FeedNext ==
  ASSUME Feed!FeedConstants, Feed!NoneIsNoTwap, Feed!IInv, [Feed!Next]_(Feed!vars)
  PROVE  Feed!IInv'
<1> USE DEF Feed!IInv
<1>1. ASSUME NEW a \in Subscribed,
             \/ Feed!Connect(a) \/ Feed!LoseConnection(a) \/ Feed!Retry(a)
             \/ Feed!FailGenerator(a) \/ Feed!CloseNormally(a) \/ Feed!StartGenerator(a)
      PROVE  Feed!IInv'
  <2>1. UNCHANGED <<averages, latest>>
    BY <1>1
       DEF Feed!Connect, Feed!LoseConnection, Feed!Retry, Feed!FailGenerator,
           Feed!CloseNormally, Feed!StartGenerator
  <2>2. connection' \in [Subscribed -> {"connecting", "streaming", "backoff", "waiting"}]
        /\ status' \in [Subscribed -> {"SUBSCRIBED", "ERROR"}]
    BY <1>1
       DEF Feed!TypeOK, Feed!Connect, Feed!LoseConnection, Feed!Retry, Feed!FailGenerator,
           Feed!CloseNormally,
                Feed!StartGenerator, Feed!AfterError
  <2>3. attempt' \in [Subscribed -> 1..MaxAttempts]
    <3>1. MaxAttempts \in Nat \ {0} /\ attempt \in [Subscribed -> 1..MaxAttempts]
          /\ (connection[a] = "backoff" => attempt[a] < MaxAttempts)
      BY DEF Feed!TypeOK, Feed!FeedConstants
    <3>2. \/ attempt' = attempt
          \/ attempt' = [attempt EXCEPT ![a] = 1]
          \/ attempt' = [attempt EXCEPT ![a] = attempt[a] + 1] /\ attempt[a] < MaxAttempts
      BY <1>1, <3>1
         DEF Feed!Connect, Feed!LoseConnection, Feed!Retry, Feed!FailGenerator,
             Feed!CloseNormally,
                        Feed!StartGenerator
    <3>3. 1 \in 1..MaxAttempts /\ (attempt[a] < MaxAttempts => attempt[a] + 1 \in 1..MaxAttempts)
      BY <3>1
    <3> QED BY <3>1, <3>2, <3>3
  <2>4. ASSUME NEW c \in Subscribed, connection'[c] = "backoff" PROVE attempt'[c] < MaxAttempts
    <3>1. CASE Feed!LoseConnection(a) /\ c = a
      BY <3>1 DEF Feed!LoseConnection
    <3>2. CASE connection[c] = "backoff" /\ attempt'[c] = attempt[c]
      BY <3>2 DEF Feed!TypeOK
    <3>3. \/ Feed!LoseConnection(a) /\ c = a
          \/ connection[c] = "backoff" /\ attempt'[c] = attempt[c]
      BY <1>1, <2>4
         DEF Feed!TypeOK, Feed!Connect, Feed!LoseConnection, Feed!Retry, Feed!FailGenerator,
             Feed!CloseNormally,
                        Feed!StartGenerator, Feed!AfterError
    <3> QED BY <3>1, <3>2, <3>3
  <2> QED BY <2>1, <2>2, <2>3, <2>4 DEF Feed!TypeOK, Feed!LatestIsNewest
<1>2. ASSUME NEW a \in Subscribed, NEW twap \in Feed!Twap, Feed!HandleUpdate(a, twap)
      PROVE  Feed!IInv'
  BY <1>2, HandleUpdateKeepsFeed
<1>3. CASE UNCHANGED Feed!vars
  BY <1>3 DEF Feed!vars, Feed!TypeOK, Feed!LatestIsNewest
<1> QED BY <1>1, <1>2, <1>3 DEF Feed!Next

(* The inductive invariant holds in every behaviour. *)
THEOREM FeedInvariance ==
  ASSUME Feed!FeedConstants, Feed!NoneIsNoTwap
  PROVE  Feed!Spec => []Feed!IInv
<1>1. Feed!IInv /\ [Feed!Next]_(Feed!vars) => Feed!IInv'
  BY FeedNext
<1> QED BY <1>1, FeedInit, PTL DEF Feed!Spec

(* Prices and collector each go by their own rules. *)
LEMMA PricesAreIndependent == PricesSpec => Spec /\ Feed!Spec
<1>1. PricesInit => Init /\ Feed!Init
  BY DEF PricesInit
<1>2. [PricesNext]_<<vars, feed_vars>> => [Next]_vars /\ [Feed!Next]_(Feed!vars)
  <2>1. UNCHANGED feed_vars => UNCHANGED Feed!vars
    BY DEF feed_vars, Feed!vars
  <2> QED BY <2>1 DEF PricesNext
<1> QED BY <1>1, <1>2, PTL DEF PricesSpec, Spec, Feed!Spec

(* TypeOK: no generator runs out of its attempts unnoticed, and every history stays within
   its limit (resilient_websocket_json, deque(maxlen=4096)). *)
THEOREM FeedTypeCorrect == PricesSpec => []Feed!TypeOK
BY FeedConstants, PricesAreIndependent, FeedInvariance, PTL DEF Feed!IInv

(* LatestIsNewest: late, repeated and misdirected frames neither mix two assets' histories
   nor leave a kept average newer than the latest one (_record). *)
THEOREM LatestIsTheNewest == PricesSpec => []Feed!LatestIsNewest
BY FeedConstants, PricesAreIndependent, FeedInvariance, PTL DEF Feed!IInv
=============================================================================
