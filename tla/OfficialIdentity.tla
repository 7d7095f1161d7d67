--------------------------- MODULE OfficialIdentity ---------------------------
(***************************************************************************)
(* How the settlement pass finds out which market a trade was on and how   *)
(* that market ended (settlement/official.py PaperSettlementService,       *)
(* GammaOfficialSettlementResolver, parse_polymarket_official_settlement). *)
(* A trade's snapshot may lack its market and window (legacy rows): they   *)
(* are recovered from the corpus or, over the network, from the venue's    *)
(* metadata, and stored once in an overlay.  Then two venues are asked,    *)
(* Gamma by market and CLOB by condition, and both must agree that this    *)
(* market is final.                                                        *)
(*                                                                         *)
(* Every request is an await: it may fail, answer nothing, answer with a   *)
(* malformed body or with another market, the pass may time out, and the   *)
(* process may die.  A metadata request that fails is not caught.          *)
(***************************************************************************)
EXTENDS Integers, Sequences, SequencesExt

CONSTANTS
  Conditions,
  Recency,         \* the conditions of the open trades, newest trade first
  Legacy,          \* conditions whose trade snapshot lacks market and window
  InCorpus,        \* conditions with a valid corpus record
  MetadataFaults, GammaFaults, ClobFaults, \* condition -> faulty answers of the venue
  MaxPerPass       \* max_conditions_per_pass

MetadataFault == {"raises", "none", "malformed", "other"}
GammaFault == {"raises", "none", "other_id", "other_condition"}
ClobFault == {"raises", "none", "other", "both_win", "malformed"}

IdentityConstants ==
  /\ Conditions \cap ({"missing", "BLOCKED"} \cup MetadataFault) = {}
  /\ Recency \in Seq(Conditions) /\ Range(Recency) = Conditions
  /\ Legacy \subseteq Conditions /\ InCorpus \subseteq Conditions
  /\ MetadataFaults \in [Conditions -> SUBSET MetadataFault]
  /\ GammaFaults \in [Conditions -> SUBSET GammaFault]
  /\ ClobFaults \in [Conditions -> SUBSET ClobFault]
  /\ MaxPerPass \in Nat \ {0}

Sides == {"UP", "DOWN"}
Missing == "missing"

VARIABLES
  \* the venue: a window ends, its market closes, its winner is flagged
  phase,        \* condition -> "running", "ended", "closed", "final"
  winner,       \* condition -> side
  \* tables
  overlay,      \* condition -> Missing, "BLOCKED", or the condition whose market it holds
  attempt,      \* condition -> Missing or the state of its last attempt
  waiting,      \* conditions whose next_attempt_at is in the future
  settled,      \* condition -> winning side its trade was settled with, or Missing
  \* the coroutine
  pc,           \* "idle", "identity", "metadata", "gamma", "clob", "record"
  queue,        \* due conditions of this pass
  gamma         \* answer the pass holds: [id, condition, closed]

tables == <<overlay, attempt, waiting, settled>>
venue == <<phase, winner>>
vars == <<venue, tables, pc, queue, gamma>>

NoAnswer == [id |-> Missing, condition |-> Missing, closed |-> FALSE]

Init ==
  /\ phase = [c \in Conditions |-> "running"]
  /\ winner \in [Conditions -> Sides]
  /\ overlay = [c \in Conditions |-> Missing]
  /\ attempt = [c \in Conditions |-> Missing] /\ waiting = {}
  /\ settled = [c \in Conditions |-> Missing]
  /\ pc = "idle" /\ queue = <<>> /\ gamma = NoAnswer

-----------------------------------------------------------------------------
(* PaperSettlementService.run_once *)

(* A trade without a window is a candidate from the start. *)
Candidate(c) == settled[c] = Missing /\ (c \in Legacy \/ phase[c] # "running")

(* due_settlement_conditions *)
Due(c) == attempt[c] \notin {"SETTLED", "BLOCKED_PERMANENT"} /\ c \notin waiting

DueConditions == SelectSeq(Recency, LAMBDA c : Candidate(c) /\ Due(c))

StartPass ==
  /\ pc = "idle" /\ DueConditions # <<>>
  /\ queue' = SubSeq(DueConditions, 1,
                     IF Len(DueConditions) < MaxPerPass THEN Len(DueConditions) ELSE MaxPerPass)
  /\ pc' = "identity"
  /\ UNCHANGED <<venue, tables, gamma>>

Current == Head(queue)

(* Mutant: every block is for good. *)
AttemptStatePermanent(reason) ==
  CASE reason \in {"WINDOW_NOT_ENDED", "MARKET_NOT_FINAL"} -> "PENDING"
    [] OTHER -> "BLOCKED_PERMANENT"

(* _attempt_state_for_reason: its markers are substrings of the mismatches. *)
AttemptState(reason) ==
  CASE reason \in {"WINDOW_NOT_ENDED", "MARKET_NOT_FINAL"} -> "PENDING"
    [] reason \in {"IDENTITY_INCOMPLETE", "GAMMA_MARKET_ID_MISMATCH",
                   "GAMMA_CONDITION_ID_MISMATCH", "CLOB_CONDITION_ID_MISMATCH"}
         -> "BLOCKED_PERMANENT"
    [] OTHER -> "BLOCKED_RETRYABLE"

(* The next condition of the pass, or its end. *)
NextCondition ==
  /\ queue' = Tail(queue) /\ gamma' = NoAnswer
  /\ pc' = IF Tail(queue) = <<>> THEN "idle" ELSE "identity"

(* save_settlement_condition_attempt: one row for a condition, its last attempt. *)
SaveAttempt(c, state, waits) ==
  /\ attempt' = [attempt EXCEPT ![c] = state]
  /\ waiting' = IF waits THEN waiting \cup {c} ELSE waiting \ {c}

(* _record_attempt with its _next_attempt_at. *)
RecordAttempt(state) ==
  /\ SaveAttempt(Current, state, state \in {"PENDING", "BLOCKED_RETRYABLE"})
  /\ NextCondition

Block(reason) == RecordAttempt(AttemptState(reason)) /\ UNCHANGED settled

(* With the identity known: wait for the window's end, or ask the venues. *)
Resolve(c) ==
  IF phase[c] = "running" THEN Block("WINDOW_NOT_ENDED")
  ELSE pc' = "gamma" /\ UNCHANGED <<attempt, waiting, settled, queue, gamma>>

-----------------------------------------------------------------------------
(* _effective_identity *)

(* The market the trade is resolved on. *)
Identified(c) == IF overlay[c] # Missing THEN overlay[c] ELSE c

(* save_identity_overlay_once: another value for the same condition raises. *)
SaveIdentityOverlayOnce(c, value) ==
  /\ overlay[c] \in {Missing, value}
  /\ overlay' = [overlay EXCEPT ![c] = value]

(* The first of the condition's corpus records with a canonical window. *)
RecoverFromCorpus(c) == SaveIdentityOverlayOnce(c, c) /\ Resolve(c)

(* Overlay, snapshot, corpus: no await between them. *)
EffectiveIdentity ==
  LET c == Current IN
  /\ pc = "identity"
  /\ \/ overlay[c] = "BLOCKED" /\ Block("OVERLAY_BLOCKER") /\ UNCHANGED overlay
     \/ /\ overlay[c] # "BLOCKED" /\ (overlay[c] # Missing \/ c \notin Legacy)
        /\ Resolve(c) /\ UNCHANGED overlay
     \/ /\ overlay[c] = Missing /\ c \in Legacy \cap InCorpus
        /\ RecoverFromCorpus(c)
     \/ /\ overlay[c] = Missing /\ c \in Legacy \ InCorpus
        /\ pc' = "metadata" /\ UNCHANGED <<overlay, attempt, waiting, settled, queue, gamma>>
  /\ UNCHANGED venue

(* _recover_identity_from_official_metadata of the market that was asked for. *)
RecoverIdentity(answer) ==
  /\ answer = Current
  /\ SaveIdentityOverlayOnce(Current, answer) /\ Resolve(Current)

(* A malformed market is remembered as a blocker; no market, or another one,
   is not.  All leave the identity incomplete. *)
IdentityIncomplete(answer) ==
  /\ answer # Current /\ answer # "raises"
  /\ IF answer = "malformed" THEN SaveIdentityOverlayOnce(Current, "BLOCKED")
     ELSE UNCHANGED overlay
  /\ Block("IDENTITY_INCOMPLETE")

(* Outside the pass's try block: the exception ends the cycle and the process. *)
MetadataRaises(answer) ==
  /\ answer = "raises"
  /\ pc' = "idle" /\ queue' = <<>> /\ UNCHANGED <<tables, gamma>>

(* The venue's answers to a request about c: its own, or one of the faults. *)
MetadataAnswers(c) ==
  {c} \cup (MetadataFaults[c] \ {"other"})
      \cup (IF "other" \in MetadataFaults[c] THEN Conditions \ {c} ELSE {})

ReceiveMetadata ==
  /\ pc = "metadata"
  /\ \E answer \in MetadataAnswers(Current) :
       RecoverIdentity(answer) \/ IdentityIncomplete(answer) \/ MetadataRaises(answer)
  /\ UNCHANGED venue

-----------------------------------------------------------------------------
(* GammaOfficialSettlementResolver.resolve *)

Closed(c) == phase[c] \in {"closed", "final"}

(* A venue may show a closed market as open for a while. *)
GammaRecords(m) ==
  {[id |-> i, condition |-> d, closed |-> closed] :
     i \in {m} \cup (IF "other_id" \in GammaFaults[m] THEN Conditions ELSE {}),
     d \in {m} \cup (IF "other_condition" \in GammaFaults[m] THEN Conditions ELSE {}),
     closed \in {FALSE} \cup (IF Closed(m) THEN {TRUE} ELSE {})}

(* An exception of the request is caught and retried; so is a missing market. *)
ReceiveGamma ==
  /\ pc = "gamma"
  /\ \/ /\ GammaFaults[Current] \cap {"raises", "none"} # {}
        /\ Block("GAMMA_MARKET_ID_NOT_FOUND")
     \/ /\ gamma' \in GammaRecords(Identified(Current))
        /\ pc' = "clob" /\ UNCHANGED <<attempt, waiting, settled, queue>>
  /\ UNCHANGED <<venue, overlay>>

ClobRecord(d, closed, winners) == [condition |-> d, closed |-> closed, winners |-> winners]

(* Outcomes flagged as winners: one when final, none before. *)
ClobRecords(c) ==
  LET shown == {c} \cup {d \in Conditions : "other" \in ClobFaults[c]}
  IN {ClobRecord(d, FALSE, {}) : d \in shown}
     \cup {ClobRecord(d, TRUE, {s \in Sides : phase[d] = "final" /\ s = winner[d]}) :
             d \in {x \in shown : Closed(c)}}
     \cup {ClobRecord(c, TRUE, Sides) : f \in ClobFaults[c] \cap {"both_win"}}
     \cup {ClobRecord(c, TRUE, {}) : f \in ClobFaults[c] \cap {"malformed"}}

(* _winner_from_clob_tokens: exactly one outcome is flagged. *)
OfficialWinner(clob) ==
  IF \E s \in Sides : clob.winners = {s} THEN CHOOSE s \in Sides : clob.winners = {s}
  ELSE Missing

(* Mutant: CLOB's condition is not compared. *)
BlockReasonWithoutClob(g, clob, c) ==
  IF g.id # Identified(c) THEN "GAMMA_MARKET_ID_MISMATCH"
  ELSE IF g.condition # c THEN "GAMMA_CONDITION_ID_MISMATCH"
  ELSE IF ~g.closed \/ ~clob.closed THEN "MARKET_NOT_FINAL"
  ELSE IF OfficialWinner(clob) # Missing THEN Missing
  ELSE "CLOB_WINNER_CARDINALITY_INVALID"

(* parse_polymarket_official_settlement: why it yields no winner, or Missing. *)
BlockReason(g, clob, c) ==
  IF g.id # Identified(c) THEN "GAMMA_MARKET_ID_MISMATCH"
  ELSE IF g.condition # c THEN "GAMMA_CONDITION_ID_MISMATCH"
  ELSE IF clob.condition # c THEN "CLOB_CONDITION_ID_MISMATCH"
  ELSE IF ~g.closed \/ ~clob.closed THEN "MARKET_NOT_FINAL"
  ELSE IF OfficialWinner(clob) # Missing THEN Missing
  ELSE "CLOB_WINNER_CARDINALITY_INVALID"

(* _settle_trade; the attempt is recorded by a transaction of its own. *)
SettleTrade(clob) ==
  /\ settled' = [settled EXCEPT ![Current] = OfficialWinner(clob)]
  /\ pc' = "record" /\ UNCHANGED <<attempt, waiting, queue, gamma>>

ReceiveClob ==
  /\ pc = "clob"
  /\ \/ /\ ClobFaults[Current] \cap {"raises", "none"} # {}
        /\ Block("CLOB_CONDITION_NOT_FOUND")
     \/ \E clob \in ClobRecords(Current) :
          LET reason == BlockReason(gamma, clob, Current)
          IN IF reason # Missing THEN Block(reason) ELSE SettleTrade(clob)
  /\ UNCHANGED <<venue, overlay>>

RecordSettled ==
  /\ pc = "record"
  /\ RecordAttempt("SETTLED") /\ UNCHANGED <<venue, overlay, settled>>

-----------------------------------------------------------------------------
(* The pass times out, or the process dies and is started again. *)
Abandon ==
  /\ pc # "idle"
  /\ pc' = "idle" /\ queue' = <<>> /\ gamma' = NoAnswer
  /\ UNCHANGED <<venue, tables>>

(* The process dies between the transaction that stores an overlay and the
   attempt's. *)
DieAfterOverlay ==
  /\ \/ /\ pc = "identity" /\ Current \in Legacy \cap InCorpus
        /\ SaveIdentityOverlayOnce(Current, Current)
     \/ pc = "metadata" /\ SaveIdentityOverlayOnce(Current, Current)
     \/ /\ pc = "metadata" /\ "malformed" \in MetadataAnswers(Current)
        /\ SaveIdentityOverlayOnce(Current, "BLOCKED")
  /\ pc' = "idle" /\ queue' = <<>> /\ gamma' = NoAnswer
  /\ UNCHANGED <<venue, attempt, waiting, settled>>

(* Time: the next attempt of a condition comes due. *)
ComeDue(c) ==
  /\ c \in waiting /\ waiting' = waiting \ {c}
  /\ UNCHANGED <<venue, overlay, attempt, settled, pc, queue, gamma>>

Following == [running |-> "ended", ended |-> "closed", closed |-> "final"]

Progress(c) ==
  /\ phase[c] # "final" /\ phase' = [phase EXCEPT ![c] = Following[@]]
  /\ UNCHANGED <<winner, tables, pc, queue, gamma>>

Pass ==
  \/ StartPass \/ EffectiveIdentity \/ ReceiveMetadata
  \/ ReceiveGamma \/ ReceiveClob \/ RecordSettled

Next == Pass \/ Abandon \/ DieAfterOverlay \/ \E c \in Conditions : ComeDue(c) \/ Progress(c)

Spec == Init /\ [][Next]_vars

(* The retry delays are longer than the cycles that give every condition that
   is due its turn. *)
ComesDue(c) == DueConditions = <<>> /\ ComeDue(c)

PatientNext ==
  Pass \/ Abandon \/ DieAfterOverlay \/ \E c \in Conditions : ComesDue(c) \/ Progress(c)

Identifies(c) == EffectiveIdentity /\ Current = c

(* The requests about c that settle it: both venues show its final market. *)
OwnGamma(c) == [id |-> c, condition |-> c, closed |-> TRUE]

GammaShowsFinal(c) ==
  /\ pc = "gamma" /\ Current = c /\ phase[c] = "final"
  /\ ReceiveGamma /\ gamma' = OwnGamma(c)

ClobShowsWinner(c) ==
  /\ pc = "clob" /\ Current = c /\ phase[c] = "final" /\ gamma = OwnGamma(c)
  /\ ReceiveClob /\ settled'[c] # Missing

(* Cycles follow one another, time passes and markets end.  What is asked
   again and again is answered truthfully some time, and no process dies or
   times out for ever in the middle of the same pass. *)
FairSpec ==
  /\ Init /\ [][PatientNext]_vars /\ WF_vars(Pass)
  /\ \A c \in Conditions :
       /\ WF_vars(ComesDue(c)) /\ WF_vars(Progress(c))
       /\ SF_vars(Identifies(c))
       /\ SF_vars(GammaShowsFinal(c)) /\ SF_vars(ClobShowsWinner(c))

-----------------------------------------------------------------------------
(* The venue and the tables hold what the program could hold (storage/paper.py
   paper_trade_identity_overlays and the attempts of conditions). *)
TypeOK ==
  /\ phase \in [Conditions -> {"running", "ended", "closed", "final"}]
  /\ winner \in [Conditions -> Sides]
  /\ overlay \in [Conditions -> Conditions \cup {Missing, "BLOCKED"}]
  /\ attempt \in [Conditions -> {Missing, "PENDING", "BLOCKED_RETRYABLE",
                                 "BLOCKED_PERMANENT", "SETTLED"}]
  /\ settled \in [Conditions -> Sides \cup {Missing}]
  /\ pc \in {"idle", "identity", "metadata", "gamma", "clob", "record"}

(* A trade is settled only once its own market is final and with that market's
   winner, whatever markets, conditions and half-final answers the two venues
   serve (parse_polymarket_official_settlement, _winner_from_clob_tokens). *)
SettledByOwnMarket ==
  \A c \in Conditions : settled[c] # Missing => phase[c] = "final" /\ settled[c] = winner[c]

(* The identity an overlay recovers is that of its own condition, although the
   metadata request may be answered with another market, and it is stored for
   good (_recover_identity_from_official_metadata). *)
RecoveredIdentityIsOwn ==
  \A c \in Conditions : overlay[c] \in {Missing, "BLOCKED", c}

ResultStands ==
  \A c \in Conditions :
    /\ settled[c] # Missing => settled'[c] = settled[c]
    /\ overlay[c] # Missing => overlay'[c] = overlay[c]

(* A settlement and a recovered identity are for good: no later pass, answer
   or restart replaces them (save_settlement_once, save_identity_overlay_once). *)
ResultsStand == [][ResultStands]_vars

(* Failing requests and late answers only delay a settlement: a trade whose
   market becomes final is settled (_attempt_state_for_reason, _next_attempt_at). *)
EveryTradeSettles == \A c \in Conditions : <>(settled[c] # Missing)

(* A legacy condition whose identity cannot be had does not keep the others
   from being settled (run_once). *)
LaterConditionNotStarved == \A c \in Conditions \ Legacy : <>(settled[c] # Missing)
=============================================================================
