--------------------------- MODULE MCShadowEvidence ---------------------------
(****************************************************************************)
(* What the daemon leaves on record, for TLC.  A behaviour is one of        *)
(*   evidence  two buckets, a shadow database whose lock is taken at any    *)
(*             attempt, and processes that die between any two writes       *)
(*             (ShadowEvidence);                                            *)
(*   venues    settlement passes over a legacy trade, the newest, and one   *)
(*             with a complete snapshot, every request failing in every way *)
(*             (OfficialIdentity);                                          *)
(*   patience  the same queue one condition a pass, the legacy one known to *)
(*             the corpus and the failures passing ones.                    *)
(****************************************************************************)
EXTENDS DaemonRecords, TLC

CONSTANTS btc, eth, legacy, complete

VARIABLE part

all_vars == <<part, vars, identity_vars>>

MCOrder == SetToSeq(Buckets)

MCRecency == <<legacy, complete>>

MCMetadataFaults == [c \in Conditions |-> {"raises", "none", "malformed", "other"}]

MCGammaFaults == [c \in Conditions |-> {"raises", "none", "other_id", "other_condition"}]

MCClobFaults == [c \in Conditions |-> {"raises", "none", "other", "both_win", "malformed"}]

Patience == INSTANCE OfficialIdentity WITH
  InCorpus <- {legacy}, MaxPerPass <- 1,
  MetadataFaults <- [c \in Conditions |-> {}],
  GammaFaults <- [c \in Conditions |-> {"raises", "none"}],
  ClobFaults <- [c \in Conditions |-> {"raises", "none", "both_win", "malformed"}],
  attempt <- condition_attempt, pc <- pass

ASSUME IdentityConstants == Identity!IdentityConstants /\ Patience!IdentityConstants

MCInit ==
  /\ part \in {"evidence", "venues", "patience"}
  /\ RecordsInit
  /\ part = "evidence" => winner = [c \in Conditions |-> "UP"]

Evidence(A) == part = "evidence" /\ A /\ UNCHANGED <<part, identity_vars>>

Settling(p, A) == part = p /\ A /\ UNCHANGED <<part, vars>>

MCNext ==
  \/ Evidence(Next)
  \/ Settling("venues", Identity!Next)
  \/ Settling("patience", Patience!PatientNext)

(* The fairness of each specification, in its own behaviours. *)
MCFairness ==
  /\ WF_all_vars(Evidence(Work))
  /\ WF_all_vars(Settling("patience", Patience!Pass))
  /\ \A c \in Conditions :
       /\ WF_all_vars(Settling("patience", Patience!ComesDue(c)))
       /\ WF_all_vars(Settling("patience", Patience!Progress(c)))
       /\ SF_all_vars(Settling("patience", Patience!Identifies(c)))
       /\ SF_all_vars(Settling("patience", Patience!GammaShowsFinal(c)))
       /\ SF_all_vars(Settling("patience", Patience!ClobShowsWinner(c)))

MCSpec == MCInit /\ [][MCNext]_all_vars /\ MCFairness

(* Failures that pass only delay a settlement (OfficialIdentity). *)
EveryTradeSettles == part = "patience" => Patience!EveryTradeSettles
=============================================================================
