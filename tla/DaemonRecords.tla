---------------------------- MODULE DaemonRecords ----------------------------
(***************************************************************************)
(* The two kinds of record the daemon keeps beside its trades: the         *)
(* evidence of its cycles (ShadowEvidence) and the official results of the *)
(* conditions it traded (OfficialIdentity).  They are in different         *)
(* databases and tables and no row of one refers to the other, so that     *)
(* either may be at any point when the other is: the composition           *)
(* interleaves them freely.                                                *)
(***************************************************************************)
EXTENDS ShadowEvidence

CONSTANTS
  Conditions, Recency, Legacy, InCorpus,
  MetadataFaults, GammaFaults, ClobFaults, MaxPerPass

VARIABLES
  phase, winner, overlay, condition_attempt, waiting, settled, pass, queue, gamma

identity_vars ==
  <<phase, winner, overlay, condition_attempt, waiting, settled, pass, queue, gamma>>

Identity == INSTANCE OfficialIdentity WITH attempt <- condition_attempt, pc <- pass

RecordsInit == Init /\ Identity!Init

RecordsNext ==
  \/ Next /\ UNCHANGED identity_vars
  \/ Identity!Next /\ UNCHANGED vars

RecordsSpec == RecordsInit /\ [][RecordsNext]_<<vars, identity_vars>>

(* A trade is settled only once its own market is final and with that market's
   winner, whatever markets, conditions and half-final answers the two venues
   serve (parse_polymarket_official_settlement, _winner_from_clob_tokens). *)
SettledByOwnMarket == Identity!SettledByOwnMarket
=============================================================================
