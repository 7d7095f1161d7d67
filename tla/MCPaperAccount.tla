---------------------------- MODULE MCPaperAccount ----------------------------
(***************************************************************************)
(* The account of MCPaperDaemon in two scenarios that a behaviour chooses  *)
(* between: directional trades on both buckets, the structural sets too    *)
(* dear for the account; or directional trades on one bucket that share    *)
(* the account with affordable sets on both.                               *)
(***************************************************************************)
EXTENDS MCPaperDaemon

VARIABLE scenario

Shared == INSTANCE PaperDaemon WITH
  StructuralCost <- 1, Promoted <- {"BTC-5m"}, MaxNow <- 2, Offers <- MCOneOffer

ASSUME SharedConstants == Shared!DaemonConstants

MCInit == Init /\ scenario \in {"directional", "shared"}

MCNext ==
  /\ \/ scenario = "directional" /\ Next
     \/ scenario = "shared" /\ Shared!Next
  /\ UNCHANGED scenario

MCSpec == MCInit /\ [][MCNext]_<<vars, scenario>>
=============================================================================
