-------------------------- MODULE MCOfficialIdentity --------------------------
(* OfficialIdentity for TLC: a legacy trade, the newest, whose metadata request
   may fail, and one with a complete snapshot behind it. *)
EXTENDS OfficialIdentity

CONSTANTS legacy, complete

MCRecency == <<legacy, complete>>

MCMetadataFails == [c \in Conditions |-> {"raises"}]

MCNoFaults == [c \in Conditions |-> {}]
=============================================================================
