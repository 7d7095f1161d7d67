------------------------------- MODULE Router -------------------------------
(***************************************************************************)
(* router/engine.py as operators: which opportunity route_opportunities    *)
(* selects from a claim snapshot, the claim it proposes, and how           *)
(* reconcile_claim closes one.  The functions are pure; RouterClaims puts  *)
(* them behind a compare-and-set store and PaperDaemon calls them with the *)
(* snapshot the daemon builds.                                             *)
(*                                                                         *)
(* An opportunity is a record [candidate_id, strategy, condition_id,       *)
(* token_ids, required_capital, quality, expires_at].  "quality" is the    *)
(* candidate's place in the order (-score, -certainty, -net value, id), a  *)
(* total order because candidate ids are unique: smaller is better.        *)
(* A claim's claim_id and idempotency_key are functions of candidate_id.   *)
(***************************************************************************)
EXTENDS Integers, FiniteSets, FiniteSetsExt

Active(claims) == {c \in claims : c.status = "ACTIVE"}

\* Mutant: shared tokens are not looked at.
NoConflictIgnoringTokens(item, snapshot, dual40_research_enabled, now) ==
  /\ now < item.expires_at
  /\ item.strategy = "DUAL40" => dual40_research_enabled
  /\ \A c \in snapshot.claims : c.candidate_id # item.candidate_id
  /\ item.condition_id \notin snapshot.unresolved
  /\ \A c \in Active(snapshot.claims) : c.condition_id # item.condition_id

\* Mutant: only ACTIVE claims make a candidate a duplicate.
NoConflictForgettingReconciled(item, snapshot, dual40_research_enabled, now) ==
  /\ now < item.expires_at
  /\ item.strategy = "DUAL40" => dual40_research_enabled
  /\ item.condition_id \notin snapshot.unresolved
  /\ \A c \in Active(snapshot.claims) :
       /\ c.candidate_id # item.candidate_id
       /\ c.condition_id # item.condition_id
       /\ c.token_ids \cap item.token_ids = {}

(* _conflict_reason finds nothing: the candidate is not expired, not a disabled
   DUAL40, not a duplicate of any stored claim, and neither its condition nor a
   token of its is taken by an unresolved leg or an ACTIVE claim. *)
NoConflict(item, snapshot, dual40_research_enabled, now) ==
  /\ now < item.expires_at
  /\ item.strategy = "DUAL40" => dual40_research_enabled
  /\ \A c \in snapshot.claims : c.candidate_id # item.candidate_id
  /\ item.condition_id \notin snapshot.unresolved
  /\ \A c \in Active(snapshot.claims) : c.condition_id # item.condition_id
  /\ \A c \in Active(snapshot.claims) : c.token_ids \cap item.token_ids = {}

Eligible(items, snapshot, dual40_research_enabled, now) ==
  {i \in items : NoConflict(i, snapshot, dual40_research_enabled, now)}

ReservedCapital(claims) == MapThenSumSet(LAMBDA c : c.reserved_capital, Active(claims))

Funded(items, snapshot, available_capital) ==
  {i \in items : i.required_capital <= available_capital - ReservedCapital(snapshot.claims)}

\* Mutant: a claim counts as expired one tick late.
ReconciliationRequiredLate(snapshot, now) ==
  \E c \in Active(snapshot.claims) : c.expires_at < now

ReconciliationRequired(snapshot, now) ==
  \E c \in Active(snapshot.claims) : c.expires_at <= now

(* item is min() of items over (strategy priority, quality). *)
Preferred(item, items, priority) ==
  \A j \in items :
    \/ priority[item.strategy] < priority[j.strategy]
    \/ priority[item.strategy] = priority[j.strategy] /\ item.quality <= j.quality

(* The proposed claim; reconciled_at carries nothing until the claim closes. *)
ClaimFor(item, now) ==
  [candidate_id |-> item.candidate_id,
   condition_id |-> item.condition_id,
   token_ids |-> item.token_ids,
   reserved_capital |-> item.required_capital,
   created_at |-> now,
   expires_at |-> item.expires_at,
   status |-> "ACTIVE",
   reconciled_at |-> now]

(* The opportunities route_opportunities may choose from; empty when it
   returns no selection, for whichever reason. *)
Claimable(items, snapshot, available_capital, dual40_research_enabled, now) ==
  IF ReconciliationRequired(snapshot, now) THEN {}
  ELSE Funded(Eligible(items, snapshot, dual40_research_enabled, now),
              snapshot, available_capital)

(* reconcile_claim on the claims of a snapshot that holds candidate_id. *)
Reconciled(claims, candidate_id, reconciled_at) ==
  {IF c.candidate_id = candidate_id /\ c.status = "ACTIVE"
     THEN [c EXCEPT !.status = "RECONCILED", !.reconciled_at = reconciled_at]
     ELSE c : c \in claims}
=============================================================================
