---------------------------- MODULE RouterClaims ----------------------------
(***************************************************************************)
(* Concurrent routers over a claim store with compare-and-set, the         *)
(* protocol docs/09-STRATEGY-ROUTER.md gives route_opportunities and       *)
(* reconcile_claim: a router reads the snapshot, decides on what it read   *)
(* at its own time, and the store accepts the claim only if the revision   *)
(* has not moved (scripts/vps_router_smoke.py persists revision + 1).  A   *)
(* router may be overtaken, or die, between its decision and its commit.   *)
(***************************************************************************)
EXTENDS Router

CONSTANTS
  Routers,
  Opportunities,     \* candidates that may be offered (records, see Router)
  Bankroll,          \* available_capital
  Priority,          \* strategy -> index in policy.strategy_priority
  Dual40Enabled,     \* policy.dual40_research_enabled
  Unresolved,        \* snapshot.unresolved_structural_conditions
  MaxNow,            \* bound of the clock
  None

Candidates == {i.candidate_id : i \in Opportunities}
Conditions == {i.condition_id : i \in Opportunities}
Tokens == UNION {i.token_ids : i \in Opportunities}

ASSUME ClaimConstants ==
  /\ \A i \in Opportunities : /\ i.token_ids # {}
                              /\ i.required_capital \in Nat \ {0}
                              /\ i.expires_at \in Nat
  /\ \A i, j \in Opportunities : i.candidate_id = j.candidate_id => i = j
  /\ Bankroll \in Nat /\ MaxNow \in Nat /\ Dual40Enabled \in BOOLEAN

Claim == [candidate_id : Candidates, condition_id : Conditions,
          token_ids : (SUBSET Tokens) \ {{}}, reserved_capital : Nat \ {0},
          created_at : Nat, expires_at : Nat,
          status : {"ACTIVE", "RECONCILED"}, reconciled_at : Nat]

ASSUME NoneIsNoDecision == None \notin [revision : Nat, claims : SUBSET Claim]

VARIABLES
  revision,   \* revision of the stored snapshot
  claims,     \* stored claims
  decision,   \* Routers -> None or [revision read, claims to be stored]
  now

vars == <<revision, claims, decision, now>>

Snapshot == [claims |-> claims, unresolved |-> Unresolved]

Init ==
  /\ revision = 0
  /\ claims = {}
  /\ decision = [r \in Routers |-> None]
  /\ now = 0

(* route_opportunities on the current snapshot and the offered candidates. *)
Route(r, offered) ==
  LET claimable == Claimable(offered, Snapshot, Bankroll, Dual40Enabled, now) IN
  /\ decision[r] = None
  /\ \E item \in claimable :
       /\ Preferred(item, claimable, Priority)
       /\ decision' = [decision EXCEPT
            ![r] = [revision |-> revision, claims |-> claims \cup {ClaimFor(item, now)}]]
  /\ UNCHANGED <<revision, claims, now>>

(* reconcile_claim on the current snapshot, for a claim that is ACTIVE in it
   (for a reconciled one it returns the snapshot unchanged). *)
ReconcileClaim(r, c) ==
  /\ decision[r] = None
  /\ c \in Active(claims)
  /\ decision' = [decision EXCEPT
       ![r] = [revision |-> revision,
               claims |-> Reconciled(claims, c.candidate_id, now)]]
  /\ UNCHANGED <<revision, claims, now>>

\* Mutant: the store takes a decision on any revision.
LastWriterWins(r) ==
  /\ decision[r] # None
  /\ revision' = revision + 1
  /\ claims' = decision[r].claims
  /\ decision' = [decision EXCEPT ![r] = None]
  /\ UNCHANGED now

(* The store's compare-and-set: expected_revision must still be current. *)
CompareAndSet(r) ==
  /\ decision[r] # None
  /\ decision[r].revision = revision
  /\ revision' = revision + 1
  /\ claims' = decision[r].claims
  /\ decision' = [decision EXCEPT ![r] = None]
  /\ UNCHANGED now

(* The store refuses a stale writer, or the router dies before it writes. *)
Abandon(r) ==
  /\ decision[r] # None
  /\ decision' = [decision EXCEPT ![r] = None]
  /\ UNCHANGED <<revision, claims, now>>

Tick ==
  /\ now < MaxNow
  /\ now' = now + 1
  /\ UNCHANGED <<revision, claims, decision>>

Next ==
  \/ \E r \in Routers :
       \/ \E offered \in SUBSET Opportunities : Route(r, offered)
       \/ \E c \in claims : ReconcileClaim(r, c)
       \/ CompareAndSet(r)
       \/ Abandon(r)
  \/ Tick

Spec == Init /\ [][Next]_vars

-----------------------------------------------------------------------------
TypeOK ==
  /\ revision \in Nat
  /\ claims \subseteq Claim
  /\ decision \in [Routers -> [revision : Nat, claims : SUBSET Claim] \cup {None}]
  /\ now \in 0..MaxNow

Disjoint(C) ==
  \A c, d \in Active(C) : c # d =>
    c.condition_id # d.condition_id /\ c.token_ids \cap d.token_ids = {}

ClaimedOnce(C) == \A c, d \in C : c.candidate_id = d.candidate_id => c = d

NoClaimPastExpiry(C) ==
  \A c, d \in C :
    /\ c.created_at <= d.created_at
    /\ c.status = "ACTIVE" \/ d.created_at < c.reconciled_at
    => d.created_at < c.expires_at

Extends(old, new) == \A c \in old : \E d \in new :
  /\ d.candidate_id = c.candidate_id
  /\ c.status = "RECONCILED" => d = c

(* Two different claims that are ACTIVE at once never reserve one condition
   or share a token, whatever the routers that proposed them had read. *)
ActiveClaimsAreDisjoint == Disjoint(claims)

(* A candidate is claimed at most once, ever: its id stays a duplicate after
   the claim is reconciled and after any restart. *)
CandidateClaimedOnce == ClaimedOnce(claims)

(* Expired claims do not release themselves: nothing was claimed while an
   unreconciled claim was past its expiry. *)
NothingClaimedPastExpiry == NoClaimPastExpiry(claims)

(* The store never forgets a claim and never reopens a reconciled one. *)
ClaimsNeverReopen == [][Extends(claims, claims')]_vars

-----------------------------------------------------------------------------
(* What makes the invariants inductive: stored times are past times, and a
   decision taken on the current revision would store a safe extension of the
   current claims.  Nothing is known of a decision on an older revision, and
   the compare-and-set never stores one. *)
SafeClaims(C, t) ==
  /\ C \subseteq Claim
  /\ Disjoint(C) /\ ClaimedOnce(C) /\ NoClaimPastExpiry(C)
  /\ \A c \in C : c.created_at <= t /\ c.reconciled_at <= t

DecisionsSound ==
  \A r \in Routers : decision[r] # None =>
    /\ decision[r].revision <= revision
    /\ decision[r].revision = revision =>
         SafeClaims(decision[r].claims, now) /\ Extends(claims, decision[r].claims)

IInv == TypeOK /\ SafeClaims(claims, now) /\ DecisionsSound
=============================================================================
