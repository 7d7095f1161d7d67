------------------------- MODULE RouterClaimsProofs -------------------------
(***************************************************************************)
(* Proofs about AdmissionControl.  Claims: for any routers, candidates and *)
(* bankroll, no two ACTIVE claims overlap, a candidate is claimed once,    *)
(* nothing is claimed while an expired claim is unreconciled, and claims   *)
(* only close.  Portfolio: for any policy, stakes, ends and profits, the   *)
(* running windows stay within every limit and the account solvent.        *)
(***************************************************************************)
EXTENDS AdmissionControl, FiniteLemmas

(* What route_opportunities proposes from a safe snapshot is a safe extension
   of it: the conflict checks rule out every overlap the new claim could
   have. *)
LEMMA RoutedClaimIsSafe ==
  ASSUME TypeOK, SafeClaims(claims, now), NEW offered \in SUBSET Opportunities,
         NEW item \in Claimable(offered, Snapshot, Bankroll, Dual40Enabled, now)
  PROVE  /\ SafeClaims(claims \cup {ClaimFor(item, now)}, now)
         /\ Extends(claims, claims \cup {ClaimFor(item, now)})
<1> DEFINE n == ClaimFor(item, now)
           C == claims \cup {n}
<1>1. /\ item \in Opportunities
      /\ ~ReconciliationRequired(Snapshot, now)
      /\ NoConflict(item, Snapshot, Dual40Enabled, now)
  BY DEF Claimable, Funded, Eligible
<1>2. now \in Nat
  BY ClaimConstants DEF TypeOK, ClaimConstants
<1>3. n \in Claim
  <2>1. /\ item.candidate_id \in Candidates /\ item.condition_id \in Conditions
        /\ item.token_ids \in (SUBSET Tokens) \ {{}}
        /\ item.required_capital \in Nat \ {0} /\ item.expires_at \in Nat
    BY <1>1, ClaimConstants DEF ClaimConstants, Candidates, Conditions, Tokens
  <2> QED BY <1>2, <2>1 DEF ClaimFor, Claim
<1>4. /\ n.candidate_id = item.candidate_id /\ n.condition_id = item.condition_id
      /\ n.token_ids = item.token_ids /\ n.status = "ACTIVE"
      /\ n.created_at = now /\ n.reconciled_at = now /\ now < n.expires_at
  BY <1>1 DEF ClaimFor, NoConflict
<1>5. \A c \in claims :
        /\ c \in Claim /\ c.created_at <= now /\ c.reconciled_at <= now
        /\ c.candidate_id # item.candidate_id
        /\ c.status = "ACTIVE" =>
             /\ c.condition_id # item.condition_id
             /\ c.token_ids \cap item.token_ids = {}
             /\ now < c.expires_at
  <2>1. ASSUME NEW c \in claims, c.status = "ACTIVE"
        PROVE  /\ c.condition_id # item.condition_id
               /\ c.token_ids \cap item.token_ids = {}
               /\ ~(c.expires_at <= now)
    BY <1>1, <2>1 DEF NoConflict, ReconciliationRequired, Active, Snapshot
  <2>2. \A c \in claims : c \in Claim /\ c.expires_at \in Nat
    BY DEF SafeClaims, Claim
  <2> QED BY <1>1, <1>2, <2>1, <2>2 DEF NoConflict, Snapshot, SafeClaims
<1> HIDE DEF n
<1>6. Disjoint(C)
  <2> SUFFICES ASSUME NEW c \in C, NEW d \in C, c.status = "ACTIVE", d.status = "ACTIVE", c # d
               PROVE  c.condition_id # d.condition_id /\ c.token_ids \cap d.token_ids = {}
    BY DEF Disjoint, Active
  <2>1. CASE c \in claims /\ d \in claims
    BY <2>1 DEF SafeClaims, Disjoint, Active
  <2>2. CASE c = n /\ d \in claims
    BY <1>4, <1>5, <2>2
  <2>3. CASE c \in claims /\ d = n
    BY <1>4, <1>5, <2>3
  <2> QED BY <2>1, <2>2, <2>3
<1>7. ClaimedOnce(C)
  BY <1>4, <1>5 DEF ClaimedOnce, SafeClaims
<1>8. NoClaimPastExpiry(C)
  <2> SUFFICES ASSUME NEW c \in C, NEW d \in C, c.created_at <= d.created_at,
                      c.status = "ACTIVE" \/ d.created_at < c.reconciled_at
               PROVE  d.created_at < c.expires_at
    BY DEF NoClaimPastExpiry
  <2>0. \A x \in C : x.created_at \in Nat /\ x.reconciled_at \in Nat /\ x.expires_at \in Nat
    BY <1>3, <1>5 DEF Claim
  <2>1. CASE c \in claims /\ d \in claims
    BY <2>1 DEF SafeClaims, NoClaimPastExpiry
  <2>2. CASE c = n
    BY <1>2, <1>4, <1>5, <2>0, <2>2
  <2>3. CASE c \in claims /\ d = n
    BY <1>2, <1>4, <1>5, <2>0, <2>3
  <2> QED BY <2>1, <2>2, <2>3
<1>9. \A c \in C : c.created_at <= now /\ c.reconciled_at <= now
  BY <1>2, <1>4, <1>5
<1>10. Extends(claims, C)
  BY DEF Extends
<1> QED BY <1>3, <1>6, <1>7, <1>8, <1>9, <1>10 DEF SafeClaims, n

(* reconcile_claim closes one ACTIVE claim of a safe snapshot and leaves it
   safe. *)
LEMMA ReconciledClaimsAreSafe ==
  ASSUME TypeOK, SafeClaims(claims, now), NEW x \in Active(claims)
  PROVE  /\ SafeClaims(Reconciled(claims, x.candidate_id, now), now)
         /\ Extends(claims, Reconciled(claims, x.candidate_id, now))
<1> DEFINE close(c) == IF c.candidate_id = x.candidate_id /\ c.status = "ACTIVE"
                       THEN [c EXCEPT !.status = "RECONCILED", !.reconciled_at = now]
                       ELSE c
           C == Reconciled(claims, x.candidate_id, now)
<1>1. now \in Nat
  BY ClaimConstants DEF TypeOK, ClaimConstants
<1>2. \A d \in C : \E c \in claims : d = close(c)
  BY DEF Reconciled
<1>3. ASSUME NEW c \in claims
      PROVE  /\ close(c) \in Claim /\ close(c) \in C
             /\ close(c).candidate_id = c.candidate_id
             /\ close(c).condition_id = c.condition_id
             /\ close(c).token_ids = c.token_ids
             /\ close(c).created_at = c.created_at
             /\ close(c).expires_at = c.expires_at
             /\ close(c).status = "ACTIVE" => close(c) = c
             /\ close(c) = c \/ (c.status = "ACTIVE" /\ close(c).reconciled_at = now)
             /\ c.status = "RECONCILED" => close(c) = c
  <2>1. c \in Claim
    BY DEF SafeClaims
  <2> QED BY <1>1, <2>1 DEF Claim, Reconciled
<1> HIDE DEF close
<1>4. C \subseteq Claim
  BY <1>2, <1>3
<1>5. Disjoint(C)
  <2> SUFFICES ASSUME NEW c \in claims, NEW d \in claims,
                      close(c).status = "ACTIVE", close(d).status = "ACTIVE",
                      close(c) # close(d)
               PROVE  /\ close(c).condition_id # close(d).condition_id
                      /\ close(c).token_ids \cap close(d).token_ids = {}
    BY <1>2 DEF Disjoint, Active
  <2>1. close(c) = c /\ close(d) = d
    BY <1>3
  <2> QED BY <2>1 DEF SafeClaims, Disjoint, Active
<1>6. ClaimedOnce(C)
  <2> SUFFICES ASSUME NEW c \in claims, NEW d \in claims,
                      close(c).candidate_id = close(d).candidate_id
               PROVE  close(c) = close(d)
    BY <1>2 DEF ClaimedOnce
  <2>1. c.candidate_id = d.candidate_id
    BY <1>3
  <2> QED BY <2>1 DEF SafeClaims, ClaimedOnce
<1>7. NoClaimPastExpiry(C)
  <2> SUFFICES ASSUME NEW c \in claims, NEW d \in claims,
                      close(c).created_at <= close(d).created_at,
                      \/ close(c).status = "ACTIVE"
                      \/ close(d).created_at < close(c).reconciled_at
               PROVE  close(d).created_at < close(c).expires_at
    BY <1>2 DEF NoClaimPastExpiry
  <2>1. c.created_at <= d.created_at
    BY <1>3
  <2>2. c.status = "ACTIVE" \/ d.created_at < c.reconciled_at
    BY <1>3
  <2>3. d.created_at < c.expires_at
    BY <2>1, <2>2 DEF SafeClaims, NoClaimPastExpiry
  <2> QED BY <1>3, <2>3
<1>8. \A d \in C : d.created_at <= now /\ d.reconciled_at <= now
  <2> SUFFICES ASSUME NEW c \in claims
               PROVE  close(c).created_at <= now /\ close(c).reconciled_at <= now
    BY <1>2
  <2> QED BY <1>1, <1>3 DEF SafeClaims
<1>9. Extends(claims, C)
  BY <1>3 DEF Extends
<1> QED BY <1>4, <1>5, <1>6, <1>7, <1>8, <1>9 DEF SafeClaims

(* Initially there are no claims and no decisions. *)
THEOREM InitIInv == Init => IInv
<1> SUFFICES ASSUME Init PROVE IInv
  OBVIOUS
<1>1. TypeOK
  BY ClaimConstants DEF Init, TypeOK, ClaimConstants
<1>2. SafeClaims(claims, now)
  BY DEF Init, SafeClaims, Disjoint, Active, ClaimedOnce, NoClaimPastExpiry
<1>3. DecisionsSound
  BY DEF Init, DecisionsSound
<1> QED BY <1>1, <1>2, <1>3 DEF IInv

(* A decision is sound when it is taken, stays sound while the revision does
   not move, and says nothing once it does; the compare-and-set stores only
   sound ones. *)
THEOREM NextIInv == IInv /\ [Next]_vars => IInv'
<1> SUFFICES ASSUME IInv, [Next]_vars PROVE IInv'
  OBVIOUS
<1> USE DEF IInv
<1>0. revision \in Nat
  BY DEF TypeOK
<1>1. ASSUME NEW r \in Routers, NEW C, SafeClaims(C, now), Extends(claims, C),
             decision' = [decision EXCEPT ![r] = [revision |-> revision, claims |-> C]],
             UNCHANGED <<revision, claims, now>>
      PROVE  IInv'
  <2>1. C \in SUBSET Claim
    BY <1>1 DEF SafeClaims
  <2>2. TypeOK'
    BY <1>0, <1>1, <2>1 DEF TypeOK
  <2>3. SafeClaims(claims, now)'
    BY <1>1 DEF SafeClaims
  <2>4. SafeClaims(C, now')
    BY <1>1 DEF SafeClaims
  <2>5. DecisionsSound'
    <3> SUFFICES ASSUME NEW q \in Routers, decision'[q] # None
                 PROVE  /\ decision'[q].revision <= revision
                        /\ decision'[q].revision = revision =>
                             /\ SafeClaims(decision'[q].claims, now')
                             /\ Extends(claims, decision'[q].claims)
      BY <1>1 DEF DecisionsSound, SafeClaims
    <3>1. CASE q = r
      <4>1. decision'[q] = [revision |-> revision, claims |-> C]
        BY <1>1, <3>1 DEF TypeOK
      <4> QED BY <1>0, <1>1, <2>4, <4>1
    <3>2. CASE q # r
      <4>1. decision'[q] = decision[q]
        BY <1>1, <3>2 DEF TypeOK
      <4> QED BY <1>1, <4>1 DEF DecisionsSound
    <3> QED BY <3>1, <3>2
  <2> QED BY <2>2, <2>3, <2>5
<1>2. ASSUME NEW r \in Routers, NEW offered \in SUBSET Opportunities, Route(r, offered)
      PROVE  IInv'
  <2>1. PICK item \in Claimable(offered, Snapshot, Bankroll, Dual40Enabled, now) :
          decision' = [decision EXCEPT
            ![r] = [revision |-> revision, claims |-> claims \cup {ClaimFor(item, now)}]]
    BY <1>2 DEF Route
  <2>2. /\ SafeClaims(claims \cup {ClaimFor(item, now)}, now)
        /\ Extends(claims, claims \cup {ClaimFor(item, now)})
    BY RoutedClaimIsSafe
  <2> QED BY <1>1, <1>2, <2>1, <2>2 DEF Route
<1>3. ASSUME NEW r \in Routers, NEW c \in claims, ReconcileClaim(r, c)
      PROVE  IInv'
  <2>1. /\ SafeClaims(Reconciled(claims, c.candidate_id, now), now)
        /\ Extends(claims, Reconciled(claims, c.candidate_id, now))
    BY <1>3, ReconciledClaimsAreSafe DEF ReconcileClaim
  <2> QED BY <1>1, <1>3, <2>1 DEF ReconcileClaim
<1>4. ASSUME NEW r \in Routers, CompareAndSet(r)
      PROVE  IInv'
  <2>1. SafeClaims(decision[r].claims, now)
    BY <1>4 DEF CompareAndSet, DecisionsSound
  <2>2. SafeClaims(claims, now)'
    BY <1>4, <2>1 DEF CompareAndSet, SafeClaims
  <2>3. TypeOK'
    BY <1>0, <1>4, <2>1 DEF CompareAndSet, TypeOK, SafeClaims
  <2>4. DecisionsSound'
    <3> SUFFICES ASSUME NEW q \in Routers, decision'[q] # None
                 PROVE  decision'[q].revision <= revision' /\ decision'[q].revision # revision'
      BY DEF DecisionsSound
    <3>1. decision'[q] = decision[q] /\ revision' = revision + 1
      BY <1>4 DEF CompareAndSet, TypeOK
    <3>2. decision[q].revision \in Nat /\ decision[q].revision <= revision
      BY <3>1 DEF DecisionsSound, TypeOK
    <3> QED BY <1>0, <3>1, <3>2
  <2> QED BY <2>2, <2>3, <2>4
<1>5. ASSUME NEW r \in Routers, Abandon(r)
      PROVE  IInv'
  <2>1. TypeOK' /\ SafeClaims(claims, now)'
    BY <1>5 DEF Abandon, TypeOK, SafeClaims
  <2>2. DecisionsSound'
    <3> SUFFICES ASSUME NEW q \in Routers, decision'[q] # None
                 PROVE  decision'[q] = decision[q]
      BY <1>5 DEF Abandon, DecisionsSound, SafeClaims
    <3> QED BY <1>5 DEF Abandon, TypeOK
  <2> QED BY <2>1, <2>2
<1>6. CASE Tick
  <2>1. /\ now \in Nat /\ now' = now + 1 /\ now' \in 0..MaxNow
        /\ UNCHANGED <<revision, claims, decision>>
    BY <1>6, ClaimConstants DEF Tick, TypeOK, ClaimConstants
  <2>2. ASSUME NEW C, SafeClaims(C, now) PROVE SafeClaims(C, now')
    <3>1. \A c \in C : c.created_at \in Nat /\ c.reconciled_at \in Nat
      BY <2>2 DEF SafeClaims, Claim
    <3> QED BY <2>1, <2>2, <3>1 DEF SafeClaims
  <2>3. TypeOK'
    BY <2>1 DEF TypeOK
  <2>4. SafeClaims(claims, now)'
    BY <2>1, <2>2 DEF SafeClaims
  <2>5. DecisionsSound'
    <3> SUFFICES ASSUME NEW q \in Routers, decision[q] # None
                 PROVE  /\ decision[q].revision <= revision
                        /\ decision[q].revision = revision =>
                             /\ SafeClaims(decision[q].claims, now')
                             /\ Extends(claims, decision[q].claims)
      BY <2>1 DEF DecisionsSound, SafeClaims
    <3>1. decision[q].revision = revision => SafeClaims(decision[q].claims, now)
      BY DEF DecisionsSound
    <3>2. ASSUME decision[q].revision = revision PROVE SafeClaims(decision[q].claims, now')
      <4>1. SafeClaims(decision[q].claims, now)
        BY <3>1, <3>2
      <4>2. \A c \in decision[q].claims : c.created_at \in Nat /\ c.reconciled_at \in Nat
        BY <4>1 DEF SafeClaims, Claim
      <4> QED BY <2>1, <4>1, <4>2 DEF SafeClaims
    <3> QED BY <3>2 DEF DecisionsSound
  <2> QED BY <2>3, <2>4, <2>5
<1>7. CASE UNCHANGED vars
  BY <1>7 DEF vars, TypeOK, SafeClaims, DecisionsSound
<1> QED BY <1>2, <1>3, <1>4, <1>5, <1>6, <1>7 DEF Next

(* The inductive invariant holds of every behaviour. *)
THEOREM Invariance == Spec => []IInv
BY InitIInv, NextIInv, PTL DEF Spec

(* The claim store and the decisions in flight keep their types. *)
THEOREM TypeCorrect == Spec => []TypeOK
BY Invariance, PTL DEF IInv

(* However many routers race, route_opportunities behind the compare-and-set
   never reserves a condition or a token twice at a time. *)
THEOREM ActiveClaimsDisjoint == Spec => []ActiveClaimsAreDisjoint
<1>1. IInv => ActiveClaimsAreDisjoint
  BY DEF IInv, SafeClaims, ActiveClaimsAreDisjoint
<1> QED BY <1>1, Invariance, PTL

(* A candidate id is a duplicate forever after its first claim. *)
THEOREM ClaimedAtMostOnce == Spec => []CandidateClaimedOnce
<1>1. IInv => CandidateClaimedOnce
  BY DEF IInv, SafeClaims, CandidateClaimedOnce
<1> QED BY <1>1, Invariance, PTL

(* An expired claim stops all routing until reconcile_claim closes it. *)
THEOREM ExpiredClaimsBlock == Spec => []NothingClaimedPastExpiry
<1>1. IInv => NothingClaimedPastExpiry
  BY DEF IInv, SafeClaims, NothingClaimedPastExpiry
<1> QED BY <1>1, Invariance, PTL

(* Every step keeps each claim, and a reconciled one unchanged. *)
THEOREM ClaimsStayClosed == Spec => ClaimsNeverReopen
<1>1. IInv /\ Next => Extends(claims, claims')
  <2> SUFFICES ASSUME IInv, Next PROVE Extends(claims, claims')
    OBVIOUS
  <2>1. ASSUME NEW r \in Routers, CompareAndSet(r) PROVE Extends(claims, claims')
    BY <2>1 DEF IInv, DecisionsSound, CompareAndSet
  <2>2. CASE UNCHANGED claims
    BY <2>2 DEF Extends
  <2> QED BY <2>1, <2>2 DEF Next, Route, ReconcileClaim, Abandon, Tick
<1>2. IInv /\ [Next]_vars => [Extends(claims, claims')]_vars
  BY <1>1
<1> QED BY <1>2, Invariance, PTL DEF Spec, ClaimsNeverReopen

-----------------------------------------------------------------------------
(* The portfolio. *)

(* The library's operators, as the instance of RiskPortfolio sees them. *)
LEMMA SameFinite == \A S : Risk!IsFiniteSet(S) <=> IsFiniteSet(S)
BY DEF Risk!IsFiniteSet, IsFiniteSet

(* So do they count, *)
LEMMA SameCardinality == \A S : Risk!Cardinality(S) = Cardinality(S)
BY DEF Risk!Cardinality, Cardinality

(* and add. *)
LEMMA SameSum == \A f : Risk!SumFunction(f) = SumFunction(f)
<1> TAKE f
<1>1. Risk!SumFunctionOnSet(f, DOMAIN f) = Partial(f, DOMAIN f)[DOMAIN f]
  BY DEF Risk!SumFunctionOnSet, Risk!FoldFunctionOnSet, Risk!MapThenFoldSet,
         Partial, SumsUp, Unfolded, Some
<1> QED BY <1>1, SumIsPartial DEF Risk!SumFunction, SumFunction

(* Sums of capital. *)
LEMMA CapitalTyped ==
  ASSUME NEW S, IsFiniteSet(S), \A x \in S : x.capital_at_risk \in Nat
  PROVE  Risk!CapitalAtRisk(S) \in Nat
<1>1. [x \in S |-> x.capital_at_risk] \in [S -> Nat]
  OBVIOUS
<1> QED BY SameSum, <1>1, SumFunctionTyped DEF Risk!CapitalAtRisk

(* Nothing is at risk without exposures. *)
LEMMA CapitalOfNothing == Risk!CapitalAtRisk({}) = 0
BY SameSum, SumFunctionOfNothing DEF Risk!CapitalAtRisk

(* Fewer exposures have less at risk. *)
LEMMA CapitalOfFewer ==
  ASSUME NEW S, IsFiniteSet(S), \A x \in S : x.capital_at_risk \in Nat, NEW R \in SUBSET S
  PROVE  Risk!CapitalAtRisk(R) <= Risk!CapitalAtRisk(S)
<1> DEFINE f == [x \in R |-> x.capital_at_risk]
           g == [x \in S |-> x.capital_at_risk]
<1>1. f \in [R -> Nat] /\ g \in [S -> Nat] /\ \A y \in R : f[y] = g[y]
  OBVIOUS
<1> HIDE DEF f, g
<1>2. SumFunction(f) <= SumFunction(g)
  BY <1>1, SumFunctionOfFewer
<1> QED BY SameSum, <1>2 DEF Risk!CapitalAtRisk, f, g

(* One more exposure adds its capital. *)
LEMMA CapitalOfOneMore ==
  ASSUME NEW S, IsFiniteSet(S), \A x \in S : x.capital_at_risk \in Nat,
         NEW n, n \notin S, n.capital_at_risk \in Nat
  PROVE  Risk!CapitalAtRisk(S \cup {n}) = Risk!CapitalAtRisk(S) + n.capital_at_risk
<1> DEFINE R == S \cup {n}
           f == [x \in S |-> x.capital_at_risk]
           g == [x \in R |-> x.capital_at_risk]
<1>1. f \in [S -> Int] /\ g \in [R -> Int] /\ \A y \in S : f[y] = g[y]
  OBVIOUS
<1>2. g[n] = n.capital_at_risk
  OBVIOUS
<1> HIDE DEF f, g
<1>3. SumFunction(g) = SumFunction(f) + g[n]
  BY <1>1, SumFunctionAdd
<1> QED BY SameSum, <1>2, <1>3 DEF Risk!CapitalAtRisk, f, g

(* One exposure less frees its capital. *)
LEMMA CapitalWithout ==
  ASSUME NEW S, IsFiniteSet(S), \A x \in S : x.capital_at_risk \in Nat, NEW n \in S
  PROVE  Risk!CapitalAtRisk(S) = Risk!CapitalAtRisk(S \ {n}) + n.capital_at_risk
<1>1. IsFiniteSet(S \ {n}) /\ (S \ {n}) \cup {n} = S
  BY FS_RemoveElement
<1> QED BY <1>1, CapitalOfOneMore

(* A subset of the exposures is finite, and what it has at risk is a number. *)
LEMMA SomeExposures ==
  ASSUME NEW S, IsFiniteSet(S), \A x \in S : x.capital_at_risk \in Nat, NEW R \in SUBSET S
  PROVE  /\ IsFiniteSet(R) /\ \A x \in R : x.capital_at_risk \in Nat
         /\ Risk!CapitalAtRisk(R) \in Nat /\ Risk!CapitalAtRisk(R) <= Risk!CapitalAtRisk(S)
         /\ Cardinality(R) \in Nat /\ Cardinality(R) <= Cardinality(S)
<1>1. IsFiniteSet(R) /\ \A x \in R : x.capital_at_risk \in Nat
  BY FS_Subset
<1> QED BY <1>1, CapitalTyped, CapitalOfFewer, FS_Subset, FS_CardinalityType

(* A limit of assess_candidate: some entries, of a state that leaves none of them out, and
   the new one. *)
LEMMA OneMoreWithin ==
  ASSUME NEW S, IsFiniteSet(S), \A x \in S : x.capital_at_risk \in Nat, NEW R \in SUBSET S,
         NEW n, n \notin R, NEW stake \in Nat, n.capital_at_risk = stake, NEW limit \in Nat
  PROVE  /\ IsFiniteSet(R \cup {n})
         /\ ~(Risk!CapitalAtRisk(S) + stake > limit) => Risk!CapitalAtRisk(R \cup {n}) <= limit
         /\ ~(Cardinality(S) >= limit) => Cardinality(R \cup {n}) <= limit
<1>1. /\ IsFiniteSet(R) /\ \A x \in R : x.capital_at_risk \in Nat
      /\ Risk!CapitalAtRisk(R) \in Nat /\ Risk!CapitalAtRisk(R) <= Risk!CapitalAtRisk(S)
      /\ Cardinality(R) \in Nat /\ Cardinality(R) <= Cardinality(S)
  BY SomeExposures
<1>2. Risk!CapitalAtRisk(R \cup {n}) = Risk!CapitalAtRisk(R) + stake
  BY <1>1, CapitalOfOneMore
<1>3. IsFiniteSet(R \cup {n}) /\ Cardinality(R \cup {n}) = Cardinality(R) + 1
  BY <1>1, FS_AddElement
<1>4. Risk!CapitalAtRisk(S) \in Nat /\ Cardinality(S) \in Nat
  BY CapitalTyped, FS_CardinalityType
<1> QED BY <1>1, <1>2, <1>3, <1>4

-----------------------------------------------------------------------------
(* What the engine saw when it approved. *)
LEMMA ApprovedSaw ==
  ASSUME NEW candidate, NEW asset, NEW horizon, NEW book, NEW state, NEW at,
         Risk!Approved(candidate, asset, horizon, book, state, Policy, at)
  PROVE  LET active == Risk!ActiveExposures(state, at)
             same == {x \in active : x.asset = asset}
             alike == {x \in active : x.horizon = horizon}
             stake == candidate.required_capital
         IN /\ state.exposures # None /\ ~(stake > state.bankroll_available)
            /\ ~(Cardinality(active) >= Policy.maximum_positions)
            /\ ~(Risk!CapitalAtRisk(active) + stake > Policy.maximum_total_exposure)
            /\ ~(Risk!CapitalAtRisk(same) + stake > Policy.maximum_per_asset_exposure)
            /\ ~(Risk!CapitalAtRisk(alike) + stake > Policy.maximum_per_horizon_exposure)
            /\ ~(Cardinality(same) >= Policy.maximum_overlapping_positions_per_asset)
<1> DEFINE reasons == Risk!DenialReasons(candidate, asset, horizon, book, state, Policy, at)
           gates == Risk!PortfolioReasons(candidate, asset, horizon, state, Policy, at)
<1>1. reasons = {}
  BY DEF Risk!Approved
<1>2. ~Risk!Incomplete(state)
  <2>1. "PORTFOLIO_STATE_INCOMPLETE" \notin reasons
    BY <1>1
  <2> QED BY <2>1 DEF Risk!DenialReasons
<1>3. gates = {}
  BY <1>1, <1>2 DEF Risk!DenialReasons
<1>4. /\ "MAXIMUM_POSITIONS" \notin gates /\ "INSUFFICIENT_BANKROLL" \notin gates
      /\ "TOTAL_EXPOSURE_LIMIT" \notin gates /\ "ASSET_EXPOSURE_LIMIT" \notin gates
      /\ "HORIZON_EXPOSURE_LIMIT" \notin gates /\ "OVERLAPPING_ASSET_LIMIT" \notin gates
  BY <1>3
<1>5. state.exposures # None
  BY <1>2 DEF Risk!Incomplete
<1> HIDE DEF reasons
<1> QED BY SameCardinality, <1>4, <1>5 DEF Risk!PortfolioReasons

-----------------------------------------------------------------------------
(* The initial states satisfy the inductive invariant: no entry and all the equity. *)
THEOREM RiskInit == ASSUME Risk!PortfolioConstants PROVE Risk!Init => Risk!IInv
<1> SUFFICES ASSUME Risk!Init PROVE Risk!IInv
  OBVIOUS
<1>1. exposures = {} /\ Risk!Running = {} /\ IsFiniteSet({}) /\ Cardinality({}) = 0
  BY FS_EmptySet DEF Risk!Init, Risk!Running
<1>2. Risk!TypeOK
  BY SameFinite, <1>1 DEF Risk!Init, Risk!TypeOK
<1>3. Risk!Raw = Equity /\ Equity \in Nat
  BY <1>1, CapitalOfNothing DEF Risk!Raw, Risk!Init, Risk!PortfolioConstants
<1>4. Risk!RunningWindowsWithinLimits
  BY SameCardinality, <1>1, CapitalOfNothing
     DEF Risk!RunningWindowsWithinLimits, Risk!PortfolioConstants
<1>5. Risk!HeldIsCautious
  BY DEF Risk!Init, Risk!HeldIsCautious
<1> QED BY <1>2, <1>3, <1>4, <1>5 DEF Risk!IInv, Risk!SolventWhateverSettles

(* Numbers in every typed state. *)
LEMMA RiskNumbers ==
  ASSUME Risk!PortfolioConstants, Risk!TypeOK
  PROVE  /\ IsFiniteSet(exposures) /\ \A x \in exposures : x.capital_at_risk \in Nat
         /\ Risk!CapitalAtRisk(exposures) \in Nat /\ Risk!Raw \in Int
         /\ Risk!Raw = Equity + pnl - Risk!CapitalAtRisk(exposures)
<1>1. IsFiniteSet(exposures) /\ \A x \in exposures : x.capital_at_risk \in Nat
  BY SameFinite DEF Risk!TypeOK, Risk!Exposure, Risk!PortfolioConstants
<1>2. Risk!CapitalAtRisk(exposures) \in Nat
  BY <1>1, CapitalTyped
<1>3. Equity \in Nat /\ pnl \in Int
  BY DEF Risk!TypeOK, Risk!PortfolioConstants
<1> QED BY <1>1, <1>2, <1>3 DEF Risk!Raw

(* The state taken from the ledger is the one there is. *)
LEMMA TakeStateKeepsIInv ==
  ASSUME Risk!PortfolioConstants, Risk!IInv, Risk!TakeState
  PROVE  Risk!IInv'
<1>1. UNCHANGED <<exposures, entries, pnl, losses, settled_at, risk_now>>
  BY DEF Risk!TakeState
<1>2. /\ Risk!TypeOK' /\ Risk!RunningWindowsWithinLimits' /\ Risk!SolventWhateverSettles'
      /\ Risk!Raw' = Risk!Raw
  BY <1>1
     DEF Risk!IInv, Risk!TypeOK, Risk!Exposure, Risk!RunningWindowsWithinLimits,
         Risk!Running, Risk!CapitalWhere,
              Risk!SolventWhateverSettles, Risk!Raw
<1>3. /\ held'.exposures = None \/ held'.exposures = exposures
      /\ held'.bankroll_available = Risk!Raw
  BY DEF Risk!TakeState, Risk!LedgerState
<1> QED BY SameFinite, <1>1, <1>2, <1>3, RiskNumbers DEF Risk!IInv, Risk!HeldIsCautious

(* A caller that gives up leaves the portfolio alone. *)
LEMMA GiveUpKeepsIInv ==
  ASSUME Risk!PortfolioConstants, Risk!IInv, Risk!GiveUp
  PROVE  Risk!IInv'
<1>1. UNCHANGED <<exposures, entries, pnl, losses, settled_at, risk_now>> /\ held' = None
  BY DEF Risk!GiveUp
<1> QED BY <1>1
           DEF Risk!IInv, Risk!TypeOK, Risk!Exposure, Risk!RunningWindowsWithinLimits,
               Risk!Running, Risk!CapitalWhere,
                    Risk!SolventWhateverSettles, Risk!Raw, Risk!HeldIsCautious

(* Windows that go on running are within the limits if those that did were. *)
LEMMA FewerRunning ==
  ASSUME Risk!PortfolioConstants, Risk!IInv, Risk!Running' \subseteq Risk!Running
  PROVE  Risk!RunningWindowsWithinLimits'
<1>1. /\ IsFiniteSet(Risk!Running) /\ \A x \in Risk!Running : x.capital_at_risk \in Nat
  BY RiskNumbers, FS_Subset DEF Risk!IInv, Risk!Running
<1>2. ASSUME NEW S \in SUBSET Risk!Running, NEW R \in SUBSET S
      PROVE  /\ Risk!CapitalAtRisk(R) \in Nat /\ Risk!CapitalAtRisk(S) \in Nat
             /\ Risk!CapitalAtRisk(R) <= Risk!CapitalAtRisk(S)
             /\ Cardinality(R) \in Nat /\ Cardinality(S) \in Nat
             /\ Cardinality(R) <= Cardinality(S)
  <2>1. IsFiniteSet(S) /\ \A x \in S : x.capital_at_risk \in Nat
    BY <1>1, FS_Subset
  <2> QED BY <2>1, SomeExposures
<1>3. /\ {Policy.maximum_positions, Policy.maximum_total_exposure,
          Policy.maximum_per_asset_exposure, Policy.maximum_per_horizon_exposure,
          Policy.maximum_overlapping_positions_per_asset} \subseteq Nat
  BY DEF Risk!PortfolioConstants
<1>4. /\ Cardinality(Risk!Running') <= Policy.maximum_positions
      /\ Risk!CapitalAtRisk(Risk!Running') <= Policy.maximum_total_exposure
  <2>1. /\ Cardinality(Risk!Running) <= Policy.maximum_positions
        /\ Risk!CapitalAtRisk(Risk!Running) <= Policy.maximum_total_exposure
    BY SameCardinality DEF Risk!IInv, Risk!RunningWindowsWithinLimits
  <2> QED BY <1>2, <1>3, <2>1
<1>5. ASSUME NEW x \in Risk!Running'
      PROVE  /\ Risk!CapitalWhere(x, "asset")' <= Policy.maximum_per_asset_exposure
             /\ Risk!CapitalWhere(x, "horizon")' <= Policy.maximum_per_horizon_exposure
             /\ Cardinality({y \in Risk!Running' : y.asset = x.asset})
                  <= Policy.maximum_overlapping_positions_per_asset
  <2> DEFINE Alike(S, field) == {y \in S : y[field] = x[field]}
  <2>1. /\ Risk!CapitalAtRisk(Alike(Risk!Running, "asset")) <= Policy.maximum_per_asset_exposure
        /\ Risk!CapitalAtRisk(Alike(Risk!Running, "horizon")) <= Policy.maximum_per_horizon_exposure
        /\ Cardinality(Alike(Risk!Running, "asset"))
             <= Policy.maximum_overlapping_positions_per_asset
    BY SameCardinality DEF Risk!IInv, Risk!RunningWindowsWithinLimits, Risk!CapitalWhere
  <2>2. \A field : Alike(Risk!Running', field) \subseteq Alike(Risk!Running, field)
    OBVIOUS
  <2>3. \A field : Alike(Risk!Running, field) \subseteq Risk!Running
    OBVIOUS
  <2> HIDE DEF Alike
  <2>4. /\ Risk!CapitalAtRisk(Alike(Risk!Running', "asset")) <= Policy.maximum_per_asset_exposure
        /\ Risk!CapitalAtRisk(Alike(Risk!Running', "horizon"))
             <= Policy.maximum_per_horizon_exposure
        /\ Cardinality(Alike(Risk!Running', "asset"))
             <= Policy.maximum_overlapping_positions_per_asset
    BY <1>2, <1>3, <2>1, <2>2, <2>3
  <2> QED BY <2>4 DEF Alike, Risk!CapitalWhere
<1> QED BY SameCardinality, <1>4, <1>5 DEF Risk!RunningWindowsWithinLimits

(* Time ends windows and starts none. *)
LEMMA TickKeepsIInv ==
  ASSUME Risk!PortfolioConstants, Risk!IInv, Risk!Tick
  PROVE  Risk!IInv'
<1>1. UNCHANGED <<exposures, entries, pnl, losses, settled_at, held>> /\ risk_now' = risk_now + 1
  BY DEF Risk!Tick
<1>2. Risk!TypeOK'
  BY <1>1 DEF Risk!IInv, Risk!TypeOK, Risk!Exposure
<1>3. Risk!Running' \subseteq Risk!Running
  <2>1. risk_now \in Nat /\ \A x \in exposures : x.window_end \in Nat
    BY DEF Risk!IInv, Risk!TypeOK, Risk!Exposure, Risk!PortfolioConstants
  <2> QED BY <1>1, <2>1 DEF Risk!Running
<1> QED BY <1>1, <1>2, <1>3, FewerRunning
        DEF Risk!IInv, Risk!SolventWhateverSettles, Risk!Raw, Risk!HeldIsCautious

(* A settlement frees its capital and takes no more than that. *)
LEMMA SettleKeepsIInv ==
  ASSUME Risk!PortfolioConstants, Risk!IInv, NEW x \in exposures, NEW win \in BOOLEAN,
         NEW profit \in Profits, Risk!Settle(x, win, profit)
  PROVE  Risk!IInv'
<1>1. /\ x.window_end <= risk_now /\ exposures' = exposures \ {x}
      /\ pnl' = IF win THEN pnl + profit ELSE pnl - x.capital_at_risk
      /\ UNCHANGED <<entries, held, risk_now>>
  BY DEF Risk!Settle
<1>2. /\ IsFiniteSet(exposures) /\ \A y \in exposures : y.capital_at_risk \in Nat
      /\ Risk!Raw \in Int /\ Risk!Raw = Equity + pnl - Risk!CapitalAtRisk(exposures)
  BY RiskNumbers DEF Risk!IInv
<1>3. profit \in Nat /\ Equity \in Nat /\ pnl \in Int /\ x.capital_at_risk \in Nat
  BY <1>2 DEF Risk!PortfolioConstants, Risk!IInv, Risk!TypeOK
<1>4. IsFiniteSet(exposures') /\ \A y \in exposures' : y.capital_at_risk \in Nat
  BY <1>1, <1>2, FS_RemoveElement
<1>5. Risk!TypeOK'
  BY SameFinite, <1>1, <1>3, <1>4 DEF Risk!IInv, Risk!TypeOK, Risk!Exposure
<1>6. Risk!Raw <= Risk!Raw' /\ Risk!Raw' \in Int
  <2>1. Risk!CapitalAtRisk(exposures) = Risk!CapitalAtRisk(exposures') + x.capital_at_risk
    BY <1>1, <1>2, CapitalWithout
  <2>2. Risk!CapitalAtRisk(exposures') \in Nat /\ Risk!CapitalAtRisk(exposures) \in Nat
    BY <1>2, <1>4, CapitalTyped
  <2>3. Risk!Raw' = Equity + pnl' - Risk!CapitalAtRisk(exposures')
    BY DEF Risk!Raw
  <2> QED BY <1>1, <1>2, <1>3, <2>1, <2>2, <2>3
<1>7. Risk!Running' \subseteq Risk!Running
  BY <1>1 DEF Risk!Running
<1>8. Risk!SolventWhateverSettles'
  BY <1>2, <1>6 DEF Risk!IInv, Risk!SolventWhateverSettles
<1>9. Risk!HeldIsCautious'
  BY <1>1, <1>2, <1>6 DEF Risk!IInv, Risk!HeldIsCautious
<1> QED BY <1>5, <1>7, <1>8, <1>9, FewerRunning DEF Risk!IInv

(* What the engine approves fits, although it may have settled meanwhile. *)
LEMMA EnterKeepsIInv ==
  ASSUME Risk!PortfolioConstants, Risk!IInv, NEW asset \in Assets, NEW horizon \in Horizons,
         NEW stake \in Stakes, NEW end \in Ends, NEW book,
         Risk!Enter(asset, horizon, stake, end, book)
  PROVE  Risk!IInv'
<1> DEFINE n == [position_id |-> entries, asset |-> asset, horizon |-> horizon,
                 capital_at_risk |-> stake, opened_at |-> risk_now, window_end |-> end]
           active == Risk!ActiveExposures(held, risk_now)
           Of(S) == {y \in S : y.asset = asset}
           On(S) == {y \in S : y.horizon = horizon}
<1>1. /\ held # None /\ end > risk_now /\ exposures' = exposures \cup {n}
      /\ entries' = entries + 1 /\ held' = None /\ UNCHANGED <<pnl, risk_now>>
  BY DEF Risk!Enter
<1>2. /\ n.asset = asset /\ n.horizon = horizon /\ n.capital_at_risk = stake
      /\ n.window_end = end /\ n.position_id = entries
  OBVIOUS
<1>3. /\ held.exposures # None /\ ~(stake > held.bankroll_available)
      /\ ~(Cardinality(active) >= Policy.maximum_positions)
      /\ ~(Risk!CapitalAtRisk(active) + stake > Policy.maximum_total_exposure)
      /\ ~(Risk!CapitalAtRisk(Of(active)) + stake > Policy.maximum_per_asset_exposure)
      /\ ~(Risk!CapitalAtRisk(On(active)) + stake > Policy.maximum_per_horizon_exposure)
      /\ ~(Cardinality(Of(active)) >= Policy.maximum_overlapping_positions_per_asset)
  <2>1. Risk!Approved(Risk!Candidate(stake), asset, horizon, book, held, Policy, risk_now)
    BY DEF Risk!Enter
  <2>2. Risk!Candidate(stake).required_capital = stake
    BY DEF Risk!Candidate
  <2> QED BY <2>1, <2>2, ApprovedSaw
<1>4. /\ IsFiniteSet(exposures) /\ \A y \in exposures : y.capital_at_risk \in Nat
      /\ Risk!CapitalAtRisk(exposures) \in Nat
      /\ Risk!Raw \in Int /\ Risk!Raw = Equity + pnl - Risk!CapitalAtRisk(exposures)
  BY RiskNumbers DEF Risk!IInv
<1>5. /\ stake \in Nat /\ Equity \in Nat /\ pnl \in Int /\ risk_now \in Nat /\ entries \in Nat
  BY DEF Risk!PortfolioConstants, Risk!IInv, Risk!TypeOK
<1>6. n \notin exposures
  BY <1>2, <1>5 DEF Risk!IInv, Risk!TypeOK, Risk!Exposure
<1>7. Risk!TypeOK'
  <2>1. IsFiniteSet(exposures')
    BY <1>1, <1>4, FS_AddElement
  <2>2. n \in Risk!Exposure'
    BY <1>1, <1>5 DEF Risk!Exposure
  <2>3. exposures \subseteq Risk!Exposure'
    BY <1>1, <1>5 DEF Risk!IInv, Risk!TypeOK, Risk!Exposure
  <2> QED BY SameFinite, <1>1, <1>5, <2>1, <2>2, <2>3 DEF Risk!IInv, Risk!TypeOK
<1>8. Risk!SolventWhateverSettles'
  <2>1. Risk!CapitalAtRisk(exposures') = Risk!CapitalAtRisk(exposures) + stake
    BY <1>1, <1>2, <1>4, <1>5, <1>6, CapitalOfOneMore
  <2>2. held.bankroll_available \in Int /\ held.bankroll_available <= Risk!Raw
    BY <1>1 DEF Risk!IInv, Risk!HeldIsCautious
  <2>3. Risk!Raw' = Equity + pnl' - Risk!CapitalAtRisk(exposures')
    BY DEF Risk!Raw
  <2> QED BY <1>1, <1>3, <1>4, <1>5, <2>1, <2>2, <2>3 DEF Risk!SolventWhateverSettles
<1>9. Risk!HeldIsCautious'
  BY <1>1 DEF Risk!HeldIsCautious
<1>10. /\ Risk!Running \subseteq active /\ IsFiniteSet(active)
       /\ \A y \in active : y.capital_at_risk \in Nat
  <2>1. /\ exposures \subseteq held.exposures /\ IsFiniteSet(held.exposures)
        /\ \A y \in held.exposures : y.capital_at_risk \in Nat
    BY SameFinite, <1>1, <1>3 DEF Risk!IInv, Risk!HeldIsCautious
  <2> QED BY <2>1, FS_Subset DEF Risk!Running, Risk!ActiveExposures
<1>11. Risk!Running' = Risk!Running \cup {n} /\ n \notin Risk!Running
  BY <1>1, <1>2, <1>6 DEF Risk!Running
<1>12. {Policy.maximum_positions, Policy.maximum_total_exposure,
        Policy.maximum_per_asset_exposure, Policy.maximum_per_horizon_exposure,
        Policy.maximum_overlapping_positions_per_asset} \subseteq Nat
  BY DEF Risk!PortfolioConstants
<1> HIDE DEF n, active
<1>13. /\ Cardinality(Risk!Running') <= Policy.maximum_positions
       /\ Risk!CapitalAtRisk(Risk!Running') <= Policy.maximum_total_exposure
  BY <1>2, <1>3, <1>5, <1>10, <1>11, <1>12, OneMoreWithin
<1>14. /\ Risk!CapitalAtRisk(Of(Risk!Running')) <= Policy.maximum_per_asset_exposure
       /\ Cardinality(Of(Risk!Running')) <= Policy.maximum_overlapping_positions_per_asset
  <2>1. /\ IsFiniteSet(Of(active)) /\ \A y \in Of(active) : y.capital_at_risk \in Nat
        /\ Of(Risk!Running) \subseteq Of(active) /\ n \notin Of(Risk!Running)
        /\ Of(Risk!Running') = Of(Risk!Running) \cup {n}
    BY <1>2, <1>10, <1>11, FS_Subset
  <2> HIDE DEF Of
  <2> QED BY <1>2, <1>3, <1>5, <1>12, <2>1, OneMoreWithin
<1>15. Risk!CapitalAtRisk(On(Risk!Running')) <= Policy.maximum_per_horizon_exposure
  <2>1. /\ IsFiniteSet(On(active)) /\ \A y \in On(active) : y.capital_at_risk \in Nat
        /\ On(Risk!Running) \subseteq On(active) /\ n \notin On(Risk!Running)
        /\ On(Risk!Running') = On(Risk!Running) \cup {n}
    BY <1>2, <1>10, <1>11, FS_Subset
  <2> HIDE DEF On
  <2> QED BY <1>2, <1>3, <1>5, <1>12, <2>1, OneMoreWithin
<1>16. ASSUME NEW x \in Risk!Running'
       PROVE  /\ Risk!CapitalWhere(x, "asset")' <= Policy.maximum_per_asset_exposure
              /\ Risk!CapitalWhere(x, "horizon")' <= Policy.maximum_per_horizon_exposure
              /\ Cardinality({y \in Risk!Running' : y.asset = x.asset})
                   <= Policy.maximum_overlapping_positions_per_asset
  <2> DEFINE Alike(S, field) == {y \in S : y[field] = x[field]}
  <2>1. x \in Risk!Running =>
          /\ Risk!CapitalAtRisk(Alike(Risk!Running, "asset")) <= Policy.maximum_per_asset_exposure
          /\ Risk!CapitalAtRisk(Alike(Risk!Running, "horizon"))
               <= Policy.maximum_per_horizon_exposure
          /\ Cardinality(Alike(Risk!Running, "asset"))
               <= Policy.maximum_overlapping_positions_per_asset
    BY SameCardinality DEF Risk!IInv, Risk!RunningWindowsWithinLimits, Risk!CapitalWhere
  <2>2. x.asset = asset => Alike(Risk!Running', "asset") = Of(Risk!Running')
    OBVIOUS
  <2>3. x.asset # asset =>
              Alike(Risk!Running', "asset") = Alike(Risk!Running, "asset") /\ x \in Risk!Running
    BY <1>2, <1>11
  <2>4. x.horizon = horizon => Alike(Risk!Running', "horizon") = On(Risk!Running')
    OBVIOUS
  <2>5. x.horizon # horizon =>
          Alike(Risk!Running', "horizon") = Alike(Risk!Running, "horizon") /\ x \in Risk!Running
    BY <1>2, <1>11
  <2> HIDE DEF Of, On
  <2>6. /\ Risk!CapitalAtRisk(Alike(Risk!Running', "asset")) <= Policy.maximum_per_asset_exposure
        /\ Cardinality(Alike(Risk!Running', "asset"))
             <= Policy.maximum_overlapping_positions_per_asset
    BY <1>14, <2>1, <2>2, <2>3
  <2>7. Risk!CapitalAtRisk(Alike(Risk!Running', "horizon")) <= Policy.maximum_per_horizon_exposure
    BY <1>15, <2>1, <2>4, <2>5
  <2> QED BY <2>6, <2>7 DEF Risk!CapitalWhere
<1>17. Risk!RunningWindowsWithinLimits'
  BY SameCardinality, <1>13, <1>16 DEF Risk!RunningWindowsWithinLimits
<1> QED BY <1>7, <1>8, <1>9, <1>17 DEF Risk!IInv

(* Every step keeps the inductive invariant. *)
THEOREM RiskNext ==
  ASSUME Risk!PortfolioConstants, Risk!IInv, [Risk!Next]_(Risk!vars)
  PROVE  Risk!IInv'
<1>1. CASE UNCHANGED Risk!vars
  BY <1>1
     DEF Risk!vars, Risk!IInv, Risk!TypeOK, Risk!Exposure, Risk!RunningWindowsWithinLimits,
         Risk!Running, Risk!CapitalWhere,
              Risk!SolventWhateverSettles, Risk!Raw, Risk!HeldIsCautious
<1>2. CASE Risk!Next
  BY <1>2, TakeStateKeepsIInv, EnterKeepsIInv, GiveUpKeepsIInv, SettleKeepsIInv, TickKeepsIInv
     DEF Risk!Next
<1> QED BY <1>1, <1>2
-----------------------------------------------------------------------------
(* The two together. *)

(* A history of both gates is one of each: a claim reserves nothing of the portfolio and
   an entry claims nothing (route_opportunities, assess_candidate). *)
LEMMA GatesAreIndependent == AdmissionSpec => Spec /\ Risk!Spec
<1>1. AdmissionInit => Init /\ Risk!Init
  BY DEF AdmissionInit
<1>2. [AdmissionNext]_<<claim_vars, risk_vars>> => [Next]_vars /\ [Risk!Next]_(Risk!vars)
  <2>1. /\ UNCHANGED claim_vars => UNCHANGED vars
        /\ UNCHANGED risk_vars => UNCHANGED Risk!vars
    BY DEF claim_vars, risk_vars, Risk!vars
  <2> QED BY <2>1 DEF AdmissionNext
<1> QED BY <1>1, <1>2, PTL DEF AdmissionSpec, Spec, Risk!Spec

(* The portfolio's inductive invariant holds in every reachable state. *)
THEOREM PortfolioInvariance == AdmissionSpec => []Risk!IInv
<1>1. Risk!PortfolioConstants
  BY RiskConstants
<1>2. Risk!Init => Risk!IInv
  BY <1>1, RiskInit
<1>3. Risk!IInv /\ [Risk!Next]_(Risk!vars) => Risk!IInv'
  BY <1>1, RiskNext
<1> QED BY <1>2, <1>3, GatesAreIndependent, PTL DEF Risk!Spec

(* RunningWindowsWithinLimits: for any policy, stakes and window ends, no run of entries,
   settlements and window ends brings the running windows over a limit, however old the
   state of each assessment was (assess_candidate, _portfolio_reasons). *)
THEOREM LimitsHoldOfPortfolio == AdmissionSpec => []RunningWindowsWithinLimits
<1>1. Risk!IInv => RunningWindowsWithinLimits
  BY DEF Risk!IInv, RunningWindowsWithinLimits
<1> QED BY <1>1, PortfolioInvariance, PTL

(* SolventWhateverSettles: whatever is unsettled can be lost and the account stays solvent,
   the bankroll of every assessment being one the ledger still had at the entry
   (INSUFFICIENT_BANKROLL). *)
THEOREM AccountStaysSolvent == AdmissionSpec => []SolventWhateverSettles
<1>1. Risk!IInv => SolventWhateverSettles
  BY DEF Risk!IInv, SolventWhateverSettles
<1> QED BY <1>1, PortfolioInvariance, PTL
=============================================================================
