---------------------------- MODULE OrderLifecycle ----------------------------
(***************************************************************************)
(* The life of one PAPER order (domain/contracts.py OrderState) under      *)
(* cancel_order and reconcile_order of execution/paper.py, and the profit  *)
(* settled_pnl draws from fills.  The venue fills the order behind the     *)
(* program's back; a reconciliation is told of some of the fills there are *)
(* so far, of this order and of others, of each any number of times, and   *)
(* it may or may not be the venue's final word.  A fill is [id, own,       *)
(* quantity, price, fee]; a report is a bag of fills, the copies of each   *)
(* fill it names: the code only sums, so the order of its tuple is dropped *)
(* and its repetitions are not.                                            *)
(***************************************************************************)
EXTENDS Integers, FiniteSets, Functions

CONSTANTS
  Requested,     \* requested_quantity
  Prices,        \* prices of fills, in cents
  Fees,          \* fees of fills, in cents
  MaxFills,      \* bound: fills of this order and of others
  MaxCopies      \* bound: copies of a fill in a report

LifecycleConstants ==
  /\ Requested \in Nat \ {0} /\ Prices \subseteq 0..100 /\ Fees \subseteq Nat
  /\ MaxFills \in Nat /\ MaxCopies \in Nat

VARIABLES
  status, filled, cost,  \* OrderState: filled_quantity and its cost (average * quantity)
  priced,                \* average_fill_price is not None
  final,                 \* the fills the caller had reconciled last as the final word
  fills                  \* the venue's fills

vars == <<status, filled, cost, priced, final, fills>>

Terminal == {"FILLED", "CANCELLED", "REJECTED", "EXPIRED"}

(* What can be reported: any of the fills there are, each once or more often. *)
Reports == UNION {[seen -> 1..MaxCopies] : seen \in SUBSET fills}

(* Every fill of a set, once. *)
Once(S) == [f \in S |-> 1]

(* An order of PaperGateway.execute that the evidence did not fill: only an
   acknowledgement, which never implies a fill. *)
Init ==
  /\ status = "ACKNOWLEDGED" /\ filled = 0 /\ cost = 0 /\ priced = FALSE
  /\ final = Once({}) /\ fills = {}

(* Sums over the tuple reported, a fill once for each copy. *)
QuantityOf(report) == SumFunction([f \in DOMAIN report |-> report[f] * f.quantity])
CostOf(report) == SumFunction([f \in DOMAIN report |-> report[f] * (f.quantity * f.price)])
FeesOf(report) == SumFunction([f \in DOMAIN report |-> report[f] * f.fee])

(* Mutant: every reported fill counts. *)
MatchingAll(report) == report

(* Fills of this order among those reported. *)
Matching(report) == [f \in {g \in DOMAIN report : g.own} |-> report[f]]

(* The venue's truth: the fills of this order. *)
OwnFills == {f \in fills : f.own}
VenueFilled == QuantityOf(Once(OwnFills))

-----------------------------------------------------------------------------
(* The venue fills this order, never beyond its size, or another one (external). *)
VenueFills(own, quantity, price, fee) ==
  /\ Cardinality(fills) < MaxFills
  /\ own => VenueFilled + quantity <= Requested
  /\ fills' = fills \cup {[id |-> Cardinality(fills) + 1, own |-> own,
                            quantity |-> quantity, price |-> price, fee |-> fee]}
  /\ UNCHANGED <<status, filled, cost, priced, final>>

(* cancel_order: everything but a terminal order, with its fills kept. *)
CancelOrder ==
  /\ status \notin Terminal
  /\ status' = "CANCELLED"
  /\ UNCHANGED <<filled, cost, priced, final, fills>>

(* reconcile_order raises when the report exceeds the request. *)
Reconcilable(report) == QuantityOf(Matching(report)) <= Requested

(* Not the final word: the order is unknown, its known fills are kept. *)
ReconcileUncertain(report) ==
  /\ Reconcilable(report)
  /\ status' = "UNKNOWN_ORDER_STATE"
  /\ UNCHANGED <<filled, cost, priced, final, fills>>

(* The final word replaces what was known; its caller keeps the fills to settle. *)
ReconcileFinal(report) ==
  LET own == Matching(report) IN
  /\ Reconcilable(report)
  /\ filled' = QuantityOf(own) /\ cost' = CostOf(own)
  /\ priced' = (QuantityOf(own) > 0)
  /\ status' = CASE QuantityOf(own) = 0 -> "ACKNOWLEDGED"
                 [] QuantityOf(own) = Requested -> "FILLED"
                 [] OTHER -> "PARTIALLY_FILLED"
  /\ final' = report
  /\ UNCHANGED fills

Next ==
  \/ \E own \in BOOLEAN, quantity \in 1..Requested, price \in Prices, fee \in Fees :
       VenueFills(own, quantity, price, fee)
  \/ CancelOrder
  \/ \E report \in Reports : ReconcileUncertain(report)
  \/ \E report \in Reports : ReconcileFinal(report)

Spec == Init /\ [][Next]_vars

(* settled_pnl of the fills it is given, whosever they are: a payout per share if the
   outcome won, less what the shares and their fees cost. *)
SettledPnl(report, won, payout) ==
  (IF won THEN QuantityOf(report) * payout ELSE 0) - (CostOf(report) + FeesOf(report))

-----------------------------------------------------------------------------
Fill == [id : Nat, own : BOOLEAN, quantity : 1..Requested, price : Prices, fee : Fees]

TypeOK ==
  /\ IsFiniteSet(fills) /\ fills \subseteq Fill /\ final \in Reports
  /\ filled \in Nat /\ cost \in Nat

(* What the contract of an order asks for: status, quantity and average price
   fit together (OrderState._validate_status_quantities). *)
ValidOrder ==
  /\ filled <= Requested
  /\ status = "ACKNOWLEDGED" => filled = 0
  /\ status = "PARTIALLY_FILLED" => filled \in 1..(Requested - 1)
  /\ status = "FILLED" => filled = Requested
  /\ priced <=> filled > 0

(* The order believes in what its last final word said of it. *)
Believed == filled = QuantityOf(Matching(final)) /\ cost = CostOf(Matching(final))

(* The inductive invariant. *)
IInv == TypeOK /\ ValidOrder /\ Believed

(* The caller's part: the last final word named no fill of the order twice ... *)
RepeatsNoFill == \A f \in DOMAIN final : f.own => final[f] = 1

(* ... and no fill of another order. *)
NamesNoOther == \A f \in DOMAIN final : f.own

(* No sequence of cancellations and of late, reordered, partial, repeated and
   misdirected reports builds an order its own contract refuses.  A final word that
   repeats no fill never makes the order believe in more than the venue filled, and
   one that names no other order's fill is settled for what the order believes in.
   When both hold and the order believes in all the venue filled, settled_pnl is
   what those very fills paid, cost and were charged.  reconcile_order and
   settled_pnl themselves ask for neither: a fill named twice counts twice, and
   settled_pnl counts another order's (cancel_order, reconcile_order, settled_pnl). *)
SettlesOwnFills ==
  /\ ValidOrder
  /\ RepeatsNoFill => filled <= VenueFilled
  /\ NamesNoOther => \A won \in BOOLEAN :
       SettledPnl(final, won, 100) = (IF won THEN 100 * filled ELSE 0) - cost - FeesOf(final)
  /\ RepeatsNoFill /\ NamesNoOther /\ filled = VenueFilled =>
       \A won \in BOOLEAN : SettledPnl(final, won, 100) = SettledPnl(Once(OwnFills), won, 100)
=============================================================================
