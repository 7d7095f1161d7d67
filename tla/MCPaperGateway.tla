--------------------------- MODULE MCPaperGateway ---------------------------
(***************************************************************************)
(* PaperGateway for TLC: two callers, a one-leg PAPER plan, a two-leg      *)
(* PAPER plan (the structural BUY+MERGE shape) that expires one tick       *)
(* later, and a LIVE plan.  The evidence covers no fill, partial and       *)
(* complete fills, an overfill, a repeated client id and a plan answered   *)
(* with another plan's ids.  Beside it an order of two shares lives on     *)
(* (OrderLifecycle): a behaviour is one of the gateway or one of the       *)
(* order.                                                                  *)
(***************************************************************************)
EXTENDS PaperOrders, TLC

VARIABLE part

CONSTANTS a, b, one, two, live, i1, i2, i3

MCIntentsOf == one :> {i1} @@ two :> {i2, i3} @@ live :> {i1}
MCExpiresAt == one :> 0 @@ two :> 1 @@ live :> 1
MCModeOf == one :> "PAPER" @@ two :> "PAPER" @@ live :> "LIVE"
MCRequested == i1 :> 2 @@ i2 :> 1 @@ i3 :> 1

Item(i, q) == [client_order_id |-> i, filled_quantity |-> q]
MCEvidence ==
  {<<Item(i1, q)>> : q \in 0..3}
    \cup {<<Item(i2, 1), Item(i3, q)>> : q \in 0..1}
    \cup {<<Item(i1, 1), Item(i1, 2)>>}

MCInit == part \in {"gateway", "order"} /\ OrdersInit

MCNext ==
  /\ UNCHANGED part
  /\ \/ part = "gateway" /\ Next /\ UNCHANGED order_vars
     \/ part = "order" /\ Lifecycle!Next /\ UNCHANGED gateway_vars

MCSpec == MCInit /\ [][MCNext]_<<part, gateway_vars, order_vars>>
=============================================================================
