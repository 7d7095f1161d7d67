------------------------------ MODULE PaperOrders ------------------------------
(***************************************************************************)
(* The gateway (PaperGateway) and an order it has acknowledged             *)
(* (OrderLifecycle): reconcile_order and cancel_order return a new         *)
(* OrderState to their caller and touch no table of the gateway.           *)
(***************************************************************************)
EXTENDS PaperGateway

CONSTANTS OrderQuantity, Prices, Fees, MaxFills, MaxCopies

VARIABLES status, filled, cost, priced, final, fills

gateway_vars == vars

order_vars == <<status, filled, cost, priced, final, fills>>

Lifecycle == INSTANCE OrderLifecycle WITH Requested <- OrderQuantity

ASSUME OrderConstants == Lifecycle!LifecycleConstants

OrdersInit == Init /\ Lifecycle!Init

OrdersNext ==
  \/ Next /\ UNCHANGED order_vars
  \/ Lifecycle!Next /\ UNCHANGED gateway_vars

OrdersSpec == OrdersInit /\ [][OrdersNext]_<<gateway_vars, order_vars>>

(* What an order believes in, and is settled for, is what the venue filled of it
   (OrderLifecycle). *)
SettlesOwnFills == Lifecycle!SettlesOwnFills
=============================================================================
