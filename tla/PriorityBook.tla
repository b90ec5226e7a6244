---------------------------- MODULE PriorityBook ----------------------------
(* What an order book promises: every call takes effect at once, by the      *)
(* rules of PriorityRules, and a submission answers with its fills.          *)
EXTENDS PriorityRules

CONSTANTS OrderIds, Prices, Quantities, NoOrder

VARIABLES
  resting,     \* side -> the resting orders, first in priority first
  request,     \* the order that has taken effect and awaits its answer, or NoOrder
  fills        \* that answer

vars == <<resting, request, fills>>

Init ==
  /\ resting = [s \in Side |-> <<>>]
  /\ request = NoOrder
  /\ fills = <<>>

(* An order takes effect at once; what it answers waits for Answer.          *)
Take(o) ==
  /\ request = NoOrder
  /\ request' = o
  /\ \E result \in {Submitted(resting, o)} :
       resting' = result.book /\ fills' = result.fills

Submit(id, side, type, price, qty) ==
  Take(NewOrder(id, side, type, price, qty))

Cancel(id) ==
  /\ request = NoOrder
  /\ UNCHANGED <<request, fills>>
  /\ resting' = Without(resting, id)

(* Any change that does not keep the order's place is a new order. *)
Modify(id, qty, price) ==
  /\ request = NoOrder
  /\ \E side \in Side : \E i \in DOMAIN resting[side] :
       LET m == resting[side][i]
       IN  /\ m.order_id = id
           /\ IF Kept(m, qty, price)
              THEN /\ UNCHANGED <<request, fills>>
                   /\ resting' = Reduced(resting, side, i, qty)
              ELSE Take(NewOrder(id, side, m.order_type, price, qty))

Answer ==
  /\ request # NoOrder
  /\ request' = NoOrder
  /\ fills' = <<>>
  /\ UNCHANGED resting

Next ==
  \/ \E id \in OrderIds, side \in Side, type \in OrderType,
        price \in Prices, qty \in Quantities :
       Submit(id, side, type, price, qty)
  \/ \E id \in OrderIds : Cancel(id)
  \/ \E id \in OrderIds, qty \in Quantities \cap Nat, price \in Prices :
       Modify(id, qty, price)
  \/ Answer

Spec == Init /\ [][Next]_vars
=============================================================================
