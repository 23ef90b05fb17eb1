---------------------------- MODULE MCReservation ----------------------------
(* Instances of Reservation for TLC. *)
EXTENDS Reservation, TLC

CONSTANTS o1, o2, p1, p2, b1, b2, h1, h2, a1, a2, small, large

MCOrders == {o1, o2}
MCPayments == {p1, p2}
MCOneSize == {small}
MCOneEach == [o \in Orders |-> 1]
MCOneBuyer == {b1}
MCOneHook == {h1}
MCTwoHooks == {h1, h2}
MCOneAdmin == {a1}
MCNobody == {}
MCPayCancel == {"pay", "cancel"}
MCTwoSizes == {small, large}
MCPay == {"pay"}
MCPayResize == {"pay", "resize"}
MCNoTargets == {}
MCSuccessOrFailure == {"successful", "failed"}
MCOneOrder == {o1}
MCOnePayment == {p1}
MCOneHoldName == {"hold"}
MCTwoHoldNames == {"hold", "success"}
Symmetry ==
  Permutations(MCOrders) \cup Permutations(MCPayments) \cup Permutations(MCTwoHooks)
=============================================================================
