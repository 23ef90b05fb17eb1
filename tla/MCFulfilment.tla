---------------------------- MODULE MCFulfilment ----------------------------
(* Instances of Fulfilment for TLC. *)
EXTENDS Fulfilment, TLC

CONSTANTS o1, o2, k1, k2, a1, a2, b1, small, large

MCOrders == {o1, o2}
MCQuantity == [o \in Orders |-> IF o = o1 THEN 1 ELSE 2]
MCSizeAsked == [o \in Orders |-> small]
MCSizes == {small, large}
MCPackages == {k1, k2}
MCAdmins == {a1, a2}
MCBuyers == {b1}
\* What each administrator does, who buys, and whether calls fail.
Situation(first, second, buyers, faults) ==
  [ duties |-> [a \in Admins |-> IF a = a1 THEN first ELSE second],
    buyers |-> buyers, faults |-> faults ]
MCEnvs ==
  { Situation(Duties, {}, {b1}, FALSE), Situation(Duties, {}, {}, TRUE),
    Situation(Duties, {"package"}, {}, FALSE), Situation(Duties, {"ship"}, {}, FALSE) }
MCAlone == { Situation(Duties, {}, {}, FALSE) }
=============================================================================
