----------------------------- MODULE MCPayouts -----------------------------
(* Instances of Payouts for TLC. *)
EXTENDS Payouts, TLC

CONSTANTS o1, o2, k1, k2, w1, w2

MCOrders == {o1, o2}
\* Prices in halves of a hundredth, the share in tenths of a percent: of 12.5
\* percent, 8 comes out on a half, 22 and 30 on neither side of one.
MCOrderDocs ==
  [status : {"reserved", "paid", "returned"}, quantity : {1}, price : {8}]
  \cup [status : {"paid"}, quantity : {2}, price : {11}]
MCRoundedUp ==
  { book \in [MCOrders -> MCOrderDocs] : book[o1].status = "paid" }
MCPayoutIds == {k1, k2}
MCWorkers == {w1, w2}
MCAmounts == {1}
Situation(workers, returns, faults) ==
  [workers |-> workers, returns |-> returns, faults |-> faults]
MCEnvs ==
  { Situation({w1}, TRUE, FALSE), Situation({w1}, FALSE, TRUE),
    Situation({w1, w2}, FALSE, FALSE), Situation({w1, w2}, TRUE, FALSE) }
=============================================================================
