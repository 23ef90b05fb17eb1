---------------------------- MODULE PayoutRules ----------------------------
(* calculatePayout: what a designer gets from the orders of a drop.  What is
   paid is counted in hundredths of the currency, where roundMoney rounds; prices
   and percentages may be finer than that. *)
EXTENDS Integers, FiniteSets, FiniteSetsExt

CONSTANTS
  Hundred,    \* one hundred percent, in the units percentages are given in
  Cent,       \* a hundredth of the currency, in the units prices are given in
  RoundedUp   \* the orders of a drop whose half of a hundredth is rounded up

ASSUME UnitsAssumption == Hundred \in Nat \ {0} /\ Cent \in Nat \ {0}

\* PAYOUT_REVENUE_ORDER_STATUSES and RETURNED_ORDER_STATUSES.
RevenueStatuses == {"paid", "in_production", "ready_to_ship", "shipped", "delivered"}
ReturnedStatuses == {"returned", "refunded"}

\* The documents of orders whose status is one of S.
OrdersIn(order, S) == { o \in DOMAIN order : order[o].status \in S }
\* Mutant: the price counts once, whatever the quantity.
SumPrices(order, S) == MapThenSumSet(LAMBDA o : order[o].price, OrdersIn(order, S))

Totals(order) == [o \in DOMAIN order |-> order[o].quantity * order[o].price]
SumRevenue(order, S) == MapThenSumSet(LAMBDA o : Totals(order)[o], OrdersIn(order, S))

\* Mutant: more returns than sales make a debt.
KeepSign(n) == n

NotBelowZero(n) == IF n < 0 THEN 0 ELSE n
NetRevenue(order) ==
  NotBelowZero(SumRevenue(order, RevenueStatuses) - SumRevenue(order, ReturnedStatuses))

\* Mutant: what is left of a hundredth is dropped.
ShareCutOff(net, percent, up) == (net * percent) \div (Hundred * Cent)

\* roundMoney of netRevenue * percent / 100: to the nearest hundredth.  The code
\* computes in doubles, in which a half lies a little above or below itself
\* (0.30 at 25 percent gives 0.08, 34.30 gives 8.57): up says which.
ShareOf(net, percent, up) ==
  LET whole == Hundred * Cent
      share == (net * percent) \div whole
      rest == 2 * ((net * percent) % whole)
  IN IF rest > whole \/ (rest = whole /\ up) THEN share + 1 ELSE share

PayoutAmount(order, percent) == ShareOf(NetRevenue(order), percent, order \in RoundedUp)

\* A payout stays pending while the return window is open.
PayoutStatusWhen(windowOpen) == IF windowOpen THEN "pending" ELSE "ready_to_pay"

(* The reference definition: an order that was sold adds its worth, one that came
   back takes it away, and the amount is the percentage of the sum (zero when
   that is negative), off by half a hundredth at most. *)
Worth(doc) ==
  CASE doc.status \in RevenueStatuses -> doc.quantity * doc.price
    [] doc.status \in ReturnedStatuses -> -(doc.quantity * doc.price)
    [] OTHER -> 0
Worths(order) == [o \in DOMAIN order |-> Worth(order[o])]

IsShare(amount, order, percent) ==
  LET sum == MapThenSumSet(LAMBDA o : Worths(order)[o], DOMAIN order)
      whole == Hundred * Cent
      off == 2 * (whole * amount - NotBelowZero(sum) * percent)
  IN -whole <= off /\ off <= whole
=============================================================================
