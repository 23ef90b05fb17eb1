------------------------------- MODULE Quota -------------------------------
(***************************************************************************)
(* What a limited drop promises, without requests, payments or webhooks:   *)
(* seats are taken while sales are open, one order's quantity at a time,   *)
(* never beyond the limit, and none is given back.                         *)
(***************************************************************************)
EXTENDS Integers

CONSTANTS Limit, Lots   \* the quantities orders come in

VARIABLES taken, open

Init == taken = 0 /\ open = TRUE

Take(q) ==
  /\ open
  /\ taken + q <= Limit
  /\ taken' = taken + q
  /\ UNCHANGED open

\* Sales are closed, or opened again.
Switch == open' \in BOOLEAN /\ UNCHANGED taken

Next == Switch \/ \E q \in Lots : Take(q)

Spec == Init /\ [][Next]_<< taken, open >>

=============================================================================
