----------------------------- MODULE MCWishlist -----------------------------
(* Instance of Wishlist for TLC. *)
EXTENDS Wishlist

CONSTANTS u1, u2, w1, w2

MCUsers == {u1, u2}
MCSettingsUsers == {u1}
MCWorkers == {w1, w2}
=============================================================================
