------------------------------ MODULE MCDrops ------------------------------
(* Instance of Drops for TLC. *)
EXTENDS Drops, TLC

CONSTANTS w1, w2, small, large

MCWorkers == {w1, w2}
MCSizes == {small, large}
MCTerms == {1, 3}
MCQuantities == 1..2
\* Two requests at once with failures; one at a time without.
MCEnvs == { [workers |-> MCWorkers, faults |-> TRUE], [workers |-> {w1}, faults |-> FALSE] }
=============================================================================
