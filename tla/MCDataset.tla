----------------------------- MODULE MCDataset ------------------------------
(* Dataset for TLC.                                                        *)
EXTENDS Dataset

\* In file order, and one shuffle.
MCOrders == {[i \in 0..2 |-> i], [i \in 0..2 |-> (i + 2) % 3]}

MCIndexes == -4..4
=============================================================================
