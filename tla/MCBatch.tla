------------------------------ MODULE MCBatch -------------------------------
(* Batch for TLC: keys with and without a zero byte, one that is a prefix of *)
(* another, and one whose length needs two bytes.                            *)
EXTENDS Batch, TLC

MCKeys == {<<97>>, <<97, 0, 98>>, [i \in 1..128 |-> 97]}
MCValues == {<<118>>, <<119, 0>>}

\* The batches are alike.
BatchSymmetry == Permutations(Batches)
=============================================================================
