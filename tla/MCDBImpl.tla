------------------------------ MODULE MCDBImpl ------------------------------
(* Values of the constants of DBImpl for TLC. *)
EXTENDS DBImpl

Put(k) == [key |-> k, type |-> "value"]
Del(k) == [key |-> k, type |-> "deletion"]

\* A Put, a Delete, and a batch of two whose table spans key 2.
MixedBatches == {<<Put(1)>>, <<Del(1)>>, <<Put(3), Put(1)>>}
=============================================================================
