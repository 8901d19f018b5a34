----------------------------- MODULE MCFormValues -----------------------------
(* FormValues with one integer and addresses that are all alike. *)
EXTENDS FormValues, TLC

SmallInts == {7}
SevenIs == [i \in SmallInts |-> "7"]
Alike == Permutations(Addrs) \cup Permutations(Vars) \cup Permutations(Blocks)
=============================================================================
