----------------------------- MODULE MCProfile -----------------------------
(***************************************************************************)
(* Ints of three bits; every profile of up to three settings of one tweak, *)
(* every pair of settings of a tweak, a file that cannot be written and a  *)
(* name that the tree does not have, and what happens to "eq".             *)
(***************************************************************************)
EXTENDS Profile

One == {s \in Settings : s.name = "tcp_ecn"}
Long == UNION {[1..n -> One] : n \in 0..3}
Pairs == [1..2 -> Settings]
MCProfiles == Long \cup Pairs
EqProfiles == [1..2 -> One]
=============================================================================
