---------------------------- MODULE MCKnowledge ----------------------------
(* Instances of Knowledge: two `saya` processes, of which at most one       *)
(* learns, and two texts, which nothing tells apart.                        *)
EXTENDS Knowledge, TLC
TextSymmetry == Permutations(Text)
=============================================================================
