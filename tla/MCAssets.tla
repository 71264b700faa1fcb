------------------------------ MODULE MCAssets ------------------------------
(* Assets for TLC: rows of a kind and users are interchangeable.              *)
EXTENDS Assets, TLC

Symmetry == Permutations(Items) \cup Permutations(Offers) \cup Permutations(Users)
            \cup Permutations(Refs) \cup Permutations(Requests)
=============================================================================
