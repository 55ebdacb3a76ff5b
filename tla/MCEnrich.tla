------------------------------ MODULE MCEnrich ------------------------------
(* Enrich with postings and descriptions that are interchangeable.         *)
EXTENDS Enrich, TLC

Symmetry == Permutations(Uuid) \cup Permutations(Text)
=============================================================================
