----------------------------- MODULE MCPlanning -----------------------------
(* Buckets of the user, tags and row ids only name things: no definition of
   Planning chooses among them, and no property is a temporal one. *)
EXTENDS Planning, TLC

Symmetry == Permutations(User) \cup Permutations(Tags) \cup Permutations(Ids)
=============================================================================
