------------------------- MODULE MCProfileSessions -------------------------
(***************************************************************************)
(* The instance of ProfileSessions that TLC checks: which of two profiles  *)
(* is which does not matter.                                               *)
(***************************************************************************)
EXTENDS ProfileSessions, TLC

Symmetry == Permutations(Profiles)
=============================================================================
