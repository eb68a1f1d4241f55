--------------------------- MODULE MCExpertCache ---------------------------
(* Bounds and symmetry for model-checking ExpertCache.                     *)
EXTENDS ExpertCache, TLC

CONSTANTS u1, u2

MCUsers == {u1, u2}

(* The users are interchangeable in the safety properties.                 *)
UserSymmetry == Permutations(MCUsers)
=============================================================================
