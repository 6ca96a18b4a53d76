---------------------------- MODULE MCJobRegistry ----------------------------
(***************************************************************************)
(* JobRegistry for TLC: sessions are interchangeable, so are spellings.    *)
(* Only safety is checked on it, for which the symmetry is sound.          *)
(***************************************************************************)
EXTENDS JobRegistry, TLC

Symmetry == Permutations(Sessions) \cup Permutations(Spellings)
=============================================================================
