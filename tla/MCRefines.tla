------------------------------ MODULE MCRefines ------------------------------
(* AdoptionRefines, for TLC.                                                  *)
EXTENDS AdoptionRefines, MCValues

\* Handler goroutines are interchangeable.
SlotSymmetry == Permutations(Slots)
=============================================================================
