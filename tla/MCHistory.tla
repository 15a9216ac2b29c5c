------------------------------ MODULE MCHistory ------------------------------
(* AdoptionHistory with the values of MCValues, for TLC.                      *)
EXTENDS AdoptionHistory, MCValues
=============================================================================
