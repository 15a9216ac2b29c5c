----------------------------- MODULE MCAdoption -----------------------------
(* Adoption with the values of MCValues, for TLC.                             *)
EXTENDS Adoption, MCValues
=============================================================================
