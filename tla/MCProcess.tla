------------------------------ MODULE MCProcess ------------------------------
(* Process for TLC: two processes, the second a restart of the first or a     *)
(* rival.                                                                     *)
EXTENDS Process

CONSTANTS p1, p2

MCProcs == {p1, p2}
=============================================================================
