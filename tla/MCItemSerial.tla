---------------------------- MODULE MCItemSerial ----------------------------
(* A small instance of ItemSerial.                                           *)
EXTENDS ItemSerial, TLC

Symmetry == Permutations(Links)
=============================================================================
