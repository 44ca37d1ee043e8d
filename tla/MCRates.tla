------------------------------ MODULE MCRates -------------------------------
(* Rays of one digit, so that every conversion rounds, minutes of two      *)
(* seconds and a base rate that loses three tenths in each.                *)
EXTENDS Rates, TLC

CONSTANTS o1, o2

OwnerSymmetry == Permutations(Owners)
=============================================================================
