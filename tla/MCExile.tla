------------------------------ MODULE MCExile ------------------------------
(***************************************************************************)
(* Small instances of Exile for TLC: the .cfg files give the constants     *)
(* their values.  Twins are interchangeable where no property singles one  *)
(* out and the run checks safety only.                                     *)
(***************************************************************************)
EXTENDS Exile, TLC

Symmetry == Permutations(Twins)

=============================================================================
