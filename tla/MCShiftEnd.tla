----------------------------- MODULE MCShiftEnd -----------------------------
(* Two shifts of one machine, of which nothing tells which is which. *)
EXTENDS ShiftEnd, TLC

ShiftSymmetry == Permutations(Shifts)

=============================================================================
