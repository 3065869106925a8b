---------------------------- MODULE MCFencedState ----------------------------
(* Small instances of the fenced state publication for TLC.                *)
EXTENDS FencedState, TLC

CONSTANTS o1, o2, u1

OpSymmetry == Permutations({o1, o2})
=============================================================================
