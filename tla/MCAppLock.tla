------------------------------ MODULE MCAppLock ------------------------------
(* Small instances of the per-app lock for TLC.                            *)
EXTENDS AppLock, TLC

CONSTANTS o1, o2, o3, h1, f1, u1

\* Interchangeable operations: o1 and o2 have the same configuration in every
\* run that uses the symmetry.
OpSymmetry == Permutations({o1, o2})
=============================================================================
