---------------------------- MODULE MCHttpBreaker ----------------------------
(* Model values and symmetry for the runs of HttpBreaker. *)
EXTENDS HttpBreaker, TLC

CONSTANTS c1, c2, c3

(* Sound for safety where every caller, or none, may panic. *)
CallerSymmetry == Permutations(Callers)
==============================================================================
