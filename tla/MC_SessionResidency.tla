-------------------------- MODULE MC_SessionResidency --------------------------
(* A small instance of SessionResidency: the bounds are in the cfg files. *)
EXTENDS SessionResidency, TLC

\* Requests and daemons are interchangeable.
ResidencySymmetry == Permutations(Requests) \cup Permutations(Daemons)
================================================================================
