------------------------------ MODULE MCJobs ------------------------------
(* Instances of Jobs for TLC. *)
EXTENDS Jobs, TLC
CONSTANTS j1, j2, u1, u2, u3
UrlSymmetry == Permutations(Urls)
=============================================================================
