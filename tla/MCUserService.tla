--------------------------- MODULE MCUserService ---------------------------
(* Requests, names and passwords are interchangeable.                      *)
EXTENDS UserService, TLC

Symmetry == Permutations(Request) \cup Permutations(Name) \cup Permutations(Password)
=============================================================================
