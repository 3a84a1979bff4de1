------------------------------ MODULE MCDesktop ------------------------------
(* The parts take their actors and their data from the same few model      *)
(* values, so that one small symmetry group serves all of them.            *)
EXTENDS Desktop

Symmetry == Permutations(Command) \cup Permutations(Account)
=============================================================================
