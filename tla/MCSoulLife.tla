------------------------------ MODULE MCSoulLife ------------------------------
(* Instances of SoulLife for TLC. *)
EXTENDS SoulLife, TLC

\* Sessions, ids and vectors are interchangeable: no definition names one.
DataSymmetry == Permutations(Session) \cup Permutations(Id) \cup Permutations(Vec)
=============================================================================
