-------------------------- MODULE MCIntegrityGuard --------------------------
(* Instances of IntegrityGuard for TLC: two callers of one database, and one *)
(* caller on each of two hosts that share the witness.                       *)
EXTENDS IntegrityGuard, TLC

CONSTANTS h1, h2, p1, p2

OneHost == [p \in Proc |-> h1]
TwoHosts == [p \in Proc |-> IF p = p1 THEN h1 ELSE h2]

\* Contents are interchangeable: no definition names one.
ContentSymmetry == Permutations(Content)
=============================================================================
