------------------------------- MODULE MCTrees -------------------------------
(***************************************************************************)
(* One instance of four modules for TLC: the trees that are not a store's  *)
(* (trees/).  They share no state, so a behaviour is one of one of them,   *)
(* while the others keep still.                                            *)
(***************************************************************************)
EXTENDS FenwickStats, MerkleSoul, SpatialIndex, SplayCache, TLC

VARIABLE tree

BoxAt(x, y, w, h) == [min_x |-> x, min_y |-> y, max_x |-> x + w, max_y |-> y + h]

\* Apart, touching, nested, overlapping, and a point.
FiveBoxes == {BoxAt(0, 0, 1, 1), BoxAt(1, 0, 2, 1), BoxAt(1, 1, 1, 1), BoxAt(0, 1, 3, 2), BoxAt(3, 3, 0, 0)}

\* The middle of the plane, which most of them reach, and its corners.
Windows == {BoxAt(1, 1, 1, 1)} \cup {BoxAt(x, y, 0, 0) : x \in {0, 3}, y \in {0, 3}}

treeVars == <<tree, fenwickVars, splayVars, spatialVars, merkleVars>>

TreesInit ==
    /\ tree \in {"fenwick", "splay", "spatial", "merkle"}
    /\ FenwickInit /\ SplayInit /\ SpatialInit /\ MerkleInit
    /\ tree # "fenwick" => capacity = 0
    /\ tree # "splay" => now = 0

TreesNext ==
    \/ tree = "fenwick" /\ FenwickNext /\ UNCHANGED <<tree, splayVars, spatialVars, merkleVars>>
    \/ tree = "splay" /\ SplayNext /\ UNCHANGED <<tree, fenwickVars, spatialVars, merkleVars>>
    \/ tree = "spatial" /\ SpatialNext /\ UNCHANGED <<tree, fenwickVars, splayVars, merkleVars>>
    \/ tree = "merkle" /\ MerkleNext /\ UNCHANGED <<tree, fenwickVars, splayVars, spatialVars>>

TreesSpec == TreesInit /\ [][TreesNext]_treeVars

\* A signature and a proof are looked at apart: neither changes the other.
OneAtATime == signed = Unsigned \/ held = Unsigned
=============================================================================
