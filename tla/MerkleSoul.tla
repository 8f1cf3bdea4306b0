------------------------------ MODULE MerkleSoul ------------------------------
(***************************************************************************)
(* trees/merkle.py: a hash tree over the categories of a soul's state, the *)
(* signing of its root, and proofs that a category has some data.          *)
(*                                                                         *)
(* The hash is perfect: the hash of a category's data is the data, that of *)
(* two hashes is their pair.                                               *)
(***************************************************************************)
EXTENDS Integers, Sequences, FiniteSets

CONSTANTS Categories, \* as numbers in the order of their names
          Data, Unsigned

ASSUME CategoriesAssumption == Categories \subseteq Int

VARIABLES
    leaves, \* [the categories at hand -> data]
    signed, \* history: the leaves at the last sign_checkpoint, or Unsigned
    held    \* history: a proof somebody got earlier: [cat, leaves, proof], or Unsigned

merkleVars == <<leaves, signed, held>>

Hash(l, r) == <<l, r>>

\* The leaf hashes in the order of the categories' names.
Position(m, c) == Cardinality({d \in DOMAIN m : d <= c})
Leaves(m) == [i \in 1..Cardinality(DOMAIN m) |-> m[CHOOSE c \in DOMAIN m : Position(m, c) = i]]

\* Mutant of Level: the odd last node is left out of the next level.
LevelCut(h) == [i \in 1..(Len(h) \div 2) |-> Hash(h[2 * i - 1], h[2 * i])]

\* The next level: an odd last node is paired with itself.
Level(h) == [i \in 1..((Len(h) + 1) \div 2) |->
                Hash(h[2 * i - 1], IF 2 * i <= Len(h) THEN h[2 * i] ELSE h[2 * i - 1])]

\* A node's sibling joins the proof: an odd last node has none.
WithSibling(proof, h, i) ==
    LET sibling == IF i % 2 = 1 THEN i + 1 ELSE i - 1
    IN  IF sibling > Len(h) THEN proof
        ELSE Append(proof, [hash |-> h[sibling], right |-> i % 2 = 1])

\* A round of `while len(hashes) > 1`, of root_hash and of get_proof.
Higher(s) ==
    IF Len(s.nodes) <= 1 THEN s
    ELSE [nodes |-> Level(s.nodes), index |-> (s.index + 1) \div 2,
          proof |-> WithSibling(s.proof, s.nodes, s.index)]

\* From the i-th of the leaves h to the root, which is reached in Len(h) rounds or fewer.
Climb(h, i) ==
    LET up[k \in 0..Len(h)] ==
            IF k = 0 THEN [nodes |-> h, index |-> i, proof |-> <<>>] ELSE Higher(up[k - 1])
    IN  up

\* root_hash
Root(h) == IF h = <<>> THEN Unsigned ELSE Climb(h, 1)[Len(h)].nodes[1]

\* Mutant of GetProof: the position is counted from the end.
GetProofReversed(m, c) ==
    Climb(Leaves(m), 1 + Cardinality({d \in DOMAIN m : d > c}))[Cardinality(DOMAIN m)].proof

\* get_proof
GetProof(m, c) == Climb(Leaves(m), Position(m, c))[Cardinality(DOMAIN m)].proof

\* verify_proof: the hash that data has with a proof, against the leaves at hand.
HashUp(data, proof) ==
    LET up[i \in 0..Len(proof)] ==
            IF i = 0 THEN data
            ELSE IF proof[i].right THEN Hash(up[i - 1], proof[i].hash)
                                   ELSE Hash(proof[i].hash, up[i - 1])
    IN  up[Len(proof)]

VerifyProof(data, proof) == HashUp(data, proof) = Root(Leaves(leaves))

\* verify_integrity
Valid == Root(Leaves(leaves)) = (IF signed = Unsigned THEN Unsigned ELSE Root(Leaves(signed)))

MerkleInit == leaves = [c \in {} |-> Unsigned] /\ signed = Unsigned /\ held = Unsigned

UpdateLeaf(c, d) ==
    /\ leaves' = [x \in DOMAIN leaves \cup {c} |-> IF x = c THEN d ELSE leaves[x]]
    /\ UNCHANGED <<signed, held>>

RemoveLeaf(c) ==
    /\ c \in DOMAIN leaves
    /\ leaves' = [x \in DOMAIN leaves \ {c} |-> leaves[x]]
    /\ UNCHANGED <<signed, held>>

SignCheckpoint == signed' = leaves /\ UNCHANGED <<leaves, held>>

Hold(c) ==
    /\ c \in DOMAIN leaves
    /\ held' = [cat |-> c, leaves |-> leaves, proof |-> GetProof(leaves, c)]
    /\ UNCHANGED <<leaves, signed>>

MerkleNext ==
    \/ \E c \in Categories : RemoveLeaf(c) \/ Hold(c) \/ \E d \in Data : UpdateLeaf(c, d)
    \/ SignCheckpoint

MerkleSpec == MerkleInit /\ [][MerkleNext]_merkleVars

-----------------------------------------------------------------------------

\* The states a tree can be in: data for finitely many categories.
States == UNION {[S -> Data] : S \in {T \in SUBSET Categories : IsFiniteSet(T)}}

\* What is signed or held was the state once.
MerkleTypeOK ==
    /\ leaves \in States
    /\ signed # Unsigned => signed \in States
    /\ held # Unsigned =>
          \E m \in States : \E c \in DOMAIN m :
              held = [cat |-> c, leaves |-> m, proof |-> GetProof(m, c)]

\* The way up from a category passes an odd last node.
OddOnPath(m, c) ==
    \E k \in 0..Cardinality(DOMAIN m) :
        LET s == Climb(Leaves(m), Position(m, c))[k]
        IN  Len(s.nodes) > 1 /\ s.index = Len(s.nodes) /\ s.index % 2 = 1

\* After any changes that keep the signed categories, or bring them back, the
\* state is valid exactly if every category has the data it was signed with.
IntegrityIsExact ==
    signed # Unsigned /\ DOMAIN signed = DOMAIN leaves => (Valid <=> leaves = signed)

\* A proof got earlier verifies what its category has now, and no other data,
\* as long as no other category has changed; then it verifies nothing.  This
\* leaves out proofs whose way up passes an odd last node.
ProofsBind ==
    held # Unsigned /\ ~OddOnPath(held.leaves, held.cat)
                    /\ DOMAIN held.leaves = DOMAIN leaves =>
        \A d \in Data :
            VerifyProof(d, held.proof) <=> leaves = [held.leaves EXCEPT ![held.cat] = d]

\* "Verify a Merkle proof for given data." (merkle.py:118): a category's own
\* data and a proof just got for it verify.
ProofsVerify == \A c \in DOMAIN leaves : VerifyProof(leaves[c], GetProof(leaves, c))

\* "If anything is modified without going through legitimate channels, the root
\* hash changes." (merkle.py:4)
DriftIsSeen == signed # Unsigned /\ leaves # signed => ~Valid
=============================================================================
