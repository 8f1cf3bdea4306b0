------------------------------ MODULE MCStores ------------------------------
(***************************************************************************)
(* One instance of two modules for TLC: the memories on PostgreSQL and the *)
(* procedures with their trie.  They share no state, so a behaviour is one *)
(* of the one or of the other, which keeps still.                          *)
(***************************************************************************)
EXTENDS ProceduralStore, PostgresVectors, TLC

VARIABLE part

StoresInit == part \in {"memories", "procedures"} /\ Init /\ VectorsInit

StoresNext ==
    \/ part = "procedures" /\ Next /\ UNCHANGED <<part, vectorVars>>
    \/ part = "memories" /\ VectorsNext /\ UNCHANGED <<part, vars>>

StoresSpec == StoresInit /\ [][StoresNext]_<<part, vars, vectorVars>>

\* A query that only the first description extends, and one both extend.
ShortAndLong == {{1}, {1, 2}}

\* Tasks and types are interchangeable: no definition names one.
TaskSymmetry == Permutations(Stores) \cup Permutations(Searches) \cup Permutations(Types)
=============================================================================
