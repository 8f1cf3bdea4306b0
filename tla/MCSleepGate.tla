----------------------------- MODULE MCSleepGate -----------------------------
(* Instances of SleepGate for TLC. *)
EXTENDS SleepGate

Pairs == {p \in Mem \X Mem : p[1] < p[2]}
All(v) == [m \in Mem |-> v]

\* Any near-duplicate relation over memories of any rank, and nothing for the
\* first three phases to do.
DuplicateNights ==
    [imp : [Mem -> {2, 3}], rel : [Mem -> {1, 2}], util : {All(1)}, near : SUBSET Pairs,
     identity : {{}}, activation : {All("between")}]

\* Memories to boost, to decay and to prune, in any mixture, and no duplicates.
BusyNights ==
    [imp : [Mem -> {1, 2}], rel : [Mem -> {0, 1}], util : {All(1)}, near : {{}},
     identity : {{}, {1}}, activation : [Mem -> {"recent", "stale"}]]

AnyNight == DuplicateNights \cup BusyNights
=============================================================================
