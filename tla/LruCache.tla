------------------------------- MODULE LruCache -------------------------------
(***************************************************************************)
(* What SplayCache promises: a map of at most MaxSize keys, each with the  *)
(* time of its last access, that gives up a key accessed least recently.   *)
(***************************************************************************)
EXTENDS FiniteSets, Integers

CONSTANTS Key, Value, Time, MaxSize, Nothing

VARIABLES entries,  \* [the keys at hand -> [val, at]]
          now,      \* the clock
          answer    \* what the last call returned

vars == <<entries, now, answer>>

Keys == DOMAIN entries

With(k, v) == [j \in Keys \cup {k} |-> IF j = k THEN [val |-> v, at |-> now] ELSE entries[j]]
Without(e, k) == [j \in DOMAIN e \ {k} |-> e[j]]
Coldest(e) == {k \in DOMAIN e : \A j \in DOMAIN e : e[k].at <= e[j].at}

Init == entries = [k \in {} |-> Nothing] /\ now \in Time /\ answer = Nothing

Get(k) ==
    /\ answer' = IF k \in Keys THEN entries[k].val ELSE Nothing
    /\ entries' = IF k \in Keys THEN With(k, entries[k].val) ELSE entries
    /\ UNCHANGED now

Put(k, v) ==
    /\ answer' = Nothing
    /\ IF k \notin Keys /\ Cardinality(Keys) = MaxSize
       THEN \E c \in Coldest(With(k, v)) : entries' = Without(With(k, v), c)
       ELSE entries' = With(k, v)
    /\ UNCHANGED now

Delete(k) ==
    /\ answer' = (k \in Keys)
    /\ entries' = Without(entries, k)
    /\ UNCHANGED now

Contains(k) == answer' = (k \in Keys) /\ UNCHANGED <<entries, now>>

Clear == entries' = [k \in {} |-> Nothing] /\ answer' = Nothing /\ UNCHANGED now

Tick == now' \in Time /\ UNCHANGED <<entries, answer>>

Next ==
    \/ Tick \/ Clear
    \/ \E k \in Key : Contains(k) \/ Get(k) \/ Delete(k) \/ \E v \in Value : Put(k, v)

Spec == Init /\ [][Next]_vars
=============================================================================
