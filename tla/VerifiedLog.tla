----------------------------- MODULE VerifiedLog -----------------------------
(***************************************************************************)
(* What the integrity guard promises its callers, with no file, signature  *)
(* or lock in sight: there is one append-only log of published memory      *)
(* contents, and a verified read returns an entry that was the newest one  *)
(* at some moment between the start and the end of the read.               *)
(***************************************************************************)
EXTENDS Naturals, Sequences

CONSTANTS Proc,      \* callers of the guard
          Content,   \* logical contents of an agent's memories
          None

VARIABLES published, \* the contents published so far, oldest first
          floor,     \* length of the log when the caller's current call began
          served     \* last answer of each caller: [content, seq], seq 0 if none

vars == <<published, floor, served>>

Init ==
    /\ published = <<>>
    /\ floor = [p \in Proc |-> 0]
    /\ served = [p \in Proc |-> [content |-> None, seq |-> 0]]

Publish(c) ==
    /\ published' = Append(published, c)
    /\ UNCHANGED <<floor, served>>

Begin(p) ==
    /\ floor' = [floor EXCEPT ![p] = Len(published)]
    /\ UNCHANGED <<published, served>>

\* An answer is one of the entries the log has had as its newest since the
\* read began.
Answer(p) ==
    /\ \E i \in 1..Len(published) :
          /\ i >= floor[p]
          /\ served' = [served EXCEPT ![p] = [content |-> published[i], seq |-> i]]
    /\ floor' = [floor EXCEPT ![p] = 0]
    /\ UNCHANGED published

\* The call is refused, or was not a read.
End(p) ==
    /\ floor' = [floor EXCEPT ![p] = 0]
    /\ UNCHANGED <<published, served>>

Next == \/ \E c \in Content : Publish(c)
        \/ \E p \in Proc : Begin(p) \/ Answer(p) \/ End(p)

Spec == Init /\ [][Next]_vars
=============================================================================
