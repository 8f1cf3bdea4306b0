------------------------------- MODULE MCJobs -------------------------------
(***************************************************************************)
(* One instance for TLC of the nightly sleep gate, the agent's tables, the *)
(* connectome and the trees.  They share no state, so a behaviour is one   *)
(* of one of them, while the others keep still.                            *)
(***************************************************************************)
EXTENDS AgentTables, Connectome, MCSleepGate, MCTrees

CONSTANTS c1, c2, t3, work, home

VARIABLE part

ASSUME AgentAssumption

\* Two tasks share a process, a third has one of its own.
OneAndTwo == [t \in Task |-> IF t = t3 THEN c2 ELSE c1]

Growth ==
    LET grown[k \in 0..MaxOps] ==
            IF k = 0 THEN 5000 ELSE grown[k - 1] + (Full - grown[k - 1] + 5) \div 10
    IN  [s \in Start |-> grown]

Drifts == {-2, 1}
TwoDomains == [m \in 1..Memories |-> IF m = 3 THEN home ELSE work]
Chain == {{{1, 2}, {2, 3}}}

JobsInit ==
    /\ part \in {"night", "tables", "graph", "trees"}
    /\ TreesInit
    /\ part = "trees" \/ tree = "merkle"
    /\ part = "graph" \/ category = [m \in 1..Memories |-> "other"]
    /\ GraphInit /\ AgentInit
    /\ \/ part = "night"
       \/ /\ imp = All(2) /\ rel = All(1) /\ sim = {} /\ dry = FALSE
          /\ activation = All("between") /\ identity = {}
    /\ Init

JobsNext ==
    \/ part = "night" /\ Next /\ UNCHANGED <<part, agentVars, graphVars, treeVars>>
    \/ part = "tables" /\ AgentNext /\ UNCHANGED <<part, vars, graphVars, treeVars>>
    \/ part = "graph" /\ GraphNext /\ UNCHANGED <<part, vars, agentVars, treeVars>>
    \/ part = "trees" /\ TreesNext /\ UNCHANGED <<part, vars, agentVars, graphVars>>

JobsSpec == JobsInit /\ [][JobsNext]_<<part, vars, agentVars, graphVars, treeVars>>

\* Builders are interchangeable.
BuilderSymmetry == Permutations(Builder)
=============================================================================
