------------------------ MODULE IntegrityGuard_proofs ------------------------
(***************************************************************************)
(* The safety of the integrity guard for any number of hosts and callers,  *)
(* any contents and any number of published checkpoints.                   *)
(***************************************************************************)
EXTENDS IntegrityGuard, SequenceTheorems, TLAPS

\* The log only ever grows at its end.
Grows == Len(log') >= Len(log) /\ \A i \in 1..Len(log) : log'[i] = log[i]

\* A step of somebody else leaves the caller's own state alone and does not
\* take its lock away.
Elsewhere(q) ==
    /\ pc'[q] = pc[q] /\ op'[q] = op[q] /\ env'[q] = env[q]
    /\ snap'[q] = snap[q] /\ expected'[q] = expected[q] /\ floor'[q] = floor[q]
    /\ lock[HostOf[q]] = q => lock'[HostOf[q]] = q

\* A checkpoint once in the log stays in the log.
LEMMA EntryStays ==
    ASSUME TypeOK, Grows, NEW c, IsEntry(c)
    PROVE  IsEntry(c)'
  BY DEF TypeOK, Grows, IsEntry

\* What a caller knows survives everybody else's steps.
LEMMA CallStays ==
    ASSUME TypeOK, Grows, Len(log') \in Nat, NEW q \in Proc, CallOK(q), Elsewhere(q)
    PROVE  CallOK(q)'
<1>1. floor'[q] <= Len(log')
  BY DEF TypeOK, Grows, CallOK, Elsewhere
<1>2. IsEntry(env[q]) => IsEntry(env[q])'
  <2>. SUFFICES ASSUME IsEntry(env[q]) PROVE IsEntry(env[q])'
    OBVIOUS
  <2>1. env'[q] = env[q]
    BY DEF Elsewhere
  <2>. QED
    BY <2>1 DEF TypeOK, Grows, IsEntry
<1>. QED
  BY <1>1, <1>2 DEF CallOK, Elsewhere

\* The newest accepted checkpoint carries the length of the log.
LEMMA HeadIsEntry ==
    ASSUME TypeOK, LogIsChain, WitnessHead # None
    PROVE  /\ IsEntry(WitnessHead)
           /\ WitnessHead.seq = Len(log)
<1>1. log # <<>> /\ WitnessHead = log[Len(log)]
  BY DEF WitnessHead
<1>2. Len(log) \in DOMAIN log /\ DOMAIN log = 1..Len(log)
  BY <1>1 DEF TypeOK
<1>3. log[Len(log)].seq = Len(log)
  BY <1>2 DEF LogIsChain
<1>. QED
  BY <1>1, <1>2, <1>3 DEF IsEntry

\* The checkpoint that _publish_snapshot builds is well formed.
LEMMA SuccessorType ==
    ASSUME TypeOK, NEW c \in Content
    PROVE  Successor(WitnessHead, c) \in Checkpoint
<1>1. WitnessHead \in Checkpoint \cup {None}
  BY DEF WitnessHead, TypeOK
<1>. QED
  BY <1>1 DEF Successor, Checkpoint, Digest

\* What the accepted checkpoint does to the log.
LEMMA AppendGrows ==
    ASSUME TypeOK, NEW c \in Checkpoint, log' = Append(log, c)
    PROVE  /\ log' \in Seq(Checkpoint)
           /\ Len(log') = Len(log) + 1
           /\ \A i \in 1..Len(log) : log'[i] = log[i]
           /\ log'[Len(log) + 1] = c
           /\ Grows
<1>1. log \in Seq(Checkpoint)
  BY DEF TypeOK
<1>2. Len(log) \in Nat
  BY <1>1
<1>. QED
  BY <1>1, <1>2, AppendProperties DEF Grows

\* A step that leaves the log alone lets it grow by nothing.
LEMMA SameGrows ==
    ASSUME TypeOK, UNCHANGED log
    PROVE  Grows /\ Len(log') \in Nat
  BY DEF TypeOK, Grows

-----------------------------------------------------------------------------
(* Type correctness of each step *)

\* Ending an operation keeps the types of the caller's locals.
LEMMA LeaveType ==
    ASSUME TypeOK, NEW p \in Proc, NEW step \in Pc, Leave(p, step)
    PROVE  /\ pc' \in [Proc -> Pc] /\ op' \in [Proc -> Op]
           /\ lock' \in [Host -> Proc \cup {None}]
           /\ env' \in [Proc -> Checkpoint \cup {None}]
           /\ snap' \in [Proc -> Content \cup {None}]
           /\ expected' \in [Proc -> Checkpoint \cup {None}]
           /\ floor' \in [Proc -> Nat] /\ restored' \in SUBSET Proc
  BY DEF TypeOK, Leave, Goto, Op

\* Every step of the specification keeps the types.
LEMMA TypeStep ==
    ASSUME IInv, Next
    PROVE  TypeOK'
<1>. USE DEF IInv
<1>. Len(log) \in Nat
  BY DEF TypeOK
<1>1. ASSUME NEW p \in Proc, BeginRead(p) PROVE TypeOK'
  BY <1>1 DEF BeginRead, Begin, Goto, TypeOK, Pc, Op
<1>2. ASSUME NEW p \in Proc, BeginMutate(p) PROVE TypeOK'
  BY <1>2, HostAssumption DEF BeginMutate, BeginWrite, Begin, Goto, TypeOK, Pc, Op
<1>3. ASSUME NEW p \in Proc, BeginSeal(p) PROVE TypeOK'
  BY <1>3, HostAssumption DEF BeginSeal, BeginWrite, Begin, Goto, TypeOK, Pc, Op
<1>4. ASSUME NEW p \in Proc, ReadFile(p) PROVE TypeOK'
  <2>1. CASE file[HostOf[p]] = None
    BY <1>4, <2>1, LeaveType DEF ReadFile, TypeOK, Pc
  <2>2. CASE file[HostOf[p]] # None
    BY <1>4, <2>2, HostAssumption DEF ReadFile, Goto, TypeOK, Pc
  <2>. QED BY <2>1, <2>2
<1>5. ASSUME NEW p \in Proc, ReadWitness(p) PROVE TypeOK'
  <2>1. CASE WitnessHead = env[p]
    BY <1>5, <2>1 DEF ReadWitness, Goto, TypeOK, Pc, locals
  <2>2. CASE WitnessHead # env[p]
    BY <1>5, <2>2, LeaveType DEF ReadWitness, TypeOK, Pc
  <2>. QED BY <2>1, <2>2
<1>6. ASSUME NEW p \in Proc, TakeSnapshot(p) PROVE TypeOK'
  <2>1. CASE op[p] = "seal" \/ db[HostOf[p]] = env[p].head
    <3>1. op[p] \in {"read", "mutate", "seal"}
      BY <1>6 DEF TakeSnapshot, CallOK, TypeOK, Op
    <3>2. AfterSnapshot[op[p]] \in Pc
      BY <3>1 DEF AfterSnapshot, Pc
    <3>. QED
      BY <1>6, <2>1, <3>2, HostAssumption DEF TakeSnapshot, Goto, TypeOK
  <2>2. CASE ~(op[p] = "seal" \/ db[HostOf[p]] = env[p].head)
    BY <1>6, <2>2, LeaveType DEF TakeSnapshot, TypeOK, Pc
  <2>. QED BY <2>1, <2>2
<1>7. ASSUME NEW p \in Proc, Serve(p) PROVE TypeOK'
  <2>1. env[p] \in Checkpoint
    BY <1>7 DEF Serve, CallOK, IsEntry, TypeOK
  <2>2. served' \in [Proc -> [content : Content \cup {None}, seq : Nat]]
    BY <1>7, <2>1 DEF Serve, TypeOK, Checkpoint
  <2>. QED
    BY <1>7, <2>2, LeaveType DEF Serve, TypeOK, Pc
<1>8. ASSUME NEW p \in Proc, Execute(p) PROVE TypeOK'
  BY <1>8 DEF Execute, Goto, TypeOK, Pc
<1>9. ASSUME NEW p \in Proc, ReadPrevious(p) PROVE TypeOK'
  <2>1. snap[p] \in Content
    BY <1>9 DEF ReadPrevious, CallOK, TypeOK
  <2>2. Successor(WitnessHead, snap[p]) \in Checkpoint
    BY <2>1, SuccessorType
  <2>3. WitnessHead \in Checkpoint \cup {None}
    BY DEF WitnessHead, TypeOK
  <2>. QED
    BY <1>9, <2>2, <2>3 DEF ReadPrevious, Goto, TypeOK, Pc
<1>10. ASSUME NEW p \in Proc, Advance(p) PROVE TypeOK'
  <2>1. CASE Accepts(WitnessHead, expected[p], env[p])
    <3>1. env[p] \in Checkpoint
      BY <1>10 DEF Advance, CallOK, TypeOK
    <3>2. log' \in Seq(Checkpoint)
      BY <1>10, <2>1, <3>1, AppendGrows DEF Advance
    <3>. QED
      BY <1>10, <2>1, <3>2 DEF Advance, Goto, TypeOK, Pc, locals
  <2>2. CASE ~Accepts(WitnessHead, expected[p], env[p])
    BY <1>10, <2>2, LeaveType DEF Advance, TypeOK, Pc
  <2>. QED BY <2>1, <2>2
<1>11. ASSUME NEW p \in Proc, WriteFile(p) PROVE TypeOK'
  <2>1. env[p] \in Checkpoint
    BY <1>11 DEF WriteFile, CallOK, IsEntry, TypeOK
  <2>. QED
    BY <1>11, <2>1, HostAssumption DEF WriteFile, Goto, TypeOK, Pc, locals
<1>12. ASSUME NEW p \in Proc, Commit(p) PROVE TypeOK'
  <2>1. snap[p] \in Content
    BY <1>12 DEF Commit, CallOK, TypeOK
  <2>. QED
    BY <1>12, <2>1, LeaveType DEF Commit, TypeOK, Pc
<1>13. ASSUME NEW p \in Proc, Crash(p) PROVE TypeOK'
  BY <1>13, LeaveType DEF Crash, TypeOK, Pc
<1>14. ASSUME NEW p \in Proc, Restart(p) PROVE TypeOK'
  BY <1>14 DEF Restart, Goto, TypeOK, Pc, locals
<1>15. ASSUME NEW h \in Host, NEW c \in Content, RawWrite(h, c) PROVE TypeOK'
  BY <1>15 DEF RawWrite, TypeOK, locals
<1>16. ASSUME NEW h \in Host, NEW i \in 0..Len(log), RestoreFile(h, i) PROVE TypeOK'
  <2>1. i # 0 => log[i] \in Checkpoint
    BY DEF TypeOK
  <2>. QED
    BY <1>16, <2>1 DEF RestoreFile, TypeOK
<1>. QED
  BY <1>1, <1>2, <1>3, <1>4, <1>5, <1>6, <1>7, <1>8, <1>9, <1>10, <1>11,
     <1>12, <1>13, <1>14, <1>15, <1>16 DEF Next, Step

-----------------------------------------------------------------------------
(* The other conjuncts of the inductive invariant *)

\* The chain is extended only by Advance, with the successor of its head.
LEMMA ChainStep ==
    ASSUME IInv, Next
    PROVE  LogIsChain' /\ Grows /\ Len(log') \in Nat
<1>. USE DEF IInv
<1>1. CASE UNCHANGED log
  BY <1>1, SameGrows DEF LogIsChain, Digest
<1>2. ASSUME NEW p \in Proc, Advance(p), ~UNCHANGED log
      PROVE  LogIsChain' /\ Grows /\ Len(log') \in Nat
  <2>1. env[p] \in Checkpoint
    BY <1>2 DEF Advance, CallOK, TypeOK
  <2>2. Accepts(WitnessHead, expected[p], env[p]) /\ log' = Append(log, env[p])
    BY <1>2 DEF Advance
  <2>3. Len(log) \in Nat /\ DOMAIN log = 1..Len(log)
    BY DEF TypeOK
  <2>4. /\ log' \in Seq(Checkpoint)
        /\ Len(log') = Len(log) + 1
        /\ \A i \in 1..Len(log) : log'[i] = log[i]
        /\ log'[Len(log) + 1] = env[p]
        /\ Grows
    BY <2>1, <2>2, AppendGrows
  <2>5. DOMAIN log' = 1..(Len(log) + 1)
    BY <2>4
  <2>6. ASSUME NEW i \in 1..Len(log)
        PROVE  /\ log'[i].seq = i
               /\ log'[i].prev = IF i = 1 THEN Genesis ELSE Digest(log'[i - 1])
    <3>1. i = 1 \/ i - 1 \in 1..Len(log)
      BY <2>3
    <3>2. i = 1 \/ log'[i - 1] = log[i - 1]
      BY <2>4, <3>1
    <3>. QED
      BY <2>3, <2>4, <3>2 DEF LogIsChain, Digest
  <2>7. /\ env[p].seq = Len(log) + 1
        /\ env[p].prev = IF Len(log) = 0 THEN Genesis ELSE Digest(log[Len(log)])
    <3>1. CASE log = <<>>
      BY <2>2, <3>1 DEF Accepts, WitnessHead
    <3>2. CASE log # <<>>
      <4>1. Len(log) # 0 /\ log[Len(log)] \in Checkpoint /\ WitnessHead = log[Len(log)]
        BY <3>2 DEF TypeOK, WitnessHead
      <4>2. WitnessHead # None
        BY <4>1, NoneAssumption
      <4>3. log[Len(log)].seq = Len(log)
        BY <4>1, <4>2, HeadIsEntry
      <4>. QED
        BY <2>2, <4>1, <4>2, <4>3 DEF Accepts
    <3>. QED BY <3>1, <3>2
  <2>8. /\ log'[Len(log) + 1].seq = Len(log) + 1
        /\ log'[Len(log) + 1].prev =
              IF Len(log) + 1 = 1 THEN Genesis ELSE Digest(log'[(Len(log) + 1) - 1])
    <3>1. Len(log) = 0 \/ log'[Len(log)] = log[Len(log)]
      BY <2>3, <2>4
    <3>2. (Len(log) + 1) - 1 = Len(log) /\ (Len(log) + 1 = 1 <=> Len(log) = 0)
      BY <2>3
    <3>. QED
      BY <2>4, <2>7, <3>1, <3>2 DEF Digest
  <2>9. ASSUME NEW i \in DOMAIN log'
        PROVE  /\ log'[i].seq = i
               /\ log'[i].prev = IF i = 1 THEN Genesis ELSE Digest(log'[i - 1])
    <3>1. i \in 1..Len(log) \/ i = Len(log) + 1
      BY <2>3, <2>5
    <3>. QED
      BY <2>6, <2>8, <3>1
  <2>. QED
    BY <2>3, <2>4, <2>9 DEF LogIsChain, Digest
<1>3. UNCHANGED log \/ \E p \in Proc : Advance(p)
  BY DEF Next, Step, BeginRead, BeginMutate, BeginSeal, BeginWrite, Begin,
         ReadFile, ReadWitness, TakeSnapshot, Serve, Execute, ReadPrevious,
         WriteFile, Commit, Crash, Restart, RawWrite, RestoreFile
<1>. QED
  BY <1>1, <1>2, <1>3

\* Only WriteFile and RestoreFile change a file, to an accepted checkpoint.
LEMMA FileStep ==
    ASSUME IInv, Next
    PROVE  \A h \in Host : file'[h] # None => IsEntry(file[h])'
<1>. USE DEF IInv
<1>0. Grows /\ Len(log) \in Nat
  BY ChainStep DEF TypeOK
<1>1. CASE UNCHANGED file
  <2>. SUFFICES ASSUME NEW h \in Host, file[h] # None PROVE IsEntry(file[h])'
    BY <1>1
  <2>1. IsEntry(file[h])
    OBVIOUS
  <2>. QED
    BY <1>0, <1>1, <2>1 DEF IsEntry, Grows, TypeOK
<1>2. ASSUME NEW p \in Proc, WriteFile(p), NEW h \in Host, file'[h] # None
      PROVE  IsEntry(file[h])'
  <2>1. IsEntry(env[p]) /\ UNCHANGED log
    BY <1>2 DEF WriteFile, CallOK
  <2>2. file'[h] = env[p] \/ file'[h] = file[h]
    BY <1>2 DEF WriteFile, TypeOK
  <2>. QED
    BY <1>2, <2>1, <2>2 DEF IsEntry
<1>3. ASSUME NEW k \in Host, NEW i \in 0..Len(log), RestoreFile(k, i),
             NEW h \in Host, file'[h] # None
      PROVE  IsEntry(file[h])'
  <2>1. CASE h = k
    <3>1. i \in 1..Len(log) /\ file'[h] = log[i] /\ UNCHANGED log
      BY <1>0, <1>3, <2>1 DEF RestoreFile, TypeOK
    <3>2. log[i].seq = i
      BY <3>1 DEF LogIsChain, TypeOK
    <3>. QED
      BY <1>3, <3>1, <3>2 DEF IsEntry
  <2>2. CASE h # k
    BY <1>3, <2>2 DEF RestoreFile, TypeOK, IsEntry
  <2>. QED BY <2>1, <2>2
<1>4. \/ UNCHANGED file
      \/ \E p \in Proc : WriteFile(p)
      \/ \E h \in Host : \E i \in 0..Len(log) : RestoreFile(h, i)
  BY DEF Next, Step, BeginRead, BeginMutate, BeginSeal, BeginWrite, Begin,
         ReadFile, ReadWitness, TakeSnapshot, Serve, Execute, ReadPrevious,
         Advance, Commit, Crash, Restart, RawWrite
<1>. QED
  BY <1>1, <1>2, <1>3, <1>4

\* Only Serve answers, from the snapshot that matched an accepted checkpoint.
LEMMA ServedStep ==
    ASSUME IInv, Next
    PROVE  ServedWasPublished'
<1>. USE DEF IInv
<1>0. Grows /\ Len(log) \in Nat /\ Len(log') \in Nat
  BY ChainStep DEF TypeOK
<1>1. CASE UNCHANGED served
  BY <1>0, <1>1 DEF ServedWasPublished, Grows, TypeOK
<1>2. ASSUME NEW p \in Proc, Serve(p) PROVE ServedWasPublished'
  <2>1. IsEntry(env[p]) /\ snap[p] = env[p].head /\ UNCHANGED log
    BY <1>2 DEF Serve, CallOK
  <2>2. served' = [served EXCEPT ![p] = [content |-> snap[p], seq |-> env[p].seq]]
    BY <1>2 DEF Serve
  <2>. QED
    BY <1>0, <2>1, <2>2 DEF ServedWasPublished, IsEntry, TypeOK
<1>3. UNCHANGED served \/ \E p \in Proc : Serve(p)
  BY DEF Next, Step, BeginRead, BeginMutate, BeginSeal, BeginWrite, Begin,
         ReadFile, ReadWitness, TakeSnapshot, Execute, ReadPrevious,
         Advance, WriteFile, Commit, Crash, Restart, RawWrite, RestoreFile
<1>. QED
  BY <1>1, <1>2, <1>3

-----------------------------------------------------------------------------
(* What callers know *)

\* A caller that has left its operation knows nothing and holds nothing.
LEMMA LeaveCall ==
    ASSUME TypeOK, Len(log') \in Nat, NEW p \in Proc,
           NEW step \in {"idle", "down"}, Leave(p, step)
    PROVE  /\ CallOK(p)'
           /\ \A q \in Proc : q # p => Elsewhere(q)
<1>1. /\ pc'[p] = step /\ op'[p] = "none" /\ floor'[p] = 0
  BY DEF Leave, Goto, TypeOK
<1>2. CallOK(p)'
  BY <1>1 DEF CallOK
<1>3. \A q \in Proc : q # p => Elsewhere(q)
  BY HostAssumption DEF Leave, Goto, TypeOK, Elsewhere
<1>. QED
  BY <1>2, <1>3

\* Each step of a caller brings it to where CallOK says, and leaves the other
\* callers where they are.
LEMMA CallStep ==
    ASSUME IInv, Next
    PROVE  \A q \in Proc : CallOK(q)'
<1>. USE DEF IInv
<1>. DEFINE Good(p) == CallOK(p)' /\ \A q \in Proc : q # p => Elsewhere(q)
<1>0. Grows /\ Len(log) \in Nat /\ Len(log') \in Nat /\ LogIsChain'
  BY ChainStep DEF TypeOK
<1>1. ASSUME NEW p \in Proc, BeginRead(p) PROVE Good(p)
  <2>1. pc'[p] = "file" /\ op'[p] = "read" /\ floor'[p] = Len(log) /\ log' = log
    BY <1>1 DEF BeginRead, Begin, Goto, TypeOK
  <2>2. CallOK(p)'
    BY <1>0, <2>1 DEF CallOK
  <2>. QED
    BY <1>1, <2>2 DEF BeginRead, Begin, Goto, TypeOK, Elsewhere
<1>2. ASSUME NEW p \in Proc, NEW kind \in {"mutate", "seal"},
             NEW step \in {"file", "snapshot"}, BeginWrite(p, kind, step),
             step = "file" <=> kind = "mutate"
      PROVE  Good(p)
  <2>1. /\ pc'[p] = step /\ op'[p] = kind /\ floor'[p] = Len(log)
        /\ log' = log /\ lock'[HostOf[p]] = p
    BY <1>2, HostAssumption DEF BeginWrite, Begin, Goto, TypeOK
  <2>2. CallOK(p)'
    BY <1>0, <1>2, <2>1 DEF CallOK
  <2>3. \A q \in Proc : q # p /\ lock[HostOf[q]] = q => lock'[HostOf[q]] = q
    BY <1>2, HostAssumption, NoneAssumption DEF BeginWrite, TypeOK
  <2>. QED
    BY <1>2, <2>2, <2>3 DEF BeginWrite, Begin, Goto, TypeOK, Elsewhere
<1>3. ASSUME NEW p \in Proc, ReadFile(p) PROVE Good(p)
  <2>1. CASE file[HostOf[p]] = None
    BY <1>0, <1>3, <2>1, LeaveCall DEF ReadFile
  <2>2. CASE file[HostOf[p]] # None
    <3>1. /\ pc'[p] = "witness" /\ env'[p] = file[HostOf[p]] /\ op'[p] = op[p]
          /\ floor'[p] = floor[p] /\ lock' = lock /\ log' = log
      BY <1>3, <2>2 DEF ReadFile, Goto, TypeOK
    <3>2. IsEntry(env[p])'
      BY <2>2, <3>1, HostAssumption DEF IsEntry
    <3>3. CallOK(p)'
      BY <1>3, <3>1, <3>2 DEF ReadFile, CallOK
    <3>. QED
      BY <1>3, <2>2, <3>3 DEF ReadFile, Goto, TypeOK, Elsewhere
  <2>. QED BY <2>1, <2>2
<1>4. ASSUME NEW p \in Proc, ReadWitness(p) PROVE Good(p)
  <2>1. CASE WitnessHead = env[p]
    <3>1. /\ pc'[p] = "snapshot" /\ env'[p] = env[p] /\ op'[p] = op[p]
          /\ floor'[p] = floor[p] /\ lock' = lock /\ log' = log
      BY <1>4, <2>1 DEF ReadWitness, Goto, TypeOK, locals
    <3>2. IsEntry(env[p]) /\ env[p] # None
      BY <1>4 DEF ReadWitness, CallOK, IsEntry
    <3>3. env[p].seq = Len(log)
      BY <2>1, <3>2, HeadIsEntry
    <3>4. IsEntry(env[p])' /\ env'[p].seq >= floor'[p]
      BY <1>0, <3>1, <3>2, <3>3 DEF IsEntry, CallOK, TypeOK
    <3>5. CallOK(p)'
      BY <1>4, <3>1, <3>4 DEF ReadWitness, CallOK
    <3>. QED
      BY <1>4, <2>1, <3>5 DEF ReadWitness, Goto, TypeOK, Elsewhere, locals
  <2>2. CASE WitnessHead # env[p]
    BY <1>0, <1>4, <2>2, LeaveCall DEF ReadWitness
  <2>. QED BY <2>1, <2>2
<1>5. ASSUME NEW p \in Proc, TakeSnapshot(p) PROVE Good(p)
  <2>1. CASE op[p] = "seal" \/ db[HostOf[p]] = env[p].head
    <3>1. /\ pc'[p] = AfterSnapshot[op[p]] /\ snap'[p] = db[HostOf[p]]
          /\ env'[p] = env[p] /\ op'[p] = op[p] /\ floor'[p] = floor[p]
          /\ lock' = lock /\ log' = log
      BY <1>5, <2>1 DEF TakeSnapshot, Goto, TypeOK
    <3>2. op[p] \in {"read", "mutate", "seal"}
      BY <1>5 DEF TakeSnapshot, CallOK, TypeOK, Op
    <3>3. db[HostOf[p]] # None
      BY HostAssumption, NoneAssumption DEF TypeOK
    <3>4. op[p] # "seal" => IsEntry(env[p])' /\ env'[p].seq >= floor'[p]
      BY <1>5, <3>1 DEF TakeSnapshot, CallOK, IsEntry
    <3>0. /\ floor'[p] <= Len(log')
          /\ op[p] \in {"mutate", "seal"} => lock'[HostOf[p]] = p
      BY <3>1 DEF CallOK
    <3>5. ASSUME op[p] = "read" PROVE CallOK(p)'
      <4>1. pc'[p] = "serve" /\ snap'[p] = env'[p].head
        BY <2>1, <3>1, <3>5 DEF AfterSnapshot
      <4>. QED
        BY <3>0, <3>1, <3>4, <3>5, <4>1 DEF CallOK
    <3>6. ASSUME op[p] = "mutate" PROVE CallOK(p)'
      <4>1. pc'[p] = "execute"
        BY <3>1, <3>6 DEF AfterSnapshot
      <4>. QED
        BY <3>0, <3>1, <3>6, <4>1 DEF CallOK
    <3>7. ASSUME op[p] = "seal" PROVE CallOK(p)'
      <4>1. pc'[p] = "publish"
        BY <3>1, <3>7 DEF AfterSnapshot
      <4>. QED
        BY <3>0, <3>1, <3>3, <3>7, <4>1 DEF CallOK
    <3>8. \A q \in Proc : q # p => Elsewhere(q)
      BY <1>5, <2>1 DEF TakeSnapshot, Goto, TypeOK, Elsewhere
    <3>9. CallOK(p)'
      <4>. HIDE DEF IInv
      <4>1. pc'[p] \in {"serve", "execute", "publish"}
        BY <3>1, <3>2 DEF AfterSnapshot
      <4>. QED
        BY <3>2, <3>5, <3>6, <3>7
    <3>. QED BY <3>8, <3>9
  <2>2. CASE ~(op[p] = "seal" \/ db[HostOf[p]] = env[p].head)
    BY <1>0, <1>5, <2>2, LeaveCall DEF TakeSnapshot
  <2>. QED BY <2>1, <2>2
<1>6. ASSUME NEW p \in Proc, Serve(p) PROVE Good(p)
  BY <1>0, <1>6, LeaveCall DEF Serve
<1>7. ASSUME NEW p \in Proc, Execute(p) PROVE Good(p)
  <2>1. PICK c \in Content : snap' = [snap EXCEPT ![p] = c]
    BY <1>7 DEF Execute
  <2>2. /\ pc'[p] = "publish" /\ snap'[p] = c /\ op'[p] = op[p]
        /\ floor'[p] = floor[p] /\ lock' = lock /\ log' = log
    BY <1>7, <2>1 DEF Execute, Goto, TypeOK
  <2>3. CallOK(p)'
    BY <1>7, <2>2, NoneAssumption DEF Execute, CallOK
  <2>. QED
    BY <1>7, <2>1, <2>3 DEF Execute, Goto, TypeOK, Elsewhere
<1>8. ASSUME NEW p \in Proc, ReadPrevious(p) PROVE Good(p)
  <2>1. snap[p] \in Content
    BY <1>8 DEF ReadPrevious, CallOK, TypeOK
  <2>2. Successor(WitnessHead, snap[p]) # None
    BY <2>1, SuccessorType, NoneAssumption
  <2>3. /\ pc'[p] = "advance" /\ env'[p] = Successor(WitnessHead, snap[p])
        /\ snap'[p] = snap[p] /\ op'[p] = op[p]
        /\ floor'[p] = floor[p] /\ lock' = lock /\ log' = log
    BY <1>8 DEF ReadPrevious, Goto, TypeOK
  <2>4. CallOK(p)'
    BY <1>8, <2>2, <2>3 DEF ReadPrevious, CallOK
  <2>. QED
    BY <1>8, <2>4 DEF ReadPrevious, Goto, TypeOK, Elsewhere
<1>9. ASSUME NEW p \in Proc, Advance(p) PROVE Good(p)
  <2>1. CASE Accepts(WitnessHead, expected[p], env[p])
    <3>1. env[p] \in Checkpoint
      BY <1>9 DEF Advance, CallOK, TypeOK
    <3>2. /\ pc'[p] = "write" /\ log' = Append(log, env[p])
          /\ snap' = snap /\ env' = env /\ op' = op /\ floor' = floor /\ lock' = lock
      BY <1>9, <2>1 DEF Advance, Goto, TypeOK, locals
    <3>3. /\ log' \in Seq(Checkpoint)
          /\ Len(log') = Len(log) + 1
          /\ log'[Len(log) + 1] = env[p]
      BY <3>1, <3>2, AppendGrows
    <3>4. env[p].seq = Len(log) + 1
      <4>1. Len(log) + 1 \in DOMAIN log'
        BY <1>0, <3>3
      <4>. QED
        BY <1>0, <3>3, <4>1 DEF LogIsChain
    <3>5. IsEntry(env[p])'
      BY <1>0, <3>1, <3>2, <3>3, <3>4, NoneAssumption DEF IsEntry
    <3>6. floor'[p] <= Len(log')
      BY <1>0, <3>2, <3>3 DEF CallOK, TypeOK
    <3>7. CallOK(p)'
      BY <1>9, <3>2, <3>5, <3>6 DEF Advance, CallOK
    <3>. QED
      BY <1>9, <2>1, <3>7 DEF Advance, Goto, TypeOK, Elsewhere, locals
  <2>2. CASE ~Accepts(WitnessHead, expected[p], env[p])
    BY <1>0, <1>9, <2>2, LeaveCall DEF Advance
  <2>. QED BY <2>1, <2>2
<1>10. ASSUME NEW p \in Proc, WriteFile(p) PROVE Good(p)
  <2>1. pc'[p] = "commit" /\ UNCHANGED <<log, lock, op, env, snap, floor>>
    BY <1>10 DEF WriteFile, Goto, TypeOK, locals
  <2>2. CallOK(p)'
    BY <1>10, <2>1 DEF WriteFile, CallOK, IsEntry
  <2>. QED
    BY <1>10, <2>2 DEF WriteFile, Goto, TypeOK, Elsewhere, locals
<1>11. ASSUME NEW p \in Proc, Commit(p) PROVE Good(p)
  BY <1>0, <1>11, LeaveCall DEF Commit
<1>12. ASSUME NEW p \in Proc, Crash(p) PROVE Good(p)
  BY <1>0, <1>12, LeaveCall DEF Crash
<1>13. ASSUME NEW p \in Proc, Restart(p) PROVE Good(p)
  <2>1. pc'[p] = "idle" /\ UNCHANGED <<log, lock, op, env, snap, floor>>
    BY <1>13 DEF Restart, Goto, TypeOK, locals
  <2>2. CallOK(p)'
    BY <1>13, <2>1 DEF Restart, CallOK
  <2>. QED
    BY <1>13, <2>2 DEF Restart, Goto, TypeOK, Elsewhere, locals
<1>14. ASSUME NEW h \in Host,
              \/ \E c \in Content : RawWrite(h, c)
              \/ \E i \in 0..Len(log) : RestoreFile(h, i),
              NEW q \in Proc
       PROVE  Elsewhere(q)
  BY <1>14 DEF RawWrite, RestoreFile, Elsewhere, locals
<1>15. ASSUME NEW p \in Proc, Good(p) PROVE \A q \in Proc : CallOK(q)'
  <2>. SUFFICES ASSUME NEW q \in Proc, q # p PROVE CallOK(q)'
    BY <1>15
  <2>. QED
    BY <1>0, <1>15, CallStays
<1>16. CASE \E p \in Proc : Good(p)
  BY <1>15, <1>16
<1>17. CASE \A q \in Proc : Elsewhere(q)
  BY <1>0, <1>17, CallStays
<1>18. (\E p \in Proc : Good(p)) \/ (\A q \in Proc : Elsewhere(q))
  <2>. HIDE DEF Good
  <2>. QED
    BY <1>1, <1>2, <1>3, <1>4, <1>5, <1>6, <1>7, <1>8, <1>9, <1>10, <1>11,
       <1>12, <1>13, <1>14 DEF Next, Step, BeginMutate, BeginSeal
<1>. QED
  BY <1>16, <1>17, <1>18

-----------------------------------------------------------------------------
(* The theorems *)

\* The inductive invariant holds initially and is kept by every step.
THEOREM InductiveInvariant == Spec => []IInv
<1>1. Init => IInv
  <2>. SUFFICES ASSUME Init PROVE IInv
    OBVIOUS
  <2>1. TypeOK
    BY HostAssumption DEF Init, TypeOK, Pc, Op
  <2>2. \A p \in Proc : CallOK(p)
    BY DEF Init, CallOK
  <2>3. LogIsChain /\ ServedWasPublished /\ \A h \in Host : file[h] # None => IsEntry(file[h])
    BY DEF Init, LogIsChain, ServedWasPublished
  <2>. QED
    BY <2>1, <2>2, <2>3 DEF IInv
<1>2. IInv /\ [Next]_vars => IInv'
  <2>. SUFFICES ASSUME IInv, [Next]_vars PROVE IInv'
    OBVIOUS
  <2>1. CASE Next
    BY <2>1, TypeStep, ChainStep, ServedStep, FileStep, CallStep DEF IInv
  <2>2. CASE UNCHANGED vars
    BY <2>2 DEF vars, IInv, TypeOK, LogIsChain, ServedWasPublished, CallOK,
                IsEntry, Digest
  <2>. QED BY <2>1, <2>2
<1>. QED
  BY <1>1, <1>2, PTL DEF Spec

\* The witnessed checkpoints form one unbroken chain, however many hosts
\* publish to it and however their operations interleave, crash or fail.
THEOREM WitnessChain == Spec => []LogIsChain
  BY InductiveInvariant, PTL DEF IInv

\* Nothing but a content that was signed and witnessed is ever served
\* (integrity.py:596-598: "it never serves an unsigned mutation").
THEOREM NeverServesUnsigned == Spec => []ServedWasPublished
  BY InductiveInvariant, PTL DEF IInv

\* Types of the guard's state.
THEOREM TypeCorrect == Spec => []TypeOK
  BY InductiveInvariant, PTL DEF IInv

\* At most one caller is between its checks and its commit on one database:
\* BEGIN IMMEDIATE serialises publication.
THEOREM OnePublisher == Spec => []OneWriter
<1>1. IInv => OneWriter
  <2>. SUFFICES ASSUME IInv, NEW p \in Proc, NEW q \in Proc, pc[p] \in Writing,
                       pc[q] \in Writing, HostOf[p] = HostOf[q]
                PROVE  p = q
    BY DEF OneWriter
  <2>1. op[p] \in {"mutate", "seal"} /\ op[q] \in {"mutate", "seal"}
    BY DEF IInv, CallOK, Writing
  <2>2. lock[HostOf[p]] = p /\ lock[HostOf[q]] = q
    BY <2>1 DEF IInv, CallOK
  <2>. QED BY <2>2
<1>. QED
  BY <1>1, InductiveInvariant, PTL

\* A verified read never answers from a checkpoint older than the one that was
\* witnessed when it began.
THEOREM ReadsAreFresh == Spec => NoStaleAnswer
<1>. DEFINE Fresh == \A p \in Proc : served'[p] # served[p] => served'[p].seq >= floor[p]
<1>1. IInv /\ [Next]_vars => [Fresh]_vars
  <2>. SUFFICES ASSUME IInv, Next, NEW p \in Proc, served'[p] # served[p]
                PROVE  served'[p].seq >= floor[p]
    BY DEF vars
  <2>1. PICK q \in Proc : Serve(q)
    BY DEF Next, Step, BeginRead, BeginMutate, BeginSeal, BeginWrite, Begin,
           ReadFile, ReadWitness, TakeSnapshot, Execute, ReadPrevious,
           Advance, WriteFile, Commit, Crash, Restart, RawWrite, RestoreFile
  <2>2. q = p /\ served'[p].seq = env[p].seq
    BY <2>1 DEF Serve, IInv, TypeOK
  <2>. QED
    BY <2>1, <2>2 DEF Serve, IInv, CallOK
<1>2. Spec => [][Fresh]_vars
  BY <1>1, InductiveInvariant, PTL DEF Spec
<1>. QED
  BY <1>2 DEF NoStaleAnswer

-----------------------------------------------------------------------------
(* The guard implements the verified log *)

Heads == [i \in DOMAIN log |-> log[i].head]

\* Publishing one checkpoint appends its head to the abstract log.
LEMMA HeadsAppend ==
    ASSUME TypeOK, NEW c \in Checkpoint, log' = Append(log, c)
    PROVE  Heads' = Append(Heads, c.head)
<1>1. Len(log) \in Nat /\ DOMAIN log = 1..Len(log) /\ c.head \in Content
  BY DEF TypeOK, Checkpoint
<1>2. Heads \in Seq(Content) /\ Len(Heads) = Len(log)
  <2>1. Heads \in [1..Len(log) -> Content]
    <3>1. \A i \in 1..Len(log) : log[i] \in Checkpoint
      BY <1>1 DEF TypeOK
    <3>2. \A i \in 1..Len(log) : log[i].head \in Content
      BY <3>1 DEF Checkpoint
    <3>. QED
      BY <1>1, <3>2 DEF Heads
  <2>. QED
    BY <1>1, <2>1
<1>3. /\ log' \in Seq(Checkpoint)
      /\ Len(log') = Len(log) + 1
      /\ \A i \in 1..Len(log) : log'[i] = log[i]
      /\ log'[Len(log) + 1] = c
  BY AppendGrows
<1>4. DOMAIN log' = 1..(Len(log) + 1)
  BY <1>3
<1>5. /\ Append(Heads, c.head) \in Seq(Content)
      /\ Len(Append(Heads, c.head)) = Len(log) + 1
      /\ \A i \in 1..Len(log) : Append(Heads, c.head)[i] = Heads[i]
      /\ Append(Heads, c.head)[Len(log) + 1] = c.head
  BY <1>1, <1>2, AppendProperties
<1>6. Append(Heads, c.head) \in [1..(Len(log) + 1) -> Content]
  <2>. DEFINE grown == Append(Heads, c.head)
  <2>1. grown \in Seq(Content) /\ Len(grown) = Len(log) + 1
    BY <1>5
  <2>2. grown \in [1..Len(grown) -> Content]
    <3>. HIDE DEF grown
    <3>. QED BY <2>1, LenProperties
  <2>. QED
    BY <2>1, <2>2
<1>7. ASSUME NEW i \in 1..(Len(log) + 1)
      PROVE  Append(Heads, c.head)[i] = log'[i].head
  <2>1. i \in 1..Len(log) \/ i = Len(log) + 1
    BY <1>1
  <2>. QED
    BY <1>1, <1>3, <1>5, <2>1 DEF Heads
<1>8. Heads' = [i \in 1..(Len(log) + 1) |-> log'[i].head]
  BY <1>4 DEF Heads
<1>. QED
  BY <1>6, <1>7, <1>8

\* The guard refines the append-only log whose reads are fresh: every step of
\* every interleaving, crash and repair is one of its actions or a stutter.
THEOREM GuardImplementsVerifiedLog == Spec => ImplementsVerifiedLog
<1>1. Init => Abstract!Init
  <2>. SUFFICES ASSUME Init PROVE Abstract!Init
    OBVIOUS
  <2>1. [i \in DOMAIN log |-> log[i].head] = <<>>
    BY DEF Init
  <2>. QED
    BY <2>1 DEF Init, Abstract!Init
<1>2. IInv /\ [Next]_vars => [Abstract!Next]_Abstract!vars
  <2>. SUFFICES ASSUME IInv, [Next]_vars PROVE [Abstract!Next]_Abstract!vars
    OBVIOUS
  <2>. USE DEF IInv
  <2>1. ASSUME UNCHANGED <<log, floor, served>> PROVE UNCHANGED Abstract!vars
    BY <2>1 DEF Abstract!vars
  <2>2. ASSUME NEW p \in Proc, NEW step \in Pc, Leave(p, step), UNCHANGED <<log, served>>
        PROVE  Abstract!End(p)
    BY <2>2 DEF Leave, Abstract!End
  <2>3. ASSUME NEW p \in Proc, NEW kind, NEW step, Begin(p, kind, step)
        PROVE  Abstract!Begin(p)
    <3>1. Len([i \in DOMAIN log |-> log[i].head]) = Len(log)
      BY DEF TypeOK
    <3>. QED
      BY <2>3, <3>1 DEF Begin, Abstract!Begin
  <2>4. ASSUME NEW p \in Proc, Serve(p) PROVE Abstract!Answer(p)
    <3>. DEFINE published == [i \in DOMAIN log |-> log[i].head]
    <3>1. Len(published) = Len(log) /\ DOMAIN log = 1..Len(log)
      BY DEF TypeOK
    <3>2. IsEntry(env[p]) /\ env[p].seq >= floor[p] /\ snap[p] = env[p].head
      BY <2>4 DEF Serve, CallOK
    <3>3. env[p].seq \in 1..Len(published) /\ published[env[p].seq] = snap[p]
      BY <3>1, <3>2 DEF IsEntry
    <3>4. /\ served' = [served EXCEPT ![p] = [content |-> snap[p], seq |-> env[p].seq]]
          /\ floor' = [floor EXCEPT ![p] = 0]
          /\ UNCHANGED log
      BY <2>4 DEF Serve, Leave
    <3>. QED
      BY <3>2, <3>3, <3>4 DEF Abstract!Answer
  <2>5. ASSUME NEW p \in Proc, Advance(p), log' # log
        PROVE  \E c \in Content : Abstract!Publish(c)
    <3>1. env[p] \in Checkpoint /\ env[p].head \in Content
      BY <2>5 DEF Advance, CallOK, TypeOK, Checkpoint
    <3>2. log' = Append(log, env[p]) /\ UNCHANGED <<floor, served>>
      BY <2>5 DEF Advance, locals
    <3>3. Heads' = Append(Heads, env[p].head)
      BY <3>1, <3>2, HeadsAppend
    <3>. QED
      BY <3>1, <3>2, <3>3 DEF Heads, Abstract!Publish
  <2>6. ASSUME NEW p \in Proc, Step(p) \/ Crash(p)
        PROVE  \/ UNCHANGED <<log, floor, served>>
               \/ Serve(p)
               \/ Advance(p) /\ log' # log
               \/ UNCHANGED <<log, served>> /\ \E step \in Pc : Leave(p, step)
    <3>1. "idle" \in Pc /\ "down" \in Pc
      BY DEF Pc
    <3>. QED
      BY <2>6, <3>1 DEF Step, ReadFile, ReadWitness, TakeSnapshot, Execute,
         ReadPrevious, Advance, WriteFile, Commit, Crash, locals
  <2>7. ASSUME NEW p \in Proc, Restart(p) PROVE UNCHANGED <<log, floor, served>>
    BY <2>7 DEF Restart, locals
  <2>8. ASSUME NEW h \in Host,
               \/ \E c \in Content : RawWrite(h, c)
               \/ \E i \in 0..Len(log) : RestoreFile(h, i)
        PROVE  UNCHANGED <<log, floor, served>>
    BY <2>8 DEF RawWrite, RestoreFile, locals
  <2>9. CASE UNCHANGED vars
    BY <2>1, <2>9 DEF vars
  <2>10. CASE Next
    <3>1. ASSUME NEW p \in Proc, Step(p) \/ Crash(p)
          PROVE  [Abstract!Next]_Abstract!vars
      BY <2>1, <2>2, <2>4, <2>5, <2>6, <3>1 DEF Abstract!Next
    <3>2. ASSUME NEW p \in Proc, BeginRead(p) \/ BeginMutate(p) \/ BeginSeal(p)
          PROVE  [Abstract!Next]_Abstract!vars
      BY <2>3, <3>2 DEF BeginRead, BeginMutate, BeginSeal, BeginWrite, Abstract!Next
    <3>. QED
      BY <2>1, <2>7, <2>8, <2>10, <3>1, <3>2 DEF Next
  <2>. QED BY <2>9, <2>10
<1>. QED
  BY <1>1, <1>2, InductiveInvariant, PTL DEF Spec, ImplementsVerifiedLog, Abstract!Spec

-----------------------------------------------------------------------------
(* One host: what the holder of the write lock has checked stays so *)

\* All callers run on one host.
SingleHost == \A p, q \in Proc : HostOf[p] = HostOf[q]

\* What the caller that holds the write lock knows of database, file and witness.
Holds(p) ==
    /\ op[p] = "mutate" /\ pc[p] = "snapshot" => env[p] = WitnessHead
    /\ op[p] = "mutate" /\ pc[p] \in {"execute", "publish", "advance"} =>
          WitnessHead # None /\ WitnessHead.head = db[HostOf[p]]
    /\ pc[p] = "advance" => env[p] = Successor(expected[p], snap[p])
    /\ pc[p] \in {"write", "commit"} => env[p] = WitnessHead /\ env[p].head = snap[p]
    /\ op[p] = "mutate" /\ pc[p] \in {"write", "commit"} =>
          env[p].prev # Genesis /\ env[p].prev[2] = db[HostOf[p]]
    /\ pc[p] = "commit" => file[HostOf[p]] = env[p] \/ p \in restored

\* Of the callers of one host, only the holder of its lock moves what Holds is about.
LEMMA OthersStay ==
    ASSUME IInv, SingleHost, NEW q \in Proc, op[q] \in {"mutate", "seal"},
           NEW p \in Proc, p # q, Step(p) \/ Crash(p)
    PROVE  UNCHANGED <<db, file, log>>
<1>1. lock[HostOf[p]] = q
  BY DEF IInv, CallOK, SingleHost
<1>2. op[p] \notin {"mutate", "seal"}
  BY <1>1 DEF IInv, CallOK
<1>3. pc[p] \notin {"advance", "write", "commit"}
  BY <1>2 DEF IInv, CallOK
<1>. QED
  BY <1>3 DEF Step, ReadFile, ReadWitness, TakeSnapshot, Serve, Execute, ReadPrevious,
              Advance, WriteFile, Commit, Crash

\* So what the holder knows survives everybody else's steps.
LEMMA HoldsStays ==
    ASSUME IInv, NEW q \in Proc, Holds(q),
           pc'[q] = pc[q], op'[q] = op[q], env'[q] = env[q],
           snap'[q] = snap[q], expected'[q] = expected[q],
           op[q] \in {"mutate", "seal"} =>
              log' = log /\ db'[HostOf[q]] = db[HostOf[q]],
           pc[q] = "commit" => \/ q \in restored'
                               \/ /\ file'[HostOf[q]] = file[HostOf[q]]
                                  /\ q \in restored => q \in restored'
    PROVE  Holds(q)'
<1>1. CASE op[q] \in {"mutate", "seal"}
  BY <1>1 DEF Holds, WitnessHead, Successor, Digest
<1>2. CASE op[q] \notin {"mutate", "seal"}
  <2>1. pc[q] \notin {"advance", "write", "commit"}
    BY <1>2 DEF IInv, CallOK
  <2>. QED
    BY <1>2, <2>1 DEF Holds
<1>. QED
  BY <1>1, <1>2

\* A caller's own steps: it checks, signs over what it has read, and the witness
\* accepts only if that is still the head.
LEMMA HolderStep ==
    ASSUME IInv, NEW p \in Proc, Holds(p), Step(p)
    PROVE  Holds(p)'
<1>. USE DEF IInv
<1>1. ASSUME NEW step \in {"idle", "down"}, Leave(p, step) PROVE Holds(p)'
  BY <1>1 DEF Leave, Goto, TypeOK, Holds
<1>2. CASE ReadFile(p)
  <2>1. CASE file[HostOf[p]] = None
    BY <1>1, <1>2, <2>1 DEF ReadFile
  <2>2. CASE file[HostOf[p]] # None
    BY <1>2, <2>2 DEF ReadFile, Goto, TypeOK, Holds
  <2>. QED BY <2>1, <2>2
<1>3. CASE ReadWitness(p)
  <2>1. CASE WitnessHead = env[p]
    <3>1. pc'[p] = "snapshot" /\ env' = env /\ log' = log
      BY <1>3, <2>1 DEF ReadWitness, Goto, TypeOK, locals
    <3>. QED
      BY <2>1, <3>1 DEF Holds, WitnessHead
  <2>2. CASE WitnessHead # env[p]
    BY <1>1, <1>3, <2>2 DEF ReadWitness
  <2>. QED BY <2>1, <2>2
<1>4. CASE TakeSnapshot(p)
  <2>1. CASE op[p] = "seal" \/ db[HostOf[p]] = env[p].head
    <3>1. /\ pc'[p] = AfterSnapshot[op[p]] /\ pc[p] = "snapshot"
          /\ UNCHANGED <<op, env, log, db>>
      BY <1>4, <2>1 DEF TakeSnapshot, Goto, TypeOK
    <3>2. op[p] \in {"read", "mutate", "seal"}
      BY <1>4 DEF TakeSnapshot, CallOK, TypeOK, Op
    <3>3. CASE op[p] = "mutate"
      <4>1. pc'[p] = "execute"
        BY <3>1, <3>3 DEF AfterSnapshot
      <4>2. WitnessHead # None /\ WitnessHead.head = db[HostOf[p]]
        BY <2>1, <3>1, <3>3 DEF Holds, CallOK, IsEntry
      <4>. QED
        BY <3>1, <4>1, <4>2 DEF Holds, WitnessHead
    <3>4. CASE op[p] \in {"read", "seal"}
      <4>1. pc'[p] \in {"serve", "publish"}
        BY <3>1, <3>4 DEF AfterSnapshot
      <4>. QED
        BY <3>1, <3>4, <4>1 DEF Holds
    <3>. QED BY <3>2, <3>3, <3>4
  <2>2. CASE ~(op[p] = "seal" \/ db[HostOf[p]] = env[p].head)
    BY <1>1, <1>4, <2>2 DEF TakeSnapshot
  <2>. QED BY <2>1, <2>2
<1>5. CASE Serve(p)
  BY <1>1, <1>5 DEF Serve
<1>6. CASE Execute(p)
  <2>1. /\ pc[p] = "execute" /\ pc'[p] = "publish"
        /\ UNCHANGED <<op, env, log, db>>
    BY <1>6 DEF Execute, Goto, TypeOK
  <2>. QED
    BY <2>1 DEF Holds, WitnessHead
<1>7. CASE ReadPrevious(p)
  <2>1. /\ pc[p] = "publish" /\ pc'[p] = "advance" /\ UNCHANGED <<op, log, db, snap>>
        /\ expected'[p] = WitnessHead /\ env'[p] = Successor(WitnessHead, snap[p])
    BY <1>7 DEF ReadPrevious, Goto, TypeOK
  <2>2. env'[p] = Successor(expected'[p], snap'[p])
    BY <2>1
  <2>. QED
    BY <2>1, <2>2 DEF Holds, WitnessHead, Successor, Digest
<1>8. CASE Advance(p)
  <2>1. CASE Accepts(WitnessHead, expected[p], env[p])
    <3>1. /\ pc[p] = "advance" /\ pc'[p] = "write" /\ log' = Append(log, env[p])
          /\ UNCHANGED <<op, env, snap, db>>
      BY <1>8, <2>1 DEF Advance, Goto, TypeOK, locals
    <3>2. env[p] \in Checkpoint
      BY <1>8 DEF Advance, CallOK, TypeOK
    <3>3. env[p] = WitnessHead'
      <4>1. log' \in Seq(Checkpoint) /\ Len(log') = Len(log) + 1 /\ log'[Len(log) + 1] = env[p]
        BY <3>1, <3>2, AppendGrows
      <4>2. log' # <<>>
        BY <4>1 DEF TypeOK
      <4>. QED
        BY <4>1, <4>2 DEF WitnessHead
    <3>4. env[p] = Successor(WitnessHead, snap[p])
      BY <2>1, <3>1 DEF Holds, Accepts
    <3>5. env[p].head = snap[p]
      BY <3>4 DEF Successor
    <3>6. ASSUME op[p] = "mutate"
          PROVE  env[p].prev # Genesis /\ env[p].prev[2] = db[HostOf[p]]
      <4>1. WitnessHead # None /\ WitnessHead.head = db[HostOf[p]]
        BY <3>1, <3>6 DEF Holds
      <4>2. WitnessHead \in Checkpoint
        BY <4>1 DEF WitnessHead, TypeOK
      <4>3. env[p].prev = <<WitnessHead.seq, WitnessHead.head>>
        BY <3>4, <4>1 DEF Successor, Digest
      <4>4. WitnessHead.seq \in Nat /\ WitnessHead.head \in Content
        BY <4>2 DEF Checkpoint
      <4>. QED
        BY <4>1, <4>3, <4>4, GenesisAssumption
    <3>. QED
      BY <3>1, <3>3, <3>5, <3>6 DEF Holds
  <2>2. CASE ~Accepts(WitnessHead, expected[p], env[p])
    BY <1>1, <1>8, <2>2 DEF Advance
  <2>. QED BY <2>1, <2>2
<1>9. CASE WriteFile(p)
  <2>1. /\ pc[p] = "write" /\ pc'[p] = "commit" /\ UNCHANGED <<op, env, snap, log, db>>
        /\ file'[HostOf[p]] = env[p]
    BY <1>9, HostAssumption DEF WriteFile, Goto, TypeOK, locals
  <2>. QED
    BY <2>1 DEF Holds, WitnessHead
<1>10. CASE Commit(p)
  BY <1>1, <1>10 DEF Commit
<1>. QED
  BY <1>2, <1>3, <1>4, <1>5, <1>6, <1>7, <1>8, <1>9, <1>10 DEF Step

\* A step of p on itself leaves the locals of the others alone.
LEMMA OthersLocals ==
    ASSUME TypeOK, NEW p \in Proc, NEW q \in Proc, q # p,
           BeginRead(p) \/ BeginMutate(p) \/ BeginSeal(p) \/ Step(p) \/ Crash(p) \/ Restart(p)
    PROVE  /\ pc'[q] = pc[q] /\ op'[q] = op[q] /\ env'[q] = env[q]
           /\ snap'[q] = snap[q] /\ expected'[q] = expected[q]
           /\ q \in restored => q \in restored'
<1>1. ASSUME NEW step, Leave(p, step)
      PROVE  /\ pc'[q] = pc[q] /\ op'[q] = op[q] /\ env'[q] = env[q]
             /\ snap'[q] = snap[q] /\ expected'[q] = expected[q]
             /\ q \in restored => q \in restored'
  BY <1>1 DEF Leave, Goto, TypeOK
<1>2. CASE BeginRead(p) \/ BeginMutate(p) \/ BeginSeal(p) \/ Restart(p)
  BY <1>2 DEF BeginRead, BeginMutate, BeginSeal, BeginWrite, Begin, Restart, Goto, TypeOK, locals
<1>3. CASE ReadFile(p) \/ ReadWitness(p) \/ TakeSnapshot(p)
  BY <1>1, <1>3 DEF ReadFile, ReadWitness, TakeSnapshot, Goto, TypeOK, locals
<1>4. CASE Serve(p) \/ Commit(p) \/ Crash(p)
  BY <1>1, <1>4 DEF Serve, Commit, Crash
<1>5. CASE Execute(p) \/ ReadPrevious(p) \/ WriteFile(p)
  BY <1>5 DEF Execute, ReadPrevious, WriteFile, Goto, TypeOK, locals
<1>6. CASE Advance(p)
  BY <1>1, <1>6 DEF Advance, Goto, TypeOK, locals
<1>. QED
  BY <1>2, <1>3, <1>4, <1>5, <1>6 DEF Step

AllHold == \A p \in Proc : Holds(p)

LEMMA AllHoldStep ==
    ASSUME SingleHost, IInv, AllHold, [Next]_vars PROVE AllHold'
<1>. SUFFICES ASSUME NEW q \in Proc PROVE Holds(q)'
  BY DEF AllHold
<1>0. Holds(q)
  BY DEF AllHold
<1>1. CASE UNCHANGED vars
  BY <1>0, <1>1, HoldsStays DEF vars
<1>2. ASSUME NEW p \in Proc, BeginRead(p) \/ BeginMutate(p) \/ BeginSeal(p) \/ Restart(p)
      PROVE  Holds(q)'
  <2>1. CASE q = p
    <3>1. pc'[p] \in {"idle", "file"} \/ (pc'[p] = "snapshot" /\ op'[p] = "seal")
      BY <1>2 DEF BeginRead, BeginMutate, BeginSeal, BeginWrite, Begin, Restart, Goto, IInv, TypeOK
    <3>. QED
      BY <2>1, <3>1 DEF Holds
  <2>2. CASE q # p
    <3>1. UNCHANGED <<db, file, log>>
      BY <1>2 DEF BeginRead, BeginMutate, BeginSeal, BeginWrite, Begin, Restart
    <3>. QED
      BY <1>0, <1>2, <2>2, <3>1, OthersLocals, HoldsStays DEF IInv
  <2>. QED BY <2>1, <2>2
<1>3. ASSUME NEW p \in Proc, Step(p) \/ Crash(p) PROVE Holds(q)'
  <2>1. CASE q = p /\ Step(p)
    BY <1>0, <2>1, HolderStep
  <2>2. CASE q = p /\ Crash(p)
    BY <2>2 DEF Crash, Leave, Goto, IInv, TypeOK, Holds
  <2>3. CASE q # p
    <3>1. op[q] \in {"mutate", "seal"} => UNCHANGED <<db, file, log>>
      BY <1>3, <2>3, OthersStay
    <3>2. pc[q] = "commit" => op[q] \in {"mutate", "seal"}
      BY DEF IInv, CallOK
    <3>. QED
      BY <1>0, <1>3, <2>3, <3>1, <3>2, OthersLocals, HoldsStays DEF IInv
  <2>. QED BY <1>3, <2>1, <2>2, <2>3
<1>4. ASSUME NEW h \in Host, NEW c \in Content, RawWrite(h, c) PROVE Holds(q)'
  <2>1. lock[h] = None /\ UNCHANGED <<log, pc, file, op, env, snap, expected, restored>>
    BY <1>4 DEF RawWrite, locals
  <2>2. op[q] \in {"mutate", "seal"} => HostOf[q] # h
    BY <2>1, NoneAssumption DEF IInv, CallOK
  <2>3. op[q] \in {"mutate", "seal"} => db'[HostOf[q]] = db[HostOf[q]]
    BY <1>4, <2>2, HostAssumption DEF RawWrite, IInv, TypeOK
  <2>. QED
    BY <1>0, <2>1, <2>3, HoldsStays
<1>5. ASSUME NEW h \in Host, NEW i \in 0..Len(log), RestoreFile(h, i) PROVE Holds(q)'
  <2>1. UNCHANGED <<log, db, pc, op, env, snap, expected>>
    BY <1>5 DEF RestoreFile
  <2>2. restored \subseteq restored'
    BY <1>5 DEF RestoreFile
  <2>3. HostOf[q] = h /\ pc[q] = "commit" => q \in restored'
    BY <1>5 DEF RestoreFile
  <2>4. HostOf[q] # h => file'[HostOf[q]] = file[HostOf[q]]
    BY <1>5, HostAssumption DEF RestoreFile, IInv, TypeOK
  <2>. QED
    BY <1>0, <2>1, <2>2, <2>3, <2>4, HoldsStays
<1>. QED
  BY <1>1, <1>2, <1>3, <1>4, <1>5 DEF Next

\* On one host, the holder of the lock knows what it checked for as long as it
\* holds it, whatever raw writes, restores, crashes and readers come in between.
THEOREM HolderInvariant == ASSUME SingleHost PROVE Spec => []AllHold
<1>1. Init => AllHold
  BY DEF Init, AllHold, Holds
<1>2. IInv /\ AllHold /\ [Next]_vars => AllHold'
  BY AllHoldStep
<1>. QED
  BY <1>1, <1>2, InductiveInvariant, PTL DEF Spec

\* On one host nothing committed between the check of a mutation and its commit
\* is lost: its checkpoint links to one that signs what it replaces.
THEOREM MutationsBuildOnVerified == ASSUME SingleHost PROVE Spec => CommitOverVerified
<1>. DEFINE Over == \A p \in Proc : Commit(p) /\ op[p] = "mutate" =>
                       /\ env[p].prev # Genesis
                       /\ env[p].prev[2] = db[HostOf[p]]
<1>1. AllHold => Over
  BY DEF AllHold, Holds, Commit
<1>2. Spec => [][Over]_vars
  BY <1>1, HolderInvariant, PTL DEF Spec
<1>. QED
  BY <1>2 DEF CommitOverVerified

\* On one host file, witness and database agree whenever a mutation or a seal
\* returns whose file no restore has replaced before its commit: the next read
\* finds nothing to refuse.
THEOREM CommitsLeaveAgreement == ASSUME SingleHost PROVE Spec => CommitAgrees
<1>. DEFINE After == \A p \in Proc : Commit(p) /\ p \notin restored => Agree(HostOf[p])'
<1>1. IInv /\ AllHold => After
  <2>. SUFFICES ASSUME IInv, AllHold, NEW p \in Proc, Commit(p), p \notin restored
                PROVE  Agree(HostOf[p])'
    OBVIOUS
  <2>1. /\ file[HostOf[p]] = env[p] /\ env[p] = WitnessHead /\ env[p].head = snap[p]
        /\ env[p] # None
    BY DEF AllHold, Holds, Commit, IInv, CallOK, IsEntry
  <2>2. UNCHANGED <<file, log>> /\ db'[HostOf[p]] = snap[p]
    BY HostAssumption DEF Commit, IInv, TypeOK
  <2>. QED
    BY <2>1, <2>2 DEF Agree, WitnessHead
<1>2. Spec => [][After]_vars
  BY <1>1, InductiveInvariant, HolderInvariant, PTL DEF Spec
<1>. QED
  BY <1>2 DEF CommitAgrees
=============================================================================
