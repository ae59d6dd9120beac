---------------------------- MODULE RaftPayProofs ----------------------------
(***************************************************************************)
(* Proofs about RaftPay: what loop, channel and applier hand a node's      *)
(* ledger, and what follows for the ledgers of the cluster.                *)
(*                                                                         *)
(* An entry that finds applyCh full is passed over for good (see the       *)
(* README, section "What does not hold"), so the results about order and   *)
(* agreement are for executions in which the channel never is full when    *)
(* the loop sends; that a transfer id moves money at most once holds of    *)
(* every execution, and that balances add up of those in which none        *)
(* reaches 2^Precision.                                                    *)
(***************************************************************************)
EXTENDS RaftPay, SequenceTheorems, NaturalsInduction, WellFoundedInduction,
        TLAPS

-----------------------------------------------------------------------------
(* The least element, which stands in for induction over the naturals *)

LessThan == {ss \in Nat \X Nat : ss[1] < ss[2]}

LEMMA LeastOf ==
    ASSUME NEW D, D \subseteq Nat, D # {}
    PROVE  \E d \in D : \A e \in Nat : e < d => e \notin D
<1>1. IsWellFoundedOn(LessThan, Nat)
  <2>1. OpToRel(<, Nat) = LessThan  BY DEF OpToRel, LessThan
  <2> QED  BY <2>1, NatLessThanWellFounded
<1>2. PICK d \in D : \A e \in D : ~(<<e, d>> \in LessThan)
  BY <1>1, WFMin
<1>3. ASSUME NEW e \in Nat, e < d PROVE e \notin D
  <2>1. <<e, d>> \in LessThan  BY <1>3 DEF LessThan
  <2> QED  BY <1>2, <2>1
<1> QED  BY <1>3

-----------------------------------------------------------------------------
(* Replaying commands *)

\* L[n] is the ledger after the first n of the commands.
IsReplay(L, cmds) ==
    L = [n \in 0..Len(cmds) |->
            IF n = 0 THEN NewLedger ELSE applyCommand(L[n - 1], cmds[n])]

\* If there is a replay of the chosen commands at all, Replay is one: a
\* recursive function is the CHOOSE of its equation.
LEMMA ReplayIs ==
    ASSUME NEW L, IsReplay(L, chosen)
    PROVE  IsReplay(Replay, chosen)
<1>1. \E M : M = [n \in 0..Len(chosen) |->
            IF n = 0 THEN NewLedger ELSE applyCommand(M[n - 1], chosen[n])]
  BY DEF IsReplay
<1>2. Replay = CHOOSE M : M = [n \in 0..Len(chosen) |->
            IF n = 0 THEN NewLedger ELSE applyCommand(M[n - 1], chosen[n])]
  BY DEF Replay
<1> QED  BY <1>1, <1>2, Zenon DEF IsReplay

\* The same after a step.
LEMMA ReplayIsAfter ==
    ASSUME NEW L, IsReplay(L, chosen')
    PROVE  IsReplay(Replay', chosen')
<1>1. \E M : M = [n \in 0..Len(chosen') |->
            IF n = 0 THEN NewLedger ELSE applyCommand(M[n - 1], chosen'[n])]
  BY DEF IsReplay
<1>2. Replay' = CHOOSE M : M = [n \in 0..Len(chosen') |->
            IF n = 0 THEN NewLedger ELSE applyCommand(M[n - 1], chosen'[n])]
  BY DEF Replay
<1> QED  BY <1>1, <1>2, Zenon DEF IsReplay

LEMMA ReplayStep ==
    ASSUME NEW cmds \in Seq(Command), NEW L, IsReplay(L, cmds)
    PROVE  /\ L[0] = NewLedger
           /\ \A n \in 0..Len(cmds) :
                 n # 0 => L[n] = applyCommand(L[n - 1], cmds[n])
BY LenProperties DEF IsReplay

\* One more command is replayed after the others.
LEMMA ReplayExtends ==
    ASSUME NEW cmds \in Seq(Command), NEW c \in Command,
           NEW L, IsReplay(L, cmds)
    PROVE  \E M : IsReplay(M, Append(cmds, c))
<1> DEFINE len  == Len(cmds)
           more == Append(cmds, c)
           M    == [n \in 0..len + 1 |->
                       IF n <= len THEN L[n] ELSE applyCommand(L[len], c)]
<1>1. /\ len \in Nat /\ Len(more) = len + 1
      /\ \A n \in 1..len : more[n] = cmds[n]
      /\ more[len + 1] = c
  BY LenProperties, AppendProperties
<1>2. ASSUME NEW n \in 0..len + 1
      PROVE  M[n] = IF n = 0 THEN NewLedger ELSE applyCommand(M[n - 1], more[n])
  <2> HIDE DEF more, len
  <2>1. CASE n = 0
    BY <1>1, <2>1, ReplayStep
  <2>2. CASE n # 0 /\ n <= len
    <3>1. M[n] = L[n] /\ M[n - 1] = L[n - 1] /\ n \in 0..len /\ n \in 1..len
      BY <1>1, <2>2
    <3>2. L[n] = applyCommand(L[n - 1], cmds[n])
      BY <2>2, <3>1, ReplayStep DEF len
    <3> QED  BY <1>1, <2>2, <3>1, <3>2
  <2>3. CASE n = len + 1
    <3>1. M[n] = applyCommand(L[len], c) /\ M[n - 1] = L[len]
      BY <1>1, <2>3
    <3> QED  BY <1>1, <2>3, <3>1
  <2> QED  BY <1>1, <2>1, <2>2, <2>3
<1>3. IsReplay(M, more)
  BY <1>1, <1>2 DEF IsReplay
<1> QED  BY <1>3

\* Replays of two sequences agree as far as the sequences do: the first place
\* where they did not would contradict the equation.
LEMMA ReplaysAgree ==
    ASSUME NEW cs \in Seq(Command), NEW ds \in Seq(Command), NEW N \in Nat,
           N <= Len(cs), N <= Len(ds), \A n \in 1..N : cs[n] = ds[n],
           NEW L, IsReplay(L, cs), NEW M, IsReplay(M, ds)
    PROVE  \A n \in 0..N : L[n] = M[n]
<1> DEFINE D == {n \in 0..N : L[n] # M[n]}
<1> SUFFICES ASSUME D # {} PROVE FALSE
  OBVIOUS
<1>3. PICK d \in D : \A e \in Nat : e < d => e \notin D
  <2>1. D \subseteq Nat  OBVIOUS
  <2> HIDE DEF D
  <2> QED  BY <2>1, LeastOf
<1>4. d # 0
  BY ReplayStep
<1>5. Len(cs) \in Nat /\ Len(ds) \in Nat
  BY LenProperties
<1>6. L[d - 1] = M[d - 1]
  <2>1. SUFFICES ASSUME L[d - 1] # M[d - 1] PROVE FALSE
    OBVIOUS
  <2>2. d - 1 \in D  BY <1>4, <2>1
  <2>3. d - 1 \in Nat /\ d - 1 < d  BY <1>4
  <2> QED  BY <1>3, <2>2, <2>3
<1>7. /\ d \in 0..Len(cs) /\ d \in 0..Len(ds) /\ d \in 1..N
  BY <1>4, <1>5
<1>8. /\ L[d] = applyCommand(L[d - 1], cs[d])
      /\ M[d] = applyCommand(M[d - 1], ds[d])
  BY <1>4, <1>7, ReplayStep
<1> QED  BY <1>6, <1>7, <1>8
-----------------------------------------------------------------------------
(* From the log to the ledger *)

\* Whenever the loop of applyCommittedEntries is about to send, applyCh has
\* room.
NeverFull ==
    \A i \in Server : raft[i].loop # 0 => Len(applyCh[i]) < Capacity

PipeType ==
    /\ chosen \in Seq(Command)
    /\ Len(chosen) <= MaxChosen
    /\ raft \in [Server -> ApplyState]
    /\ applyCh \in [Server -> Seq(Nat)]
    /\ handled \in [Server -> Seq(Nat)]
    /\ DOMAIN ledgers = Server

\* What a node's applier has taken, h, and what is in its channel, q, are the
\* indices from 1 to lastApplied, in order, and a running loop has come to the
\* next; n commands are chosen.
Ordered(r, h, q, n) ==
    /\ r.lastApplied = Len(h) + Len(q)
    /\ \A k \in 1..Len(h) : h[k] = k
    /\ \A k \in 1..Len(q) : q[k] = Len(h) + k
    /\ r.lastApplied <= r.commitIndex
    /\ r.commitIndex <= n
    /\ r.loop # 0 => r.loop = r.lastApplied + 1 /\ r.loop <= r.commitIndex

InOrder(i) == Ordered(raft[i], handled[i], applyCh[i], Len(chosen))

PipeInv == PipeType /\ \A i \in Server : InOrder(i)

\* More commands may be chosen.
LEMMA OrderedMore ==
    ASSUME NEW r \in ApplyState, NEW h \in Seq(Nat), NEW q \in Seq(Nat),
           NEW n \in Nat, NEW m \in Nat, n <= m, Ordered(r, h, q, n)
    PROVE  Ordered(r, h, q, m)
<1>1. r.commitIndex \in Nat  BY DEF ApplyState
<1> QED  BY <1>1 DEF Ordered

\* The loop starts behind lastApplied.
LEMMA OrderedAdvance ==
    ASSUME NEW r \in ApplyState, NEW h \in Seq(Nat), NEW q \in Seq(Nat),
           NEW n \in Nat, NEW m \in 1..n, m > r.commitIndex,
           Ordered(r, h, q, n)
    PROVE  LET s == [r EXCEPT !.commitIndex = m, !.loop = r.lastApplied + 1]
           IN  s \in ApplyState /\ Ordered(s, h, q, n)
<1> DEFINE s == [r EXCEPT !.commitIndex = m, !.loop = r.lastApplied + 1]
<1>1. r.lastApplied \in Nat /\ r.commitIndex \in Nat /\ m \in Nat
         /\ r.lastApplied + 1 \in Nat
  BY DEF ApplyState
<1>2. /\ s.commitIndex = m /\ s.lastApplied = r.lastApplied
      /\ s.loop = r.lastApplied + 1 /\ s \in ApplyState
  BY <1>1 DEF ApplyState
<1> HIDE DEF s
<1>3. Ordered(s, h, q, n)
  BY <1>1, <1>2 DEF Ordered
<1> QED  BY <1>2, <1>3 DEF s

\* An entry is sent and the loop goes on or ends.
LEMMA OrderedSend ==
    ASSUME NEW r \in ApplyState, NEW h \in Seq(Nat), NEW q \in Seq(Nat),
           NEW n \in Nat, r.loop # 0, Ordered(r, h, q, n)
    PROVE  LET s == [[r EXCEPT !.loop = NextIndex(r, r.loop)]
                        EXCEPT !.lastApplied = r.loop]
           IN  s \in ApplyState /\ Ordered(s, h, Append(q, r.loop), n)
<1> DEFINE k == r.loop
           s == [[r EXCEPT !.loop = NextIndex(r, k)] EXCEPT !.lastApplied = k]
           a == Append(q, k)
<1>1. /\ k \in Nat /\ r.commitIndex \in Nat /\ r.lastApplied \in Nat
      /\ Len(q) \in Nat /\ Len(h) \in Nat
  BY LenProperties DEF ApplyState
<1>2. NextIndex(r, k) \in Nat
         /\ (NextIndex(r, k) # 0 => /\ NextIndex(r, k) = k + 1
                                    /\ k + 1 <= r.commitIndex)
  BY <1>1 DEF NextIndex
<1>3. /\ s.commitIndex = r.commitIndex /\ s.lastApplied = k
      /\ s.loop = NextIndex(r, k) /\ s \in ApplyState
  BY <1>1, <1>2 DEF ApplyState
<1>4. /\ k = Len(h) + Len(q) + 1 /\ k <= r.commitIndex
      /\ r.commitIndex <= n
  BY <1>1 DEF Ordered
<1>5. /\ Len(a) = Len(q) + 1 /\ a[Len(q) + 1] = k
      /\ \A m \in 1..Len(q) : a[m] = q[m]
  BY <1>1, AppendProperties
<1> HIDE DEF s, a, k
<1>6. ASSUME NEW m \in 1..Len(a) PROVE a[m] = Len(h) + m
  <2>1. CASE m = Len(q) + 1
    <3>1. a[m] = k  BY <1>5, <2>1
    <3>2. Len(h) + m = k  BY <1>1, <1>4, <2>1
    <3> QED  BY <3>1, <3>2
  <2>2. CASE m \in 1..Len(q)  BY <1>5, <2>2 DEF Ordered
  <2> QED  BY <1>1, <1>5, <2>1, <2>2
<1>7. \A m \in 1..Len(h) : h[m] = m
  BY DEF Ordered
<1>8. k = Len(h) + Len(a)
  BY <1>1, <1>4, <1>5
<1>9. Ordered(s, h, a, n)
  BY <1>1, <1>2, <1>3, <1>4, <1>6, <1>7, <1>8 DEF Ordered
<1> QED  BY <1>3, <1>9 DEF s, a, k

\* The first message in the channel has the index after the last one taken.
LEMMA OrderedHead ==
    ASSUME NEW r \in ApplyState, NEW h \in Seq(Nat), NEW q \in Seq(Nat),
           NEW n \in Nat, Ordered(r, h, q, n)
    PROVE  /\ Len(h) \in 0..n /\ Len(q) \in 0..n /\ Len(h) + 1 \in Nat \ {0}
           /\ q # << >> => /\ Len(q) # 0 /\ Head(q) = Len(h) + 1
                           /\ Len(h) + 1 \in 0..n
           /\ q = << >> => r.lastApplied = Len(h)
           /\ r.loop # 0 => Len(q) < n
<1>1. /\ Len(h) \in Nat /\ Len(q) \in Nat /\ r.loop \in Nat
      /\ r.commitIndex \in Nat /\ r.lastApplied \in Nat
  BY LenProperties DEF ApplyState
<1>2. /\ Len(h) \in 0..n /\ Len(q) \in 0..n
      /\ r.loop # 0 => Len(q) < n
  BY <1>1 DEF Ordered
<1>3. ASSUME q # << >> PROVE Len(q) # 0 /\ Head(q) = q[1]
  BY <1>3, EmptySeq
<1>4. Len(q) # 0 => q[1] = Len(h) + 1 /\ Len(h) + 1 \in 0..n
  BY <1>1 DEF Ordered
<1>5. q = << >> => r.lastApplied = Len(h)
  BY <1>1 DEF Ordered
<1> QED  BY <1>1, <1>2, <1>3, <1>4, <1>5

LEMMA PipeInit == Init => PipeInv
<1> SUFFICES ASSUME Init PROVE PipeInv
  OBVIOUS
<1>1. << >> \in Seq(Command) /\ << >> \in Seq(Nat) /\ Len(<< >>) = 0
  OBVIOUS
<1>2. PipeType
  BY <1>1, PayAssumption DEF Init, PipeType, ApplyState, fresh
<1>3. \A i \in Server : InOrder(i)
  BY <1>1 DEF Init, InOrder, Ordered, fresh
<1> QED  BY <1>2, <1>3 DEF PipeInv

\* The types of what belongs to node i.
LEMMA NodeTypes ==
    ASSUME PipeInv, NEW i \in Server
    PROVE  /\ raft[i] \in ApplyState
           /\ handled[i] \in Seq(Nat) /\ applyCh[i] \in Seq(Nat)
           /\ Len(chosen) \in Nat
           /\ Ordered(raft[i], handled[i], applyCh[i], Len(chosen))
BY LenProperties DEF PipeInv, PipeType, InOrder

LEMMA CommitKeepsPipe ==
    ASSUME PipeInv, NEW cmd \in Command, Commit(cmd)
    PROVE  PipeInv'
<1>1. Len(chosen) \in Nat /\ chosen' \in Seq(Command)
         /\ Len(chosen') = Len(chosen) + 1
  BY LenProperties, AppendProperties DEF PipeInv, PipeType, Commit
<1>2. PipeType'
  BY <1>1, PayAssumption DEF PipeInv, PipeType, Commit
<1>3. ASSUME NEW i \in Server PROVE InOrder(i)'
  <2>1. UNCHANGED <<raft, handled, applyCh>>  BY DEF Commit
  <2>2. Len(chosen') \in Nat /\ Len(chosen) <= Len(chosen')  BY <1>1
  <2>3. Ordered(raft[i], handled[i], applyCh[i], Len(chosen'))
    BY <2>2, NodeTypes, OrderedMore
  <2> QED  BY <2>1, <2>3 DEF InOrder
<1> QED  BY <1>2, <1>3 DEF PipeInv

LEMMA AdvanceCommitKeepsPipe ==
    ASSUME PipeInv, NEW i \in Server, NEW n \in 1..Len(chosen),
           AdvanceCommit(i, n)
    PROVE  PipeInv'
<1> DEFINE r == [raft[i] EXCEPT !.commitIndex = n,
                                !.loop = raft[i].lastApplied + 1]
<1>1. raft' = [raft EXCEPT ![i] = r] /\ n > raft[i].commitIndex
  BY DEF AdvanceCommit
<1>2. r \in ApplyState /\ Ordered(r, handled[i], applyCh[i], Len(chosen))
  BY <1>1, NodeTypes, OrderedAdvance
<1> HIDE DEF r
<1>3. PipeType'
  BY <1>1, <1>2 DEF PipeInv, PipeType, AdvanceCommit
<1>4. ASSUME NEW j \in Server PROVE InOrder(j)'
  <2>1. UNCHANGED <<chosen, handled, applyCh>>  BY DEF AdvanceCommit
  <2>2. raft'[j] = IF j = i THEN r ELSE raft[j]
    BY <1>1 DEF PipeInv, PipeType
  <2> QED  BY <1>2, <2>1, <2>2, NodeTypes DEF InOrder
<1> QED  BY <1>3, <1>4 DEF PipeInv

LEMMA SendEntryKeepsPipe ==
    ASSUME PipeInv, NEW i \in Server, SendEntry(i),
           Len(applyCh[i]) < Capacity
    PROVE  PipeInv'
<1> DEFINE k == raft[i].loop
           q == Append(applyCh[i], k)
           r == [[raft[i] EXCEPT !.loop = NextIndex(raft[i], k)]
                     EXCEPT !.lastApplied = k]
<1>1. Len(applyCh[i]) \in Nat /\ k \in Nat
  BY NodeTypes, LenProperties DEF ApplyState
<1>2. /\ applyCh' = [applyCh EXCEPT ![i] = q]
      /\ raft' = [raft EXCEPT ![i] = r]
      /\ k # 0
  BY <1>1, PayAssumption DEF SendEntry
<1>3. r \in ApplyState /\ Ordered(r, handled[i], q, Len(chosen))
  BY <1>2, NodeTypes, OrderedSend
<1>4. q \in Seq(Nat)
  BY <1>1, NodeTypes, AppendProperties
<1> HIDE DEF r, q, k
<1>5. PipeType'
  BY <1>2, <1>3, <1>4 DEF PipeInv, PipeType, SendEntry
<1>6. ASSUME NEW j \in Server PROVE InOrder(j)'
  <2>1. UNCHANGED <<chosen, handled>>  BY DEF SendEntry
  <2>2. /\ raft'[j] = IF j = i THEN r ELSE raft[j]
        /\ applyCh'[j] = IF j = i THEN q ELSE applyCh[j]
    BY <1>2 DEF PipeInv, PipeType
  <2> QED  BY <1>3, <2>1, <2>2, NodeTypes DEF InOrder
<1> QED  BY <1>5, <1>6 DEF PipeInv

\* What the applier takes is the index after the last it took.
LEMMA ApplierTakes ==
    ASSUME PipeInv, NEW i \in Server, applier(i)
    PROVE  /\ applyCh[i] \in Seq(Nat) /\ Len(applyCh[i]) \in Nat \ {0}
           /\ handled[i] \in Seq(Nat) /\ Len(handled[i]) \in Nat
           /\ Head(applyCh[i]) = Len(handled[i]) + 1
           /\ Len(handled[i]) + 1 \in 0..Len(chosen)
           /\ Len(handled[i]) + 1 # 0
<1>1. applyCh[i] # << >>  BY DEF applier
<1>2. Len(applyCh[i]) \in Nat /\ Len(handled[i]) \in Nat
  BY NodeTypes, LenProperties
<1> QED  BY <1>1, <1>2, NodeTypes, OrderedHead

LEMMA applierKeepsPipe ==
    ASSUME PipeInv, NEW i \in Server, applier(i)
    PROVE  PipeInv'
<1> DEFINE k == Head(applyCh[i])
           q == applyCh[i]
           h == handled[i]
<1>1. /\ q \in Seq(Nat) /\ Len(q) \in Nat /\ Len(q) # 0 /\ q # << >>
      /\ h \in Seq(Nat) /\ Len(h) \in Nat /\ k = Len(h) + 1
  BY ApplierTakes DEF applier
<1>2. /\ applyCh' = [applyCh EXCEPT ![i] = Tail(q)]
      /\ handled' = [handled EXCEPT ![i] = Append(h, k)]
      /\ UNCHANGED <<chosen, raft>> /\ DOMAIN ledgers' = DOMAIN ledgers
  BY DEF applier
<1>3. /\ Append(h, k) \in Seq(Nat) /\ Len(Append(h, k)) = Len(h) + 1
      /\ \A m \in 1..Len(h) : Append(h, k)[m] = h[m]
      /\ Append(h, k)[Len(h) + 1] = k
  BY <1>1, AppendProperties
<1>4. /\ Tail(q) \in Seq(Nat) /\ Len(Tail(q)) = Len(q) - 1
      /\ \A m \in 1..Len(q) - 1 : Tail(q)[m] = q[m + 1]
  BY <1>1, HeadTailProperties
<1>5. PipeType'
  BY <1>2, <1>3, <1>4 DEF PipeInv, PipeType
<1>6. ASSUME NEW j \in Server PROVE InOrder(j)'
  <2>1. InOrder(j)  BY DEF PipeInv
  <2>2. CASE j # i
    <3>1. handled'[j] = handled[j] /\ applyCh'[j] = applyCh[j]
      BY <1>2, <2>2 DEF PipeInv, PipeType
    <3> QED  BY <1>2, <2>1, <3>1 DEF InOrder
  <2>3. CASE j = i
    <3>1. handled'[i] = Append(h, k) /\ applyCh'[i] = Tail(q)
      BY <1>2 DEF PipeInv, PipeType
    <3>2. /\ raft[i].lastApplied = Len(h) + Len(q)
          /\ \A m \in 1..Len(h) : h[m] = m
          /\ \A m \in 1..Len(q) : q[m] = Len(h) + m
      BY <2>1, <2>3 DEF InOrder, Ordered
    <3> HIDE DEF k, q, h
    <3>3. \A m \in 1..Len(Append(h, k)) : Append(h, k)[m] = m
      <4> SUFFICES ASSUME NEW m \in 1..Len(h) + 1 PROVE Append(h, k)[m] = m
        BY <1>3
      <4>1. CASE m = Len(h) + 1  BY <1>1, <1>3, <4>1
      <4>2. CASE m \in 1..Len(h)  BY <1>3, <3>2, <4>2
      <4> QED  BY <1>1, <4>1, <4>2
    <3>4. \A m \in 1..Len(Tail(q)) : Tail(q)[m] = Len(h) + 1 + m
      BY <1>1, <1>4, <3>2
    <3>5. raft[i].lastApplied = Len(Append(h, k)) + Len(Tail(q))
      BY <1>1, <1>3, <1>4, <3>2
    <3>6. Ordered(raft[i], Append(h, k), Tail(q), Len(chosen))
      BY <1>3, <2>1, <2>3, <3>3, <3>4, <3>5 DEF InOrder, Ordered
    <3> QED  BY <1>2, <2>3, <3>1, <3>6 DEF InOrder
  <2> QED  BY <2>2, <2>3
<1> QED  BY <1>5, <1>6 DEF PipeInv

LEMMA RestartKeepsPipe ==
    ASSUME PipeInv, NEW i \in Server, Restart(i)
    PROVE  PipeInv'
<1>1. << >> \in Seq(Nat) /\ Len(<< >>) = 0 /\ fresh \in ApplyState
  BY DEF fresh, ApplyState
<1>2. PipeType'
  BY <1>1 DEF PipeInv, PipeType, Restart
<1>3. ASSUME NEW j \in Server PROVE InOrder(j)'
  <2>1. InOrder(j) /\ Len(chosen) \in Nat
    BY LenProperties DEF PipeInv, PipeType
  <2>2. CASE j # i
    <3>1. /\ handled'[j] = handled[j] /\ applyCh'[j] = applyCh[j]
          /\ raft'[j] = raft[j] /\ chosen' = chosen
      BY <2>2 DEF PipeInv, PipeType, Restart
    <3> QED  BY <2>1, <3>1 DEF InOrder
  <2>3. CASE j = i
    <3>1. /\ handled'[j] = << >> /\ applyCh'[j] = << >>
          /\ raft'[j] = fresh /\ chosen' = chosen
      BY <2>3 DEF PipeInv, PipeType, Restart
    <3> QED  BY <1>1, <2>1, <3>1 DEF InOrder, Ordered, fresh
  <2> QED  BY <2>2, <2>3
<1> QED  BY <1>2, <1>3 DEF PipeInv

LEMMA PipeStep ==
    ASSUME PipeInv, NeverFull, [Next]_vars
    PROVE  PipeInv'
<1>1. CASE UNCHANGED vars
  BY <1>1 DEF vars, PipeInv, PipeType, InOrder
<1>2. ASSUME NEW cmd \in Command, Commit(cmd) PROVE PipeInv'
  BY <1>2, CommitKeepsPipe
<1>3. ASSUME NEW i \in Server, NEW n \in 1..Len(chosen), AdvanceCommit(i, n)
      PROVE  PipeInv'
  BY <1>3, AdvanceCommitKeepsPipe
<1>4. ASSUME NEW i \in Server, SendEntry(i) PROVE PipeInv'
  <2>1. Len(applyCh[i]) < Capacity
    BY <1>4 DEF SendEntry, NeverFull
  <2> QED  BY <1>4, <2>1, SendEntryKeepsPipe
<1>5. ASSUME NEW i \in Server, applier(i) PROVE PipeInv'
  BY <1>5, applierKeepsPipe
<1>6. ASSUME NEW i \in Server, NEW a \in Account, HandleGetBalance(i, a)
      PROVE  PipeInv'
  BY <1>6 DEF HandleGetBalance, PipeInv, PipeType, InOrder
<1>7. ASSUME NEW i \in Server, Restart(i) PROVE PipeInv'
  BY <1>7, RestartKeepsPipe
<1> QED  BY <1>1, <1>2, <1>3, <1>4, <1>5, <1>6, <1>7 DEF Next

-----------------------------------------------------------------------------
(* The ledgers *)

\* The chosen commands have a replay, every ledger is the replay of as many
\* commands as its applier has taken, and so was the one last read.
LedgerInv ==
    /\ \E L : IsReplay(L, chosen)
    /\ \A i \in Server : ledgers[i] = Replay[Len(handled[i])]
    /\ read.upto \in 0..Len(chosen)
    /\ ReadsAreCommitted

LEMMA LedgerInit == Init => LedgerInv
<1> SUFFICES ASSUME Init PROVE LedgerInv
  OBVIOUS
<1>1. chosen = << >> /\ chosen \in Seq(Command) /\ Len(chosen) = 0
  BY DEF Init
<1> DEFINE L == [n \in 0..0 |-> NewLedger]
<1>2. IsReplay(L, chosen)
  BY <1>1 DEF IsReplay
<1>3. Replay[0] = NewLedger
  <2> HIDE DEF L
  <2> QED  BY <1>1, <1>2, ReplayIs, ReplayStep
<1>4. \A i \in Server : ledgers[i] = Replay[Len(handled[i])]
  BY <1>3 DEF Init
<1>5. (CHOOSE a \in Account : TRUE) \in Account
  BY AmountAssumption
<1>6. read.upto = 0 /\ read.balance = 0 /\ read.account \in Account
  BY <1>5 DEF Init
<1>7. NewLedger.balance[read.account] = 0
  BY <1>6 DEF NewLedger
<1> HIDE DEF L
<1> QED
  BY <1>1, <1>2, <1>3, <1>4, <1>6, <1>7 DEF LedgerInv, ReadsAreCommitted

\* A step leaves chosen alone or appends to it.
LEMMA ChosenStep ==
    ASSUME [Next]_vars
    PROVE  \/ chosen' = chosen
           \/ \E cmd \in Command : chosen' = Append(chosen, cmd)
BY DEF Next, vars, Commit, AdvanceCommit, SendEntry, applier,
       HandleGetBalance, Restart

\* What was replayed stays so when more commands are chosen.
LEMMA ReplayKept ==
    ASSUME PipeInv, LedgerInv, [Next]_vars
    PROVE  /\ \E L : IsReplay(L, chosen')
           /\ IsReplay(Replay, chosen)
           /\ Len(chosen) \in Nat /\ Len(chosen') \in Nat
           /\ Len(chosen) <= Len(chosen')
           /\ \A n \in 0..Len(chosen) : Replay'[n] = Replay[n]
<1>1. PICK L : IsReplay(L, chosen)
  BY DEF LedgerInv
<1>2. IsReplay(Replay, chosen)
  BY <1>1, ReplayIs
<1>3. chosen \in Seq(Command) /\ Len(chosen) \in Nat
  BY LenProperties DEF PipeInv, PipeType
<1>4. /\ chosen' \in Seq(Command) /\ Len(chosen') \in Nat
      /\ Len(chosen) <= Len(chosen')
      /\ \A n \in 1..Len(chosen) : chosen[n] = chosen'[n]
  <2>1. CASE chosen' = chosen
    BY <1>3, <2>1
  <2>2. ASSUME NEW cmd \in Command, chosen' = Append(chosen, cmd)
        PROVE  /\ chosen' \in Seq(Command) /\ Len(chosen') \in Nat
               /\ Len(chosen) <= Len(chosen')
               /\ \A n \in 1..Len(chosen) : chosen[n] = chosen'[n]
    BY <1>3, <2>2, AppendProperties
  <2> QED  BY <2>1, <2>2, ChosenStep
<1>5. PICK M : IsReplay(M, chosen')
  <2>1. CASE chosen' = chosen
    BY <1>1, <2>1
  <2>2. ASSUME NEW cmd \in Command, chosen' = Append(chosen, cmd)
        PROVE  \E M : IsReplay(M, chosen')
    BY <1>1, <1>3, <2>2, ReplayExtends
  <2> QED  BY <2>1, <2>2, ChosenStep
<1>6. IsReplay(Replay', chosen')
  BY <1>5, ReplayIsAfter
<1>7. \A n \in 0..Len(chosen) : Replay[n] = Replay'[n]
  BY <1>2, <1>3, <1>4, <1>6, ReplaysAgree
<1> QED  BY <1>2, <1>3, <1>4, <1>5, <1>7

\* Every ledger stays the replay of what its applier has taken.
LEMMA LedgersReplay ==
    ASSUME PipeInv, LedgerInv, [Next]_vars, NEW i \in Server
    PROVE  ledgers'[i] = Replay'[Len(handled'[i])]
<1>1. /\ IsReplay(Replay, chosen) /\ chosen \in Seq(Command)
      /\ Len(chosen) \in Nat
      /\ \A n \in 0..Len(chosen) : Replay'[n] = Replay[n]
  BY ReplayKept DEF PipeInv, PipeType
<1>2. /\ ledgers[i] = Replay[Len(handled[i])]
      /\ Len(handled[i]) \in 0..Len(chosen)
  BY NodeTypes, OrderedHead DEF LedgerInv
<1>3. CASE ledgers'[i] = ledgers[i] /\ handled'[i] = handled[i]
  BY <1>1, <1>2, <1>3
<1>4. CASE ledgers'[i] = NewLedger /\ handled'[i] = << >>
  <2>1. Len(handled'[i]) = 0 /\ 0 \in 0..Len(chosen)
    BY <1>1, <1>4
  <2> QED  BY <1>1, <1>4, <2>1, ReplayStep
<1>5. CASE applier(i)
  <2> DEFINE k == Len(handled[i]) + 1
  <2>1. /\ Len(handled[i]) \in Nat /\ Head(applyCh[i]) = k
        /\ k \in 0..Len(chosen) /\ k # 0 /\ handled[i] \in Seq(Nat)
    BY <1>5, ApplierTakes
  <2>2. /\ ledgers'[i] = applyCommand(ledgers[i], chosen[Head(applyCh[i])])
        /\ handled'[i] = Append(handled[i], Head(applyCh[i]))
    BY <1>5 DEF applier, PipeInv, PipeType
  <2>3. Len(handled'[i]) = k
    BY <2>1, <2>2, AppendProperties
  <2>4. k - 1 = Len(handled[i])
    BY <2>1
  <2> HIDE DEF k
  <2>5. Replay[k] = applyCommand(Replay[k - 1], chosen[k])
    BY <1>1, <2>1, ReplayStep
  <2> QED  BY <1>1, <1>2, <2>1, <2>2, <2>3, <2>4, <2>5
<1>6. \/ ledgers'[i] = ledgers[i] /\ handled'[i] = handled[i]
      \/ ledgers'[i] = NewLedger /\ handled'[i] = << >>
      \/ applier(i)
  <2>1. ASSUME NEW j \in Server, applier(j)
        PROVE  \/ ledgers'[i] = ledgers[i] /\ handled'[i] = handled[i]
               \/ applier(i)
    <3>1. CASE j = i  BY <2>1, <3>1
    <3>2. CASE j # i
      BY <2>1, <3>2 DEF applier, PipeInv, PipeType
    <3> QED  BY <3>1, <3>2
  <2>2. ASSUME NEW j \in Server, Restart(j)
        PROVE  \/ ledgers'[i] = ledgers[i] /\ handled'[i] = handled[i]
               \/ ledgers'[i] = NewLedger /\ handled'[i] = << >>
    BY <2>2 DEF Restart, PipeInv, PipeType
  <2>3. \/ UNCHANGED <<ledgers, handled>>
        \/ \E j \in Server : applier(j) \/ Restart(j)
    BY DEF Next, vars, Commit, AdvanceCommit, SendEntry, HandleGetBalance
  <2> QED  BY <2>1, <2>2, <2>3
<1> QED  BY <1>3, <1>4, <1>5, <1>6

\* A balance is read from a ledger that is a replay, and stays what it was.
LEMMA ReadsReplay ==
    ASSUME PipeInv, LedgerInv, [Next]_vars
    PROVE  read'.upto \in 0..Len(chosen') /\ ReadsAreCommitted'
<1>1. /\ Len(chosen) \in Nat /\ Len(chosen') \in Nat
      /\ Len(chosen) <= Len(chosen')
      /\ \A n \in 0..Len(chosen) : Replay'[n] = Replay[n]
  BY ReplayKept
<1>2. CASE read' = read
  <2>1. read.upto \in 0..Len(chosen) /\ ReadsAreCommitted
    BY DEF LedgerInv
  <2>2. Replay'[read.upto] = Replay[read.upto]
    BY <1>1, <2>1
  <2> QED  BY <1>1, <1>2, <2>1, <2>2 DEF ReadsAreCommitted
<1>3. ASSUME NEW i \in Server, NEW a \in Account, HandleGetBalance(i, a)
      PROVE  read'.upto \in 0..Len(chosen') /\ ReadsAreCommitted'
  <2>2. Len(handled[i]) \in 0..Len(chosen)
    BY NodeTypes, OrderedHead
  <2>3. ledgers[i] = Replay'[Len(handled[i])]
    BY <1>1, <2>2 DEF LedgerInv
  <2>4. /\ read'.upto = Len(handled[i]) /\ read'.account = a
        /\ read'.balance = ledgers[i].balance[a] /\ chosen' = chosen
    BY <1>3 DEF HandleGetBalance
  <2> QED  BY <1>1, <2>2, <2>3, <2>4 DEF ReadsAreCommitted
<1>4. read' = read \/ \E i \in Server, a \in Account : HandleGetBalance(i, a)
  BY DEF Next, vars, Commit, AdvanceCommit, SendEntry, applier, Restart
<1> QED  BY <1>2, <1>3, <1>4

LEMMA LedgerStep ==
    ASSUME PipeInv, LedgerInv, [Next]_vars
    PROVE  LedgerInv'
<1>1. \E L : IsReplay(L, chosen')  BY ReplayKept
<1>2. \A i \in Server : ledgers'[i] = Replay'[Len(handled'[i])]
  BY LedgersReplay
<1>3. read'.upto \in 0..Len(chosen') /\ ReadsAreCommitted'
  BY ReadsReplay
<1> QED  BY <1>1, <1>2, <1>3 DEF LedgerInv

LEMMA PayInvariance == Spec /\ []NeverFull => [](PipeInv /\ LedgerInv)
<1>1. Init => PipeInv /\ LedgerInv
  BY PipeInit, LedgerInit
<1>2. PipeInv /\ LedgerInv /\ NeverFull /\ [Next]_vars => PipeInv' /\ LedgerInv'
  BY PipeStep, LedgerStep
<1> QED  BY <1>1, <1>2, PTL DEF Spec

\* As long as applyCh never is full when the loop sends, nodes that have applied
\* up to the same index have the same ledger, for any accounts, amounts, number
\* of nodes and restarts (applyCommittedEntries, applier, Restart).
THEOREM SameEntriesSameLedger == Spec /\ []NeverFull => []LedgersAgree
<1>1. PipeInv /\ LedgerInv => LedgersAgree
  <2> SUFFICES ASSUME PipeInv, LedgerInv, NEW i \in Server, NEW j \in Server,
                      raft[i].lastApplied = raft[j].lastApplied,
                      applyCh[i] = << >>, applyCh[j] = << >>
               PROVE  ledgers[i] = ledgers[j]
    BY DEF LedgersAgree
  <2>1. /\ raft[i].lastApplied = Len(handled[i])
        /\ raft[j].lastApplied = Len(handled[j])
    BY NodeTypes, OrderedHead
  <2>2. Len(handled[i]) = Len(handled[j])
    BY <2>1
  <2> QED  BY <2>2 DEF LedgerInv
<1> QED  BY <1>1, PayInvariance, PTL

\* As long as applyCh never is full when the loop sends, a balance that was read
\* is the balance after some number of committed commands (HandleGetBalance).
THEOREM ReadsShowCommitted == Spec /\ []NeverFull => []ReadsAreCommitted
<1>1. LedgerInv => ReadsAreCommitted  BY DEF LedgerInv
<1> QED  BY <1>1, PayInvariance, PTL

\* A channel that holds as many entries as are ever committed never is full
\* when the loop sends, however slow the applier: so the hypothesis of the other
\* results holds of a process that runs for no more than 100 entries (main.go).
THEOREM RoomForAll ==
    ASSUME MaxChosen <= Capacity
    PROVE  Spec => []NeverFull
<1>1. PipeInv => NeverFull
  <2> SUFFICES ASSUME PipeInv, NEW i \in Server, raft[i].loop # 0
               PROVE  Len(applyCh[i]) < Capacity
    BY DEF NeverFull
  <2>1. Len(applyCh[i]) \in 0..Len(chosen) /\ Len(applyCh[i]) < Len(chosen)
    BY NodeTypes, OrderedHead
  <2>2. Len(chosen) <= MaxChosen /\ Len(chosen) \in Nat
    BY NodeTypes DEF PipeInv, PipeType
  <2> DEFINE x == Len(applyCh[i])
             y == Len(chosen)
  <2>3. x \in Nat /\ y \in Nat /\ x < y /\ y <= MaxChosen
    BY <2>1, <2>2
  <2> HIDE DEF x, y
  <2>4. x < Capacity
    BY <2>3, PayAssumption
  <2> QED  BY <2>4 DEF x
<1>2. PipeInv /\ [Next]_vars => PipeInv'
  BY <1>1, PipeStep
<1> QED  BY <1>1, <1>2, PipeInit, PTL DEF Spec

-----------------------------------------------------------------------------
(* Refinement *)

\* The first n of the commands.
FirstOf(cmds, n) == [k \in 1..n |-> cmds[k]]

\* The commands that indices h and q stand for.
Handed(cmds, h, q) ==
    [k \in 1..(Len(h) + Len(q)) |-> cmds[(h \o q)[k]]]

\* What was handed to a node's applyCh are the first lastApplied commands.
LEMMA OrderedDelivers ==
    ASSUME NEW r \in ApplyState, NEW h \in Seq(Nat), NEW q \in Seq(Nat),
           NEW cmds, NEW n \in Nat, Ordered(r, h, q, n)
    PROVE  /\ Handed(cmds, h, q) = FirstOf(cmds, r.lastApplied)
           /\ r.lastApplied \in 0..n
<1>1. /\ Len(h) \in Nat /\ Len(q) \in Nat
      /\ r.commitIndex \in Nat /\ r.lastApplied \in Nat
  BY LenProperties DEF ApplyState
<1>2. r.lastApplied = Len(h) + Len(q) /\ r.lastApplied \in 0..n
  BY <1>1 DEF Ordered
<1>3. ASSUME NEW k \in 1..(Len(h) + Len(q)) PROVE (h \o q)[k] = k
  <2>1. (h \o q)[k] = IF k <= Len(h) THEN h[k] ELSE q[k - Len(h)]
    BY <1>1, ConcatProperties
  <2>2. CASE k <= Len(h)
    <3>1. k \in 1..Len(h)  BY <1>1, <2>2
    <3> QED  BY <2>1, <2>2, <3>1 DEF Ordered
  <2>3. CASE ~(k <= Len(h))
    <3>1. k - Len(h) \in 1..Len(q)  BY <1>1, <2>3
    <3>2. q[k - Len(h)] = Len(h) + (k - Len(h))  BY <3>1 DEF Ordered
    <3> QED  BY <1>1, <2>1, <2>3, <3>2
  <2> QED  BY <2>2, <2>3
<1> QED  BY <1>2, <1>3 DEF FirstOf, Handed

LEMMA FirstIsSubSeq ==
    ASSUME NEW cmds \in Seq(Command), NEW n \in 0..Len(cmds)
    PROVE  /\ FirstOf(cmds, n) = SubSeq(cmds, 1, n)
           /\ Len(FirstOf(cmds, n)) = n
BY LenProperties DEF FirstOf

LEMMA AppendIsPrefix ==
    ASSUME NEW cmds \in Seq(Command), NEW c \in Command
    PROVE  IsPrefix(cmds, cmds) /\ IsPrefix(cmds, Append(cmds, c))
<1>1. Len(cmds) \in Nat /\ Len(Append(cmds, c)) = Len(cmds) + 1
  BY LenProperties, AppendProperties
<1>2. SubSeq(cmds, 1, Len(cmds)) = cmds
  BY SubSeqProperties
<1>3. SubSeq(Append(cmds, c), 1, Len(cmds)) = cmds
  OBVIOUS
<1> QED  BY <1>1, <1>2, <1>3 DEF IsPrefix

\* A step of node i, or of the consensus layer, moves lastApplied forward on
\* one node at most, or restarts it.
LEMMA AppliedStep ==
    ASSUME PipeInv, NeverFull, [Next]_vars
    PROVE  \E i \in Server :
              /\ \A j \in Server :
                    j # i => raft'[j].lastApplied = raft[j].lastApplied
              /\ \/ raft'[i].lastApplied >= raft[i].lastApplied
                 \/ raft'[i].lastApplied = 0 /\ chosen' = chosen
<1>1. \A i \in Server : /\ raft[i] \in ApplyState /\ raft[i].lastApplied \in Nat
                        /\ raft[i].loop \in Nat
  BY NodeTypes DEF ApplyState
<1>2. raft \in [Server -> ApplyState]
  BY DEF PipeInv, PipeType
<1>3. CASE UNCHANGED raft
  BY <1>1, <1>3, PayAssumption
<1>4. ASSUME NEW i \in Server, NEW n \in 1..Len(chosen), AdvanceCommit(i, n)
      PROVE  \A j \in Server : raft'[j].lastApplied = raft[j].lastApplied
  BY <1>2, <1>4 DEF AdvanceCommit, ApplyState
<1>5. ASSUME NEW i \in Server, SendEntry(i)
      PROVE  /\ \A j \in Server :
                   j # i => raft'[j].lastApplied = raft[j].lastApplied
             /\ raft'[i].lastApplied >= raft[i].lastApplied
  <2>1. Len(applyCh[i]) < Capacity /\ raft[i].loop # 0
    BY <1>5 DEF SendEntry, NeverFull
  <2>2. Len(applyCh[i]) \in Nat
    BY NodeTypes, LenProperties
  <2>3. raft' = [raft EXCEPT ![i] =
                   [[raft[i] EXCEPT !.loop = NextIndex(raft[i], raft[i].loop)]
                       EXCEPT !.lastApplied = raft[i].loop]]
    BY <1>5, <2>1, <2>2, PayAssumption DEF SendEntry
  <2>4. raft[i].loop = raft[i].lastApplied + 1
    BY <2>1, NodeTypes DEF Ordered
  <2>5. raft'[i].lastApplied = raft[i].loop
    BY <1>2, <2>3 DEF ApplyState
  <2> QED  BY <1>1, <1>2, <2>3, <2>4, <2>5
<1>6. ASSUME NEW i \in Server, Restart(i)
      PROVE  /\ \A j \in Server :
                   j # i => raft'[j].lastApplied = raft[j].lastApplied
             /\ raft'[i].lastApplied = 0 /\ chosen' = chosen
  BY <1>2, <1>6 DEF Restart, fresh
<1>7. \/ UNCHANGED raft
      \/ \E i \in Server : \/ \E n \in 1..Len(chosen) : AdvanceCommit(i, n)
                           \/ SendEntry(i) \/ Restart(i)
  BY DEF Next, vars, Commit, applier, HandleGetBalance
<1>8. ASSUME NEW i \in Server, \E n \in 1..Len(chosen) : AdvanceCommit(i, n)
      PROVE  \A j \in Server : /\ raft'[j].lastApplied = raft[j].lastApplied
                               /\ raft'[j].lastApplied >= raft[j].lastApplied
  BY <1>1, <1>4, <1>8
<1> QED  BY <1>3, <1>5, <1>6, <1>7, <1>8

LEMMA DeliveredIs ==
    ASSUME NEW R \in [Server -> ApplyState], NEW H \in [Server -> Seq(Nat)],
           NEW Q \in [Server -> Seq(Nat)], NEW cmds \in Seq(Command),
           \A i \in Server : Ordered(R[i], H[i], Q[i], Len(cmds))
    PROVE  /\ [i \in Server |-> Handed(cmds, H[i], Q[i])]
                = [i \in Server |-> FirstOf(cmds, R[i].lastApplied)]
           /\ \A i \in Server : R[i].lastApplied \in 0..Len(cmds)
<1>1. Len(cmds) \in Nat  BY LenProperties
<1>2. ASSUME NEW i \in Server
      PROVE  /\ Handed(cmds, H[i], Q[i]) = FirstOf(cmds, R[i].lastApplied)
             /\ R[i].lastApplied \in 0..Len(cmds)
  BY <1>1, OrderedDelivers
<1> QED  BY <1>2

\* Node by node the first commands, as many as count says.
Firsts(cmds, count) == [j \in Server |-> FirstOf(cmds, count[j])]

\* From old to new, node i is delivered more of the commands, or starts over.
Delivers(old, new, cmds, i) ==
    \E n \in Len(old[i])..Len(cmds) :
        new = [old EXCEPT ![i] = SubSeq(cmds, 1, n)]

StartsOver(old, new, i) == new = [old EXCEPT ![i] = << >>]

\* The abstract step, on lastApplied instead of the sequences.
LEMMA FirstsStep ==
    ASSUME NEW a \in [Server -> Nat], NEW b \in [Server -> Nat],
           NEW cs \in Seq(Command), NEW ds \in Seq(Command),
           \A j \in Server : a[j] \in 0..Len(cs) /\ b[j] \in 0..Len(ds),
           IsPrefix(cs, ds), NEW i \in Server,
           \A j \in Server : j # i => b[j] = a[j]
    PROVE  /\ b[i] >= a[i] => Delivers(Firsts(cs, a), Firsts(ds, b), ds, i)
           /\ b[i] = 0 => StartsOver(Firsts(cs, a), Firsts(ds, b), i)
<1> DEFINE old == Firsts(cs, a)
           new == Firsts(ds, b)
<1>1. Len(cs) \in Nat /\ Len(ds) \in Nat
  BY LenProperties
<1>2. \A k \in 1..Len(cs) : cs[k] = ds[k]
  <2>1. SubSeq(cs, 1, Len(cs)) = SubSeq(ds, 1, Len(cs)) /\ Len(cs) <= Len(ds)
    BY DEF IsPrefix
  <2>2. \A k \in 1..Len(cs) : /\ SubSeq(cs, 1, Len(cs))[k] = cs[k]
                              /\ SubSeq(ds, 1, Len(cs))[k] = ds[k]
    BY <1>1, <2>1
  <2> QED  BY <2>1, <2>2
<1>3. ASSUME NEW j \in Server, j # i PROVE FirstOf(ds, b[j]) = FirstOf(cs, a[j])
  <2>1. b[j] = a[j] /\ a[j] \in 0..Len(cs)
    BY <1>3
  <2>2. \A k \in 1..a[j] : cs[k] = ds[k]
    BY <1>1, <1>2, <2>1
  <2> QED  BY <2>1, <2>2 DEF FirstOf
<1>4. /\ FirstOf(ds, b[i]) = SubSeq(ds, 1, b[i])
      /\ Len(FirstOf(cs, a[i])) = a[i]
  BY FirstIsSubSeq
<1>5. new = [old EXCEPT ![i] = SubSeq(ds, 1, b[i])]
  BY <1>3, <1>4 DEF Firsts
<1>6. b[i] >= a[i] => b[i] \in Len(old[i])..Len(ds)
  BY <1>1, <1>4 DEF Firsts
<1>7. b[i] = 0 => SubSeq(ds, 1, b[i]) = << >>
  BY <1>1
<1> HIDE DEF old, new
<1>8. /\ b[i] >= a[i] => Delivers(old, new, ds, i)
      /\ b[i] = 0 => StartsOver(old, new, i)
  BY <1>5, <1>6, <1>7 DEF Delivers, StartsOver
<1> QED  BY <1>8 DEF old, new

\* As long as applyCh never is full when the loop sends, loop, channel and
\* applier hand every node's ledger the committed commands in order, without gap
\* or repetition, from the start in each process: a step commits a command,
\* sends the next one to the channel, restarts a node or does nothing that this
\* promise is about (applyCommittedEntries, applier).
THEOREM PipelineKeepsThePromise ==
    Spec /\ []NeverFull => PipelineImplementsReplicatedLog
<1> DEFINE d == [i \in Server |->
                    [k \in 1..(Len(handled[i]) + Len(applyCh[i])) |->
                        chosen[(handled[i] \o applyCh[i])[k]]]]
<1>1. Init => Consensus!Init
  <2> SUFFICES ASSUME Init PROVE chosen = << >> /\ d = [i \in Server |-> << >>]
    BY DEF Consensus!Init
  <2> QED  BY DEF Init
<1>2. PipeInv /\ PipeInv' /\ NeverFull /\ [Next]_vars
        => [Consensus!Next]_<<chosen, d>>
  <2> SUFFICES ASSUME PipeInv, PipeInv', NeverFull, [Next]_vars
               PROVE  Consensus!Next
    OBVIOUS
  <2> DEFINE a == [i \in Server |-> raft[i].lastApplied]
             b == [i \in Server |-> raft'[i].lastApplied]
  <2>1. /\ chosen \in Seq(Command) /\ raft \in [Server -> ApplyState]
        /\ handled \in [Server -> Seq(Nat)] /\ applyCh \in [Server -> Seq(Nat)]
        /\ \A i \in Server :
              Ordered(raft[i], handled[i], applyCh[i], Len(chosen))
    BY DEF PipeInv, PipeType, InOrder
  <2>2. /\ chosen' \in Seq(Command) /\ raft' \in [Server -> ApplyState]
        /\ handled' \in [Server -> Seq(Nat)]
        /\ applyCh' \in [Server -> Seq(Nat)]
        /\ \A i \in Server :
              Ordered(raft'[i], handled'[i], applyCh'[i], Len(chosen'))
    BY DEF PipeInv, PipeType, InOrder
  <2>3. /\ d = [i \in Server |-> FirstOf(chosen, a[i])]
        /\ \A i \in Server : a[i] \in 0..Len(chosen)
    <3>1. d = [i \in Server |-> Handed(chosen, handled[i], applyCh[i])]
      BY DEF Handed
    <3>2. /\ [i \in Server |-> Handed(chosen, handled[i], applyCh[i])]
                = [i \in Server |-> FirstOf(chosen, raft[i].lastApplied)]
          /\ \A i \in Server : raft[i].lastApplied \in 0..Len(chosen)
      BY <2>1, DeliveredIs
    <3> HIDE DEF d
    <3> QED  BY <3>1, <3>2
  <2>4. /\ d' = [i \in Server |-> FirstOf(chosen', b[i])]
        /\ \A i \in Server : b[i] \in 0..Len(chosen')
    <3>1. d' = [i \in Server |-> Handed(chosen', handled'[i], applyCh'[i])]
      BY DEF Handed
    <3>2. /\ [i \in Server |-> Handed(chosen', handled'[i], applyCh'[i])]
                = [i \in Server |-> FirstOf(chosen', raft'[i].lastApplied)]
          /\ \A i \in Server : raft'[i].lastApplied \in 0..Len(chosen')
      BY <2>2, DeliveredIs
    <3> HIDE DEF d
    <3> QED  BY <3>1, <3>2
  <2>5. a \in [Server -> Nat] /\ b \in [Server -> Nat]
    BY <2>1, <2>2 DEF ApplyState
  <2>6. IsPrefix(chosen, chosen')
    <3>1. CASE chosen' = chosen
      <4>1. SubSeq(chosen, 1, Len(chosen)) = SubSeq(chosen', 1, Len(chosen))
        BY <3>1
      <4>2. Len(chosen) \in Nat  BY <2>1, LenProperties
      <4> QED  BY <3>1, <4>1, <4>2 DEF IsPrefix
    <3>2. ASSUME NEW cmd \in Command, chosen' = Append(chosen, cmd)
          PROVE  IsPrefix(chosen, chosen')
      BY <2>1, <3>2, AppendIsPrefix
    <3> QED  BY <3>1, <3>2, ChosenStep
  <2>7. PICK i \in Server :
           /\ \A j \in Server : j # i => b[j] = a[j]
           /\ b[i] >= a[i] \/ (b[i] = 0 /\ chosen' = chosen)
    BY AppliedStep
  <2>8. d = Firsts(chosen, a) /\ d' = Firsts(chosen', b)
    <3> HIDE DEF d, a, b
    <3> QED  BY <2>3, <2>4 DEF Firsts
  <2>9. /\ b[i] >= a[i] => Delivers(d, d', chosen', i)
        /\ b[i] = 0 => StartsOver(d, d', i)
    <3>1. \A j \in Server : a[j] \in 0..Len(chosen) /\ b[j] \in 0..Len(chosen')
      BY <2>3, <2>4
    <3> HIDE DEF d, a, b
    <3>2. /\ b[i] >= a[i] =>
                Delivers(Firsts(chosen, a), Firsts(chosen', b), chosen', i)
          /\ b[i] = 0 => StartsOver(Firsts(chosen, a), Firsts(chosen', b), i)
      BY <2>1, <2>2, <2>5, <2>6, <2>7, <3>1, FirstsStep
    <3> QED  BY <2>8, <3>2
  <2>10. CASE b[i] >= a[i]
    <3>1. Consensus!Deliver(i)
      BY <2>6, <2>9, <2>10
         DEF Delivers, Consensus!Deliver, Consensus!IsPrefix, IsPrefix
    <3> QED  BY <3>1 DEF Consensus!Next
  <2>11. CASE b[i] = 0 /\ chosen' = chosen
    <3>1. Consensus!Restart(i)
      BY <2>9, <2>11 DEF StartsOver, Consensus!Restart
    <3> QED  BY <3>1 DEF Consensus!Next
  <2> QED  BY <2>7, <2>10, <2>11
<1> QED
  BY <1>1, <1>2, PayInvariance, PTL
     DEF Spec, PipelineImplementsReplicatedLog, Consensus!Spec

-----------------------------------------------------------------------------
(* float64: rounding gives a natural number *)

\* g is Pow2 up to N.
IsPow2(g, N) == g = [n \in 0..N |-> IF n = 0 THEN 1 ELSE 2 * g[n - 1]]

LEMMA Pow2Traces == \A N \in Nat : \E g : IsPow2(g, N)
<1> DEFINE D == {N \in Nat : ~\E g : IsPow2(g, N)}
<1> SUFFICES ASSUME D # {} PROVE FALSE
  OBVIOUS
<1>1. PICK d \in D : \A e \in Nat : e < d => e \notin D
  <2>1. D \subseteq Nat  OBVIOUS
  <2> HIDE DEF D
  <2> QED  BY <2>1, LeastOf
<1>2. d # 0
  <2>1. IsPow2([n \in 0..0 |-> 1], 0)  BY DEF IsPow2
  <2> QED  BY <2>1
<1>3. PICK g : IsPow2(g, d - 1)
  BY <1>1, <1>2
<1> DEFINE h == [n \in 0..d |-> IF n <= d - 1 THEN g[n] ELSE 2 * g[d - 1]]
<1>4. ASSUME NEW n \in 0..d
      PROVE  h[n] = IF n = 0 THEN 1 ELSE 2 * h[n - 1]
  <2>1. \A m \in 0..d - 1 : g[m] = IF m = 0 THEN 1 ELSE 2 * g[m - 1]
    BY <1>3 DEF IsPow2
  <2>2. CASE n <= d - 1
    <3>1. h[n] = g[n] /\ n \in 0..d - 1  BY <2>2
    <3>2. n # 0 => h[n - 1] = g[n - 1]  BY <1>2, <2>2
    <3> HIDE DEF h
    <3> QED  BY <2>1, <3>1, <3>2
  <2>3. CASE n = d
    <3>1. h[n] = 2 * g[d - 1] /\ h[n - 1] = g[d - 1]  BY <1>2, <2>3
    <3> HIDE DEF h
    <3> QED  BY <1>2, <2>3, <3>1
  <2> QED  BY <2>2, <2>3
<1>5. IsPow2(h, d)
  BY <1>4 DEF IsPow2
<1> QED  BY <1>5

LEMMA Pow2TracesAgree ==
    ASSUME NEW N \in Nat, NEW M \in Nat, N <= M,
           NEW g, IsPow2(g, N), NEW h, IsPow2(h, M)
    PROVE  \A n \in 0..N : g[n] = h[n]
<1> DEFINE D == {n \in 0..N : g[n] # h[n]}
<1> SUFFICES ASSUME D # {} PROVE FALSE
  OBVIOUS
<1>1. PICK d \in D : \A e \in Nat : e < d => e \notin D
  <2>1. D \subseteq Nat  OBVIOUS
  <2> HIDE DEF D
  <2> QED  BY <2>1, LeastOf
<1>2. /\ g[d] = IF d = 0 THEN 1 ELSE 2 * g[d - 1]
      /\ h[d] = IF d = 0 THEN 1 ELSE 2 * h[d - 1]
  BY DEF IsPow2
<1>3. d # 0  BY <1>2
<1>4. d - 1 \in Nat /\ d - 1 < d /\ d - 1 \in 0..N  BY <1>3
<1>5. g[d - 1] = h[d - 1]  BY <1>1, <1>4
<1> QED  BY <1>2, <1>3, <1>5

\* Pow2 is what its definition says.
LEMMA Pow2Is ==
    Pow2 = [n \in Nat |-> IF n = 0 THEN 1 ELSE 2 * Pow2[n - 1]]
<1> DEFINE T == [n \in Nat |-> CHOOSE g : IsPow2(g, n)]
           f == [n \in Nat |-> T[n][n]]
<1>1. ASSUME NEW n \in Nat PROVE IsPow2(T[n], n)
  BY Pow2Traces
<1> HIDE DEF T
<1>2. ASSUME NEW n \in Nat
      PROVE  f[n] = IF n = 0 THEN 1 ELSE 2 * f[n - 1]
  <2>1. f[n] = T[n][n]  OBVIOUS
  <2>2. CASE n = 0
    <3>1. IsPow2(T[0], 0)  BY <1>1
    <3>2. T[0][0] = 1  BY <3>1 DEF IsPow2
    <3> HIDE DEF f
    <3> QED  BY <2>1, <2>2, <3>2
  <2>3. CASE n # 0
    <3>1. n - 1 \in Nat /\ n - 1 <= n /\ n - 1 \in 0..n - 1  BY <2>3
    <3>2. f[n - 1] = T[n - 1][n - 1]  BY <3>1
    <3>3. T[n][n] = 2 * T[n][n - 1]
      <4> DEFINE g == T[n]
      <4>1. g = [m \in 0..n |-> IF m = 0 THEN 1 ELSE 2 * g[m - 1]]
        BY <1>1 DEF IsPow2
      <4> HIDE DEF g
      <4>2. g[n] = 2 * g[n - 1]
        BY <2>3, <4>1
      <4> QED  BY <4>2 DEF g
    <3>4. IsPow2(T[n - 1], n - 1) /\ IsPow2(T[n], n)  BY <1>1, <3>1
    <3>5. T[n - 1][n - 1] = T[n][n - 1]
      BY <3>1, <3>4, Pow2TracesAgree
    <3> HIDE DEF f
    <3> QED  BY <2>1, <2>3, <3>2, <3>3, <3>5
  <2> QED  BY <2>2, <2>3
<1>3. f = [n \in Nat |-> IF n = 0 THEN 1 ELSE 2 * f[n - 1]]
  <2>1. f = [n \in Nat |-> f[n]]  OBVIOUS
  <2> HIDE DEF f
  <2> QED  BY <1>2, <2>1
<1>4. \E g : g = [n \in Nat |-> IF n = 0 THEN 1 ELSE 2 * g[n - 1]]
  <2> HIDE DEF f
  <2> QED  BY <1>3
<1>5. Pow2 = CHOOSE g : g = [n \in Nat |-> IF n = 0 THEN 1 ELSE 2 * g[n - 1]]
  BY DEF Pow2
<1> QED  BY <1>4, <1>5, Zenon

LEMMA Pow2Grows == \A n \in Nat : Pow2[n] \in Nat /\ Pow2[n] > n
<1> DEFINE D == {n \in Nat : ~(Pow2[n] \in Nat /\ Pow2[n] > n)}
<1> SUFFICES ASSUME D # {} PROVE FALSE
  OBVIOUS
<1>1. PICK d \in D : \A e \in Nat : e < d => e \notin D
  <2>1. D \subseteq Nat  OBVIOUS
  <2> HIDE DEF D
  <2> QED  BY <2>1, LeastOf
<1>2. Pow2[d] = IF d = 0 THEN 1 ELSE 2 * Pow2[d - 1]
  BY Pow2Is
<1>3. d # 0  BY <1>2
<1>4. Pow2[d - 1] \in Nat /\ Pow2[d - 1] > d - 1
  BY <1>1, <1>3
<1> QED  BY <1>2, <1>3, <1>4

LEMMA Pow2Product ==
    ASSUME NEW m \in Nat
    PROVE  \A n \in Nat : Pow2[m + n] = Pow2[m] * Pow2[n]
<1> DEFINE D == {n \in Nat : Pow2[m + n] # Pow2[m] * Pow2[n]}
<1> SUFFICES ASSUME D # {} PROVE FALSE
  OBVIOUS
<1>1. PICK d \in D : \A e \in Nat : e < d => e \notin D
  <2>1. D \subseteq Nat  OBVIOUS
  <2> HIDE DEF D
  <2> QED  BY <2>1, LeastOf
<1>2. d \in Nat /\ m + d \in Nat /\ Pow2[m] \in Nat
  BY Pow2Grows
<1>3. d # 0
  <2>1. Pow2[0] = 1  BY Pow2Is
  <2>2. d = 0 => Pow2[m + d] = Pow2[m] * Pow2[d]  BY <1>2, <2>1
  <2> QED  BY <1>1, <2>2
<1>4. d - 1 \in Nat /\ d - 1 < d /\ m + d - 1 = m + (d - 1) /\ m + d # 0
         /\ m + (d - 1) \in Nat
  BY <1>2, <1>3
<1>5. Pow2[m + (d - 1)] = Pow2[m] * Pow2[d - 1]
  BY <1>1, <1>4
<1>6. /\ Pow2[m + d] = 2 * Pow2[m + (d - 1)]
      /\ Pow2[d] = 2 * Pow2[d - 1] /\ Pow2[d - 1] \in Nat
  BY <1>2, <1>3, <1>4, Pow2Is, Pow2Grows
<1>7. ASSUME NEW p \in Nat, NEW q \in Nat PROVE 2 * (p * q) = p * (2 * q)
  OBVIOUS
<1> QED  BY <1>1, <1>2, <1>5, <1>6, <1>7

LEMMA Pow2Monotone ==
    ASSUME NEW m \in Nat, NEW n \in Nat, m <= n
    PROVE  Pow2[m] <= Pow2[n]
<1>1. n - m \in Nat /\ m + (n - m) = n  OBVIOUS
<1>2. Pow2[n] = Pow2[m] * Pow2[n - m]  BY <1>1, Pow2Product
<1>3. Pow2[n - m] \in Nat /\ Pow2[n - m] >= 1 /\ Pow2[m] \in Nat
  BY <1>1, Pow2Grows
<1>4. ASSUME NEW p \in Nat, NEW q \in Nat, q >= 1 PROVE p <= p * q
  BY <1>4
<1> QED  BY <1>2, <1>3, <1>4

\* The exponent that ulp chooses.
LEMMA ulpIs ==
    ASSUME NEW x \in Nat
    PROVE  \E e \in 0..x : /\ ulp(x) = Pow2[e] /\ x < Pow2[Precision + e]
                           /\ e > 0 => x >= Pow2[Precision + e - 1]
<1> DEFINE D == {e \in Nat : x < Pow2[Precision + e]}
           Q(e) == /\ x < Pow2[Precision + e]
                   /\ e > 0 => x >= Pow2[Precision + e - 1]
<1>1. Precision \in Nat  BY PrecisionAssumption
<1>2. x \in D
  <2>1. Precision + x \in Nat  BY <1>1
  <2>2. Pow2[Precision + x] \in Nat /\ Pow2[Precision + x] > Precision + x
    BY <2>1, Pow2Grows
  <2> QED  BY <1>1, <2>2
<1>3. PICK d \in D : \A e \in Nat : e < d => e \notin D
  <2>1. D \subseteq Nat  OBVIOUS
  <2> HIDE DEF D
  <2> QED  BY <1>2, <2>1, LeastOf
<1>4. d \in 0..x
  BY <1>2, <1>3
<1>5. ASSUME d > 0 PROVE x >= Pow2[Precision + d - 1]
  <2>1. d - 1 \in Nat /\ d - 1 < d /\ Precision + (d - 1) \in Nat
           /\ Precision + (d - 1) = Precision + d - 1
    BY <1>1, <1>5
  <2>2. ~(x < Pow2[Precision + (d - 1)])
    BY <1>3, <2>1
  <2>3. Pow2[Precision + (d - 1)] \in Nat
    BY <2>1, Pow2Grows
  <2> QED  BY <2>1, <2>2, <2>3
<1>6. \E e \in 0..x : Q(e)
  BY <1>4, <1>5
<1> DEFINE c == CHOOSE e \in 0..x : Q(e)
<1>7. c \in 0..x /\ Q(c)
  <2> HIDE DEF Q
  <2> QED  BY <1>6
<1>8. ulp(x) = Pow2[c]
  BY DEF ulp
<1> HIDE DEF c
<1> QED  BY <1>7, <1>8

\* There are floats next to every natural number.
LEMMA ulpPositive ==
    ASSUME NEW x \in Nat
    PROVE  ulp(x) \in Nat /\ ulp(x) > 0
BY ulpIs, Pow2Grows

LEMMA flNatural ==
    ASSUME NEW x \in Nat
    PROVE  fl(x) \in Nat
<1> DEFINE u == ulp(x)
<1>1. u \in Nat /\ u > 0  BY ulpPositive
<1> HIDE DEF u
<1>2. x \div u \in Nat
  BY <1>1
<1>3. (x \div u) * u \in Nat /\ (x \div u + 1) * u \in Nat
  BY <1>1, <1>2
<1> QED  BY <1>3 DEF fl, u

LEMMA DivTimes ==
    ASSUME NEW x \in Nat, NEW u \in Nat, u > 0, NEW k \in Nat, k * u <= x
    PROVE  /\ x \div u \in Nat /\ k * u <= (x \div u) * u
           /\ k * u <= (x \div u + 1) * u
<1> DEFINE q == x \div u
<1>1. q \in Nat /\ x < q * u + u
  <2>1. q \in Nat /\ x % u \in Nat /\ x = u * q + (x % u) /\ x % u < u
    OBVIOUS
  <2> QED  BY <2>1
<1> HIDE DEF q
<1>2. (q + 1) * u = q * u + u /\ q * u \in Nat  BY <1>1
<1>3. k <= q
  <2>1. SUFFICES ASSUME q + 1 <= k PROVE FALSE  BY <1>1
  <2>2. (q + 1) * u <= k * u  BY <1>1, <2>1
  <2> QED  BY <1>1, <1>2, <2>2
<1>4. k * u <= q * u  BY <1>1, <1>3
<1> QED  BY <1>1, <1>2, <1>4 DEF q

\* Below 2^Precision every number is a float: the chosen exponent is 0.
LEMMA flExact ==
    ASSUME NEW x \in Nat, x < Pow2[Precision]
    PROVE  fl(x) = x
<1>1. PICK e \in 0..x : /\ ulp(x) = Pow2[e] /\ x < Pow2[Precision + e]
                        /\ e > 0 => x >= Pow2[Precision + e - 1]
  BY ulpIs
<1>2. Precision \in Nat  BY PrecisionAssumption
<1>3. e = 0
  <2>1. SUFFICES ASSUME e > 0 PROVE FALSE  OBVIOUS
  <2>2. Precision + e - 1 \in Nat /\ Precision <= Precision + e - 1
    BY <1>2, <2>1
  <2>3. Pow2[Precision] <= Pow2[Precision + e - 1]
           /\ Pow2[Precision] \in Nat /\ Pow2[Precision + e - 1] \in Nat
    BY <1>2, <2>2, Pow2Monotone, Pow2Grows
  <2> QED  BY <1>1, <2>1, <2>3
<1>4. ulp(x) = 1  BY <1>1, <1>3, Pow2Is
<1>5. x \div 1 = x /\ x % 1 = 0 /\ x * 1 = x  OBVIOUS
<1> QED  BY <1>4, <1>5 DEF fl

\* Rounding does not bring a number below 2^Precision that was not: a result
\* below it is the exact result.
LEMMA flBelow ==
    ASSUME NEW x \in Nat, fl(x) < Pow2[Precision]
    PROVE  fl(x) = x
<1>1. Precision \in Nat /\ Precision - 1 \in Nat  BY PrecisionAssumption
<1>2. Pow2[Precision] \in Nat  BY <1>1, Pow2Grows
<1>3. SUFFICES ASSUME Pow2[Precision] <= x PROVE FALSE
  BY <1>2, flExact
<1>4. PICK e \in 0..x : /\ ulp(x) = Pow2[e] /\ x < Pow2[Precision + e]
                        /\ e > 0 => x >= Pow2[Precision + e - 1]
  BY ulpIs
<1>5. e > 0
  <2>1. Precision + 0 = Precision  BY <1>1
  <2> QED  BY <1>2, <1>3, <1>4, <2>1
<1> DEFINE u == Pow2[e]
           k == Pow2[Precision - 1]
<1>6. u \in Nat /\ u > 0 /\ k \in Nat
  BY <1>1, Pow2Grows
<1>7. /\ (Precision - 1) + e \in Nat
      /\ (Precision - 1) + e = Precision + e - 1
      /\ Precision <= (Precision - 1) + e
  BY <1>1, <1>5
<1>8. Pow2[(Precision - 1) + e] = k * u
  BY <1>1, Pow2Product
<1>9. k * u <= x
  BY <1>4, <1>5, <1>7, <1>8
<1>10. Pow2[Precision] <= k * u
  BY <1>1, <1>7, <1>8, Pow2Monotone
<1> HIDE DEF u, k
<1>11. /\ x \div u \in Nat /\ k * u <= (x \div u) * u
       /\ k * u <= (x \div u + 1) * u
  BY <1>6, <1>9, DivTimes
<1>12. fl(x) = (x \div u) * u \/ fl(x) = (x \div u + 1) * u
  BY <1>4 DEF fl, u
<1> DEFINE d == (x \div u) * u
           r == (x \div u + 1) * u
           y == k * u
<1>13. d \in Nat /\ r \in Nat /\ y \in Nat  BY <1>6, <1>11
<1> HIDE DEF d, r, y
<1> QED  BY <1>2, <1>10, <1>11, <1>12, <1>13 DEF d, r, y

-----------------------------------------------------------------------------
(* One ledger *)

LEMMA CommandFields ==
    ASSUME NEW cmd \in Command
    PROVE  \/ /\ cmd.type = "TRANSFER" /\ cmd.txnID \in TxnID
              /\ cmd.from \in Account /\ cmd.to \in Account /\ cmd.amount \in Nat
           \/ /\ cmd.type = "CREATE_ACCOUNT" /\ cmd.accountID \in Account
              /\ cmd.initialBalance \in Nat
BY AmountAssumption DEF Command, TransferCommand, CreateAccountCommand

\* Money is moved from one natural number to another.
LEMMA MovedType ==
    ASSUME NEW bal \in [Account -> Nat], NEW txn, txn.from \in Account,
           txn.to \in Account, txn.amount \in Nat,
           bal[txn.from] >= txn.amount
    PROVE  Moved(bal, txn) \in [Account -> Nat]
<1> DEFINE f == txn.from
           t == txn.to
           x == txn.amount
           debited == [bal EXCEPT ![f] = fl(bal[f] - x)]
<1>1. bal[f] - x \in Nat  OBVIOUS
<1>2. debited \in [Account -> Nat]
  <2>1. fl(bal[f] - x) \in Nat  BY <1>1, flNatural
  <2> QED  BY <2>1
<1>3. Moved(bal, txn) = [debited EXCEPT ![t] = fl(debited[t] + x)]
  BY DEF Moved
<1> HIDE DEF debited
<1>4. debited[t] + x \in Nat  BY <1>2
<1>5. fl(debited[t] + x) \in Nat  BY <1>4, flNatural
<1> QED  BY <1>2, <1>3, <1>5

\* Applying a command gives a ledger again, and forgets no transfer id.
LEMMA applyType ==
    ASSUME NEW l \in LedgerState, NEW cmd \in Command
    PROVE  /\ applyCommand(l, cmd) \in LedgerState
           /\ l.processedTxns \subseteq applyCommand(l, cmd).processedTxns
<1>1. CASE cmd.type = "TRANSFER" /\ Valid(l, cmd)
  <2>1. /\ cmd.txnID \in TxnID /\ cmd.from \in Account /\ cmd.to \in Account
        /\ cmd.amount \in Nat /\ l.balance \in [Account -> Nat]
        /\ l.balance[cmd.from] >= cmd.amount
    BY <1>1, CommandFields DEF Valid, LedgerState
  <2>2. Moved(l.balance, cmd) \in [Account -> Nat]
    BY <2>1, MovedType
  <2>3. applyCommand(l, cmd) =
           [l EXCEPT !.balance = Moved(l.balance, cmd),
                     !.processedTxns = l.processedTxns \cup {cmd.txnID}]
    BY <1>1 DEF applyCommand, Transfer
  <2> QED  BY <2>1, <2>2, <2>3 DEF LedgerState
<1>2. CASE cmd.type = "TRANSFER" /\ ~Valid(l, cmd)
  BY <1>2 DEF applyCommand, Transfer
<1>3. CASE cmd.type # "TRANSFER"
  <2>1. cmd.accountID \in Account /\ cmd.initialBalance \in Nat
    BY <1>3, CommandFields
  <2> DEFINE bal == [l.balance EXCEPT ![cmd.accountID] = cmd.initialBalance]
             acc == l.accounts \cup {cmd.accountID}
  <2>2. \/ applyCommand(l, cmd) = l
        \/ applyCommand(l, cmd) = [l EXCEPT !.accounts = acc, !.balance = bal]
    BY <1>3 DEF applyCommand, CreateAccount
  <2>3. bal \in [Account -> Nat] /\ acc \in SUBSET Account
    BY <2>1 DEF LedgerState
  <2> HIDE DEF bal, acc
  <2>4. LET m == [l EXCEPT !.accounts = acc, !.balance = bal]
        IN  m \in LedgerState /\ m.processedTxns = l.processedTxns
    BY <2>3 DEF LedgerState
  <2> QED  BY <2>2, <2>4
<1> QED  BY <1>1, <1>2, <1>3

\* A transfer that changes a balance is new to the ledger and known afterwards.
LEMMA applyMarks ==
    ASSUME NEW l \in LedgerState, NEW cmd \in Command, cmd.type = "TRANSFER",
           applyCommand(l, cmd).balance # l.balance
    PROVE  /\ cmd.txnID \notin l.processedTxns
           /\ cmd.txnID \in applyCommand(l, cmd).processedTxns
<1>1. Valid(l, cmd)
  BY DEF applyCommand, Transfer
<1> QED  BY <1>1 DEF applyCommand, Transfer, Valid, LedgerState

\* Every transfer in b is marked as processed in ledger l, and none is there
\* twice under its id.
Marked(l, b) ==
    /\ \A j \in DOMAIN b :
          b[j].type = "TRANSFER" => b[j].txnID \in l.processedTxns
    /\ \A j, k \in DOMAIN b :
          /\ b[j].type = "TRANSFER" /\ b[k].type = "TRANSFER"
          /\ b[j].txnID = b[k].txnID
          => j = k

LEMMA MarkedAppend ==
    ASSUME NEW l, NEW m, NEW b \in Seq(Command), NEW cmd \in Command,
           Marked(l, b), l.processedTxns \subseteq m.processedTxns,
           cmd.type = "TRANSFER" => /\ cmd.txnID \notin l.processedTxns
                                    /\ cmd.txnID \in m.processedTxns
    PROVE  Marked(m, Append(b, cmd))
<1> DEFINE a == Append(b, cmd)
           n == Len(b)
<1>1. /\ n \in Nat /\ DOMAIN b = 1..n /\ DOMAIN a = 1..n + 1
      /\ a[n + 1] = cmd /\ \A j \in 1..n : a[j] = b[j]
  BY LenProperties, AppendProperties
<1> HIDE DEF a, n
<1>2. ASSUME NEW j \in 1..n, b[j].type = "TRANSFER"
      PROVE  b[j].txnID \in l.processedTxns
  BY <1>1, <1>2 DEF Marked
<1>3. ASSUME NEW j \in DOMAIN a, a[j].type = "TRANSFER"
      PROVE  a[j].txnID \in m.processedTxns
  <2>1. CASE j \in 1..n  BY <1>1, <1>2, <1>3, <2>1
  <2>2. CASE j = n + 1  BY <1>1, <1>3, <2>2
  <2> QED  BY <1>1, <2>1, <2>2
<1>4. ASSUME NEW j \in DOMAIN a, NEW k \in DOMAIN a, a[j].type = "TRANSFER",
             a[k].type = "TRANSFER", a[j].txnID = a[k].txnID
      PROVE  j = k
  <2>1. CASE j \in 1..n /\ k \in 1..n
    BY <1>1, <1>4, <2>1 DEF Marked
  <2>2. CASE j = n + 1 /\ k \in 1..n
    BY <1>1, <1>2, <1>4, <2>2
  <2>3. CASE k = n + 1 /\ j \in 1..n
    BY <1>1, <1>2, <1>4, <2>3
  <2> QED  BY <1>1, <2>1, <2>2, <2>3
<1>5. Marked(m, a)
  BY <1>3, <1>4 DEF Marked
<1> QED  BY <1>5 DEF a

\* More may be marked, as after a command that changed no balance.
LEMMA MarkedMore ==
    ASSUME NEW l, NEW m, NEW b, Marked(l, b),
           l.processedTxns \subseteq m.processedTxns
    PROVE  Marked(m, b)
BY DEF Marked

-----------------------------------------------------------------------------
(* Every execution, also those in which entries are passed over *)

\* A node's indices, r, and those in its channel, q, are of chosen commands, of
\* which there are n.
Known(r, q, n) ==
    /\ r.lastApplied <= r.commitIndex /\ r.loop <= r.commitIndex
    /\ r.commitIndex <= n
    /\ \A k \in 1..Len(q) : q[k] \in 1..n

BookInv ==
    /\ TypeOK
    /\ \A i \in Server : Known(raft[i], applyCh[i], Len(chosen))
    /\ \A i \in Server : Marked(ledgers[i], booked[i])

LEMMA KnownStep ==
    ASSUME NEW r \in ApplyState, NEW q \in Seq(Nat), NEW n \in Nat,
           Known(r, q, n)
    PROVE  /\ \A m \in Nat : n <= m => Known(r, q, m)
           /\ \A m \in 1..n : m > r.commitIndex =>
                 LET s == [r EXCEPT !.commitIndex = m,
                                    !.loop = r.lastApplied + 1]
                 IN  s \in ApplyState /\ Known(s, q, n)
           /\ r.loop # 0 =>
                 LET s == [r EXCEPT !.loop = NextIndex(r, r.loop)]
                     t == [s EXCEPT !.lastApplied = r.loop]
                 IN  /\ s \in ApplyState /\ Known(s, q, n)
                     /\ t \in ApplyState /\ Known(t, Append(q, r.loop), n)
           /\ q # << >> => /\ Head(q) \in 1..n /\ Tail(q) \in Seq(Nat)
                           /\ Known(r, Tail(q), n)
<1>1. /\ r.commitIndex \in Nat /\ r.lastApplied \in Nat /\ r.loop \in Nat
      /\ Len(q) \in Nat
  BY LenProperties DEF ApplyState
<1>2. ASSUME NEW m \in Nat, n <= m PROVE Known(r, q, m)
  BY <1>1, <1>2 DEF Known
<1>3. ASSUME NEW m \in 1..n, m > r.commitIndex,
             NEW s, s = [r EXCEPT !.commitIndex = m, !.loop = r.lastApplied + 1]
      PROVE  s \in ApplyState /\ Known(s, q, n)
  <2>1. m \in Nat /\ r.lastApplied + 1 \in Nat  BY <1>1
  <2>2. /\ s.commitIndex = m /\ s.loop = r.lastApplied + 1
        /\ s.lastApplied = r.lastApplied /\ s \in ApplyState
    BY <1>1, <1>3, <2>1 DEF ApplyState
  <2>3. r.lastApplied <= r.commitIndex /\ \A k \in 1..Len(q) : q[k] \in 1..n
    BY DEF Known
  <2> QED  BY <1>1, <1>3, <2>1, <2>2, <2>3 DEF Known
<1>4. ASSUME r.loop # 0,
             NEW s, s = [r EXCEPT !.loop = NextIndex(r, r.loop)],
             NEW t, t = [s EXCEPT !.lastApplied = r.loop]
      PROVE  /\ s \in ApplyState /\ Known(s, q, n)
             /\ t \in ApplyState /\ Known(t, Append(q, r.loop), n)
  <2>1. NextIndex(r, r.loop) \in Nat /\ NextIndex(r, r.loop) <= r.commitIndex
    BY <1>1 DEF NextIndex
  <2>2. /\ s.commitIndex = r.commitIndex /\ s.loop = NextIndex(r, r.loop)
        /\ s.lastApplied = r.lastApplied /\ s \in ApplyState
    BY <1>1, <1>4, <2>1 DEF ApplyState
  <2>3. /\ t.commitIndex = r.commitIndex /\ t.loop = NextIndex(r, r.loop)
        /\ t.lastApplied = r.loop /\ t \in ApplyState
    BY <1>1, <1>4, <2>1, <2>2 DEF ApplyState
  <2>4. /\ r.lastApplied <= r.commitIndex /\ r.loop <= r.commitIndex
        /\ r.commitIndex <= n /\ \A k \in 1..Len(q) : q[k] \in 1..n
    BY DEF Known
  <2>5. r.loop \in 1..n  BY <1>1, <1>4, <2>4
  <2> DEFINE a == Append(q, r.loop)
  <2>6. /\ Len(a) = Len(q) + 1 /\ a[Len(q) + 1] = r.loop
        /\ \A k \in 1..Len(q) : a[k] = q[k]
    BY <1>1, AppendProperties
  <2> HIDE DEF a
  <2>7. ASSUME NEW k \in 1..Len(a) PROVE a[k] \in 1..n
    <3>1. CASE k \in 1..Len(q)  BY <2>4, <2>6, <3>1
    <3>2. CASE k = Len(q) + 1  BY <2>5, <2>6, <3>2
    <3> QED  BY <1>1, <2>6, <3>1, <3>2
  <2>8. Known(s, q, n) /\ Known(t, a, n)
    BY <2>1, <2>2, <2>3, <2>4, <2>7 DEF Known
  <2> QED  BY <2>2, <2>3, <2>8 DEF a
<1>5. ASSUME q # << >>
      PROVE  /\ Head(q) \in 1..n /\ Tail(q) \in Seq(Nat)
             /\ Known(r, Tail(q), n)
  <2>1. /\ Len(q) # 0 /\ Head(q) = q[1] /\ Tail(q) \in Seq(Nat)
        /\ Len(Tail(q)) = Len(q) - 1
        /\ \A k \in 1..Len(q) - 1 : Tail(q)[k] = q[k + 1]
    BY <1>5, EmptySeq, HeadTailProperties
  <2>2. Head(q) \in 1..n
    BY <1>1, <2>1 DEF Known
  <2>3. \A k \in 1..Len(Tail(q)) : Tail(q)[k] \in 1..n
    BY <1>1, <2>1 DEF Known
  <2> QED  BY <2>1, <2>2, <2>3 DEF Known
<1> QED  BY <1>2, <1>3, <1>4, <1>5

LEMMA BookInit == Init => BookInv
<1> SUFFICES ASSUME Init PROVE BookInv
  OBVIOUS
<1>1. /\ << >> \in Seq(Command) /\ << >> \in Seq(Nat) /\ Len(<< >>) = 0
      /\ DOMAIN << >> = {} /\ 1..0 = {}
  OBVIOUS
<1>2. fresh \in ApplyState /\ NewLedger \in LedgerState
  BY DEF fresh, ApplyState, NewLedger, LedgerState
<1>3. read \in [account : Account, balance : Nat, upto : Nat]
  <2>1. (CHOOSE a \in Account : TRUE) \in Account  BY AmountAssumption
  <2> QED  BY <2>1 DEF Init
<1>4. TypeOK
  BY <1>1, <1>2, <1>3 DEF Init, TypeOK
<1>5. \A i \in Server : Known(raft[i], applyCh[i], Len(chosen))
  BY <1>1 DEF Init, fresh, Known
<1>6. \A i \in Server : Marked(ledgers[i], booked[i])
  <2>1. Marked(NewLedger, << >>)  BY <1>1 DEF Marked
  <2> QED  BY <2>1 DEF Init
<1> QED  BY <1>4, <1>5, <1>6 DEF BookInv

\* The types of what belongs to node i.
LEMMA BookTypes ==
    ASSUME BookInv, NEW i \in Server
    PROVE  /\ raft[i] \in ApplyState /\ applyCh[i] \in Seq(Nat)
           /\ ledgers[i] \in LedgerState /\ handled[i] \in Seq(Nat)
           /\ booked[i] \in Seq(Command) /\ Marked(ledgers[i], booked[i])
           /\ chosen \in Seq(Command) /\ Len(chosen) \in Nat
           /\ Known(raft[i], applyCh[i], Len(chosen))
BY LenProperties DEF BookInv, TypeOK

LEMMA CommitKeepsBook ==
    ASSUME BookInv, NEW cmd \in Command, Commit(cmd)
    PROVE  BookInv'
<1>1. Len(chosen) \in Nat /\ chosen' \in Seq(Command)
         /\ Len(chosen') = Len(chosen) + 1
  BY LenProperties, AppendProperties DEF BookInv, TypeOK, Commit
<1>2. Len(chosen') \in Nat /\ Len(chosen) <= Len(chosen')  BY <1>1
<1>3. TypeOK'
  BY <1>1 DEF BookInv, TypeOK, Commit
<1>4. ASSUME NEW i \in Server PROVE Known(raft[i], applyCh[i], Len(chosen'))
  BY <1>2, BookTypes, KnownStep
<1> QED  BY <1>3, <1>4 DEF BookInv, Commit

LEMMA AdvanceCommitKeepsBook ==
    ASSUME BookInv, NEW i \in Server, NEW n \in 1..Len(chosen),
           AdvanceCommit(i, n)
    PROVE  BookInv'
<1> DEFINE r == [raft[i] EXCEPT !.commitIndex = n,
                                !.loop = raft[i].lastApplied + 1]
<1>1. /\ raft' = [raft EXCEPT ![i] = r] /\ n > raft[i].commitIndex
      /\ UNCHANGED <<chosen, applyCh, ledgers, handled, booked, read, restarts>>
  BY DEF AdvanceCommit
<1>2. r \in ApplyState /\ Known(r, applyCh[i], Len(chosen))
  BY <1>1, BookTypes, KnownStep
<1> HIDE DEF r
<1>3. TypeOK'
  BY <1>1, <1>2 DEF BookInv, TypeOK
<1>4. ASSUME NEW j \in Server PROVE Known(raft'[j], applyCh[j], Len(chosen))
  <2>1. raft'[j] = IF j = i THEN r ELSE raft[j]
    BY <1>1 DEF BookInv, TypeOK
  <2> QED  BY <1>2, <2>1, BookTypes
<1> QED  BY <1>1, <1>3, <1>4 DEF BookInv

LEMMA SendEntryKeepsBook ==
    ASSUME BookInv, NEW i \in Server, SendEntry(i)
    PROVE  BookInv'
<1> DEFINE k == raft[i].loop
           q == Append(applyCh[i], k)
           s == [raft[i] EXCEPT !.loop = NextIndex(raft[i], k)]
           t == [s EXCEPT !.lastApplied = k]
<1>1. /\ k # 0
      /\ \/ applyCh' = [applyCh EXCEPT ![i] = q] /\ raft' = [raft EXCEPT ![i] = t]
         \/ applyCh' = applyCh /\ raft' = [raft EXCEPT ![i] = s]
      /\ UNCHANGED <<chosen, ledgers, handled, booked, read, restarts>>
  BY DEF SendEntry
<1>2. /\ s \in ApplyState /\ Known(s, applyCh[i], Len(chosen))
      /\ t \in ApplyState /\ Known(t, q, Len(chosen))
  BY <1>1, BookTypes, KnownStep
<1>3. q \in Seq(Nat)
  <2>1. k \in Nat  BY BookTypes DEF ApplyState
  <2> QED  BY <2>1, BookTypes, AppendProperties
<1> HIDE DEF q, s, t, k
<1>4. TypeOK'
  BY <1>1, <1>2, <1>3 DEF BookInv, TypeOK
<1>5. ASSUME NEW j \in Server PROVE Known(raft'[j], applyCh'[j], Len(chosen))
  <2>1. \/ raft'[j] = raft[j] /\ applyCh'[j] = applyCh[j]
        \/ j = i /\ raft'[j] = t /\ applyCh'[j] = q
        \/ j = i /\ raft'[j] = s /\ applyCh'[j] = applyCh[i]
    BY <1>1 DEF BookInv, TypeOK
  <2> QED  BY <1>2, <2>1, BookTypes
<1> QED  BY <1>1, <1>4, <1>5 DEF BookInv

LEMMA applierKeepsBook ==
    ASSUME BookInv, NEW i \in Server, applier(i)
    PROVE  BookInv'
<1> DEFINE k   == Head(applyCh[i])
           cmd == chosen[k]
           new == applyCommand(ledgers[i], cmd)
           b   == IF new.balance # ledgers[i].balance
                  THEN Append(booked[i], cmd) ELSE booked[i]
           q   == Tail(applyCh[i])
           h   == Append(handled[i], k)
<1>1. /\ applyCh[i] # << >>
      /\ ledgers' = [ledgers EXCEPT ![i] = new]
      /\ handled' = [handled EXCEPT ![i] = h]
      /\ booked' = [booked EXCEPT ![i] = b]
      /\ applyCh' = [applyCh EXCEPT ![i] = q]
      /\ UNCHANGED <<chosen, raft, read, restarts>>
  BY DEF applier
<1>2. /\ k \in 1..Len(chosen) /\ q \in Seq(Nat)
      /\ Known(raft[i], q, Len(chosen))
  BY <1>1, BookTypes, KnownStep
<1>3. cmd \in Command /\ k \in Nat
  BY <1>2, BookTypes, ElementOfSeq
<1>4. /\ new \in LedgerState
      /\ ledgers[i].processedTxns \subseteq new.processedTxns
  BY <1>3, BookTypes, applyType
<1>5. h \in Seq(Nat)
  BY <1>3, BookTypes, AppendProperties
<1>6. b \in Seq(Command) /\ Marked(new, b)
  <2>1. CASE new.balance # ledgers[i].balance
    <3>1. b = Append(booked[i], cmd)  BY <2>1
    <3>2. cmd.type = "TRANSFER" => /\ cmd.txnID \notin ledgers[i].processedTxns
                                   /\ cmd.txnID \in new.processedTxns
      BY <1>3, <2>1, BookTypes, applyMarks
    <3> HIDE DEF new, cmd, b
    <3>3. Append(booked[i], cmd) \in Seq(Command)
      BY <1>3, BookTypes, AppendProperties
    <3>4. Marked(new, Append(booked[i], cmd))
      BY <1>3, <1>4, <3>2, BookTypes, MarkedAppend
    <3> QED  BY <3>1, <3>3, <3>4
  <2>2. CASE new.balance = ledgers[i].balance
    <3>1. b = booked[i]  BY <2>2
    <3> HIDE DEF new, cmd, b
    <3>2. Marked(new, booked[i])  BY <1>4, BookTypes, MarkedMore
    <3> QED  BY <3>1, <3>2, BookTypes
  <2> QED  BY <2>1, <2>2
<1> HIDE DEF new, b, q, h, cmd, k
<1>7. TypeOK'
  BY <1>1, <1>2, <1>4, <1>5, <1>6 DEF BookInv, TypeOK
<1>8. ASSUME NEW j \in Server
      PROVE  /\ Known(raft[j], applyCh'[j], Len(chosen))
             /\ Marked(ledgers'[j], booked'[j])
  <2>1. /\ applyCh'[j] = IF j = i THEN q ELSE applyCh[j]
        /\ ledgers'[j] = IF j = i THEN new ELSE ledgers[j]
        /\ booked'[j] = IF j = i THEN b ELSE booked[j]
    BY <1>1 DEF BookInv, TypeOK
  <2> QED  BY <1>2, <1>6, <2>1, BookTypes
<1> QED  BY <1>1, <1>7, <1>8 DEF BookInv

LEMMA HandleGetBalanceKeepsBook ==
    ASSUME BookInv, NEW i \in Server, NEW a \in Account,
           HandleGetBalance(i, a)
    PROVE  BookInv'
<1>1. ledgers[i].balance[a] \in Nat /\ Len(handled[i]) \in Nat
  BY BookTypes, LenProperties DEF LedgerState
<1>2. read' \in [account : Account, balance : Nat, upto : Nat]
  BY <1>1 DEF HandleGetBalance
<1>3. TypeOK'
  BY <1>2 DEF BookInv, TypeOK, HandleGetBalance
<1> QED  BY <1>3 DEF BookInv, HandleGetBalance

LEMMA RestartKeepsBook ==
    ASSUME BookInv, NEW i \in Server, Restart(i)
    PROVE  BookInv'
<1>1. /\ << >> \in Seq(Nat) /\ << >> \in Seq(Command) /\ Len(<< >>) = 0
      /\ DOMAIN << >> = {}
  OBVIOUS
<1>2. fresh \in ApplyState /\ NewLedger \in LedgerState
  BY DEF fresh, ApplyState, NewLedger, LedgerState
<1>3. /\ raft' = [raft EXCEPT ![i] = fresh]
      /\ applyCh' = [applyCh EXCEPT ![i] = << >>]
      /\ ledgers' = [ledgers EXCEPT ![i] = NewLedger]
      /\ handled' = [handled EXCEPT ![i] = << >>]
      /\ booked' = [booked EXCEPT ![i] = << >>]
      /\ restarts' = restarts + 1 /\ UNCHANGED <<chosen, read>>
  BY DEF Restart
<1>4. TypeOK'
  BY <1>1, <1>2, <1>3 DEF BookInv, TypeOK
<1>5. Marked(NewLedger, << >>)
  BY <1>1 DEF Marked
<1>6. Known(fresh, << >>, Len(chosen))
  BY <1>1, BookTypes DEF Known, fresh
<1>7. ASSUME NEW j \in Server
      PROVE  /\ Known(raft'[j], applyCh'[j], Len(chosen))
             /\ Marked(ledgers'[j], booked'[j])
  <2>1. /\ applyCh'[j] = IF j = i THEN << >> ELSE applyCh[j]
        /\ raft'[j] = IF j = i THEN fresh ELSE raft[j]
        /\ ledgers'[j] = IF j = i THEN NewLedger ELSE ledgers[j]
        /\ booked'[j] = IF j = i THEN << >> ELSE booked[j]
    BY <1>3 DEF BookInv, TypeOK
  <2> QED  BY <1>5, <1>6, <2>1, BookTypes
<1> QED  BY <1>3, <1>4, <1>7 DEF BookInv

LEMMA BookStep == BookInv /\ [Next]_vars => BookInv'
<1> SUFFICES ASSUME BookInv, [Next]_vars PROVE BookInv'
  OBVIOUS
<1>1. CASE UNCHANGED vars
  BY <1>1 DEF vars, BookInv, TypeOK
<1>2. ASSUME NEW cmd \in Command, Commit(cmd) PROVE BookInv'
  BY <1>2, CommitKeepsBook
<1>3. ASSUME NEW i \in Server, NEW n \in 1..Len(chosen), AdvanceCommit(i, n)
      PROVE  BookInv'
  BY <1>3, AdvanceCommitKeepsBook
<1>4. ASSUME NEW i \in Server, SendEntry(i) PROVE BookInv'
  BY <1>4, SendEntryKeepsBook
<1>5. ASSUME NEW i \in Server, applier(i) PROVE BookInv'
  BY <1>5, applierKeepsBook
<1>6. ASSUME NEW i \in Server, NEW a \in Account, HandleGetBalance(i, a)
      PROVE  BookInv'
  BY <1>6, HandleGetBalanceKeepsBook
<1>7. ASSUME NEW i \in Server, Restart(i) PROVE BookInv'
  BY <1>7, RestartKeepsBook
<1> QED  BY <1>1, <1>2, <1>3, <1>4, <1>5, <1>6, <1>7 DEF Next

\* Every variable keeps its type and no balance is ever negative, whatever
\* commands are committed and however the balances round (Transfer).
THEOREM BalancesAreNatural == Spec => []TypeOK
<1>1. BookInv => TypeOK  BY DEF BookInv
<1> QED  BY <1>1, BookInit, BookStep, PTL DEF Spec

\* A transfer id moves money at most once in a ledger, however often it was
\* committed, and also when the channel was full and entries were passed over:
\* every transfer that changed a balance is marked in processedTxns in the same
\* step, and none of those changes a balance again (Transfer, applier).
THEOREM MovedAtMostOnce == Spec => []AtMostOnce
<1>1. BookInv => AtMostOnce
  BY DEF BookInv, Marked, AtMostOnce
<1> QED  BY <1>1, BookInit, BookStep, PTL DEF Spec

-----------------------------------------------------------------------------
(* The books: balances are the sums of what was booked *)

\* g[n] is what the first n commands of b add to account a.
IsSum(g, b, a) ==
    g = [n \in 0..Len(b) |-> IF n = 0 THEN 0 ELSE g[n - 1] + Effect(b[n], a)]

LEMMA SumStep ==
    ASSUME NEW b \in Seq(Command), NEW a, NEW g, IsSum(g, b, a)
    PROVE  /\ g[0] = 0
           /\ \A n \in 0..Len(b) : n # 0 => g[n] = g[n - 1] + Effect(b[n], a)
BY LenProperties DEF IsSum

\* One more command adds its effect.
LEMMA SumExtends ==
    ASSUME NEW b \in Seq(Command), NEW c \in Command, NEW a,
           NEW g, IsSum(g, b, a)
    PROVE  \E h : /\ IsSum(h, Append(b, c), a)
                  /\ h[Len(Append(b, c))] = g[Len(b)] + Effect(c, a)
<1> DEFINE len  == Len(b)
           more == Append(b, c)
           h    == [n \in 0..len + 1 |->
                       IF n <= len THEN g[n] ELSE g[len] + Effect(c, a)]
<1>1. /\ len \in Nat /\ Len(more) = len + 1
      /\ \A n \in 1..len : more[n] = b[n]
      /\ more[len + 1] = c
  BY LenProperties, AppendProperties
<1>2. ASSUME NEW n \in 0..len + 1
      PROVE  h[n] = IF n = 0 THEN 0 ELSE h[n - 1] + Effect(more[n], a)
  <2> HIDE DEF more, len
  <2>1. CASE n = 0
    BY <1>1, <2>1, SumStep
  <2>2. CASE n # 0 /\ n <= len
    <3>1. h[n] = g[n] /\ h[n - 1] = g[n - 1] /\ n \in 0..len /\ n \in 1..len
      BY <1>1, <2>2
    <3>2. g[n] = g[n - 1] + Effect(b[n], a)
      BY <2>2, <3>1, SumStep DEF len
    <3> QED  BY <1>1, <2>2, <3>1, <3>2
  <2>3. CASE n = len + 1
    <3>1. h[n] = g[len] + Effect(c, a) /\ h[n - 1] = g[len]
      BY <1>1, <2>3
    <3> QED  BY <1>1, <2>3, <3>1
  <2> QED  BY <1>1, <2>1, <2>2, <2>3
<1>3. IsSum(h, more, a)
  BY <1>1, <1>2 DEF IsSum
<1>4. h[Len(more)] = g[len] + Effect(c, a)
  BY <1>1
<1> QED  BY <1>3, <1>4

\* Booked is the last of such sums, whichever function has them.
LEMMA BookedIs ==
    ASSUME NEW b \in Seq(Command), NEW a, NEW g, IsSum(g, b, a)
    PROVE  Booked(b, a) = g[Len(b)]
<1> DEFINE P(m) == m = [n \in 0..Len(b) |->
                           IF n = 0 THEN 0 ELSE m[n - 1] + Effect(b[n], a)]
           h == CHOOSE m : P(m)
<1>1. Booked(b, a) = h[Len(b)]
  BY Zenon DEF Booked
<1>2. IsSum(h, b, a)
  <2>1. P(g)  BY DEF IsSum
  <2>2. P(h)
    <3> HIDE DEF P
    <3> QED  BY <2>1
  <2> QED  BY <2>2, Zenon DEF IsSum
<1> HIDE DEF h
<1> DEFINE D == {n \in 0..Len(b) : g[n] # h[n]}
<1>3. Len(b) \in Nat  BY LenProperties
<1>4. ASSUME D # {} PROVE FALSE
  <2>1. PICK d \in D : \A e \in Nat : e < d => e \notin D
    <3>1. D \subseteq Nat  BY <1>3
    <3> HIDE DEF D
    <3> QED  BY <1>4, <3>1, LeastOf
  <2>2. d # 0  BY <1>2, SumStep
  <2>3. d - 1 \in Nat /\ d - 1 < d /\ d - 1 \in 0..Len(b)  BY <1>3, <2>2
  <2>4. g[d - 1] = h[d - 1]  BY <2>1, <2>3
  <2>5. /\ g[d] = g[d - 1] + Effect(b[d], a)
        /\ h[d] = h[d - 1] + Effect(b[d], a)
    BY <1>2, <2>2, SumStep
  <2> QED  BY <2>4, <2>5
<1> QED  BY <1>1, <1>3, <1>4

\* Every balance of the ledger is below 2^Precision.
Below(bal) == \A a \in Account : bal[a] < Pow2[Precision]

\* Between balances below 2^Precision debit and credit are exact, also when
\* both are of one account.
LEMMA MovedExact ==
    ASSUME NEW bal \in [Account -> Nat], NEW txn, txn.type = "TRANSFER",
           txn.from \in Account, txn.to \in Account, txn.amount \in Nat,
           bal[txn.from] >= txn.amount, Below(bal), Below(Moved(bal, txn)),
           NEW a \in Account
    PROVE  Moved(bal, txn)[a] = bal[a] + Effect(txn, a)
<1> DEFINE f == txn.from
           t == txn.to
           x == txn.amount
           debited == [bal EXCEPT ![f] = bal[f] - x]
<1>1. Precision \in Nat /\ Pow2[Precision] \in Nat
  BY PrecisionAssumption, Pow2Grows
<1>2. fl(bal[f] - x) = bal[f] - x
  <2>1. bal[f] - x \in Nat /\ bal[f] - x < Pow2[Precision]
    BY <1>1 DEF Below
  <2> QED  BY <2>1, flExact
<1>3. Moved(bal, txn) = [debited EXCEPT ![t] = fl(debited[t] + x)]
  BY <1>2 DEF Moved
<1>4. debited \in [Account -> Nat]  OBVIOUS
<1>5. fl(debited[t] + x) = debited[t] + x
  <2>1. debited[t] + x \in Nat  BY <1>4
  <2>2. fl(debited[t] + x) < Pow2[Precision]
    <3> HIDE DEF debited
    <3>1. Moved(bal, txn)[t] = fl(debited[t] + x)  BY <1>3, <1>4
    <3> QED  BY <3>1 DEF Below
  <2> HIDE DEF debited
  <2> QED  BY <2>1, <2>2, flBelow
<1>6. Effect(txn, a) = (IF t = a THEN x ELSE 0) - (IF f = a THEN x ELSE 0)
  BY DEF Effect
<1>7. Moved(bal, txn)[a] = IF a = t THEN debited[t] + x ELSE debited[a]
  <2> HIDE DEF debited
  <2> QED  BY <1>3, <1>4, <1>5
<1>8. \A c \in Account : debited[c] = IF c = f THEN bal[f] - x ELSE bal[c]
  OBVIOUS
<1>9. bal[a] \in Nat /\ bal[f] \in Nat /\ bal[t] \in Nat  OBVIOUS
<1> HIDE DEF debited
<1> QED  BY <1>6, <1>7, <1>8, <1>9

\* Only accounts that exist have a balance, and every balance is the sum of
\* what was booked.
Balanced(l, b) ==
    \A a \in Account :
        /\ a \notin l.accounts => l.balance[a] = 0
        /\ \E g : IsSum(g, b, a) /\ g[Len(b)] = l.balance[a]

\* A command adds to every account its effect, or changes no balance, and
\* gives none to an account that does not exist.
LEMMA applyAdds ==
    ASSUME NEW l \in LedgerState, NEW cmd \in Command,
           \A a \in Account : a \notin l.accounts => l.balance[a] = 0,
           Below(l.balance), Below(applyCommand(l, cmd).balance),
           NEW a \in Account
    PROVE  LET m == applyCommand(l, cmd)
           IN  /\ a \notin m.accounts => m.balance[a] = 0
               /\ \/ m.balance = l.balance
                  \/ m.balance[a] = l.balance[a] + Effect(cmd, a)
<1> DEFINE m == applyCommand(l, cmd)
<1>0. l.balance \in [Account -> Nat] /\ l.accounts \subseteq Account
  BY DEF LedgerState
<1>1. CASE cmd.type = "TRANSFER" /\ Valid(l, cmd)
  <2>1. /\ cmd.from \in Account /\ cmd.to \in Account /\ cmd.amount \in Nat
        /\ cmd.from \in l.accounts /\ cmd.to \in l.accounts
        /\ l.balance[cmd.from] >= cmd.amount
    BY <1>1, CommandFields DEF Valid
  <2>2. m.balance = Moved(l.balance, cmd) /\ m.accounts = l.accounts
    BY <1>1 DEF applyCommand, Transfer, LedgerState
  <2>3. m.balance[a] = l.balance[a] + Effect(cmd, a)
    BY <1>0, <1>1, <2>1, <2>2, MovedExact
  <2> HIDE DEF m
  <2>4. ASSUME a \notin m.accounts PROVE m.balance[a] = 0
    <3>1. a # cmd.from /\ a # cmd.to /\ l.balance[a] = 0
      BY <2>1, <2>2, <2>4
    <3>2. Effect(cmd, a) = 0  BY <1>1, <3>1 DEF Effect
    <3> QED  BY <2>3, <3>1, <3>2
  <2> QED  BY <2>3, <2>4 DEF m
<1>2. CASE cmd.type = "TRANSFER" /\ ~Valid(l, cmd)
  BY <1>2 DEF applyCommand, Transfer
<1>3. CASE cmd.type # "TRANSFER"
  <2> DEFINE id == cmd.accountID
             x  == cmd.initialBalance
  <2>1. cmd.type = "CREATE_ACCOUNT" /\ id \in Account /\ x \in Nat
    BY <1>3, CommandFields
  <2>2. CASE id \in l.accounts
    BY <1>3, <2>2 DEF applyCommand, CreateAccount
  <2>3. CASE id \notin l.accounts
    <3>1. /\ m.accounts = l.accounts \cup {id}
          /\ m.balance = [l.balance EXCEPT ![id] = x]
      BY <1>3, <2>3 DEF applyCommand, CreateAccount, LedgerState
    <3>2. l.balance[id] = 0  BY <2>1, <2>3
    <3>3. Effect(cmd, a) = IF id = a THEN x ELSE 0
      BY <2>1 DEF Effect
    <3> HIDE DEF m, id, x
    <3> QED  BY <1>0, <2>1, <3>1, <3>2, <3>3 DEF m
  <2> QED  BY <2>2, <2>3
<1> QED  BY <1>1, <1>2, <1>3

\* A ledger and its books stay balanced when a command is applied.
LEMMA BalancedStep ==
    ASSUME NEW l \in LedgerState, NEW b \in Seq(Command), NEW cmd \in Command,
           Balanced(l, b), Below(l.balance),
           Below(applyCommand(l, cmd).balance)
    PROVE  LET m == applyCommand(l, cmd)
           IN  Balanced(m, IF m.balance # l.balance THEN Append(b, cmd) ELSE b)
<1> DEFINE m == applyCommand(l, cmd)
           c == IF m.balance # l.balance THEN Append(b, cmd) ELSE b
<1> SUFFICES ASSUME NEW a \in Account
             PROVE  /\ a \notin m.accounts => m.balance[a] = 0
                    /\ \E g : IsSum(g, c, a) /\ g[Len(c)] = m.balance[a]
  BY DEF Balanced
<1>1. /\ a \notin m.accounts => m.balance[a] = 0
      /\ \/ m.balance = l.balance
         \/ m.balance[a] = l.balance[a] + Effect(cmd, a)
  BY applyAdds DEF Balanced
<1>2. PICK g : IsSum(g, b, a) /\ g[Len(b)] = l.balance[a]
  BY DEF Balanced
<1> HIDE DEF m
<1>3. CASE m.balance # l.balance
  <2>1. c = Append(b, cmd)  BY <1>3
  <2>2. m.balance[a] = l.balance[a] + Effect(cmd, a)  BY <1>1, <1>3
  <2>3. \E h : IsSum(h, Append(b, cmd), a)
            /\ h[Len(Append(b, cmd))] = g[Len(b)] + Effect(cmd, a)
    BY <1>2, SumExtends
  <2> HIDE DEF c
  <2> QED  BY <1>1, <1>2, <2>1, <2>2, <2>3
<1>4. CASE m.balance = l.balance
  <2>1. c = b  BY <1>4
  <2> HIDE DEF c
  <2> QED  BY <1>1, <1>2, <1>4, <2>1
<1> QED  BY <1>3, <1>4

\* No balance of the cluster has reached 2^Precision, 2^53 units in the code.
BalancesExact == \A i \in Server : Below(ledgers[i].balance)

BooksInv == BookInv /\ \A i \in Server : Balanced(ledgers[i], booked[i])

LEMMA NewBalanced == Balanced(NewLedger, << >>)
<1> DEFINE g == [n \in 0..0 |-> 0]
<1>1. Len(<< >>) = 0  OBVIOUS
<1>2. ASSUME NEW a PROVE IsSum(g, << >>, a) /\ g[0] = 0
  <2>1. \A n \in 0..0 : n = 0  OBVIOUS
  <2>2. g[0] = 0  OBVIOUS
  <2> QED  BY <1>1, <2>1, <2>2 DEF IsSum
<1> HIDE DEF g
<1> QED  BY <1>1, <1>2 DEF Balanced, NewLedger

LEMMA BooksInit == Init => BooksInv
BY BookInit, NewBalanced DEF BooksInv, Init

LEMMA BooksStep ==
    BooksInv /\ BalancesExact /\ BalancesExact' /\ [Next]_vars => BooksInv'
<1> SUFFICES ASSUME BooksInv, BalancesExact, BalancesExact', [Next]_vars
             PROVE  BooksInv'
  OBVIOUS
<1>1. BookInv /\ BookInv'
  BY BookStep DEF BooksInv
<1>2. SUFFICES ASSUME NEW i \in Server
               PROVE  Balanced(ledgers'[i], booked'[i])
  BY <1>1 DEF BooksInv
<1>3. Balanced(ledgers[i], booked[i])  BY DEF BooksInv
<1>4. CASE UNCHANGED <<ledgers, booked>>
  BY <1>3, <1>4
<1>5. ASSUME NEW j \in Server, applier(j)
      PROVE  Balanced(ledgers'[i], booked'[i])
  <2> DEFINE k   == Head(applyCh[j])
             cmd == chosen[k]
             new == applyCommand(ledgers[j], cmd)
             b   == IF new.balance # ledgers[j].balance
                    THEN Append(booked[j], cmd) ELSE booked[j]
  <2>1. /\ applyCh[j] # << >>
        /\ ledgers' = [ledgers EXCEPT ![j] = new]
        /\ booked' = [booked EXCEPT ![j] = b]
    BY <1>5 DEF applier
  <2>2. k \in 1..Len(chosen)
    BY <1>1, <2>1, BookTypes, KnownStep
  <2>3. cmd \in Command
    BY <1>1, <2>2, BookTypes, ElementOfSeq
  <2>4. DOMAIN ledgers = Server /\ DOMAIN booked = Server
    BY <1>1 DEF BookInv, TypeOK
  <2>5. Below(ledgers[j].balance) /\ Below(new.balance)
    <3>1. ledgers'[j] = new  BY <2>1, <2>4
    <3> HIDE DEF new
    <3> QED  BY <3>1 DEF BalancesExact
  <2>6. Balanced(new, b)
    <3>1. Balanced(ledgers[j], booked[j])  BY DEF BooksInv
    <3> HIDE DEF k
    <3> QED  BY <1>1, <2>3, <2>5, <3>1, BookTypes, BalancedStep
  <2> HIDE DEF new, b
  <2> QED  BY <1>3, <2>1, <2>4, <2>6
<1>6. ASSUME NEW j \in Server, Restart(j)
      PROVE  Balanced(ledgers'[i], booked'[i])
  <2>1. DOMAIN ledgers = Server /\ DOMAIN booked = Server
    BY <1>1 DEF BookInv, TypeOK
  <2>2. \/ ledgers'[i] = NewLedger /\ booked'[i] = << >>
        \/ ledgers'[i] = ledgers[i] /\ booked'[i] = booked[i]
    BY <1>6, <2>1 DEF Restart
  <2> QED  BY <1>3, <2>2, NewBalanced
<1> QED
  BY <1>4, <1>5, <1>6
  DEF Next, Commit, AdvanceCommit, SendEntry, HandleGetBalance, vars

\* As long as no balance reaches 2^Precision, every balance is the exact sum of
\* the commands that changed one: debit and credit of a transfer are both made
\* and not rounded, an account is opened once and from zero, and a transfer to
\* oneself changes nothing.  Entries may be passed over and nodes restart
\* (CreateAccount, Transfer, applier).
THEOREM BooksAddUp == Spec /\ []BalancesExact => []DoubleEntry
<1>1. BooksInv => DoubleEntry
  <2> SUFFICES ASSUME BooksInv, NEW i \in Server, NEW a \in Account
               PROVE  ledgers[i].balance[a] = Booked(booked[i], a)
    BY DEF DoubleEntry
  <2>1. PICK g : IsSum(g, booked[i], a)
                    /\ g[Len(booked[i])] = ledgers[i].balance[a]
    BY DEF BooksInv, Balanced
  <2>2. booked[i] \in Seq(Command)  BY BookTypes DEF BooksInv
  <2> QED  BY <2>1, <2>2, BookedIs
<1> QED  BY <1>1, BooksInit, BooksStep, PTL DEF Spec

-----------------------------------------------------------------------------
(* When no balance reaches 2^Precision *)

\* A command adds at most its amount, here at most A, to a balance.
LEMMA applyAtMost ==
    ASSUME NEW l \in LedgerState, NEW cmd \in Command,
           NEW A \in Nat, \A x \in Amount : x <= A,
           NEW B \in Nat, \A a \in Account : l.balance[a] <= B,
           B + A < Pow2[Precision],
           NEW a \in Account
    PROVE  applyCommand(l, cmd).balance[a] <= B + A
<1>1. /\ l.balance \in [Account -> Nat] /\ l.balance[a] <= B + A
      /\ Precision \in Nat /\ Pow2[Precision] \in Nat
  BY PrecisionAssumption, Pow2Grows DEF LedgerState
<1>2. CASE cmd.type = "TRANSFER" /\ Valid(l, cmd)
  <2> DEFINE bal == l.balance
             f   == cmd.from
             t   == cmd.to
             x   == cmd.amount
             debited == [bal EXCEPT ![f] = bal[f] - x]
  <2>1. /\ f \in Account /\ t \in Account /\ x \in Nat /\ x <= A
        /\ bal[f] >= x
    BY <1>2, AmountAssumption
    DEF Command, TransferCommand, CreateAccountCommand, Valid
  <2>2. applyCommand(l, cmd).balance = Moved(bal, cmd)
    BY <1>2 DEF applyCommand, Transfer, LedgerState
  <2>3. bal[f] - x \in Nat /\ bal[f] - x <= B /\ bal[f] - x < Pow2[Precision]
    BY <1>1, <2>1
  <2>4. fl(bal[f] - x) = bal[f] - x
    BY <2>3, flExact
  <2>5. Moved(bal, cmd) = [debited EXCEPT ![t] = fl(debited[t] + x)]
    BY <2>4 DEF Moved
  <2>6. /\ debited \in [Account -> Nat]
        /\ \A c \in Account : debited[c] <= B
    BY <1>1, <2>1, <2>3
  <2> HIDE DEF debited
  <2>7. /\ debited[t] + x \in Nat /\ debited[t] + x <= B + A
        /\ debited[t] + x < Pow2[Precision] /\ debited[a] <= B + A
    BY <1>1, <2>1, <2>6
  <2>8. fl(debited[t] + x) = debited[t] + x
    BY <2>7, flExact
  <2> QED  BY <2>2, <2>5, <2>6, <2>7, <2>8
<1>3. CASE cmd.type # "TRANSFER"
  <2>1. /\ cmd.accountID \in Account /\ cmd.initialBalance \in Nat
        /\ cmd.initialBalance <= A
    BY <1>3, AmountAssumption
    DEF Command, TransferCommand, CreateAccountCommand
  <2>2. \/ applyCommand(l, cmd).balance = l.balance
        \/ applyCommand(l, cmd).balance =
              [l.balance EXCEPT ![cmd.accountID] = cmd.initialBalance]
    BY <1>3 DEF applyCommand, CreateAccount, LedgerState
  <2> QED  BY <1>1, <2>1, <2>2
<1>4. CASE cmd.type = "TRANSFER" /\ ~Valid(l, cmd)
  BY <1>1, <1>4 DEF applyCommand, Transfer
<1> QED  BY <1>2, <1>3, <1>4

\* No entry goes into the channel twice: what was taken, h, and what is in the
\* channel, q, are no more than lastApplied, and the loop is behind it.
Counted(r, h, q) ==
    /\ Len(h) + Len(q) <= r.lastApplied
    /\ r.loop # 0 => r.loop > r.lastApplied

SmallInv(A) ==
    /\ BookInv
    /\ Len(chosen) <= MaxChosen
    /\ \A i \in Server : Counted(raft[i], handled[i], applyCh[i])
    /\ \A i \in Server, a \in Account :
          ledgers[i].balance[a] <= Len(handled[i]) * A

LEMMA CountedStep ==
    ASSUME BookInv, [Next]_vars,
           \A i \in Server : Counted(raft[i], handled[i], applyCh[i]),
           NEW i \in Server
    PROVE  Counted(raft'[i], handled'[i], applyCh'[i])
<1> DEFINE r == raft[i]
           h == handled[i]
           q == applyCh[i]
<1>1. /\ r \in ApplyState /\ r.lastApplied \in Nat /\ r.loop \in Nat
      /\ r.commitIndex \in Nat /\ h \in Seq(Nat) /\ q \in Seq(Nat)
      /\ Len(h) \in Nat /\ Len(q) \in Nat /\ Counted(r, h, q)
      /\ DOMAIN raft = Server /\ DOMAIN applyCh = Server
      /\ DOMAIN handled = Server
  BY BookTypes, LenProperties DEF BookInv, TypeOK, ApplyState
<1>2. CASE UNCHANGED <<raft, handled, applyCh>>
  BY <1>1, <1>2
<1>3. ASSUME NEW j \in Server, NEW n \in 1..Len(chosen), AdvanceCommit(j, n)
      PROVE  Counted(raft'[i], handled'[i], applyCh'[i])
  <2>1. \/ raft'[i] = r
        \/ /\ raft'[i].lastApplied = r.lastApplied
           /\ raft'[i].loop = r.lastApplied + 1
    BY <1>1, <1>3 DEF AdvanceCommit, ApplyState
  <2>2. handled'[i] = h /\ applyCh'[i] = q
    BY <1>3 DEF AdvanceCommit
  <2> HIDE DEF r, h, q
  <2> QED  BY <1>1, <2>1, <2>2 DEF Counted
<1>4. ASSUME NEW j \in Server, SendEntry(j)
      PROVE  Counted(raft'[i], handled'[i], applyCh'[i])
  <2> DEFINE k == raft[j].loop
             s == [raft[j] EXCEPT !.loop = NextIndex(raft[j], k)]
  <2>1. /\ k # 0 /\ handled' = handled
        /\ \/ /\ applyCh' = [applyCh EXCEPT ![j] = Append(applyCh[j], k)]
              /\ raft' = [raft EXCEPT ![j] = [s EXCEPT !.lastApplied = k]]
           \/ applyCh' = applyCh /\ raft' = [raft EXCEPT ![j] = s]
    BY <1>4 DEF SendEntry
  <2>2. CASE j # i
    BY <1>1, <2>1, <2>2
  <2>3. CASE j = i
    <3>1. NextIndex(r, r.loop) # 0 => NextIndex(r, r.loop) = r.loop + 1
      BY <1>1 DEF NextIndex
    <3>2. /\ [s EXCEPT !.lastApplied = k].lastApplied = r.loop
          /\ [s EXCEPT !.lastApplied = k].loop = NextIndex(r, r.loop)
          /\ s.lastApplied = r.lastApplied /\ s.loop = NextIndex(r, r.loop)
      BY <1>1, <2>3 DEF ApplyState
    <3>3. Len(Append(q, r.loop)) = Len(q) + 1
      BY <1>1, AppendProperties
    <3>4. /\ r.loop # 0 /\ r.loop > r.lastApplied
          /\ Len(h) + Len(q) <= r.lastApplied
      BY <1>1, <2>1, <2>3 DEF Counted
    <3>5. \/ /\ applyCh'[i] = Append(q, r.loop)
             /\ raft'[i].lastApplied = r.loop
             /\ raft'[i].loop = NextIndex(r, r.loop)
          \/ /\ applyCh'[i] = q
             /\ raft'[i].lastApplied = r.lastApplied
             /\ raft'[i].loop = NextIndex(r, r.loop)
      <4> HIDE DEF s
      <4> QED  BY <1>1, <2>1, <2>3, <3>2
    <3>6. handled'[i] = h  BY <2>1
    <3> HIDE DEF r, h, q
    <3> QED  BY <1>1, <3>1, <3>3, <3>4, <3>5, <3>6 DEF Counted
  <2> QED  BY <2>2, <2>3
<1>5. ASSUME NEW j \in Server, applier(j)
      PROVE  Counted(raft'[i], handled'[i], applyCh'[i])
  <2>1. /\ applyCh[j] # << >> /\ raft' = raft
        /\ applyCh' = [applyCh EXCEPT ![j] = Tail(applyCh[j])]
        /\ handled' = [handled EXCEPT ![j] =
                          Append(handled[j], Head(applyCh[j]))]
    BY <1>5 DEF applier
  <2>2. CASE j # i
    BY <1>1, <2>1, <2>2
  <2>3. CASE j = i
    <3> DEFINE p == Append(h, Head(q))
               t == Tail(q)
    <3>1. Head(q) \in Nat /\ Len(t) = Len(q) - 1
      BY <1>1, <2>1, <2>3, HeadTailProperties
    <3>2. Len(p) = Len(h) + 1
      BY <1>1, <3>1, AppendProperties
    <3>3. raft'[i] = r /\ applyCh'[i] = t /\ handled'[i] = p
      BY <1>1, <2>1, <2>3
    <3> HIDE DEF r, h, q, p, t
    <3> QED  BY <1>1, <3>1, <3>2, <3>3 DEF Counted
  <2> QED  BY <2>2, <2>3
<1>6. ASSUME NEW j \in Server, Restart(j)
      PROVE  Counted(raft'[i], handled'[i], applyCh'[i])
  <2>1. \/ raft'[i] = r /\ handled'[i] = h /\ applyCh'[i] = q
        \/ raft'[i] = fresh /\ handled'[i] = << >> /\ applyCh'[i] = << >>
    BY <1>1, <1>6 DEF Restart
  <2>2. Len(<< >>) = 0 /\ fresh.lastApplied = 0 /\ fresh.loop = 0
    BY DEF fresh
  <2>3. Counted(fresh, << >>, << >>)
    BY <2>2 DEF Counted
  <2> QED  BY <1>1, <2>1, <2>3
<1> QED
  BY <1>2, <1>3, <1>4, <1>5, <1>6 DEF Next, Commit, HandleGetBalance, vars

LEMMA SmallInit == ASSUME NEW A \in Nat PROVE Init => SmallInv(A)
<1> SUFFICES ASSUME Init PROVE SmallInv(A)
  OBVIOUS
<1>1. Len(<< >>) = 0 /\ 0 * A = 0  OBVIOUS
<1>2. Len(chosen) <= MaxChosen
  BY <1>1, PayAssumption DEF Init
<1>3. ASSUME NEW i \in Server
      PROVE  Counted(raft[i], handled[i], applyCh[i])
  BY <1>1 DEF Init, fresh, Counted
<1>4. ASSUME NEW i \in Server, NEW a \in Account
      PROVE  ledgers[i].balance[a] <= Len(handled[i]) * A
  <2>1. ledgers[i].balance[a] = 0 /\ handled[i] = << >>
    BY DEF Init, NewLedger
  <2> QED  BY <1>1, <2>1
<1> QED  BY <1>2, <1>3, <1>4, BookInit DEF SmallInv

\* A node has taken no more messages than there are commands.
LEMMA HandledFew ==
    ASSUME NEW A \in Nat, SmallInv(A), NEW i \in Server
    PROVE  /\ Len(handled[i]) \in Nat /\ Len(handled[i]) <= MaxChosen
           /\ applyCh[i] # << >> => Len(handled[i]) + 1 <= MaxChosen
<1>1. BookInv  BY DEF SmallInv
<1>2. /\ raft[i].lastApplied \in Nat /\ raft[i].commitIndex \in Nat
      /\ Len(handled[i]) \in Nat /\ Len(applyCh[i]) \in Nat
      /\ Len(chosen) \in Nat /\ MaxChosen \in Nat
      /\ applyCh[i] # << >> => Len(applyCh[i]) # 0
  BY <1>1, BookTypes, LenProperties, EmptySeq, PayAssumption DEF ApplyState
<1>3. /\ raft[i].lastApplied <= raft[i].commitIndex
      /\ raft[i].commitIndex <= Len(chosen)
  BY <1>1, BookTypes DEF Known
<1>4. Len(handled[i]) + Len(applyCh[i]) <= raft[i].lastApplied
  BY DEF SmallInv, Counted
<1>5. Len(chosen) <= MaxChosen  BY DEF SmallInv
<1> DEFINE h == Len(handled[i])
           q == Len(applyCh[i])
           n == Len(chosen)
<1>6. /\ h \in Nat /\ q \in Nat /\ n \in Nat
      /\ h + q <= raft[i].lastApplied /\ raft[i].commitIndex <= n
      /\ n <= MaxChosen
  BY <1>2, <1>3, <1>4, <1>5
<1>7. applyCh[i] # << >> => q # 0  BY <1>2
<1> HIDE DEF h, q, n
<1>8. h <= MaxChosen /\ (q # 0 => h + 1 <= MaxChosen)
  BY <1>2, <1>3, <1>6
<1> QED  BY <1>6, <1>7, <1>8 DEF h

LEMMA TimesGrows ==
    ASSUME NEW m \in Nat, NEW n \in Nat, m <= n, NEW A \in Nat
    PROVE  /\ m * A \in Nat /\ n * A \in Nat /\ m * A <= n * A
           /\ (m + 1) * A = m * A + A
OBVIOUS

LEMMA SmallStep ==
    ASSUME NEW A \in Nat, \A x \in Amount : x <= A,
           MaxChosen * A < Pow2[Precision]
    PROVE  SmallInv(A) /\ [Next]_vars => SmallInv(A)'
<1> SUFFICES ASSUME SmallInv(A), [Next]_vars PROVE SmallInv(A)'
  OBVIOUS
<1>1. BookInv /\ BookInv'
  BY BookStep DEF SmallInv
<1>2. Len(chosen') <= MaxChosen
  <2>1. Len(chosen) \in Nat /\ MaxChosen \in Nat /\ chosen \in Seq(Command)
    BY <1>1, LenProperties, PayAssumption DEF BookInv, TypeOK
  <2>2. ASSUME NEW cmd \in Command, Commit(cmd)
        PROVE  Len(chosen') <= MaxChosen
    <3>1. Len(chosen) < MaxChosen /\ Len(chosen') = Len(chosen) + 1
      BY <2>1, <2>2, AppendProperties DEF Commit
    <3> QED  BY <2>1, <3>1
  <2>3. CASE chosen' = chosen
    BY <2>3 DEF SmallInv
  <2> QED
    BY <2>2, <2>3
    DEF Next, AdvanceCommit, SendEntry, applier, HandleGetBalance, Restart, vars
<1>3. ASSUME NEW i \in Server
      PROVE  Counted(raft'[i], handled'[i], applyCh'[i])
  BY <1>1, CountedStep DEF SmallInv
<1>4. ASSUME NEW i \in Server, NEW a \in Account
      PROVE  ledgers'[i].balance[a] <= Len(handled'[i]) * A
  <2>1. \A c \in Account : ledgers[i].balance[c] <= Len(handled[i]) * A
    BY DEF SmallInv
  <2>2. CASE UNCHANGED <<ledgers, handled>>
    BY <2>1, <2>2
  <2>3. DOMAIN ledgers = Server /\ DOMAIN handled = Server
    BY <1>1 DEF BookInv, TypeOK
  <2>4. ASSUME NEW j \in Server, applier(j)
        PROVE  ledgers'[i].balance[a] <= Len(handled'[i]) * A
    <3> DEFINE k   == Head(applyCh[j])
               cmd == chosen[k]
               new == applyCommand(ledgers[j], cmd)
               n   == Len(handled[j])
    <3>1. /\ applyCh[j] # << >>
          /\ ledgers' = [ledgers EXCEPT ![j] = new]
          /\ handled' = [handled EXCEPT ![j] = Append(handled[j], k)]
      BY <2>4 DEF applier
    <3>2. k \in 1..Len(chosen)
      BY <1>1, <3>1, BookTypes, KnownStep
    <3>3. cmd \in Command
      BY <1>1, <3>2, BookTypes, ElementOfSeq
    <3>4. CASE j # i
      BY <2>1, <2>3, <3>1, <3>4
    <3>5. CASE j = i
      <4>1. /\ n \in Nat /\ n + 1 \in Nat /\ n + 1 <= MaxChosen /\ n <= n + 1
            /\ MaxChosen \in Nat
        BY <3>1, HandledFew, PayAssumption
      <4>2. /\ n * A \in Nat /\ (n + 1) * A = n * A + A
            /\ n * A + A <= MaxChosen * A /\ MaxChosen * A \in Nat
        <5>1. n * A \in Nat /\ (n + 1) * A = n * A + A
          BY <4>1, TimesGrows
        <5>2. (n + 1) * A <= MaxChosen * A /\ MaxChosen * A \in Nat
          BY <4>1, TimesGrows
        <5> QED  BY <5>1, <5>2
      <4>3. n * A + A < Pow2[Precision]
        <5>1. Pow2[Precision] \in Nat  BY PrecisionAssumption, Pow2Grows
        <5> DEFINE x == n * A
                   y == MaxChosen * A
        <5>2. x + A <= y /\ x \in Nat /\ y \in Nat /\ y < Pow2[Precision]
          BY <4>2
        <5> HIDE DEF x, y
        <5>3. x + A < Pow2[Precision]  BY <5>1, <5>2
        <5> QED  BY <5>3 DEF x
      <4>4. ledgers[j] \in LedgerState
               /\ \A c \in Account : ledgers[j].balance[c] <= n * A
        BY <1>1, <2>1, <3>5, BookTypes
      <4> DEFINE B == n * A
      <4>5. new.balance[a] <= B + A
        <5> HIDE DEF k, n
        <5>1. B \in Nat /\ B + A < Pow2[Precision]  BY <4>2, <4>3
        <5>2. \A c \in Account : ledgers[j].balance[c] <= B  BY <4>4
        <5> HIDE DEF B, cmd
        <5> QED  BY <3>3, <4>4, <5>1, <5>2, applyAtMost
      <4>6. Len(handled'[i]) = n + 1
        <5>1. k \in Nat /\ handled[j] \in Seq(Nat)
          BY <1>1, <3>2, BookTypes
        <5>2. handled'[i] = Append(handled[j], k)  BY <2>3, <3>1, <3>5
        <5> QED  BY <5>1, <5>2, AppendProperties
      <4>7. ledgers'[i] = new  BY <2>3, <3>1, <3>5
      <4> HIDE DEF new, n
      <4> QED  BY <4>2, <4>5, <4>6, <4>7
    <3> QED  BY <3>4, <3>5
  <2>5. ASSUME NEW j \in Server, Restart(j)
        PROVE  ledgers'[i].balance[a] <= Len(handled'[i]) * A
    <3>1. \/ ledgers'[i] = NewLedger /\ handled'[i] = << >>
          \/ ledgers'[i] = ledgers[i] /\ handled'[i] = handled[i]
      BY <2>3, <2>5 DEF Restart
    <3>2. NewLedger.balance[a] = 0 /\ Len(<< >>) = 0 /\ 0 * A = 0
      BY DEF NewLedger
    <3> QED  BY <2>1, <3>1, <3>2
  <2> QED
    BY <2>2, <2>4, <2>5
    DEF Next, Commit, AdvanceCommit, SendEntry, HandleGetBalance, vars
<1> QED  BY <1>1, <1>2, <1>3, <1>4 DEF SmallInv

\* Small amounts meet the condition of BooksAddUp: where as many commands as
\* may be committed, each of the largest amount, stay below 2^Precision, no
\* balance ever reaches it, because no entry is applied twice in a process
\* (applyCommittedEntries, applier, Transfer).
THEOREM SmallAmountsAreExact ==
    ASSUME NEW A \in Nat, \A x \in Amount : x <= A,
           MaxChosen * A < Pow2[Precision]
    PROVE  Spec => []BalancesExact
<1>1. SmallInv(A) => BalancesExact
  <2> SUFFICES ASSUME SmallInv(A), NEW i \in Server, NEW a \in Account
               PROVE  ledgers[i].balance[a] < Pow2[Precision]
    BY DEF BalancesExact, Below
  <2> DEFINE x == Len(handled[i]) * A
             y == MaxChosen * A
  <2>1. x \in Nat /\ y \in Nat /\ x <= y
    BY HandledFew, PayAssumption, TimesGrows
  <2>2. ledgers[i].balance[a] \in Nat /\ ledgers[i].balance[a] <= x
    BY BookTypes DEF SmallInv, LedgerState
  <2>3. Pow2[Precision] \in Nat /\ y < Pow2[Precision]
    BY PrecisionAssumption, Pow2Grows
  <2> HIDE DEF x, y
  <2> QED  BY <2>1, <2>2, <2>3
<1>2. SmallInv(A) /\ [Next]_vars => SmallInv(A)'  BY SmallStep
<1>3. Init => SmallInv(A)  BY SmallInit
<1> QED  BY <1>1, <1>2, <1>3, PTL DEF Spec

\* With amounts as small as that the balances add up in every execution.
COROLLARY SmallAmountsAddUp ==
    ASSUME NEW A \in Nat, \A x \in Amount : x <= A,
           MaxChosen * A < Pow2[Precision]
    PROVE  Spec => []DoubleEntry
<1>1. Spec => []BalancesExact  BY SmallAmountsAreExact
<1> QED  BY <1>1, BooksAddUp, PTL

=============================================================================
