-------------------------- MODULE RaftSafetyProofs --------------------------
(***************************************************************************)
(* Until a process restarts no committed entry is lost, for every cluster, *)
(* if a call is given up before its sender's election timer can fire       *)
(* again; and with it the refinement of ReplicatedLog.                     *)
(*                                                                         *)
(* An entry can still be chosen as long as a majority holds it or has not  *)
(* left its term.  That set of nodes only shrinks, so what a new leader    *)
(* must hold is settled when its voters vote.                              *)
(***************************************************************************)
EXTENDS RaftLogProofs

-----------------------------------------------------------------------------
(* The inductive invariant *)

\* Nodes that hold the entry of term t at index n, and those that may yet come
\* to hold it in term t.
Holders(t, n) == {q \in Server : <<t, q, n>> \in held}

MayHold(t, n) ==
    {q \in Server : <<t, q, n>> \in held \/ srv[q].currentTerm <= t}

Chosen(t, n) == Cardinality(Holders(t, n)) >= majority

CanChoose(t, n) == Cardinality(MayHold(t, n)) >= majority

HasEntry(log, t, n) == n \in 1..Len(log) /\ log[n].term = t

\* A leader holds every entry of an earlier term that can still be chosen.
LeadersSafe ==
    \A u, t \in DOMAIN leaderLog : \A n \in 1..Len(leaderLog[u]) :
        u < t /\ leaderLog[u][n].term = u /\ CanChoose(u, n)
            => HasEntry(leaderLog[t], u, n)

\* No node gives up an entry that can still be chosen.
HeldStays ==
    \A h \in held : CanChoose(h[1], h[3])
        => HasEntry(logs[h[2]].log, h[1], h[3])

\* A candidate holds what its voters hold and can still be chosen.
VotesSafe ==
    \A i \in Server : srv[i].state = "Candidate" =>
        \A x \in votes : x[1] = srv[i].currentTerm /\ x[3] = i =>
            \A h \in held : /\ h[2] = x[2] /\ h[1] < srv[i].currentTerm
                            /\ CanChoose(h[1], h[3])
                            => HasEntry(logs[i].log, h[1], h[3])

VotesCast == \A x \in votes : x[1] <= srv[x[3]].currentTerm

\* A vote request shows its candidate's log as it is.
BallotLogs ==
    \A m \in net :
        /\ m.type = "RequestVote" /\ srv[m.from].state = "Candidate"
        /\ m.term = srv[m.from].currentTerm
        => /\ m.lastLogIndex = Len(logs[m.from].log)
           /\ m.lastLogTerm = lastLogTerm(logs[m.from].log)

SafeInv ==
    /\ LeadersSafe
    /\ HeldStays
    /\ VotesSafe
    /\ VotesCast
    /\ BallotLogs

\* The first c entries of log precede a chosen entry, recorded by h.
Backed(h, log, c) ==
    /\ Chosen(h[1], h[3]) /\ c <= h[3]
    /\ Agree(log, leaderLog[h[1]], c)

SafePrefix(log, c, t) ==
    c = 0 \/ \E h \in held : h[1] <= t /\ Backed(h, log, c)

NodeCommits ==
    \A i \in Server :
        LET a == app[i] IN
        /\ a.commitIndex <= Len(logs[i].log)
        /\ a.commitIndex <= Len(committedLog)
        /\ SafePrefix(logs[i].log, a.commitIndex, srv[i].currentTerm)
        /\ a.lastApplied = a.commitIndex /\ Len(a.applyCh) = a.commitIndex
        /\ \A k \in 1..a.commitIndex : a.applyCh[k] = logs[i].log[k]

CallCommits ==
    \A m \in net : m.type = "AppendEntries" =>
        /\ m.leaderCommit <= LastOf(m)
        /\ SafePrefix(leaderLog[m.term], m.leaderCommit, m.term)

LogCommits ==
    /\ committedLog \in Seq(Entry)
    /\ \/ Len(committedLog) = 0
       \/ \E h \in held : Backed(h, committedLog, Len(committedLog))

CommitInv == NodeCommits /\ CallCommits /\ LogCommits

-----------------------------------------------------------------------------
(* What can be chosen *)

\* majority is a number.
LEMMA MajorityNat == majority \in Nat
BY ServerAssumption, FS_CardinalityType DEF majority

\* A chosen entry can be chosen.
LEMMA ChosenCanBe ==
    ASSUME NEW t, NEW n, Chosen(t, n)
    PROVE  CanChoose(t, n)
<1>1. Holders(t, n) \subseteq MayHold(t, n) /\ MayHold(t, n) \subseteq Server
  BY DEF Holders, MayHold
<1>2. /\ Cardinality(Holders(t, n)) \in Nat
      /\ Cardinality(MayHold(t, n)) \in Nat
      /\ Cardinality(Holders(t, n)) <= Cardinality(MayHold(t, n))
  BY <1>1, CardinalityMonotone
<1> QED
  BY <1>2, MajorityNat DEF Chosen, CanChoose

\* In a step, nodes join the holders of an entry only from those that may hold
\* it, and none of these comes back.
LEMMA MayHoldShrinks ==
    ASSUME TypeInv, TypeInv', LogInv, Record, NEW i \in Server, Shape(i),
           NEW t \in Nat, NEW n
    PROVE  MayHold(t, n)' \subseteq MayHold(t, n)
<1>1. held' = held \cup {<<srv'[i].currentTerm, i, k>> : k \in OwnNow(i)}
  BY RecordHeld DEF LogInv
<1>2. \A j \in Server : /\ srv[j].currentTerm \in Nat
                        /\ srv'[j].currentTerm \in Nat
                        /\ srv'[j].currentTerm >= srv[j].currentTerm
  BY TermsGrow
<1> SUFFICES ASSUME NEW q \in Server,
                    <<t, q, n>> \in held' \/ srv'[q].currentTerm <= t
             PROVE  <<t, q, n>> \in held \/ srv[q].currentTerm <= t
  BY DEF MayHold
<1>3. CASE srv'[q].currentTerm <= t
  BY <1>2, <1>3
<1>4. CASE <<t, q, n>> \in held
  BY <1>4
<1>5. CASE \E k \in OwnNow(i) : <<t, q, n>> = <<srv'[i].currentTerm, i, k>>
  BY <1>2, <1>5
<1> QED
  BY <1>1, <1>3, <1>4, <1>5

\* What can be chosen after a step could be chosen before.
LEMMA CanChooseShrinks ==
    ASSUME TypeInv, TypeInv', LogInv, Record, NEW i \in Server, Shape(i),
           NEW t \in Nat, NEW n, CanChoose(t, n)'
    PROVE  CanChoose(t, n)
<1>1. MayHold(t, n)' \subseteq MayHold(t, n)
  BY MayHoldShrinks
<1>2. MayHold(t, n) \subseteq Server
  BY DEF MayHold
<1>3. /\ Cardinality(MayHold(t, n)') \in Nat
      /\ Cardinality(MayHold(t, n)) \in Nat
      /\ Cardinality(MayHold(t, n)') <= Cardinality(MayHold(t, n))
  BY <1>1, <1>2, CardinalityMonotone
<1>4. Cardinality(MayHold(t, n)') >= majority
  BY DEF CanChoose, majority
<1> QED
  BY <1>3, <1>4, MajorityNat DEF CanChoose

\* What is chosen stays chosen.
LEMMA ChosenStays ==
    ASSUME NEW t, NEW n, Chosen(t, n), held \subseteq held'
    PROVE  Chosen(t, n)'
<1>1. /\ Holders(t, n) \subseteq Holders(t, n)'
      /\ Holders(t, n)' \subseteq Server
  BY DEF Holders
<1>2. /\ Cardinality(Holders(t, n)) \in Nat
      /\ Cardinality(Holders(t, n)') \in Nat
      /\ Cardinality(Holders(t, n)) <= Cardinality(Holders(t, n)')
  BY <1>1, CardinalityMonotone
<1> QED
  BY <1>2, MajorityNat DEF Chosen, majority


-----------------------------------------------------------------------------
(* Leaders, voters and holders through a step *)

\* A log that is at least as up to date as one with an entry that can still be
\* chosen has that entry too: its last entry is of the same term, and then it
\* is the longer log, or of a later term, whose leader had the entry.
LEMMA UpToDateKeeps ==
    ASSUME LogInv, LeadersSafe,
           NEW a \in Seq(Entry), NEW b \in Seq(Entry),
           FromLeaders(a, leaderLog), FromLeaders(b, leaderLog),
           NEW u \in Nat, NEW n, CanChoose(u, n), HasEntry(a, u, n),
           \/ lastLogTerm(b) > lastLogTerm(a)
           \/ lastLogTerm(b) = lastLogTerm(a) /\ Len(b) >= Len(a)
    PROVE  HasEntry(b, u, n)
<1> DEFINE G == leaderLog
           s == a[Len(a)].term
           t == b[Len(b)].term
<1>1. /\ Len(a) \in Nat /\ Len(b) \in Nat
      /\ \A k \in 1..Len(a) : a[k].term \in Nat
      /\ \A k \in 1..Len(b) : b[k].term \in Nat
  BY EntryTerms
<1>2. n \in 1..Len(a) /\ a[n].term = u /\ n \in Nat
  BY <1>1 DEF HasEntry
<1>3. \A r \in DOMAIN G : /\ G[r] \in Seq(Entry) /\ FromLeaders(G[r], G)
                          /\ UpTo(G[r], r)
  BY DEF LogInv, LeaderLogs
<1>4. a # << >> /\ lastLogTerm(a) = s /\ Len(a) \in 1..Len(a) /\ s \in Nat
  BY <1>1, <1>2 DEF lastLogTerm
<1>5. s \in DOMAIN G /\ Agree(a, G[s], Len(a))
  BY <1>4 DEF FromLeaders
<1>6. u <= s
  <2>1. n \in 1..Len(G[s]) /\ G[s][n] = a[n]
    BY <1>1, <1>2, <1>5, <1>3, LenProperties DEF Agree
  <2> QED
    BY <1>2, <1>3, <1>5, <2>1 DEF UpTo
<1>7. b # << >> /\ lastLogTerm(b) = t /\ Len(b) \in 1..Len(b) /\ t \in Nat
  <2>1. b # << >>
    BY <1>1, <1>2, <1>4 DEF lastLogTerm
  <2>2. Len(b) # 0
    BY <2>1, EmptySeq
  <2> QED
    BY <1>1, <2>1, <2>2 DEF lastLogTerm
<1>8. t \in DOMAIN G /\ Agree(b, G[t], Len(b))
  BY <1>7 DEF FromLeaders
<1>9. /\ u \in DOMAIN G /\ G[u] \in Seq(Entry) /\ G[t] \in Seq(Entry)
      /\ Agree(a, G[u], n) /\ Len(G[u]) \in Nat /\ Len(G[t]) \in Nat
  BY <1>2, <1>3, <1>8, LenProperties DEF FromLeaders
<1> HIDE DEF G, s, t
<1>10. CASE t = s /\ Len(b) >= Len(a)
  BY <1>1, <1>2, <1>5, <1>8, <1>10 DEF HasEntry, Agree
<1>11. CASE t > s
  <2>1. n \in 1..Len(G[u]) /\ G[u][n].term = u /\ u < t
    BY <1>2, <1>4, <1>6, <1>7, <1>9, <1>11 DEF Agree
  <2>2. n \in 1..Len(G[t]) /\ G[t][n].term = u
    BY <1>8, <1>9, <2>1 DEF LeadersSafe, HasEntry, G
  <2>3. Agree(G[t], G[u], n)
    BY <1>3, <1>8, <2>2 DEF FromLeaders
  <2>4. n <= Len(b)
    <3> SUFFICES ASSUME Len(b) < n PROVE FALSE
      BY <1>1, <1>2
    <3>1. Len(b) \in 1..n /\ Len(b) \in 1..Len(G[u])
      BY <1>1, <1>2, <1>7, <1>9, <2>1
    <3>2. G[u][Len(b)] = b[Len(b)]
      BY <1>7, <1>8, <2>3, <3>1 DEF Agree
    <3>3. t <= u
      BY <1>3, <1>9, <3>1, <3>2 DEF UpTo, t
    <3> QED
      BY <1>7, <2>1, <3>3
  <2>5. n \in 1..Len(b)
    BY <1>1, <1>2, <2>4
  <2> QED
    BY <1>8, <2>2, <2>5 DEF HasEntry, Agree
<1> QED
  BY <1>4, <1>7, <1>10, <1>11

\* The vote a step adds to the record is that of the node that makes it.
LEMMA RecordVotes ==
    ASSUME ElectionInv, Record, NEW i \in Server, Shape(i)
    PROVE  /\ votes \subseteq votes'
           /\ \A x \in votes' : x \notin votes =>
                 /\ x = <<srv'[i].currentTerm, i, srv'[i].votedFor>>
                 /\ srv'[i].votedFor # None
<1>1. votes' = votes \cup {<<srv'[j].currentTerm, j, srv'[j].votedFor>> :
                             j \in {k \in Server : srv'[k].votedFor # None}}
  BY DEF Record
<1>2. \A j \in Server : j # i => srv'[j] = srv[j]
  BY DEF Shape, OthersStay
<1>3. ASSUME NEW j \in Server, j # i, srv'[j].votedFor # None
      PROVE  <<srv'[j].currentTerm, j, srv'[j].votedFor>> \in votes
  BY <1>2, <1>3 DEF ElectionInv, NodesInv, VoteRecorded
<1> QED
  BY <1>1, <1>3

\* A vote new on record was given to a node that asks for it: to itself by a
\* new candidate, or to one whose request shows an up-to-date log.
LEMMA NewVote ==
    ASSUME ElectionInv, Record, NEW i \in Server, Shape(i),
           NEW x \in votes', x \notin votes
    PROVE  /\ x = <<srv'[i].currentTerm, i, srv'[i].votedFor>>
           /\ \/ /\ srv'[i].state = "Candidate" /\ srv'[i].votedFor = i
                 /\ srv'[i].currentTerm = srv[i].currentTerm + 1
              \/ \E m \in net :
                    /\ m.type = "RequestVote" /\ m.to = i
                    /\ m.from = srv'[i].votedFor /\ m.term = srv'[i].currentTerm
                    /\ UpToDate(m, logs[i].log) /\ logs'[i] = logs[i]
<1>1. /\ x = <<srv'[i].currentTerm, i, srv'[i].votedFor>>
      /\ srv'[i].votedFor # None
  BY RecordVotes
<1>2. ~ /\ srv'[i].votedFor = srv[i].votedFor
        /\ srv'[i].currentTerm = srv[i].currentTerm
  BY <1>1 DEF ElectionInv, NodesInv, VoteRecorded
<1> QED
  BY <1>1, <1>2 DEF Shape, VoteStep


\* Nobody is voted for in a term it has not reached, and vote requests keep
\* showing their candidate's log.
LEMMA CastStep ==
    ASSUME TypeInv, TypeInv', ElectionInv, SafeInv, Record,
           NEW i \in Server, Shape(i)
    PROVE  VotesCast' /\ BallotLogs'
<1>1. \A j \in Server : /\ srv[j].currentTerm \in Nat
                        /\ srv'[j].currentTerm \in Nat
                        /\ srv'[j].currentTerm >= srv[j].currentTerm
  BY TermsGrow
<1>2. votes \subseteq Nat \X Server \X Server
  BY DEF ElectionInv, NodesInv, HistoryOK
<1>3. ASSUME NEW m \in net, m.type = "RequestVote"
      PROVE  /\ m.from \in Server /\ m.term \in Nat
             /\ m.term <= srv[m.from].currentTerm
  <2>1. m \in Ballots /\ Ballot(m) = m
    BY <1>3 DEF Ballots, Ballot
  <2>2. m \in RequestVoteRequest
    BY <1>3, MessageByType DEF TypeInv, TypeOK
  <2> QED
    BY <2>1, <2>2 DEF ElectionInv, BallotsOK, RequestVoteRequest
<1>4. ASSUME NEW x \in votes' PROVE x[1] <= srv'[x[3]].currentTerm
  <2>1. CASE x \in votes
    <3>1. x[1] \in Nat /\ x[3] \in Server /\ x[1] <= srv[x[3]].currentTerm
      BY <1>2, <2>1 DEF SafeInv, VotesCast
    <3> QED
      BY <1>1, <3>1
  <2>2. CASE x \notin votes
    <3>1. x = <<srv'[i].currentTerm, i, srv'[i].votedFor>>
      BY <2>2, NewVote
    <3>2. CASE srv'[i].votedFor = i
      BY <1>1, <3>1, <3>2
    <3>3. CASE \E m \in net :
                  /\ m.type = "RequestVote" /\ m.to = i
                  /\ m.from = srv'[i].votedFor /\ m.term = srv'[i].currentTerm
      BY <1>1, <1>3, <3>1, <3>3
    <3> QED
      BY <2>2, <3>2, <3>3, NewVote
  <2> QED
    BY <2>1, <2>2
<1>5. ASSUME NEW m \in net', m.type = "RequestVote",
             srv'[m.from].state = "Candidate",
             m.term = srv'[m.from].currentTerm
      PROVE  /\ m.lastLogIndex = Len(logs'[m.from].log)
             /\ m.lastLogTerm = lastLogTerm(logs'[m.from].log)
  <2>1. CASE m \in net
    <3>1. m.from \in Server /\ m.term <= srv[m.from].currentTerm
      BY <1>3, <1>5, <2>1
    <3>2. ~(srv'[m.from].currentTerm = srv[m.from].currentTerm + 1)
      BY <1>1, <1>5, <3>1
    <3>3. /\ srv[m.from].state = "Candidate"
          /\ srv[m.from].currentTerm = m.term
          /\ logs'[m.from] = logs[m.from]
      BY <1>5, <3>1, <3>2 DEF Shape, OthersStay, RoleStep
    <3> QED
      BY <1>5, <2>1, <3>3 DEF SafeInv, BallotLogs
  <2>2. CASE NewMessage(i, m)
    <3>1. /\ m.from = i /\ srv'[i].state = "Candidate"
          /\ m.lastLogIndex = Len(logs[i].log)
          /\ m.lastLogTerm = lastLogTerm(logs[i].log)
      BY <1>5, <2>2 DEF NewMessage, sendAppendEntriesToPeer
    <3>2. logs'[i] = logs[i]
      BY <3>1 DEF Shape, RoleStep
    <3> QED
      BY <3>1, <3>2
  <2> QED
    BY <2>1, <2>2 DEF Shape
<1> QED
  BY <1>4, <1>5 DEF VotesCast, BallotLogs

\* No node gives up an entry that can still be chosen: only a call cuts a log,
\* and its leader has the entry.
LEMMA HeldStaysStep ==
    ASSUME TypeInv, TypeInv', LogInv, SafeInv, Record, NEW i \in Server,
           Shape(i)
    PROVE  HeldStays'
<1> SUFFICES ASSUME NEW h \in held', CanChoose(h[1], h[3])'
             PROVE  HasEntry(logs'[h[2]].log, h[1], h[3])
  BY DEF HeldStays, HasEntry
<1>1. held' = held \cup {<<srv'[i].currentTerm, i, k>> : k \in OwnNow(i)}
  BY RecordHeld DEF LogInv
<1>2. ASSUME NEW k \in OwnNow(i), h = <<srv'[i].currentTerm, i, k>>
      PROVE  HasEntry(logs'[h[2]].log, h[1], h[3])
  BY <1>2 DEF OwnNow, HasEntry
<1>3. CASE h \in held
  <2> DEFINE t == h[1]
             n == h[3]
             old == logs[i].log
             new == logs'[i].log
  <2>1. /\ t \in Nat /\ h[2] \in Server /\ n \in Nat
        /\ t <= srv[h[2]].currentTerm /\ t \in DOMAIN leaderLog
        /\ n \in 1..Len(leaderLog[t]) /\ leaderLog[t][n].term = t
    BY <1>3 DEF LogInv, HeldOK
  <2>2. CanChoose(t, n)
    BY <2>1, CanChooseShrinks
  <2>3. HasEntry(logs[h[2]].log, t, n)
    BY <1>3, <2>2 DEF SafeInv, HeldStays
  <2>4. CASE h[2] # i
    <3>1. logs'[h[2]] = logs[h[2]]
      BY <2>1, <2>4 DEF Shape, OthersStay
    <3> QED
      BY <2>3, <3>1
  <2>5. CASE h[2] = i
    <3>1. /\ old \in Seq(Entry) /\ new \in Seq(Entry)
          /\ Len(old) \in Nat /\ Len(new) \in Nat
          /\ FromLeaders(old, leaderLog)
      <4>1. old \in Seq(Entry) /\ new \in Seq(Entry)
        BY DEF TypeInv, TypeOK, LogState
      <4> QED
        BY <4>1, LenProperties DEF LogInv, NodeLogs
    <3>2. n \in 1..Len(old) /\ old[n].term = t
      BY <2>3, <2>5 DEF HasEntry
    <3>3. CASE logs'[i] = logs[i]
      BY <2>3, <2>5, <3>3
    <3>4. CASE Appends(i)
      <4>1. Agree(old, new, Len(old))
        BY <3>4, AppendsFacts
      <4> QED
        BY <2>5, <3>1, <3>2, <4>1 DEF HasEntry, Agree
    <3>5. ASSUME NEW m \in net, Accepts(i, m) PROVE HasEntry(new, t, n)
      <4> DEFINE G == leaderLog[m.term]
      <4>1. /\ m.term \in DOMAIN leaderLog /\ G \in Seq(Entry)
            /\ \A k \in Nat : Agree(old, G, k) => Agree(new, G, k)
        BY <3>5, AcceptsFacts
      <4>2. m.term \in Nat /\ t <= m.term
        <5>1. m.term = srv'[i].currentTerm
          BY <3>5 DEF Accepts
        <5> QED
          BY <2>1, <2>5, <5>1, TermsGrow
      <4>3. HasEntry(G, t, n)
        <5> HIDE DEF t, n
        <5>1. CASE t = m.term
          BY <2>1, <5>1 DEF HasEntry
        <5>2. CASE t < m.term
          BY <2>1, <2>2, <4>1, <5>2 DEF SafeInv, LeadersSafe
        <5> QED
          BY <2>1, <4>2, <5>1, <5>2
      <4>4. FromLeaders(G, leaderLog) /\ Len(G) \in Nat
        BY <4>1, LenProperties DEF LogInv, LeaderLogs
      <4> HIDE DEF G, t, n, old
      <4>5. Agree(old, G, n)
        BY <3>1, <3>2, <4>3, <4>4, SameTermAgree DEF HasEntry
      <4>6. n \in Nat
        BY <3>2
      <4>7. Agree(new, G, n)
        BY <4>1, <4>5, <4>6
      <4> HIDE DEF new
      <4> QED
        BY <3>1, <3>2, <4>3, <4>7 DEF HasEntry, Agree
    <3>6. \/ logs'[i] = logs[i]
          \/ Appends(i)
          \/ \E m \in net : Accepts(i, m)
      BY DEF Shape, LogStep
    <3> QED
      BY <2>5, <3>3, <3>4, <3>5, <3>6
  <2> QED
    BY <2>4, <2>5
<1> QED
  BY <1>1, <1>2, <1>3


\* A leader holds every earlier entry that can still be chosen.  A new leader's
\* voters include one that holds it; an entry a leader makes after a later
\* leader was elected can no longer be chosen.
LEMMA LeadersSafeStep ==
    ASSUME TypeInv, TypeInv', ElectionInv, ElectionInv', LogInv, LogInv',
           SafeInv, Record, NEW i \in Server, Shape(i)
    PROVE  LeadersSafe'
<1> DEFINE G == leaderLog
           H == leaderLog'
<1> SUFFICES ASSUME NEW u \in DOMAIN H, NEW t \in DOMAIN H,
                    NEW n \in 1..Len(H[u]), u < t, H[u][n].term = u,
                    CanChoose(u, n)'
             PROVE  HasEntry(H[t], u, n)
  BY DEF LeadersSafe, HasEntry
<1>1. /\ DOMAIN G \subseteq DOMAIN H
      /\ DOMAIN H = {e[1] : e \in elected'}
      /\ \A r \in DOMAIN H :
            \/ r \in DOMAIN G /\ H[r] = G[r]
            \/ /\ srv'[i].state = "Leader" /\ r = srv'[i].currentTerm
               /\ H[r] = logs'[i].log
      /\ \A r \in DOMAIN G : /\ Len(G[r]) \in Nat
                             /\ Agree(G[r], H[r], Len(G[r]))
  BY RecordLeaderLog
<1>2. held' = held \cup {<<srv'[i].currentTerm, i, k>> : k \in OwnNow(i)}
  BY RecordHeld DEF LogInv
<1>3. /\ elected' \subseteq Nat \X Server /\ votes' \subseteq Nat \X Server \X Server
      /\ \A x \in votes' : x[1] <= srv'[x[2]].currentTerm
      /\ \A e \in elected' : Cardinality(Voters(e[1], e[2])') >= majority
  BY DEF ElectionInv, NodesInv, HistoryOK, Majorities, majority
<1>4. u \in Nat /\ t \in Nat /\ \A q \in Server : srv'[q].currentTerm \in Nat
  <2>1. \A e \in elected' : e[1] \in Nat
    BY <1>3
  <2> HIDE DEF H
  <2>2. u \in Nat /\ t \in Nat
    BY <1>1, <2>1
  <2> QED
    BY <2>2 DEF TypeInv, TypeOK, ServerState
<1>5. PICK e \in elected' : e[1] = t
  BY <1>1
<1>6. PICK q \in Server : q \in Voters(t, e[2])' /\ q \in MayHold(u, n)'
  <2>1. Voters(t, e[2])' \subseteq Server /\ MayHold(u, n)' \subseteq Server
    BY DEF Voters, MayHold
  <2>2. Cardinality(MayHold(u, n)') >= majority
    BY DEF CanChoose, majority
  <2>3. Cardinality(Voters(t, e[2])') >= majority
    BY <1>3, <1>5
  <2> QED
    BY <2>1, <2>2, <2>3, MajoritiesMeet
<1>7. /\ <<t, q, e[2]>> \in votes' /\ t <= srv'[q].currentTerm
      /\ <<u, q, n>> \in held'
  <2>1. <<t, q, e[2]>> \in votes'
    BY <1>6 DEF Voters
  <2>2. t <= srv'[q].currentTerm
    BY <1>3, <2>1
  <2>3. ~(srv'[q].currentTerm <= u)
    BY <1>4, <2>2
  <2> QED
    BY <1>6, <2>1, <2>2, <2>3 DEF MayHold
<1>8. <<u, q, n>> \in held
  <2>1. ~(q = i /\ u = srv'[i].currentTerm)
    BY <1>4, <1>7
  <2> QED
    BY <1>2, <1>7, <2>1
<1>9. u \in DOMAIN G /\ n \in 1..Len(G[u]) /\ G[u][n].term = u
  BY <1>8 DEF LogInv, HeldOK
<1>10. CanChoose(u, n)
  BY <1>4, CanChooseShrinks
<1>11. CASE t \in DOMAIN G
  <2>1. HasEntry(G[t], u, n)
    BY <1>9, <1>10, <1>11 DEF SafeInv, LeadersSafe
  <2>2. Len(G[t]) \in Nat /\ Agree(G[t], H[t], Len(G[t]))
    BY <1>1, <1>11
  <2>3. Len(H[t]) \in Nat
    BY LenProperties DEF LogInv, LeaderLogs
  <2> QED
    BY <2>1, <2>2, <2>3 DEF HasEntry, Agree
<1>12. CASE t \notin DOMAIN G
  <2>1. /\ srv'[i].state = "Leader" /\ t = srv'[i].currentTerm
        /\ H[t] = logs'[i].log
    BY <1>1, <1>12
  <2>2. /\ srv'[i].currentTerm = srv[i].currentTerm
        /\ logs'[i] = logs[i] \/ Appends(i)
        /\ srv[i].state \in {"Candidate", "Leader"}
    BY <2>1, LeaderLogGrows
  <2>3. srv[i].state # "Leader"
    <3>1. DOMAIN G = {f[1] : f \in elected}
      BY DEF LogInv, LeaderLogs
    <3>2. <<t, i>> \notin elected
      <4>1. \A f \in elected : f[1] # t
        BY <1>12, <3>1
      <4>2. <<t, i>>[1] = t
        OBVIOUS
      <4> QED
        BY <4>1, <4>2
    <3> QED
      BY <2>1, <2>2, <3>2 DEF ElectionInv, NodesInv, VoteRecorded
  <2>4. srv[i].state = "Candidate" /\ logs'[i] = logs[i]
    BY <2>2, <2>3 DEF Appends
  <2>5. <<t, i>> \in elected'
    BY <2>1 DEF ElectionInv, NodesInv, VoteRecorded
  <2>6. e[2] = i
    <3>1. ElectionSafety'
      <4>1. NodesInv'
        BY DEF ElectionInv
      <4> QED
        BY <4>1, NodesInvSafe, PTL
    <3>2. e = <<t, i>>
      BY <1>5, <2>5, <3>1 DEF ElectionSafety
    <3> QED
      BY <3>2
  <2>7. <<t, q, i>> \in votes
    <3>1. CASE <<t, q, i>> \in votes
      BY <3>1
    <3>2. CASE q = i
      BY <2>1, <2>2, <2>4, <3>2, ServerAssumption
         DEF ElectionInv, NodesInv, VoteRecorded
    <3> QED
      BY <1>7, <2>6, <3>1, <3>2, RecordVotes
  <2>8. HasEntry(logs[i].log, u, n)
    BY <1>8, <1>10, <2>1, <2>2, <2>4, <2>7 DEF SafeInv, VotesSafe
  <2> QED
    BY <2>1, <2>4, <2>8
<1> QED
  BY <1>11, <1>12

\* A candidate holds what its voters hold and can still be chosen: they gave
\* their votes to an up-to-date log.
LEMMA VotesSafeStep ==
    ASSUME TypeInv, TypeInv', ElectionInv, ElectionInv', LogInv, SafeInv,
           HeldStays', Record, NEW i \in Server, Shape(i)
    PROVE  VotesSafe'
<1> SUFFICES ASSUME NEW c \in Server, srv'[c].state = "Candidate",
                    NEW x \in votes', x[1] = srv'[c].currentTerm, x[3] = c,
                    NEW h \in held', h[2] = x[2],
                    h[1] < srv'[c].currentTerm, CanChoose(h[1], h[3])'
             PROVE  HasEntry(logs'[c].log, h[1], h[3])
  BY DEF VotesSafe, HasEntry
<1>1. held' = held \cup {<<srv'[i].currentTerm, i, k>> : k \in OwnNow(i)}
  BY RecordHeld DEF LogInv
<1>2. \A j \in Server : /\ srv[j].currentTerm \in Nat
                        /\ srv'[j].currentTerm \in Nat
                        /\ srv'[j].currentTerm >= srv[j].currentTerm
  BY TermsGrow
<1>3. x[1] <= srv'[x[2]].currentTerm
  BY DEF ElectionInv, NodesInv, HistoryOK
<1>4. CASE c = i /\ srv'[i].currentTerm = srv[i].currentTerm + 1
  <2>1. x \notin votes
    BY <1>2, <1>4 DEF SafeInv, VotesCast
  <2>2. x[2] = i
    BY <2>1, RecordVotes
  <2> QED
    BY <1>4, <2>2 DEF HeldStays, HasEntry
<1>5. CASE /\ srv[c].state = "Candidate"
           /\ srv'[c].currentTerm = srv[c].currentTerm
           /\ logs'[c] = logs[c]
  <2>1. h \in held
    <3>1. ~(h[1] = srv'[i].currentTerm /\ h[2] = i)
      BY <1>2, <1>3
    <3> QED
      BY <1>1, <3>1
  <2>2. h[1] \in Nat /\ h[3] \in Nat /\ h[2] \in Server
    BY <2>1 DEF LogInv, HeldOK
  <2>3. CanChoose(h[1], h[3])
    BY <2>2, CanChooseShrinks
  <2>4. CASE x \in votes
    BY <1>5, <2>1, <2>3, <2>4 DEF SafeInv, VotesSafe
  <2>5. CASE x \notin votes
    <3>1. x = <<srv'[i].currentTerm, i, srv'[i].votedFor>>
      BY <2>5, NewVote
    <3>2. srv'[i].votedFor = c /\ x[2] = i /\ srv'[i].currentTerm = srv[c].currentTerm
      BY <1>5, <3>1
    <3>3. ~(srv'[i].votedFor = i /\ srv'[i].currentTerm = srv[i].currentTerm + 1)
      BY <1>2, <1>5, <3>2
    <3>4. PICK m \in net :
              /\ m.type = "RequestVote" /\ m.to = i
              /\ m.from = srv'[i].votedFor /\ m.term = srv'[i].currentTerm
              /\ UpToDate(m, logs[i].log) /\ logs'[i] = logs[i]
      BY <2>5, <3>3, NewVote
    <3>5. /\ m.lastLogIndex = Len(logs[c].log)
          /\ m.lastLogTerm = lastLogTerm(logs[c].log)
      BY <1>5, <3>2, <3>4 DEF SafeInv, BallotLogs
    <3>6. HasEntry(logs[i].log, h[1], h[3])
      BY <2>1, <2>3, <3>2 DEF SafeInv, HeldStays
    <3> DEFINE a == logs[i].log
               b == logs[c].log
    <3>7. /\ a \in Seq(Entry) /\ b \in Seq(Entry)
          /\ FromLeaders(a, leaderLog) /\ FromLeaders(b, leaderLog)
      BY DEF TypeInv, TypeOK, LogState, LogInv, NodeLogs
    <3>8. \/ lastLogTerm(b) > lastLogTerm(a)
          \/ lastLogTerm(b) = lastLogTerm(a) /\ Len(b) >= Len(a)
      BY <3>4, <3>5 DEF UpToDate
    <3> HIDE DEF a, b
    <3>9. HasEntry(a, h[1], h[3])
      BY <3>6 DEF a
    <3>10. HasEntry(b, h[1], h[3])
      BY <2>2, <2>3, <3>7, <3>8, <3>9, UpToDateKeeps DEF SafeInv
    <3> QED
      BY <1>5, <3>10 DEF b
  <2> QED
    BY <2>4, <2>5
<1> QED
  BY <1>4, <1>5 DEF Shape, OthersStay, RoleStep


\* Every step keeps what can be chosen safe.
LEMMA NextSafeInv ==
    ASSUME TypeInv, TypeInv', ElectionInv, ElectionInv', LogInv, LogInv',
           SafeInv, Record, NEW i \in Server, Shape(i)
    PROVE  SafeInv'
<1>1. LeadersSafe'
  BY LeadersSafeStep
<1>2. HeldStays'
  BY HeldStaysStep
<1>3. VotesSafe'
  BY <1>2, VotesSafeStep
<1>4. VotesCast' /\ BallotLogs'
  BY CastStep
<1> QED
  BY <1>1, <1>2, <1>3, <1>4 DEF SafeInv

-----------------------------------------------------------------------------
(* What is committed *)

\* A chosen entry stands, with all before it, in the log of every leader of its
\* term and of later ones.
ChosenOrder ==
    \A h \in held : \A t \in DOMAIN leaderLog :
        Chosen(h[1], h[3]) /\ h[1] <= t
            => Agree(leaderLog[h[1]], leaderLog[t], h[3])

LEMMA ChosenOrdered ==
    ASSUME LogInv, SafeInv, elected \subseteq Nat \X Server
    PROVE  ChosenOrder
<1> SUFFICES ASSUME NEW h \in held, NEW t \in DOMAIN leaderLog,
                    Chosen(h[1], h[3]), h[1] <= t
             PROVE  Agree(leaderLog[h[1]], leaderLog[t], h[3])
  BY DEF ChosenOrder
<1> DEFINE u == h[1]
           n == h[3]
           a == leaderLog[u]
           b == leaderLog[t]
<1>1. /\ u \in Nat /\ n \in Nat /\ u \in DOMAIN leaderLog
      /\ n \in 1..Len(a) /\ a[n].term = u
  BY DEF LogInv, HeldOK
<1>2. /\ a \in Seq(Entry) /\ b \in Seq(Entry)
      /\ FromLeaders(a, leaderLog) /\ FromLeaders(b, leaderLog)
  BY <1>1 DEF LogInv, LeaderLogs
<1>3. Len(a) \in Nat /\ Len(b) \in Nat
  BY <1>2, LenProperties
<1>4. t \in Nat
  <2>1. DOMAIN leaderLog = {e[1] : e \in elected}
    BY DEF LogInv, LeaderLogs
  <2>2. \A e \in elected : e[1] \in Nat
    OBVIOUS
  <2> QED
    BY <2>1, <2>2
<1>5. CASE u = t
  BY <1>1, <1>3, <1>5 DEF Agree
<1>6. CASE u < t
  <2>1. CanChoose(u, n)
    BY ChosenCanBe
  <2>2. HasEntry(b, u, n)
    BY <1>1, <1>6, <2>1 DEF SafeInv, LeadersSafe
  <2> HIDE DEF a, b, u, n
  <2>3. Agree(a, b, n)
    BY <1>1, <1>2, <1>3, <2>2, SameTermAgree DEF HasEntry
  <2> QED
    BY <2>3 DEF a, b, u, n
<1> QED
  BY <1>1, <1>4, <1>5, <1>6

\* Of two prefixes that precede chosen entries, one is the start of the other.
LEMMA BackedAgree ==
    ASSUME NEW lead, NEW a, NEW b, NEW c \in Nat, NEW d \in Nat, c <= d,
           NEW t \in Nat, NEW n \in Nat, NEW u \in Nat, NEW k \in Nat,
           c <= n, d <= k, Agree(a, lead[t], c), Agree(b, lead[u], d),
           Len(a) \in Nat, Len(b) \in Nat,
           Len(lead[t]) \in Nat, Len(lead[u]) \in Nat,
           t <= u => Agree(lead[t], lead[u], n),
           u <= t => Agree(lead[u], lead[t], k)
    PROVE  Agree(a, b, c)
<1>1. CASE t <= u
  BY <1>1 DEF Agree
<1>2. CASE u <= t
  BY <1>2 DEF Agree
<1> QED
  BY <1>1, <1>2

\* SafePrefix after a step, of a log and a term given as they are then.
SafeNext(log, c, t) ==
    c = 0 \/ \E h \in held' : /\ h[1] <= t /\ Chosen(h[1], h[3])' /\ c <= h[3]
                              /\ Agree(log, leaderLog'[h[1]], c)

\* A backing entry stays one.
LEMMA BackingStays ==
    ASSUME TypeInv, TypeInv', ElectionInv, ElectionInv', LogInv, LogInv',
           Record, NEW i \in Server, Shape(i), held \subseteq held',
           NEW h \in held, NEW log, NEW c \in Nat, Backed(h, log, c)
    PROVE  /\ h \in held' /\ Chosen(h[1], h[3])' /\ c <= h[3]
           /\ Agree(log, leaderLog'[h[1]], c)
<1> DEFINE t == h[1]
           a == leaderLog[t]
           b == leaderLog'[t]
<1>1. /\ Chosen(t, h[3]) /\ c <= h[3] /\ Agree(log, a, c)
      /\ t \in DOMAIN leaderLog
  BY DEF Backed, LogInv, HeldOK
<1>2. /\ Len(a) \in Nat /\ Agree(a, b, Len(a)) /\ t \in DOMAIN leaderLog'
  BY <1>1, RecordLeaderLog
<1>3. Len(b) \in Nat
  BY <1>2, LenProperties DEF LogInv, LeaderLogs
<1>4. Chosen(t, h[3])'
  BY <1>1, ChosenStays
<1> HIDE DEF a, b
<1>5. Agree(log, b, c)
  BY <1>1, <1>2, <1>3 DEF Agree
<1> QED
  BY <1>1, <1>4, <1>5 DEF b


\* So does a prefix that precedes one, in any log that has it, for any later
\* term.
LEMMA SafePrefixStays ==
    ASSUME TypeInv, TypeInv', ElectionInv, ElectionInv', LogInv, LogInv',
           Record, NEW i \in Server, Shape(i), held \subseteq held',
           NEW log, NEW more, NEW c \in Nat, NEW s \in Nat, NEW t \in Nat,
           SafePrefix(log, c, s), s <= t, Agree(more, log, c)
    PROVE  SafeNext(more, c, t)
<1>1. CASE c = 0
  BY <1>1 DEF SafeNext
<1>2. ASSUME NEW h \in held, h[1] <= s, Backed(h, log, c)
      PROVE  SafeNext(more, c, t)
  <2>1. /\ h \in held' /\ Chosen(h[1], h[3])' /\ c <= h[3]
        /\ Agree(log, leaderLog'[h[1]], c)
    BY <1>2, BackingStays
  <2>2. h[1] \in Nat
    BY DEF LogInv, HeldOK
  <2>3. h[1] <= t
    BY <1>2, <2>2
  <2>4. Agree(more, leaderLog'[h[1]], c)
    BY <2>1 DEF Agree
  <2> QED
    BY <2>1, <2>3, <2>4 DEF SafeNext
<1> QED
  BY <1>1, <1>2 DEF SafePrefix

\* applyCommittedEntries after commitIndex was raised to n: what was sent
\* becomes the first n entries.
LEMMA ApplyMore ==
    ASSUME NEW a \in ApplyState, NEW log \in Seq(Entry), NEW n \in Nat,
           n <= Len(log), a.commitIndex < n, a.lastApplied = a.commitIndex,
           Len(a.applyCh) = a.commitIndex,
           \A k \in 1..a.commitIndex : a.applyCh[k] = log[k],
           NEW b, b = applyCommittedEntries([a EXCEPT !.commitIndex = n], log)
    PROVE  /\ b.commitIndex = n /\ b.lastApplied = n /\ Len(b.applyCh) = n
           /\ \A k \in 1..n : b.applyCh[k] = log[k]
           /\ IsPrefix(a.applyCh, b.applyCh)
<1> DEFINE c    == a.commitIndex
           old  == a.applyCh
           more == SubSeq(log, c + 1, n)
<1>1. c \in Nat /\ old \in Seq(Entry) /\ Len(old) = c
  BY DEF ApplyState
<1>2. /\ b.commitIndex = n /\ b.lastApplied = n /\ b.applyCh = old \o more
  BY <1>1 DEF applyCommittedEntries, ApplyState
<1>3. Len(log) \in Nat
  BY LenProperties
<1>4. /\ more \in Seq(Entry) /\ Len(more) = n - c
      /\ \A k \in 1..(n - c) : more[k] = log[c + k]
  <2>1. \A k \in (c + 1)..n : log[k] \in Entry
    BY <1>1, <1>3, ElementOfSeq
  <2> DEFINE d == c + 1
  <2>2. d \in Int /\ \A k \in d..n : log[k] \in Entry
    BY <1>1, <2>1
  <2> HIDE DEF d
  <2>3. /\ SubSeq(log, d, n) \in Seq(Entry)
        /\ Len(SubSeq(log, d, n)) = IF d <= n THEN n - d + 1 ELSE 0
        /\ \A k \in 1..(n - d + 1) : SubSeq(log, d, n)[k] = log[d + k - 1]
    BY <2>2, SubSeqProperties
  <2>4. d <= n /\ n - d + 1 = n - c /\ \A k \in 1..(n - c) : d + k - 1 = c + k
    BY <1>1 DEF d
  <2>5. SubSeq(log, d, n) = more
    BY DEF d
  <2> HIDE DEF more, c
  <2> QED
    BY <2>3, <2>4, <2>5
<1> HIDE DEF c, old, more
<1>5. /\ Len(old \o more) = Len(old) + Len(more)
      /\ \A k \in 1..(Len(old) + Len(more)) : (old \o more)[k]
            = IF k <= Len(old) THEN old[k] ELSE more[k - Len(old)]
  BY <1>1, <1>4, ConcatProperties
<1>6. Len(b.applyCh) = n
  <2>1. Len(b.applyCh) = Len(old) + Len(more)
    BY <1>2, <1>5, Zenon
  <2> QED
    BY <1>1, <1>4, <2>1
<1>7. ASSUME NEW k \in 1..n PROVE b.applyCh[k] = log[k]
  <2>1. b.applyCh[k] = IF k <= Len(old) THEN old[k] ELSE more[k - Len(old)]
    <3>1. k \in 1..(Len(old) + Len(more))
      BY <1>1, <1>4
    <3> QED
      BY <1>2, <1>5, <3>1
  <2>2. CASE k <= c
    BY <1>1, <2>1, <2>2 DEF c, old
  <2>3. CASE k > c
    <3>1. k - c \in 1..(n - c) /\ c + (k - c) = k
      BY <1>1, <2>3
    <3> QED
      BY <1>1, <1>4, <2>1, <2>3, <3>1
  <2> QED
    BY <1>1, <2>2, <2>3
<1>8. IsPrefix(old, b.applyCh)
  BY <1>1, <1>2, <1>4, PrefixOfConcat
<1> QED
  BY <1>2, <1>6, <1>7, <1>8 DEF old

\* A log keeps its committed prefix: a call that cuts it comes from a leader
\* that has the prefix.
LEMMA KeepsCommitted ==
    ASSUME TypeInv, TypeInv', ElectionInv, LogInv, SafeInv, NodeCommits,
           NEW i \in Server, Shape(i)
    PROVE  Agree(logs'[i].log, logs[i].log, app[i].commitIndex)
<1> DEFINE c   == app[i].commitIndex
           old == logs[i].log
           new == logs'[i].log
<1>1. /\ old \in Seq(Entry) /\ new \in Seq(Entry) /\ c \in Nat
      /\ c <= Len(old) /\ SafePrefix(old, c, srv[i].currentTerm)
  BY DEF TypeInv, TypeOK, LogState, ApplyState, NodeCommits
<1>2. Len(old) \in Nat /\ Len(new) \in Nat
  BY <1>1, LenProperties
<1>3. CASE logs'[i] = logs[i]
  BY <1>1, <1>2, <1>3 DEF Agree
<1>4. CASE Appends(i)
  <2>1. Agree(old, new, Len(old))
    BY <1>4, AppendsFacts
  <2> HIDE DEF c, old, new
  <2>2. Agree(new, old, c)
    BY <1>1, <1>2, <2>1 DEF Agree
  <2> QED
    BY <2>2 DEF c, old, new
<1>5. ASSUME NEW m \in net, Accepts(i, m) PROVE Agree(new, old, c)
  <2> DEFINE G == leaderLog[m.term]
  <2>1. /\ m.term \in DOMAIN leaderLog
        /\ \A n \in Nat : Agree(old, G, n) => Agree(new, G, n)
    BY <1>5, AcceptsFacts
  <2>2. Agree(old, G, c)
    <3>1. CASE c = 0
      <4>1. Len(G) \in Nat
        BY <2>1, LenProperties DEF LogInv, LeaderLogs
      <4> QED
        BY <1>2, <3>1, <4>1 DEF Agree
    <3>2. ASSUME NEW h \in held, h[1] <= srv[i].currentTerm, Backed(h, old, c)
          PROVE  Agree(old, G, c)
      <4>1. h[1] \in Nat /\ srv[i].currentTerm \in Nat
        BY DEF LogInv, HeldOK, TypeInv, TypeOK, ServerState
      <4>2. m.term \in Nat /\ m.term >= srv[i].currentTerm
        BY <1>5, TermsGrow DEF Accepts
      <4>3. h[1] <= m.term
        BY <3>2, <4>1, <4>2
      <4>4. ChosenOrder
        BY ChosenOrdered DEF ElectionInv, NodesInv, HistoryOK
      <4>5. Chosen(h[1], h[3]) /\ c <= h[3] /\ Agree(old, leaderLog[h[1]], c)
        BY <3>2 DEF Backed
      <4>6. Agree(leaderLog[h[1]], G, h[3])
        BY <2>1, <4>3, <4>4, <4>5 DEF ChosenOrder
      <4>7. h[3] \in Nat
        BY DEF LogInv, HeldOK
      <4>8. Len(G) \in Nat
        BY <2>1, LenProperties DEF LogInv, LeaderLogs
      <4> HIDE DEF c, old, G
      <4> QED
        BY <1>1, <4>5, <4>6, <4>7, <4>8 DEF Agree
    <3>3. c = 0 \/ \E h \in held : h[1] <= srv[i].currentTerm
                                   /\ Backed(h, old, c)
      BY <1>1 DEF SafePrefix
    <3> QED
      BY <3>1, <3>2, <3>3
  <2> HIDE DEF c, old, new, G
  <2>3. Agree(new, G, c)
    BY <1>1, <2>1, <2>2
  <2> QED
    BY <2>2, <2>3, AgreeThrough
<1>6. \/ logs'[i] = logs[i]
      \/ Appends(i)
      \/ \E m \in net : Accepts(i, m)
  BY DEF Shape, LogStep
<1> QED
  BY <1>3, <1>4, <1>5, <1>6


\* The step raises node i's commitIndex to n, over a prefix that is safe then,
\* and sends the entries on.
CommitsTo(i, n) ==
    /\ app[i].commitIndex < n /\ n <= Len(logs'[i].log)
    /\ SafeNext(logs'[i].log, n, srv'[i].currentTerm)
    /\ app'[i] = applyCommittedEntries([app[i] EXCEPT !.commitIndex = n],
                                       logs'[i].log)

\* An entry of its own term that a leader counts on a majority is chosen.
LEMMA CountedIsChosen ==
    ASSUME TypeInv', LogInv', NEW i \in Server, srv'[i].state = "Leader",
           NEW t \in Nat, t = srv'[i].currentTerm,
           NEW n \in 1..Len(logs'[i].log), logs'[i].log[n].term = t,
           NEW P, P = {p \in Peers(i) : matchIndex'[i][p] >= n},
           Cardinality(P) + 1 >= majority
    PROVE  SafeNext(logs'[i].log, n, t)
<1>1. leaderLog'[t] = logs'[i].log
  BY DEF LogInv, NodeLogs
<1>2. Len(logs'[i].log) \in Nat /\ matchIndex'[i] \in [Server -> Nat]
  BY LenProperties DEF TypeInv, TypeOK, LogState
<1>3. <<t, i, n>> \in held'
  BY DEF LogInv, HeldOK
<1>4. ASSUME NEW p \in P PROVE <<t, p, n>> \in held'
  <2>1. p \in Peers(i) /\ matchIndex'[i][p] >= n /\ matchIndex'[i][p] \in Nat
    BY <1>2 DEF Peers
  <2>2. \A k \in 1..matchIndex'[i][p] : leaderLog'[t][k].term = t
           => <<t, p, k>> \in held'
    BY <2>1 DEF LogInv, MatchesTrue, Acked, Peers
  <2>3. n \in 1..matchIndex'[i][p]
    BY <1>2, <2>1
  <2> QED
    BY <1>1, <2>2, <2>3
<1>5. Chosen(t, n)'
  <2> DEFINE Q == P \cup {i}
             R == Holders(t, n)'
  <2>1. P \subseteq Server /\ i \notin P
    BY DEF Peers
  <2>2. IsFiniteSet(P)
    BY <2>1, ServerAssumption, FS_Subset
  <2>3. Cardinality(Q) = Cardinality(P) + 1
    BY <2>1, <2>2, FS_AddElement
  <2>4. Q \subseteq R /\ R \subseteq Server
    BY <1>3, <1>4, <2>1 DEF Holders
  <2> HIDE DEF Q, R
  <2>5. /\ Cardinality(Q) \in Nat /\ Cardinality(R) \in Nat
        /\ Cardinality(Q) <= Cardinality(R)
    BY <2>4, CardinalityMonotone
  <2>6. Cardinality(P) \in Nat
    BY <2>2, FS_CardinalityType
  <2>7. Cardinality(R) >= majority
    BY <2>3, <2>5, <2>6, MajorityNat
  <2> QED
    BY <2>7 DEF Chosen, R, majority
<1>6. PICK h \in held' : h[1] = t /\ h[3] = n
  BY <1>3
<1>7. h[1] <= t /\ n <= h[3] /\ Chosen(h[1], h[3])'
  BY <1>2, <1>5, <1>6
<1>8. Agree(logs'[i].log, leaderLog'[h[1]], n)
  BY <1>1, <1>2, <1>6 DEF Agree
<1> QED
  BY <1>7, <1>8 DEF SafeNext

\* A leader commits an entry of its term that a majority holds.
LEMMA LeaderCommits ==
    ASSUME TypeInv, TypeInv', LogInv', NEW i \in Server, Commits(i),
           logs'[i] = logs[i]
    PROVE  app'[i] = app[i] \/ \E n \in Nat : CommitsTo(i, n)
<1> DEFINE a == app[i]
           log == logs[i].log
           t == srv[i].currentTerm
           match == matchIndex'[i]
           C == Committable(i, a, log, t, match)
           top == CHOOSE k \in C : \A j \in C : j <= k
<1>1. /\ a.commitIndex \in Nat /\ log \in Seq(Entry) /\ t \in Nat
  BY DEF TypeInv, TypeOK, ApplyState, LogState, ServerState
<1>2. Len(log) \in Nat
  BY <1>1, LenProperties
<1>3. app'[i] = IF C = {} THEN a
                ELSE applyCommittedEntries([a EXCEPT !.commitIndex = top], log)
  BY DEF Commits, advanceCommitIndex
<1>4. CASE C = {}
  BY <1>3, <1>4
<1>5. CASE C # {}
  <2>1. C \subseteq 0..Len(log)
    BY <1>1, <1>2 DEF Committable
  <2>2. top \in C
    <3>1. \E k \in C : \A j \in C : j <= k
      BY <1>2, <1>5, <2>1, GreatestOf
    <3> QED
      BY <3>1
  <2>3. PICK n \in C : n = top
    BY <2>2
  <2>4. /\ n \in a.commitIndex + 1 .. Len(log) /\ log[n].term = t
        /\ Cardinality({p \in Peers(i) : match[p] >= n}) + 1 >= majority
    BY DEF Committable
  <2> HIDE DEF C, top
  <2>5. n \in Nat /\ n \in 1..Len(log) /\ a.commitIndex < n /\ n <= Len(log)
    BY <1>1, <1>2, <2>4
  <2>6. /\ srv'[i].state = "Leader" /\ srv'[i].currentTerm = t
        /\ logs'[i].log = log
    BY DEF Commits
  <2>7. SafeNext(log, n, t)
    BY <1>1, <2>4, <2>5, <2>6, CountedIsChosen
  <2>8. app'[i] = applyCommittedEntries([a EXCEPT !.commitIndex = n], log)
    BY <1>3, <1>5, <2>3
  <2>9. CommitsTo(i, n)
    BY <2>5, <2>6, <2>7, <2>8 DEF CommitsTo
  <2> QED
    BY <2>5, <2>9
<1> QED
  BY <1>4, <1>5

\* A follower commits what the call covers and confirms.
LEMMA FollowerCommits ==
    ASSUME TypeInv, TypeInv', ElectionInv, ElectionInv', LogInv, LogInv',
           CallCommits, Record, NEW i \in Server, Shape(i), held \subseteq held',
           NEW m \in net, Accepts(i, m)
    PROVE  app'[i] = app[i] \/ \E n \in Nat : CommitsTo(i, n)
<1> DEFINE a == app[i]
           log == logs'[i].log
           n == m.leaderCommit
           G == leaderLog[m.term]
<1>1. m.type = "AppendEntries" /\ m \in AppendEntriesRequest
  BY MessageByType DEF Accepts, TypeInv, TypeOK
<1>2. /\ n \in Nat /\ m.term \in Nat /\ log \in Seq(Entry)
      /\ a.commitIndex \in Nat /\ srv'[i].currentTerm = m.term
  BY <1>1 DEF AppendEntriesRequest, TypeInv, TypeOK, LogState, ApplyState,
              Accepts
<1>3. /\ LastOf(m) \in Nat /\ LastOf(m) <= Len(G) /\ G \in Seq(Entry)
      /\ Agree(log, G, LastOf(m))
  BY AcceptsFacts
<1>4. n <= LastOf(m) /\ SafePrefix(G, n, m.term)
  BY <1>1 DEF CallCommits
<1>5. Len(log) \in Nat /\ Len(G) \in Nat
  BY <1>2, <1>3, LenProperties
<1>6. app'[i] = IF n > a.commitIndex
                THEN applyCommittedEntries(
                       [a EXCEPT !.commitIndex = minOf(n, Len(log))], log)
                ELSE a
  BY DEF Accepts, updateCommitIndex
<1> HIDE DEF log, n, G
<1>7. Agree(log, G, n) /\ n <= Len(log)
  BY <1>2, <1>3, <1>4, <1>5 DEF Agree
<1>8. SafeNext(log, n, m.term)
  BY <1>2, <1>4, <1>7, SafePrefixStays
<1>9. minOf(n, Len(log)) = n
  BY <1>2, <1>5, <1>7 DEF minOf
<1>10. CASE n > a.commitIndex
  <2>1. app'[i] = applyCommittedEntries([a EXCEPT !.commitIndex = n], log)
    BY <1>6, <1>9, <1>10
  <2>2. CommitsTo(i, n)
    BY <1>2, <1>7, <1>8, <1>10, <2>1 DEF CommitsTo, log
  <2> QED
    BY <1>2, <2>2
<1>11. CASE ~(n > a.commitIndex)
  BY <1>6, <1>11
<1> QED
  BY <1>10, <1>11

\* Nothing else moves a commitIndex.
LEMMA CommitStep ==
    ASSUME TypeInv, TypeInv', ElectionInv, ElectionInv', LogInv, LogInv',
           CallCommits, Record, NEW i \in Server, Shape(i), held \subseteq held'
    PROVE  app'[i] = app[i] \/ \E n \in Nat : CommitsTo(i, n)
<1>1. CASE app'[i] = app[i] \/ Appends(i)
  BY <1>1 DEF Appends
<1>2. CASE logs'[i] = logs[i] /\ Commits(i)
  BY <1>2, LeaderCommits
<1>3. ASSUME NEW m \in net, Accepts(i, m)
      PROVE  app'[i] = app[i] \/ \E n \in Nat : CommitsTo(i, n)
  BY <1>3, FollowerCommits
<1> QED
  BY <1>1, <1>2, <1>3 DEF Shape, LogStep


\* There are finitely many nodes, so numbers they have are bounded.
LEMMA BoundedOverServers ==
    ASSUME NEW f \in [Server -> Nat]
    PROVE  \E N \in Nat : \A q \in Server : f[q] <= N
<1>1. PICK n \in Nat : ExistsBijection(1..n, Server)
  BY ServerAssumption, FS_NatBijection
<1>2. PICK e \in Bijection(1..n, Server) : TRUE
  BY <1>1 DEF ExistsBijection
<1>3. /\ e \in [1..n -> Server]
      /\ \A q \in Server : \E k \in 1..n : e[k] = q
  BY <1>2 DEF Bijection, Injection, Surjection, IsInjective
<1> DEFINE B == {m \in 0..n : ~ \E N \in Nat : \A k \in 1..m : f[e[k]] <= N}
<1>4. B = {}
  <2> SUFFICES ASSUME B # {} PROVE FALSE
    OBVIOUS
  <2>1. B \subseteq Nat
    OBVIOUS
  <2>2. PICK m \in B : \A j \in B : m <= j
    BY <2>1, LeastOf
  <2>3. m # 0
    <3>1. \A k \in 1..0 : f[e[k]] <= 0
      OBVIOUS
    <3> QED
      BY <3>1
  <2>4. m - 1 \in 0..n /\ ~(m <= m - 1) /\ m \in 1..n
    BY <2>3
  <2>5. PICK N \in Nat : \A k \in 1..(m - 1) : f[e[k]] <= N
    BY <2>2, <2>4
  <2>6. e[m] \in Server /\ f[e[m]] \in Nat
    BY <1>3, <2>4
  <2>7. PICK M \in Nat : N <= M /\ f[e[m]] <= M
    <3> DEFINE v == f[e[m]]
    <3>1. v \in Nat
      BY <2>6
    <3> HIDE DEF v
    <3>2. \E M \in Nat : N <= M /\ v <= M
      <4> HIDE DEF B
      <4>1. CASE N <= v
        BY <3>1, <4>1
      <4>2. CASE v <= N
        BY <4>2
      <4> QED
        BY <3>1, <4>1, <4>2
    <3> QED
      BY <3>2 DEF v
  <2>8. ASSUME NEW k \in 1..m PROVE f[e[k]] <= M
    <3>1. k \in 1..n /\ f[e[k]] \in Nat
      <4> HIDE DEF B
      <4>1. k \in 1..n
        BY <2>4
      <4> QED
        BY <1>3, <4>1
    <3>2. CASE k = m
      BY <2>7, <3>2
    <3>3. CASE k # m
      <4>1. k \in 1..(m - 1)
        BY <2>4, <3>3
      <4>2. f[e[k]] <= N
        BY <2>5, <4>1
      <4> DEFINE v == f[e[k]]
      <4> HIDE DEF v, B
      <4>3. v \in Nat /\ v <= N /\ N <= M
        BY <2>7, <3>1, <4>2 DEF v
      <4>4. v <= M
        BY <4>3
      <4> QED
        BY <4>4 DEF v
    <3> QED
      BY <3>2, <3>3
  <2> QED
    BY <2>7, <2>8
<1>5. n \in 0..n
  OBVIOUS
<1>6. PICK N \in Nat : \A k \in 1..n : f[e[k]] <= N
  BY <1>4, <1>5
<1> QED
  BY <1>3, <1>6

\* The record of committed entries after a step: as before, or the longest
\* committed prefix of a node.
LEMMA RecordCommitted ==
    ASSUME TypeInv', Record, committedLog \in Seq(Entry),
           \A j \in Server : app'[j].commitIndex <= Len(logs'[j].log)
    PROVE  /\ committedLog' \in Seq(Entry)
           /\ Len(committedLog) <= Len(committedLog')
           /\ \A j \in Server : app'[j].commitIndex <= Len(committedLog')
           /\ \/ committedLog' = committedLog
              \/ \E j \in Server :
                    /\ app'[j].commitIndex > 0
                    /\ Len(committedLog') = app'[j].commitIndex
                    /\ Agree(committedLog', logs'[j].log, app'[j].commitIndex)
<1> DEFINE c(j) == app'[j].commitIndex
           n == Len(committedLog)
           longer == {j \in Server : c(j) > n}
           top == CHOOSE j \in longer : \A k \in longer : c(k) <= c(j)
<1>1. n \in Nat /\ \A j \in Server : /\ c(j) \in Nat
                                     /\ logs'[j].log \in Seq(Entry)
  BY LenProperties DEF TypeInv, TypeOK, ApplyState, LogState
<1>2. committedLog' = IF longer = {} THEN committedLog
                      ELSE SubSeq(logs'[top].log, 1, c(top))
  BY DEF Record
<1>3. CASE longer = {}
  <2>1. committedLog' = committedLog
    BY <1>2, <1>3
  <2>2. \A j \in Server : c(j) <= n
    BY <1>1, <1>3
  <2> QED
    BY <1>1, <2>1, <2>2
<1>4. CASE longer # {}
  <2>1. \E j \in longer : \A k \in longer : c(k) <= c(j)
    <3> DEFINE f == [j \in Server |-> c(j)]
               C == {c(j) : j \in longer}
    <3>1. f \in [Server -> Nat]
      BY <1>1
    <3>2. PICK N \in Nat : \A q \in Server : f[q] <= N
      BY <3>1, BoundedOverServers
    <3>3. \A j \in Server : c(j) \in 0..N
      BY <1>1, <3>2
    <3> HIDE DEF f
    <3>4. C \subseteq 0..N /\ C # {}
      BY <1>4, <3>3
    <3>5. PICK k \in C : \A j \in C : j <= k
      BY <3>4, GreatestOf
    <3> QED
      BY <3>5
  <2>2. top \in longer /\ \A k \in longer : c(k) <= c(top)
    BY <2>1
  <2> HIDE DEF top
  <2>3. top \in Server /\ c(top) \in Nat /\ c(top) > n /\ c(top) <= Len(logs'[top].log)
    BY <1>1, <2>2
  <2>4. committedLog' = SubSeq(logs'[top].log, 1, c(top))
    BY <1>2, <1>4
  <2> DEFINE log == logs'[top].log
             d == c(top)
  <2>5. log \in Seq(Entry) /\ d \in Nat /\ d <= Len(log) /\ d > n
    BY <1>1, <2>3
  <2>6. committedLog' = SubSeq(log, 1, d)
    BY <2>4
  <2> HIDE DEF log, d
  <2>7. /\ committedLog' \in Seq(Entry) /\ Len(committedLog') = d
        /\ \A k \in 1..d : committedLog'[k] = log[k]
    BY <2>5, <2>6, HeadFacts
  <2>8. Agree(committedLog', log, d)
    BY <2>5, <2>7 DEF Agree
  <2>9. \A j \in Server : c(j) <= d
    BY <1>1, <2>2, <2>3 DEF d
  <2>10. n <= d /\ d > 0
    BY <1>1, <2>5
  <2> QED
    BY <2>3, <2>7, <2>8, <2>9, <2>10 DEF d, log
<1> QED
  BY <1>3, <1>4


\* What a node has committed and applied, after a step.
LEMMA NodeCommitted ==
    ASSUME TypeInv, TypeInv', ElectionInv, ElectionInv', LogInv, LogInv',
           SafeInv, CommitInv, Record, NEW i \in Server, Shape(i),
           held \subseteq held', NEW j \in Server
    PROVE  /\ app'[j].commitIndex <= Len(logs'[j].log)
           /\ SafeNext(logs'[j].log, app'[j].commitIndex, srv'[j].currentTerm)
           /\ app'[j].lastApplied = app'[j].commitIndex
           /\ Len(app'[j].applyCh) = app'[j].commitIndex
           /\ \A k \in 1..app'[j].commitIndex :
                 app'[j].applyCh[k] = logs'[j].log[k]
           /\ app'[j].commitIndex >= app[j].commitIndex
           /\ IsPrefix(app[j].applyCh, app'[j].applyCh)
<1> DEFINE a   == app[j]
           old == logs[j].log
           new == logs'[j].log
           s   == srv[j].currentTerm
           t   == srv'[j].currentTerm
<1>1. /\ a \in ApplyState /\ old \in Seq(Entry) /\ new \in Seq(Entry)
      /\ a.commitIndex \in Nat /\ a.applyCh \in Seq(Entry)
  BY DEF TypeInv, TypeOK, ApplyState, LogState
<1>2. Len(old) \in Nat /\ Len(new) \in Nat
  BY <1>1, LenProperties
<1>3. s \in Nat /\ t \in Nat /\ s <= t
  BY TermsGrow
<1>4. /\ a.commitIndex <= Len(old)
      /\ SafePrefix(old, a.commitIndex, s)
      /\ a.lastApplied = a.commitIndex /\ Len(a.applyCh) = a.commitIndex
      /\ \A k \in 1..a.commitIndex : a.applyCh[k] = old[k]
  BY DEF CommitInv, NodeCommits
<1>5. Agree(new, old, a.commitIndex)
  <2>1. CASE j = i
    BY <2>1, KeepsCommitted DEF CommitInv
  <2>2. CASE j # i
    <3>1. new = old
      BY <2>2 DEF Shape, OthersStay
    <3> QED
      BY <1>2, <1>4, <3>1 DEF Agree
  <2> QED
    BY <2>1, <2>2
<1>6. SafeNext(new, a.commitIndex, t)
  <2> HIDE DEF a, old, new, s, t
  <2> QED
    BY <1>1, <1>3, <1>4, <1>5, SafePrefixStays
<1>7. /\ a.commitIndex <= Len(new)
      /\ \A k \in 1..a.commitIndex : a.applyCh[k] = new[k]
  BY <1>4, <1>5 DEF Agree
<1>8. CASE app'[j] = app[j]
  <2>1. IsPrefix(a.applyCh, a.applyCh)
    BY <1>1, PrefixOfItself
  <2> QED
    BY <1>1, <1>4, <1>6, <1>7, <1>8, <2>1
<1>9. ASSUME j = i, NEW n \in Nat, CommitsTo(i, n)
      PROVE  /\ app'[j].commitIndex = n /\ n <= Len(new) /\ n > a.commitIndex
             /\ SafeNext(new, n, t) /\ app'[j].lastApplied = n
             /\ Len(app'[j].applyCh) = n
             /\ \A k \in 1..n : app'[j].applyCh[k] = new[k]
             /\ IsPrefix(a.applyCh, app'[j].applyCh)
  <2>1. /\ a.commitIndex < n /\ n <= Len(new) /\ SafeNext(new, n, t)
        /\ app'[j] = applyCommittedEntries([a EXCEPT !.commitIndex = n], new)
    BY <1>9 DEF CommitsTo
  <2> DEFINE b == app'[j]
  <2> HIDE DEF a, new, b
  <2>2. /\ b.commitIndex = n /\ b.lastApplied = n /\ Len(b.applyCh) = n
        /\ \A k \in 1..n : b.applyCh[k] = new[k]
        /\ IsPrefix(a.applyCh, b.applyCh)
    BY <1>1, <1>4, <1>7, <2>1, ApplyMore DEF b
  <2>3. n > a.commitIndex
    BY <1>1, <2>1
  <2> QED
    BY <2>1, <2>2, <2>3 DEF b
<1>10. app'[j] = app[j] \/ (j = i /\ \E n \in Nat : CommitsTo(i, n))
  <2>1. CASE j = i
    BY <2>1, CommitStep DEF CommitInv
  <2>2. CASE j # i
    BY <2>2 DEF Shape, OthersStay
  <2> QED
    BY <2>1, <2>2
<1>11. CASE j = i /\ \E n \in Nat : CommitsTo(i, n)
  <2>1. PICK n \in Nat : CommitsTo(i, n)
    BY <1>11
  <2>2. /\ app'[j].commitIndex = n /\ n <= Len(new) /\ n > a.commitIndex
        /\ SafeNext(new, n, t) /\ app'[j].lastApplied = n
        /\ Len(app'[j].applyCh) = n
        /\ \A k \in 1..n : app'[j].applyCh[k] = new[k]
        /\ IsPrefix(a.applyCh, app'[j].applyCh)
    BY <1>9, <1>11, <2>1
  <2>3. n >= a.commitIndex
    BY <1>1, <2>2
  <2> QED
    BY <2>2, <2>3
<1> QED
  BY <1>8, <1>10, <1>11

\* Calls cover what they tell to be committed, and it is.
LEMMA CallCommitsStep ==
    ASSUME ShortCalls, TypeInv, TypeInv', ElectionInv, ElectionInv',
           LogInv, LogInv', SafeInv, CommitInv, Record, NEW i \in Server,
           Shape(i), held \subseteq held'
    PROVE  CallCommits'
<1> SUFFICES ASSUME NEW m \in net', m.type = "AppendEntries"
             PROVE  /\ m.leaderCommit <= LastOf(m)
                    /\ SafeNext(leaderLog'[m.term], m.leaderCommit, m.term)
  BY DEF CallCommits, SafePrefix, SafeNext, Backed
<1>1. CASE m \in net
  <2> DEFINE a == leaderLog[m.term]
             b == leaderLog'[m.term]
             n == m.leaderCommit
  <2>1. m \in Calls /\ Call(m) = m
    BY <1>1 DEF Calls, Call
  <2>2. m.term \in DOMAIN leaderLog /\ PieceOf(m, a)
    BY <2>1 DEF LogInv, CallsOK, CallKnown
  <2>3. n \in Nat /\ m.term \in Nat /\ LastOf(m) \in Nat
    <3>1. m \in AppendEntriesRequest
      BY MessageByType DEF TypeInv, TypeOK
    <3> QED
      BY <3>1, LenProperties DEF AppendEntriesRequest, LastOf
  <2>4. n <= LastOf(m) /\ SafePrefix(a, n, m.term)
    BY <1>1 DEF CommitInv, CallCommits
  <2>5. Len(a) \in Nat /\ Agree(a, b, Len(a)) /\ LastOf(m) <= Len(a)
    BY <2>2, RecordLeaderLog DEF PieceOf, LastOf
  <2> HIDE DEF a, b, n
  <2>6. Agree(b, a, n)
    BY <2>3, <2>4, <2>5 DEF Agree
  <2>7. SafeNext(b, n, m.term)
    BY <2>3, <2>4, <2>6, SafePrefixStays
  <2> QED
    BY <2>4, <2>7 DEF b, n
<1>2. CASE NewMessage(i, m)
  <2>1. /\ srv'[i].state = "Leader" /\ app'[i] = app[i]
        /\ \E p \in Peers(i) :
              m = sendAppendEntriesToPeer(i, p, srv'[i], logs'[i].log,
                                          nextIndex'[i][p], app[i].commitIndex)
    BY <1>2 DEF NewMessage
  <2>2. PICK p \in Peers(i) :
            m = sendAppendEntriesToPeer(i, p, srv'[i], logs'[i].log,
                                        nextIndex'[i][p], app[i].commitIndex)
    BY <2>1
  <2>3. /\ nextIndex'[i][p] \in Nat \ {0}
        /\ nextIndex'[i][p] <= Len(logs'[i].log) + 1
    BY <2>1, IndexBounds
  <2>4. logs'[i].log \in Seq(Entry)
    BY DEF TypeInv, TypeOK, LogState
  <2>5. /\ m.term = srv'[i].currentTerm /\ m.leaderCommit = app[i].commitIndex
        /\ LastOf(m) = Len(logs'[i].log)
    BY <2>2, <2>3, <2>4, SendPiece
  <2>6. leaderLog'[m.term] = logs'[i].log
    BY <2>1, <2>5 DEF LogInv, NodeLogs
  <2>7. /\ app'[i].commitIndex <= Len(logs'[i].log)
        /\ SafeNext(logs'[i].log, app'[i].commitIndex, srv'[i].currentTerm)
    BY NodeCommitted
  <2> QED
    BY <2>1, <2>5, <2>6, <2>7
<1> QED
  BY <1>1, <1>2 DEF Shape

\* Every step keeps what is committed safe.
LEMMA NextCommitInv ==
    ASSUME ShortCalls, TypeInv, TypeInv', ElectionInv, ElectionInv',
           LogInv, LogInv', SafeInv, CommitInv, Record, NEW i \in Server,
           Shape(i), held \subseteq held'
    PROVE  CommitInv'
<1>1. CallCommits'
  BY CallCommitsStep
<1>2. \A j \in Server :
         /\ app'[j].commitIndex <= Len(logs'[j].log)
         /\ SafeNext(logs'[j].log, app'[j].commitIndex, srv'[j].currentTerm)
         /\ app'[j].lastApplied = app'[j].commitIndex
         /\ Len(app'[j].applyCh) = app'[j].commitIndex
         /\ \A k \in 1..app'[j].commitIndex :
               app'[j].applyCh[k] = logs'[j].log[k]
  BY NodeCommitted
<1>3. committedLog \in Seq(Entry)
  BY DEF CommitInv, LogCommits
<1>4. /\ committedLog' \in Seq(Entry)
      /\ \A j \in Server : app'[j].commitIndex <= Len(committedLog')
      /\ \/ committedLog' = committedLog
         \/ \E j \in Server :
               /\ app'[j].commitIndex > 0
               /\ Len(committedLog') = app'[j].commitIndex
               /\ Agree(committedLog', logs'[j].log, app'[j].commitIndex)
  BY <1>2, <1>3, RecordCommitted
<1>5. NodeCommits'
  BY <1>2, <1>4 DEF NodeCommits, SafePrefix, SafeNext, Backed
<1>6. LogCommits'
  <2>1. CASE committedLog' = committedLog
    <3>1. CASE Len(committedLog) = 0
      BY <1>4, <2>1, <3>1 DEF LogCommits
    <3>2. ASSUME NEW h \in held, Backed(h, committedLog, Len(committedLog))
          PROVE  LogCommits'
      <4> DEFINE log == committedLog
                 n   == Len(committedLog)
      <4>1. n \in Nat
        BY <1>3, LenProperties
      <4> HIDE DEF log, n
      <4>2. Backed(h, log, n)
        BY <3>2 DEF log, n
      <4>3. /\ h \in held' /\ Chosen(h[1], h[3])' /\ n <= h[3]
            /\ Agree(log, leaderLog'[h[1]], n)
        BY <4>1, <4>2, BackingStays
      <4>4. committedLog' = log /\ Len(committedLog') = n
        BY <2>1 DEF log, n
      <4> QED
        BY <1>4, <4>3, <4>4 DEF LogCommits, Backed
    <3> QED
      BY <3>1, <3>2 DEF CommitInv, LogCommits
  <2>2. ASSUME NEW j \in Server, app'[j].commitIndex > 0,
               Len(committedLog') = app'[j].commitIndex,
               Agree(committedLog', logs'[j].log, app'[j].commitIndex)
        PROVE  LogCommits'
    <3>1. app'[j].commitIndex # 0
      BY <2>2
    <3>2. PICK h \in held' :
              /\ Chosen(h[1], h[3])' /\ app'[j].commitIndex <= h[3]
              /\ Agree(logs'[j].log, leaderLog'[h[1]], app'[j].commitIndex)
      BY <1>2, <3>1 DEF SafeNext
    <3>3. Agree(committedLog', leaderLog'[h[1]], Len(committedLog'))
      BY <2>2, <3>2 DEF Agree
    <3> QED
      BY <1>4, <2>2, <3>2, <3>3 DEF LogCommits, Backed
  <2> QED
    BY <1>4, <2>1, <2>2
<1> QED
  BY <1>1, <1>5, <1>6 DEF CommitInv


-----------------------------------------------------------------------------
(* Together *)

RaftInv == ClusterInv /\ SafeInv /\ CommitInv

\* Nothing is chosen or committed in a fresh cluster.
LEMMA InitSafe == HInit => SafeInv /\ CommitInv
<1> SUFFICES ASSUME HInit PROVE SafeInv /\ CommitInv
  OBVIOUS
<1>1. /\ leaderLog = [t \in {} |-> << >>] /\ held = {} /\ votes = {}
      /\ net = {} /\ committedLog = << >>
      /\ \A i \in Server : /\ logs[i].log = << >>
                           /\ app[i].commitIndex = 0 /\ app[i].lastApplied = 0
                           /\ app[i].applyCh = << >>
  BY DEF HInit, Init
<1>2. DOMAIN leaderLog = {} /\ Len(<< >>) = 0 /\ 1..0 = {} /\ << >> \in Seq(Entry)
  BY <1>1
<1>3. SafeInv
  BY <1>1, <1>2 DEF SafeInv, LeadersSafe, HeldStays, VotesSafe, VotesCast,
                    BallotLogs
<1>4. CommitInv
  BY <1>1, <1>2 DEF CommitInv, NodeCommits, CallCommits, LogCommits, SafePrefix
<1> QED
  BY <1>3, <1>4

\* A step of the cluster is a step of one node, and loses no holder.
LEMMA OneNodeSteps ==
    ASSUME NoRestarts', ClusterInv, ClusterInv', HNext
    PROVE  /\ Record /\ held \subseteq held'
           /\ \E i \in Server : Shape(i)
<1>1. Record /\ Next
  BY DEF HNext
<1>2. PICK i \in Server : Shape(i)
  BY <1>1, StepShape DEF ClusterInv
<1>3. held \subseteq held'
  BY <1>1 DEF Record
<1> QED
  BY <1>1, <1>2, <1>3

\* Every step keeps all the invariants until a process restarts.
LEMMA NextRaftInv ==
    ASSUME ShortCalls, NoRestarts', TypeInv', RaftInv, [HNext]_hvars
    PROVE  RaftInv'
<1>1. ClusterInv'
  BY NextClusterInv DEF RaftInv
<1>2. CASE HNext
  <2>1. Record /\ held \subseteq held'
    BY <1>1, <1>2, OneNodeSteps DEF RaftInv
  <2>2. PICK i \in Server : Shape(i)
    BY <1>1, <1>2, OneNodeSteps DEF RaftInv
  <2> QED
    BY <1>1, <2>1, <2>2, NextSafeInv, NextCommitInv DEF RaftInv, ClusterInv
<1>3. CASE UNCHANGED hvars
  <2> USE <1>3 DEF hvars, vars
  <2>1. \A t, n : Chosen(t, n)' = Chosen(t, n)
    BY DEF Chosen, Holders, majority
  <2>2. \A t, n : CanChoose(t, n)' = CanChoose(t, n)
    BY DEF CanChoose, MayHold, majority
  <2>3. SafeInv'
    BY <2>2 DEF RaftInv, SafeInv, LeadersSafe, HeldStays, VotesSafe, VotesCast,
                BallotLogs, HasEntry
  <2>4. CommitInv'
    BY <2>1 DEF RaftInv, CommitInv, NodeCommits, CallCommits, LogCommits,
                SafePrefix, Backed
  <2> QED
    BY <1>1, <2>3, <2>4 DEF RaftInv
<1> QED
  BY <1>2, <1>3

\* They hold of a fresh cluster.
LEMMA InitRaftInv == HInit => RaftInv
BY InitClusterInv, InitSafe DEF RaftInv

\* All the invariants hold together until a process restarts.
LEMMA RaftInvariance ==
    ASSUME ShortCalls
    PROVE  HSpec => [](NoRestarts => RaftInv)
<1>1. HInit => (NoRestarts => RaftInv)
  BY InitRaftInv
<1>2. TypeInv /\ TypeInv' /\ (NoRestarts => RaftInv) /\ [HNext]_hvars
        => (NoRestarts => RaftInv)'
  <2> SUFFICES ASSUME TypeInv, TypeInv', NoRestarts => RaftInv,
                      [HNext]_hvars, NoRestarts'
               PROVE  RaftInv'
    OBVIOUS
  <2>1. RaftInv
    BY RestartsStay DEF HNext, hvars
  <2> QED
    BY <2>1, NextRaftInv
<1> QED
  BY <1>1, <1>2, HistoryTypeInv, PTL DEF HSpec

\* A node's committed entries are the first of those ever committed.
CommittedAgree ==
    \A i \in Server : Agree(logs[i].log, committedLog, app[i].commitIndex)

LEMMA CommittedAgrees ==
    ASSUME RaftInv
    PROVE  CommittedAgree /\ ChosenOrder
<1>1. ChosenOrder
  BY ChosenOrdered
     DEF RaftInv, ClusterInv, ElectionInv, NodesInv, HistoryOK
<1>2. ASSUME NEW i \in Server
      PROVE  Agree(logs[i].log, committedLog, app[i].commitIndex)
  <2> DEFINE log == logs[i].log
             c   == app[i].commitIndex
             d   == Len(committedLog)
  <2>1. /\ log \in Seq(Entry) /\ c \in Nat /\ committedLog \in Seq(Entry)
        /\ c <= Len(log) /\ c <= d /\ SafePrefix(log, c, srv[i].currentTerm)
    BY DEF RaftInv, ClusterInv, TypeInv, TypeOK, LogState, ApplyState,
           CommitInv, NodeCommits, LogCommits
  <2>2. Len(log) \in Nat /\ d \in Nat
    BY <2>1, LenProperties
  <2>3. CASE c = 0
    BY <2>1, <2>2, <2>3 DEF Agree
  <2>4. CASE c # 0
    <3>1. PICK h \in held : Backed(h, log, c)
      BY <2>1, <2>4 DEF SafePrefix
    <3>2. d # 0
      BY <2>1, <2>2, <2>4
    <3>3. PICK g \in held : Backed(g, committedLog, d)
      BY <3>2 DEF RaftInv, CommitInv, LogCommits
    <3>4. \A x \in held : /\ x[1] \in Nat /\ x[3] \in Nat
                          /\ x[1] \in DOMAIN leaderLog
                          /\ Len(leaderLog[x[1]]) \in Nat
      BY LenProperties DEF RaftInv, ClusterInv, LogInv, HeldOK, LeaderLogs
    <3>5. /\ Chosen(h[1], h[3]) /\ c <= h[3] /\ Agree(log, leaderLog[h[1]], c)
          /\ Chosen(g[1], g[3]) /\ d <= g[3]
          /\ Agree(committedLog, leaderLog[g[1]], d)
      BY <3>1, <3>3 DEF Backed
    <3>6. /\ h[1] <= g[1] => Agree(leaderLog[h[1]], leaderLog[g[1]], h[3])
          /\ g[1] <= h[1] => Agree(leaderLog[g[1]], leaderLog[h[1]], g[3])
      BY <1>1, <3>4, <3>5 DEF ChosenOrder
    <3>7. Len(committedLog) \in Nat
      BY <2>2
    <3> HIDE DEF log, c, d
    <3>8. Agree(log, committedLog, c)
      BY <2>1, <2>2, <3>4, <3>5, <3>6, <3>7, BackedAgree
    <3> QED
      BY <3>8 DEF log, c
  <2> QED
    BY <2>3, <2>4
<1> QED
  BY <1>1, <1>2 DEF CommittedAgree

\* A log that agrees with another to its end is a prefix of it.
LEMMA AgreeIsPrefix ==
    ASSUME NEW a \in Seq(Entry), NEW b \in Seq(Entry), Agree(a, b, Len(a))
    PROVE  IsPrefix(a, b)
<1>1. Len(a) \in Nat
  BY LenProperties
<1>2. SubSeq(a, 1, Len(a)) = SubSeq(b, 1, Len(a))
  BY <1>1, AgreePrefix
<1> QED
  BY <1>2 DEF IsPrefix, Agree


-----------------------------------------------------------------------------
(* What the cluster keeps *)

\* Until a process restarts no node takes an entry as committed at an index
\* where another one was committed before, if calls are short: a majority
\* holds a committed entry of its leader's term, so every later leader has it
\* (updateCommitIndex, advanceCommitIndex, shouldVoteFor).
THEOREM CommittedIsFinal ==
    ASSUME ShortCalls
    PROVE  HSpec => [](NoRestarts => StateMachineSafety)
<1>1. RaftInv => StateMachineSafety
  <2> SUFFICES ASSUME RaftInv, NEW i \in Server
               PROVE  IsPrefix(Committed(i), committedLog)
    BY DEF StateMachineSafety
  <2> DEFINE log == logs[i].log
             c   == app[i].commitIndex
             a   == SubSeq(log, 1, c)
  <2>1. /\ log \in Seq(Entry) /\ c \in Nat /\ committedLog \in Seq(Entry)
    BY DEF RaftInv, ClusterInv, TypeInv, TypeOK, LogState, ApplyState,
           CommitInv, LogCommits
  <2>2. Agree(log, committedLog, c)
    BY CommittedAgrees DEF CommittedAgree
  <2> HIDE DEF log, c
  <2>3. /\ a \in Seq(Entry) /\ Len(a) = c /\ \A k \in 1..c : a[k] = log[k]
    BY <2>1, <2>2, HeadFacts DEF Agree
  <2> HIDE DEF a
  <2>4. Agree(a, committedLog, Len(a))
    BY <2>1, <2>2, <2>3 DEF Agree
  <2>5. IsPrefix(a, committedLog)
    BY <2>1, <2>3, <2>4, AgreeIsPrefix
  <2> QED
    BY <2>5 DEF Committed, a, log, c
<1> QED
  BY <1>1, RaftInvariance, PTL

\* Until a process restarts the leader of the newest term with a leader holds
\* everything that was ever committed, if calls are short (shouldVoteFor's third
\* rule and advanceCommitIndex's current-term rule together).
THEOREM LeadersAreComplete ==
    ASSUME ShortCalls
    PROVE  HSpec => [](NoRestarts => LeaderCompleteness)
<1>1. RaftInv => LeaderCompleteness
  <2> SUFFICES ASSUME RaftInv, NEW i \in Server, srv[i].state = "Leader",
                      \A e \in elected : e[1] <= srv[i].currentTerm
               PROVE  IsPrefix(committedLog, logs[i].log)
    BY DEF LeaderCompleteness
  <2> DEFINE t   == srv[i].currentTerm
             log == logs[i].log
             d   == Len(committedLog)
  <2>1. log \in Seq(Entry) /\ committedLog \in Seq(Entry)
    BY DEF RaftInv, ClusterInv, TypeInv, TypeOK, LogState, CommitInv, LogCommits
  <2>2. Len(log) \in Nat /\ d \in Nat
    BY <2>1, LenProperties
  <2>3. DOMAIN leaderLog = {e[1] : e \in elected} /\ <<t, i>> \in elected
    BY DEF RaftInv, ClusterInv, LogInv, LeaderLogs, ElectionInv, NodesInv,
           VoteRecorded
  <2>4. t \in DOMAIN leaderLog
    <3>1. <<t, i>>[1] = t
      OBVIOUS
    <3> QED
      BY <2>3, <3>1
  <2>5. leaderLog[t] = log
    BY DEF RaftInv, ClusterInv, LogInv, NodeLogs
  <2>6. Agree(committedLog, log, d)
    <3>1. CASE d = 0
      BY <2>2, <3>1 DEF Agree
    <3>2. ASSUME NEW h \in held, Backed(h, committedLog, d)
          PROVE  Agree(committedLog, log, d)
      <4>1. h[1] \in DOMAIN leaderLog /\ h[3] \in Nat
        BY DEF RaftInv, ClusterInv, LogInv, HeldOK
      <4>2. h[1] <= t
        BY <2>3, <4>1
      <4>3. /\ Chosen(h[1], h[3]) /\ d <= h[3]
            /\ Agree(committedLog, leaderLog[h[1]], d)
        BY <3>2 DEF Backed
      <4>4. Agree(leaderLog[h[1]], log, h[3])
        BY <2>4, <2>5, <4>2, <4>3, CommittedAgrees DEF ChosenOrder
      <4> HIDE DEF d, log
      <4> QED
        BY <2>2, <4>1, <4>3, <4>4 DEF Agree
    <3> QED
      BY <3>1, <3>2 DEF RaftInv, CommitInv, LogCommits
  <2> QED
    BY <2>1, <2>6, AgreeIsPrefix
<1> QED
  BY <1>1, RaftInvariance, PTL

\* Until a process restarts, what each has sent to applyCh is exactly its
\* committed prefix, if calls are short; in particular no log is ever cut below
\* commitIndex (applyCommittedEntries, appendNewEntries).  The channel is taken to
\* have room whenever the loop sends.
THEOREM AppliedExactly ==
    ASSUME ShortCalls
    PROVE  HSpec => [](NoRestarts => AppliedIsCommitted)
<1>1. RaftInv => AppliedIsCommitted
  <2> SUFFICES ASSUME RaftInv, NEW i \in Server
               PROVE  /\ app[i].commitIndex <= Len(logs[i].log)
                      /\ app[i].applyCh = Committed(i)
    BY DEF AppliedIsCommitted
  <2> DEFINE log == logs[i].log
             c   == app[i].commitIndex
             ch  == app[i].applyCh
             a   == SubSeq(log, 1, c)
  <2>1. /\ log \in Seq(Entry) /\ c \in Nat /\ ch \in Seq(Entry)
        /\ c <= Len(log) /\ Len(ch) = c /\ \A k \in 1..c : ch[k] = log[k]
    BY DEF RaftInv, ClusterInv, TypeInv, TypeOK, LogState, ApplyState,
           CommitInv, NodeCommits
  <2> HIDE DEF log, c, ch
  <2>2. /\ a \in Seq(Entry) /\ Len(a) = c /\ \A k \in 1..c : a[k] = log[k]
    BY <2>1, HeadFacts
  <2> HIDE DEF a
  <2>3. ch = a
    BY <2>1, <2>2, SeqEqual
  <2> QED
    BY <2>1, <2>3 DEF Committed, a, log, c, ch
<1> QED
  BY <1>1, RaftInvariance, PTL

\* Until a process restarts every AppendEntries call carries or confirms all
\* entries its leaderCommit covers, if calls are short
\* (sendAppendEntriesToPeer, updateCommitIndex).
THEOREM CallsCoverCommits ==
    ASSUME ShortCalls
    PROVE  HSpec => [](NoRestarts => LeaderCommitCovered)
<1>1. RaftInv => LeaderCommitCovered
  BY DEF RaftInv, CommitInv, CallCommits, LeaderCommitCovered, LastOf
<1> QED
  BY <1>1, RaftInvariance, PTL

\* Within one process the committed prefix only grows and nothing sent to
\* applyCh is taken back, if calls are short and no process ever restarts
\* (updateCommitIndex, advanceCommitIndex, applyCommittedEntries).
THEOREM CommitsOnlyGrow ==
    ASSUME ShortCalls
    PROVE  HSpec /\ []NoRestarts => CommitNeverRetreats
<1>1. RaftInv /\ RaftInv' /\ NoRestarts' /\ [HNext]_hvars
        => [\A i \in Server : restarts'[i] = restarts[i] =>
              /\ app'[i].commitIndex >= app[i].commitIndex
              /\ IsPrefix(app[i].applyCh, app'[i].applyCh)]_hvars
  <2> SUFFICES ASSUME RaftInv, RaftInv', NoRestarts', HNext, NEW j \in Server
               PROVE  /\ app'[j].commitIndex >= app[j].commitIndex
                      /\ IsPrefix(app[j].applyCh, app'[j].applyCh)
    OBVIOUS
  <2>1. Record /\ held \subseteq held'
    BY OneNodeSteps DEF RaftInv
  <2>2. PICK i \in Server : Shape(i)
    BY OneNodeSteps DEF RaftInv
  <2> QED
    BY <2>1, <2>2, NodeCommitted DEF RaftInv, ClusterInv
<1> QED
  BY <1>1, RaftInvariance, PTL DEF HSpec, CommitNeverRetreats


-----------------------------------------------------------------------------
(* Refinement *)

\* What was ever committed only grows.
LEMMA CommittedGrows ==
    ASSUME RaftInv, RaftInv', CommittedAgree', ChosenOrder', Record,
           held \subseteq held', NEW i \in Server, Shape(i)
    PROVE  IsPrefix(committedLog, committedLog')
<1> DEFINE a == committedLog
           b == committedLog'
           c == Len(a)
           d == Len(b)
           lead == leaderLog'
<1>1. a \in Seq(Entry) /\ b \in Seq(Entry)
  BY DEF RaftInv, CommitInv, LogCommits
<1>2. c \in Nat /\ d \in Nat
  BY <1>1, LenProperties
<1>3. c <= d
  <2>1. \A j \in Server : app'[j].commitIndex <= Len(logs'[j].log)
    BY DEF RaftInv, CommitInv, NodeCommits
  <2> QED
    BY <1>1, <2>1, RecordCommitted DEF RaftInv, ClusterInv
<1>4. Agree(a, b, c)
  <2>1. CASE c = 0
    BY <1>2, <2>1 DEF Agree
  <2>2. CASE c # 0
    <3>1. PICK h \in held : Backed(h, a, c)
      BY <2>2 DEF RaftInv, CommitInv, LogCommits
    <3>2. PICK g \in held' : /\ Chosen(g[1], g[3])' /\ d <= g[3]
                             /\ Agree(b, lead[g[1]], d)
      BY <1>2, <1>3, <2>2 DEF RaftInv, CommitInv, LogCommits, Backed
    <3> HIDE DEF a, b, c, d
    <3>3. /\ h \in held' /\ Chosen(h[1], h[3])' /\ c <= h[3]
          /\ Agree(a, lead[h[1]], c)
      BY <1>2, <3>1, BackingStays DEF RaftInv, ClusterInv
    <3>4. \A x \in held' : /\ x[1] \in Nat /\ x[3] \in Nat
                           /\ x[1] \in DOMAIN lead /\ Len(lead[x[1]]) \in Nat
      BY LenProperties DEF RaftInv, ClusterInv, LogInv, HeldOK, LeaderLogs
    <3>5. /\ h[1] <= g[1] => Agree(lead[h[1]], lead[g[1]], h[3])
          /\ g[1] <= h[1] => Agree(lead[g[1]], lead[h[1]], g[3])
      BY <3>2, <3>3, <3>4 DEF ChosenOrder
    <3>6. Len(a) \in Nat /\ Len(b) \in Nat
      BY <1>1, LenProperties
    <3> HIDE DEF lead
    <3> QED
      BY <1>2, <1>3, <3>2, <3>3, <3>4, <3>5, <3>6, BackedAgree
  <2> QED
    BY <2>1, <2>2
<1> QED
  BY <1>1, <1>4, AgreeIsPrefix

\* The cluster implements one growing sequence of commands of which every
\* applyCh carries a prefix, if calls are short and no process ever restarts: a
\* step of a node decides entries, delivers some to its own applyCh, or does nothing
\* the ledger could see (advanceCommitIndex, updateCommitIndex,
\* applyCommittedEntries).  The channel is taken to have room whenever the loop
\* sends.
THEOREM RefinesReplicatedLog ==
    ASSUME ShortCalls
    PROVE  HSpec /\ []NoRestarts => ImplementsReplicatedLog
<1>1. HInit => Promise!Init
  BY DEF HInit, Init, Promise!Init
<1>2. RaftInv /\ RaftInv' /\ CommittedAgree' /\ ChosenOrder' /\ NoRestarts'
        /\ [HNext]_hvars
        => [Promise!Next]_<<committedLog, [i \in Server |-> app[i].applyCh]>>
  <2> SUFFICES ASSUME RaftInv, RaftInv', CommittedAgree', ChosenOrder',
                      NoRestarts', [HNext]_hvars
               PROVE  [Promise!Next]_<<committedLog,
                                       [i \in Server |-> app[i].applyCh]>>
    OBVIOUS
  <2>1. CASE UNCHANGED hvars
    BY <2>1 DEF hvars, vars
  <2>2. CASE HNext
    <3>1. Record /\ held \subseteq held'
      BY <2>2, OneNodeSteps DEF RaftInv
    <3>2. PICK i \in Server : Shape(i)
      BY <2>2, OneNodeSteps DEF RaftInv
    <3>3. IsPrefix(committedLog, committedLog')
      BY <3>1, <3>2, CommittedGrows
    <3> DEFINE n   == app'[i].commitIndex
               ch  == app'[i].applyCh
               log == committedLog'
    <3>4. /\ n \in Nat /\ log \in Seq(Entry) /\ ch \in Seq(Entry)
          /\ n <= Len(log) /\ Len(ch) = n
          /\ \A k \in 1..n : ch[k] = logs'[i].log[k]
      BY DEF RaftInv, ClusterInv, TypeInv, TypeOK, ApplyState, CommitInv,
             NodeCommits, LogCommits
    <3>5. Agree(logs'[i].log, log, n)
      BY DEF CommittedAgree
    <3>6. ch = SubSeq(log, 1, n)
      <4> HIDE DEF n, ch, log
      <4>1. /\ SubSeq(log, 1, n) \in Seq(Entry) /\ Len(SubSeq(log, 1, n)) = n
            /\ \A k \in 1..n : SubSeq(log, 1, n)[k] = log[k]
        BY <3>4, HeadFacts
      <4>2. \A k \in 1..n : ch[k] = SubSeq(log, 1, n)[k]
        BY <3>4, <3>5, <4>1 DEF Agree
      <4> QED
        BY <3>4, <4>1, <4>2, SeqEqual
    <3>7. n \in Len(app[i].applyCh)..Len(log)
      <4>1. /\ Len(app[i].applyCh) = app[i].commitIndex
            /\ app[i].commitIndex \in Nat
        BY DEF RaftInv, ClusterInv, TypeInv, TypeOK, ApplyState, CommitInv,
               NodeCommits
      <4>2. n >= app[i].commitIndex
        BY <3>1, <3>2, NodeCommitted DEF RaftInv, ClusterInv
      <4>3. Len(log) \in Nat
        BY <3>4, LenProperties
      <4> HIDE DEF n, log
      <4> QED
        BY <3>4, <4>1, <4>2, <4>3
    <3>8. \A j \in Server : j # i => app'[j] = app[j]
      BY <3>2 DEF Shape, OthersStay
    <3> DEFINE old == [j \in Server |-> app[j].applyCh]
               new == [j \in Server |-> app'[j].applyCh]
    <3>9. new = [old EXCEPT ![i] = SubSeq(log, 1, n)]
      BY <3>6, <3>8
    <3>10. Promise!Deliver(i)
      <4>1. \E k \in Len(old[i])..Len(log) :
               new = [old EXCEPT ![i] = SubSeq(log, 1, k)]
        BY <3>7, <3>9
      <4> QED
        BY <3>3, <4>1 DEF Promise!Deliver, Promise!IsPrefix, IsPrefix
    <3> QED
      BY <3>10 DEF Promise!Next
  <2> QED
    BY <2>1, <2>2
<1>3. RaftInv => CommittedAgree /\ ChosenOrder
  BY CommittedAgrees
<1> QED
  BY <1>1, <1>2, <1>3, RaftInvariance, PTL
     DEF HSpec, ImplementsReplicatedLog, Promise!Spec


=============================================================================
