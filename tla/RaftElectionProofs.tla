------------------------- MODULE RaftElectionProofs -------------------------
(***************************************************************************)
(* Election safety up to the first restart, for every cluster, if a call   *)
(* is given up before its sender's election timer can fire again.          *)
(*                                                                         *)
(* The textbook argument, that two majorities share a voter and a voter    *)
(* votes once, fails for this code: a candidate that follows the leader of *)
(* its own term forgets the vote for itself and may vote again.  What      *)
(* holds is that such a node has stopped counting and is never elected in  *)
(* that term.                                                              *)
(***************************************************************************)
EXTENDS RaftHistory, RaftNodeProofs, FiniteSetTheorems

ShortCalls == RPCTimeout < ElectionTimeoutMin

-----------------------------------------------------------------------------
(* The inductive invariant *)

\* The requests and replies of elections under way, and the request of each.
Ballots == {m \in net : m.type \in {"RequestVote", "RequestVoteReply"}}

Ballot(m) == IF m.type = "RequestVote" THEN m ELSE m.req

Voters(t, c) == {v \in Server : <<t, v, c>> \in votes}

\* Voters of candidate i in its term whose answer is no longer under way.
Counted(i) ==
    {v \in Voters(srv[i].currentTerm, i) :
        \A m \in Ballots : ~ /\ Ballot(m).from = i /\ Ballot(m).to = v
                             /\ Ballot(m).term = srv[i].currentTerm}

HistoryOK ==
    /\ votes \subseteq Nat \X Server \X Server
    /\ elected \subseteq Nat \X Server
    /\ \A x \in votes : x[1] <= srv[x[2]].currentTerm
    /\ \A e \in elected : e[1] <= srv[e[2]].currentTerm

AllStarted == \A i \in Server : started[i]

\* A node's vote is on record; candidates and leaders have theirs.
VoteRecorded ==
    \A i \in Server :
        /\ srv[i].votedFor # None
              => <<srv[i].currentTerm, i, srv[i].votedFor>> \in votes
        /\ srv[i].state # "Follower" => srv[i].votedFor = i
        /\ srv[i].state = "Leader" => <<srv[i].currentTerm, i>> \in elected

\* A node that may still vote in its term follows, was not elected in it, and
\* has at most voted for itself.
FreeVote ==
    \A i \in Server : srv[i].votedFor = None =>
        /\ srv[i].state = "Follower"
        /\ <<srv[i].currentTerm, i>> \notin elected
        /\ \A x \in votes :
              x[1] = srv[i].currentTerm /\ x[2] = i => x[3] = i

\* Who voted twice in a term voted for itself first, and neither was nor will
\* be elected in it.
SecondVote ==
    \A x, y \in votes :
        x[1] = y[1] /\ x[2] = y[2] /\ x[3] # y[3] =>
            /\ x[2] \in {x[3], y[3]}
            /\ <<x[1], x[2]>> \notin elected
            /\ srv[x[2]].currentTerm = x[1] => srv[x[2]].state = "Follower"

Majorities ==
    \A e \in elected : Cardinality(Voters(e[1], e[2])) >= majority

\* AppendEntries calls come from elected nodes and go to others.
CallOK(m) ==
    /\ m.type = "AppendEntries"
          => <<m.term, m.from>> \in elected /\ m.to # m.from
    /\ m.type = "AppendEntriesReply" => m.req.to # m.req.from

CallsOfLeaders == \A m \in net : CallOK(m)

\* Of an election under way: a call that is waited for is of the present term.
BallotsOK ==
    \A m \in Ballots :
        LET r == Ballot(m)
        IN  /\ r.to # r.from
            /\ r.sent <= timeouts[r.from]
            /\ r.term <= srv[r.from].currentTerm
            /\ r.sent = timeouts[r.from] /\ srv[r.from].state = "Candidate"
                  => r.term = srv[r.from].currentTerm
            /\ m.type = "RequestVoteReply" /\ m.voteGranted
                  => <<r.term, r.to, r.from>> \in votes

\* A voter is asked once in an election.
OneBallotEach ==
    \A m, n \in Ballots :
        /\ Ballot(m).from = Ballot(n).from /\ Ballot(m).to = Ballot(n).to
        /\ Ballot(m).term = Ballot(n).term
        => m = n

CountIsTrue ==
    \A i \in Server : srv[i].state = "Candidate" =>
        srv[i].votesReceived <= Cardinality(Counted(i))

\* Of the nodes and the record.
NodesInv ==
    /\ HistoryOK
    /\ VoteRecorded
    /\ FreeVote
    /\ SecondVote
    /\ Majorities

ElectionInv ==
    /\ NodesInv
    /\ AllStarted
    /\ CallsOfLeaders
    /\ BallotsOK
    /\ OneBallotEach
    /\ CountIsTrue

-----------------------------------------------------------------------------
(* Majorities *)

\* A larger set of nodes has a larger cardinality.
LEMMA CardinalityMonotone ==
    ASSUME NEW S, NEW T, S \subseteq T, T \subseteq Server
    PROVE  /\ Cardinality(S) \in Nat /\ Cardinality(T) \in Nat
           /\ Cardinality(S) <= Cardinality(T)
<1>1. IsFiniteSet(T)
  BY ServerAssumption, FS_Subset
<1> QED
  BY <1>1, FS_Subset, FS_CardinalityType

\* Two majorities have a node in common.
LEMMA MajoritiesMeet ==
    ASSUME NEW S, NEW T, S \subseteq Server, T \subseteq Server,
           Cardinality(S) >= majority, Cardinality(T) >= majority
    PROVE  \E v \in Server : v \in S /\ v \in T
<1>1. Cardinality(Server) \in Nat
  BY ServerAssumption, FS_CardinalityType
<1>2. Cardinality(S) \in Nat /\ Cardinality(T) \in Nat
  BY CardinalityMonotone
<1>3. majority \in Nat /\ majority + majority > Cardinality(Server)
  BY <1>1 DEF majority
<1>4. Cardinality(S) + Cardinality(T) > Cardinality(Server)
  BY <1>1, <1>2, <1>3
<1>5. S \cap T # {}
  BY <1>4, ServerAssumption, FS_MajoritiesIntersect
<1> QED
  BY <1>5

\* Two leaders of a term would share a voter; it voted twice, so one of the two
\* votes is its own, and then it is not elected.
LEMMA NodesInvSafe ==
    ASSUME NodesInv
    PROVE  ElectionSafety
<1> SUFFICES ASSUME NEW e \in elected, NEW f \in elected, e[1] = f[1], e # f
             PROVE  FALSE
  BY DEF ElectionSafety
<1> USE DEF NodesInv
<1>1. /\ e = <<e[1], e[2]>> /\ f = <<e[1], f[2]>> /\ e[2] # f[2]
      /\ e[2] \in Server /\ f[2] \in Server
  BY DEF HistoryOK
<1>2. /\ Voters(e[1], e[2]) \subseteq Server
      /\ Voters(e[1], f[2]) \subseteq Server
      /\ Cardinality(Voters(e[1], e[2])) >= majority
      /\ Cardinality(Voters(e[1], f[2])) >= majority
  BY DEF Majorities, Voters
<1>3. PICK v \in Server : v \in Voters(e[1], e[2]) /\ v \in Voters(e[1], f[2])
  BY <1>2, MajoritiesMeet
<1>4. <<e[1], v, e[2]>> \in votes /\ <<e[1], v, f[2]>> \in votes
  BY <1>3 DEF Voters
<1>5. v \in {e[2], f[2]} /\ <<e[1], v>> \notin elected
  BY <1>1, <1>4 DEF SecondVote
<1> QED
  BY <1>1, <1>5

-----------------------------------------------------------------------------
(* What one node's step does to the nodes and the record *)

\* The record of a step in which only node i changes.
LEMMA RecordOne ==
    ASSUME TypeInv, VoteRecorded, Record, NEW i \in Server,
           NEW t \in ServerState, srv' = [srv EXCEPT ![i] = t]
    PROVE  /\ votes' = votes \cup (IF t.votedFor = None THEN {}
                                   ELSE {<<t.currentTerm, i, t.votedFor>>})
           /\ elected' = elected \cup (IF t.state = "Leader"
                                       THEN {<<t.currentTerm, i>>} ELSE {})
<1>1. /\ srv'[i] = t
      /\ \A j \in Server \ {i} : srv'[j] = srv[j]
  BY DEF TypeInv, TypeOK
<1>2. votes' = votes \cup {<<srv'[j].currentTerm, j, srv'[j].votedFor>> :
                             j \in {k \in Server : srv'[k].votedFor # None}}
  BY DEF Record
<1>3. ASSUME NEW j \in Server \ {i}, srv'[j].votedFor # None
      PROVE  <<srv'[j].currentTerm, j, srv'[j].votedFor>> \in votes
  BY <1>1, <1>3 DEF VoteRecorded
<1>4. elected' = elected \cup {<<srv'[j].currentTerm, j>> :
                                 j \in {k \in Server : srv'[k].state = "Leader"}}
  BY DEF Record
<1>5. ASSUME NEW j \in Server \ {i}, srv'[j].state = "Leader"
      PROVE  <<srv'[j].currentTerm, j>> \in elected
  BY <1>1, <1>5 DEF VoteRecorded
<1>6. votes' = votes \cup (IF t.votedFor = None THEN {}
                           ELSE {<<t.currentTerm, i, t.votedFor>>})
  BY <1>1, <1>2, <1>3
<1>7. elected' = elected \cup (IF t.state = "Leader"
                               THEN {<<t.currentTerm, i>>} ELSE {})
  BY <1>1, <1>4, <1>5
<1> QED
  BY <1>6, <1>7

\* Majorities of votes stay majorities.
LEMMA MajoritiesStay ==
    ASSUME Majorities, votes \subseteq votes'
    PROVE  \A e \in elected : Cardinality(Voters(e[1], e[2])') >= majority
<1> SUFFICES ASSUME NEW e \in elected
             PROVE  Cardinality(Voters(e[1], e[2])') >= majority
  OBVIOUS
<1>1. /\ Voters(e[1], e[2]) \subseteq Voters(e[1], e[2])'
      /\ Voters(e[1], e[2])' \subseteq Server
  BY DEF Voters
<1>2. /\ Cardinality(Voters(e[1], e[2])) \in Nat
      /\ Cardinality(Voters(e[1], e[2])') \in Nat
      /\ Cardinality(Voters(e[1], e[2])) <= Cardinality(Voters(e[1], e[2])')
  BY <1>1, CardinalityMonotone
<1>3. majority \in Nat
  BY ServerAssumption, FS_CardinalityType DEF majority
<1>4. Cardinality(Voters(e[1], e[2])) >= majority
  BY DEF Majorities
<1> QED
  BY <1>2, <1>3, <1>4

\* Of the fields the record is about, t has the same as s.
SameRole(s, t) == /\ t.currentTerm = s.currentTerm
                  /\ t.votedFor = s.votedFor
                  /\ t.state = s.state

\* A node that changes none of these fields.
LEMMA SameRoleStep ==
    ASSUME TypeInv, NodesInv, Record, NEW i \in Server, NEW t \in ServerState,
           srv' = [srv EXCEPT ![i] = t], SameRole(srv[i], t)
    PROVE  NodesInv' /\ votes' = votes /\ elected' = elected
<1>1. /\ votes' = votes \cup (IF t.votedFor = None THEN {}
                              ELSE {<<t.currentTerm, i, t.votedFor>>})
      /\ elected' = elected \cup (IF t.state = "Leader"
                                  THEN {<<t.currentTerm, i>>} ELSE {})
  BY RecordOne DEF NodesInv
<1>2. votes' = votes /\ elected' = elected
  BY <1>1 DEF SameRole, NodesInv, VoteRecorded
<1>3. \A j \in Server : SameRole(srv[j], srv'[j])
  BY DEF SameRole, TypeInv, TypeOK
<1>4. HistoryOK' /\ VoteRecorded' /\ FreeVote'
  BY <1>2, <1>3 DEF SameRole, NodesInv, HistoryOK, VoteRecorded, FreeVote
<1>5. SecondVote'
  BY <1>2, <1>3 DEF SameRole, NodesInv, HistoryOK, SecondVote
<1>6. Majorities'
  BY <1>2 DEF NodesInv, Majorities, Voters
<1> QED
  BY <1>2, <1>4, <1>5, <1>6 DEF NodesInv

\* A node enters a new term, as a candidate or as a follower, with or without
\* a vote given at once: nothing is on record of that term and that node.
LEMMA NewTermStep ==
    ASSUME TypeInv, NodesInv, Record, NEW i \in Server, NEW t \in ServerState,
           srv' = [srv EXCEPT ![i] = t],
           t.currentTerm > srv[i].currentTerm,
           \/ t.state = "Follower"
           \/ t.state = "Candidate" /\ t.votedFor = i
    PROVE  NodesInv' /\ votes \subseteq votes' /\ elected' = elected
<1>1. /\ votes' = votes \cup (IF t.votedFor = None THEN {}
                              ELSE {<<t.currentTerm, i, t.votedFor>>})
      /\ elected' = elected
  BY RecordOne DEF NodesInv
<1>2. /\ srv[i].currentTerm \in Nat /\ t.currentTerm \in Nat
      /\ t.votedFor \in Server \cup {None} /\ i # None
      /\ \A j \in Server : srv[j].currentTerm \in Nat
  BY ServerAssumption DEF TypeInv, TypeOK, ServerState
<1>3. /\ srv'[i] = t
      /\ \A j \in Server \ {i} : srv'[j] = srv[j]
  BY DEF TypeInv, TypeOK
<1>4. /\ votes \subseteq Nat \X Server \X Server
      /\ elected \subseteq Nat \X Server
      /\ \A x \in votes : x[1] <= srv[x[2]].currentTerm
      /\ \A e \in elected : e[1] <= srv[e[2]].currentTerm
  BY DEF NodesInv, HistoryOK
<1>5. \A x \in votes : x[2] = i => x[1] < t.currentTerm
  BY <1>2, <1>4
<1>6. \A e \in elected : e[2] = i => e[1] < t.currentTerm
  BY <1>2, <1>4
<1>7. HistoryOK'
  <2>1. votes' \subseteq Nat \X Server \X Server
    BY <1>1, <1>2, <1>4
  <2>2. ASSUME NEW x \in votes' PROVE x[1] <= srv'[x[2]].currentTerm
    BY <1>1, <1>2, <1>3, <1>4, <1>5
  <2>3. ASSUME NEW e \in elected' PROVE e[1] <= srv'[e[2]].currentTerm
    BY <1>1, <1>2, <1>3, <1>4, <1>6
  <2> QED
    BY <1>1, <1>4, <2>1, <2>2, <2>3 DEF HistoryOK
<1>8. VoteRecorded'
  BY <1>1, <1>2, <1>3 DEF NodesInv, VoteRecorded
<1>9. FreeVote'
  <2> SUFFICES ASSUME NEW j \in Server, srv'[j].votedFor = None
               PROVE  /\ srv'[j].state = "Follower"
                      /\ <<srv'[j].currentTerm, j>> \notin elected'
                      /\ \A x \in votes' : x[1] = srv'[j].currentTerm
                                           /\ x[2] = j => x[3] = j
    BY DEF FreeVote
  <2>1. CASE j = i
    <3>1. t.votedFor = None /\ t.state = "Follower" /\ votes' = votes
      BY <1>1, <1>2, <1>3, <2>1
    <3>2. <<t.currentTerm, i>> \notin elected
      BY <1>2, <1>6
    <3>3. \A x \in votes : ~(x[1] = t.currentTerm /\ x[2] = i)
      BY <1>2, <1>4, <1>5
    <3> QED
      BY <1>1, <1>3, <2>1, <3>1, <3>2, <3>3
  <2>2. CASE j # i
    <3>1. srv'[j] = srv[j]
      BY <1>3, <2>2
    <3>2. \A x \in votes' : x[2] = j => x \in votes
      BY <1>1, <2>2
    <3> QED
      BY <1>1, <3>1, <3>2 DEF NodesInv, FreeVote
  <2> QED
    BY <2>1, <2>2
<1>10. SecondVote'
  <2> SUFFICES ASSUME NEW x \in votes', NEW y \in votes',
                      x[1] = y[1], x[2] = y[2], x[3] # y[3]
               PROVE  /\ x[2] \in {x[3], y[3]}
                      /\ <<x[1], x[2]>> \notin elected'
                      /\ srv'[x[2]].currentTerm = x[1]
                            => srv'[x[2]].state = "Follower"
    BY DEF SecondVote
  <2>1. x \in votes /\ y \in votes
    BY <1>1, <1>2, <1>4, <1>5
  <2>2. x[2] \in Server /\ x[1] \in Nat
    BY <1>4, <2>1
  <2>3. x[2] = i => srv'[x[2]].currentTerm # x[1]
    BY <1>2, <1>3, <1>5, <2>1, <2>2
  <2> QED
    BY <1>1, <1>3, <2>1, <2>2, <2>3 DEF NodesInv, SecondVote
<1>11. Majorities'
  BY <1>1, MajoritiesStay DEF NodesInv, Majorities
<1> QED
  BY <1>1, <1>7, <1>8, <1>9, <1>10, <1>11 DEF NodesInv

\* A node that has no vote in its term gives it to c.
LEMMA GrantStep ==
    ASSUME TypeInv, NodesInv, Record, NEW i \in Server, NEW t \in ServerState,
           srv' = [srv EXCEPT ![i] = t],
           srv[i].votedFor = None, t.votedFor \in Server,
           t.currentTerm = srv[i].currentTerm, t.state = srv[i].state
    PROVE  NodesInv' /\ votes \subseteq votes' /\ elected' = elected
<1> DEFINE new == <<t.currentTerm, i, t.votedFor>>
<1>1. /\ srv[i].currentTerm \in Nat /\ t.currentTerm \in Nat /\ t.votedFor # None
  BY ServerAssumption DEF TypeInv, TypeOK, ServerState
<1>2. /\ srv[i].state = "Follower"
      /\ <<srv[i].currentTerm, i>> \notin elected
      /\ \A x \in votes : x[1] = srv[i].currentTerm /\ x[2] = i => x[3] = i
  BY DEF NodesInv, FreeVote
<1>3. votes' = votes \cup {new} /\ elected' = elected
  BY <1>1, <1>2, RecordOne DEF NodesInv
<1>4. /\ srv'[i] = t
      /\ \A j \in Server \ {i} : srv'[j] = srv[j]
      /\ \A j \in Server : /\ srv'[j].currentTerm = srv[j].currentTerm
                            /\ srv'[j].state = srv[j].state
  BY DEF TypeInv, TypeOK
<1>5. /\ votes \subseteq Nat \X Server \X Server
      /\ elected \subseteq Nat \X Server
      /\ \A x \in votes : x[1] <= srv[x[2]].currentTerm
      /\ \A e \in elected : e[1] <= srv[e[2]].currentTerm
  BY DEF NodesInv, HistoryOK
<1>6. HistoryOK'
  <2>1. votes' \subseteq Nat \X Server \X Server
    BY <1>1, <1>3, <1>5
  <2>2. ASSUME NEW x \in votes' PROVE x[1] <= srv'[x[2]].currentTerm
    BY <1>1, <1>3, <1>4, <1>5
  <2> QED
    BY <1>3, <1>4, <1>5, <2>1, <2>2 DEF HistoryOK
<1>7. VoteRecorded'
  BY <1>1, <1>2, <1>3, <1>4 DEF NodesInv, VoteRecorded
<1>8. FreeVote'
  <2> SUFFICES ASSUME NEW j \in Server, srv'[j].votedFor = None
               PROVE  /\ srv'[j].state = "Follower"
                      /\ <<srv'[j].currentTerm, j>> \notin elected'
                      /\ \A x \in votes' : x[1] = srv'[j].currentTerm
                                           /\ x[2] = j => x[3] = j
    BY DEF FreeVote
  <2>1. j # i /\ srv'[j] = srv[j]
    BY <1>1, <1>4
  <2>2. \A x \in votes' : x[2] = j => x \in votes
    BY <1>3, <2>1
  <2> QED
    BY <1>3, <2>1, <2>2 DEF NodesInv, FreeVote
<1>9. SecondVote'
  <2> SUFFICES ASSUME NEW x \in votes', NEW y \in votes',
                      x[1] = y[1], x[2] = y[2], x[3] # y[3]
               PROVE  /\ x[2] \in {x[3], y[3]}
                      /\ <<x[1], x[2]>> \notin elected'
                      /\ srv'[x[2]].currentTerm = x[1]
                            => srv'[x[2]].state = "Follower"
    BY DEF SecondVote
  <2>1. CASE x \in votes /\ y \in votes
    <3>1. x[2] \in Server
      BY <1>5, <2>1
    <3> QED
      BY <1>3, <1>4, <2>1, <3>1 DEF NodesInv, SecondVote
  <2>2. CASE x = new /\ y \in votes
    BY <1>2, <1>3, <1>4, <2>2
  <2>3. CASE y = new /\ x \in votes
    BY <1>2, <1>3, <1>4, <2>3
  <2> QED
    BY <1>3, <2>1, <2>2, <2>3
<1>10. Majorities'
  BY <1>3, MajoritiesStay DEF NodesInv, Majorities
<1> QED
  BY <1>3, <1>6, <1>7, <1>8, <1>9, <1>10 DEF NodesInv

\* A candidate or leader meets another leader of its own term and forgets its
\* vote.  It cannot have been elected in that term itself.
LEMMA StepDownStep ==
    ASSUME TypeInv, NodesInv, Record, NEW i \in Server, NEW t \in ServerState,
           srv' = [srv EXCEPT ![i] = t],
           srv[i].state # "Follower", t.state = "Follower", t.votedFor = None,
           t.currentTerm = srv[i].currentTerm,
           NEW k \in Server, k # i, <<t.currentTerm, k>> \in elected
    PROVE  NodesInv' /\ votes' = votes /\ elected' = elected
<1>1. votes' = votes /\ elected' = elected
  BY RecordOne DEF NodesInv
<1>2. /\ srv'[i] = t
      /\ \A j \in Server \ {i} : srv'[j] = srv[j]
      /\ \A j \in Server : srv'[j].currentTerm = srv[j].currentTerm
  BY DEF TypeInv, TypeOK
<1>3. ElectionSafety
  BY NodesInvSafe
<1>4. <<t.currentTerm, i>> \notin elected
  BY <1>3 DEF ElectionSafety
<1>5. votes \subseteq Nat \X Server \X Server
  BY DEF NodesInv, HistoryOK
<1>6. <<t.currentTerm, i, i>> \in votes
  BY ServerAssumption DEF NodesInv, VoteRecorded
<1>7. \A x \in votes : x[1] = t.currentTerm /\ x[2] = i => x[3] = i
  BY <1>6 DEF NodesInv, SecondVote
<1>8. HistoryOK'
  BY <1>1, <1>2 DEF NodesInv, HistoryOK
<1>9. VoteRecorded'
  BY <1>1, <1>2 DEF NodesInv, VoteRecorded
<1>10. FreeVote'
  BY <1>1, <1>2, <1>4, <1>7 DEF NodesInv, FreeVote
<1>11. SecondVote'
  BY <1>1, <1>2, <1>5 DEF NodesInv, SecondVote
<1>12. Majorities'
  BY <1>1 DEF NodesInv, Majorities, Voters
<1> QED
  BY <1>1, <1>8, <1>9, <1>10, <1>11, <1>12 DEF NodesInv

\* A candidate for whom a majority has voted wins.
LEMMA WinStep ==
    ASSUME TypeInv, NodesInv, Record, NEW i \in Server, NEW t \in ServerState,
           srv' = [srv EXCEPT ![i] = t],
           srv[i].state = "Candidate", t.state = "Leader",
           t.currentTerm = srv[i].currentTerm, t.votedFor = srv[i].votedFor,
           Cardinality(Voters(t.currentTerm, i)) >= majority
    PROVE  /\ NodesInv' /\ votes' = votes
           /\ elected' = elected \cup {<<t.currentTerm, i>>}
<1>1. /\ votes' = votes \cup (IF t.votedFor = None THEN {}
                              ELSE {<<t.currentTerm, i, t.votedFor>>})
      /\ elected' = elected \cup {<<t.currentTerm, i>>}
  BY RecordOne DEF NodesInv
<1>2. votes' = votes
  BY <1>1 DEF NodesInv, VoteRecorded
<1>3. /\ srv'[i] = t
      /\ \A j \in Server \ {i} : srv'[j] = srv[j]
      /\ \A j \in Server : /\ srv'[j].currentTerm = srv[j].currentTerm
                            /\ srv'[j].votedFor = srv[j].votedFor
                            /\ srv[j].currentTerm \in Nat
  BY DEF TypeInv, TypeOK, ServerState
<1>4. srv[i].votedFor = i /\ i # None
  BY ServerAssumption DEF NodesInv, VoteRecorded
<1>5. votes \subseteq Nat \X Server \X Server
  BY DEF NodesInv, HistoryOK
<1>6. HistoryOK'
  BY <1>1, <1>2, <1>3 DEF NodesInv, HistoryOK
<1>7. VoteRecorded'
  BY <1>1, <1>2, <1>3, <1>4 DEF NodesInv, VoteRecorded
<1>8. FreeVote'
  BY <1>1, <1>2, <1>3, <1>4 DEF NodesInv, FreeVote
<1>9. SecondVote'
  BY <1>1, <1>2, <1>3, <1>5 DEF NodesInv, SecondVote
<1>10. Majorities'
  <2> SUFFICES ASSUME NEW e \in elected'
               PROVE  Cardinality(Voters(e[1], e[2])') >= majority
    BY DEF Majorities
  <2>1. Voters(e[1], e[2])' = Voters(e[1], e[2])
    BY <1>2 DEF Voters
  <2> QED
    BY <1>1, <2>1 DEF NodesInv, Majorities
<1> QED
  BY <1>1, <1>2, <1>6, <1>7, <1>8, <1>9, <1>10 DEF NodesInv

-----------------------------------------------------------------------------
(* What a step does to the messages *)

\* With short calls, a call somebody waits for was made since the sender's
\* election timer last fired.
LEMMA WaitingIsFresh ==
    ASSUME ShortCalls, NEW r, NEW n \in Nat, timeouts[r.from] = n,
           r.sent \in Nat, r.sent <= n, Waiting(r)
    PROVE  r.sent = n
<1>1. (n - r.sent) * ElectionTimeoutMin < ElectionTimeoutMin
  <2>1. (n - r.sent) * ElectionTimeoutMin <= RPCTimeout
    BY DEF Waiting
  <2>2. (n - r.sent) * ElectionTimeoutMin \in Int
    BY TimingAssumption
  <2> QED
    BY <2>1, <2>2, TimingAssumption DEF ShortCalls
<1>2. ASSUME NEW d \in Nat \ {0}, NEW e \in Nat PROVE d * e >= e
  <2>1. d = (d - 1) + 1 /\ d - 1 \in Nat
    OBVIOUS
  <2> QED
    BY <2>1
<1>3. n - r.sent \in Nat \ {0} => (n - r.sent) * ElectionTimeoutMin
                                     >= ElectionTimeoutMin
  BY <1>2, TimingAssumption
<1> QED
  BY <1>1, <1>3, TimingAssumption

\* The request of a ballot is a vote request.
LEMMA BallotType ==
    ASSUME TypeInv, NEW m \in Ballots
    PROVE  /\ Ballot(m) \in RequestVoteRequest
           /\ Ballot(m).from \in Server /\ Ballot(m).to \in Server
           /\ Ballot(m).term \in Nat /\ Ballot(m).sent \in Nat
<1>1. m \in Message /\ m.type \in {"RequestVote", "RequestVoteReply"}
  BY DEF Ballots, TypeInv, TypeOK
<1>2. Ballot(m) \in RequestVoteRequest
  BY <1>1, MessageByType DEF Ballot, RequestVoteResponse
<1> QED
  BY <1>2 DEF RequestVoteRequest

\* Every ballot under way after the step is one, or answers one, from before.
OldBallots == \A b \in Ballots' : \E a \in Ballots : Ballot(a) = Ballot(b)

\* Terms do not decrease, and no node becomes a candidate.
Onward == \A j \in Server :
             /\ srv'[j].currentTerm >= srv[j].currentTerm
             /\ srv'[j].state = "Candidate" =>
                   /\ srv[j].state = "Candidate"
                   /\ srv'[j].currentTerm = srv[j].currentTerm

\* No vote is counted.
SameCount == \A j \in Server : srv'[j].state = "Candidate"
                => srv'[j].votesReceived = srv[j].votesReceived

\* A step without a new election keeps the ballots in order.
LEMMA BallotsStep ==
    ASSUME TypeInv, BallotsOK, OldBallots, Onward, UNCHANGED timeouts,
           srv' \in [Server -> ServerState],
           \A b \in Ballots' : b.type = "RequestVoteReply" /\ b.voteGranted =>
              <<Ballot(b).term, Ballot(b).to, Ballot(b).from>> \in votes'
    PROVE  BallotsOK'
<1> SUFFICES ASSUME NEW b \in Ballots'
             PROVE  LET r == Ballot(b)
                    IN  /\ r.to # r.from
                        /\ r.sent <= timeouts'[r.from]
                        /\ r.term <= srv'[r.from].currentTerm
                        /\ (/\ r.sent = timeouts'[r.from]
                            /\ srv'[r.from].state = "Candidate")
                              => r.term = srv'[r.from].currentTerm
  BY DEF BallotsOK, Ballot
<1> DEFINE r == Ballot(b)
<1>1. PICK a \in Ballots : Ballot(a) = r
  BY DEF OldBallots
<1>2. r.from \in Server /\ r.term \in Nat
  BY <1>1, BallotType
<1>3. /\ r.to # r.from
      /\ r.sent <= timeouts[r.from]
      /\ r.term <= srv[r.from].currentTerm
      /\ r.sent = timeouts[r.from] /\ srv[r.from].state = "Candidate"
            => r.term = srv[r.from].currentTerm
  BY <1>1 DEF BallotsOK
<1>4. srv[r.from].currentTerm \in Nat /\ srv'[r.from].currentTerm \in Nat
  BY <1>2 DEF TypeInv, TypeOK, ServerState
<1> HIDE DEF r
<1>5. timeouts' = timeouts
  OBVIOUS
<1>6. /\ srv'[r.from].currentTerm >= srv[r.from].currentTerm
      /\ srv'[r.from].state = "Candidate" =>
            /\ srv[r.from].state = "Candidate"
            /\ srv'[r.from].currentTerm = srv[r.from].currentTerm
  BY <1>2 DEF Onward
<1>7. r.term <= srv'[r.from].currentTerm
  BY <1>2, <1>3, <1>4, <1>6
<1> QED
  BY <1>3, <1>5, <1>6, <1>7 DEF r

\* Without a new election, who was counted stays counted.
LEMMA CountedGrows ==
    ASSUME TypeInv, OldBallots, votes \subseteq votes', NEW j \in Server,
           srv'[j].currentTerm = srv[j].currentTerm
    PROVE  Counted(j) \subseteq Counted(j)'
<1> SUFFICES ASSUME NEW v \in Counted(j) PROVE v \in Counted(j)'
  OBVIOUS
<1>1. v \in Server /\ <<srv'[j].currentTerm, v, j>> \in votes'
  BY DEF Counted, Voters
<1>2. ASSUME NEW b \in Ballots'
      PROVE  ~ /\ Ballot(b).from = j /\ Ballot(b).to = v
               /\ Ballot(b).term = srv'[j].currentTerm
  <2>1. PICK a \in Ballots : Ballot(a) = Ballot(b)
    BY DEF OldBallots
  <2> QED
    BY <2>1 DEF Counted
<1> QED
  BY <1>1, <1>2 DEF Counted, Voters, Ballot

\* So a candidate whose own count stays has counted right.
LEMMA CountStep ==
    ASSUME TypeInv, TypeInv', CountIsTrue, OldBallots, Onward,
           votes \subseteq votes',
           NEW j \in Server, srv'[j].state = "Candidate",
           srv'[j].votesReceived = srv[j].votesReceived
    PROVE  srv'[j].votesReceived <= Cardinality(Counted(j)')
<1>1. srv[j].state = "Candidate" /\ srv'[j].currentTerm = srv[j].currentTerm
  BY DEF Onward
<1>2. srv[j].votesReceived <= Cardinality(Counted(j))
  BY <1>1 DEF CountIsTrue
<1>3. Counted(j) \subseteq Counted(j)' /\ Counted(j)' \subseteq Server
  BY <1>1, CountedGrows DEF Counted, Voters
<1>4. /\ Cardinality(Counted(j)) \in Nat /\ Cardinality(Counted(j)') \in Nat
      /\ Cardinality(Counted(j)) <= Cardinality(Counted(j)')
  BY <1>3, CardinalityMonotone
<1>5. srv[j].votesReceived \in Nat
  BY DEF TypeInv, TypeOK, ServerState
<1> QED
  BY <1>2, <1>4, <1>5

\* A step that sends no ballot, counts no vote and starts no election.
LEMMA QuietStep ==
    ASSUME TypeInv, TypeInv', ElectionInv, NodesInv',
           votes \subseteq votes', elected \subseteq elected',
           UNCHANGED <<timeouts, started>>, Ballots' \subseteq Ballots, Onward,
           SameCount, \A m \in net' : m \in net \/ CallOK(m)'
    PROVE  ElectionInv'
<1>1. OldBallots
  BY DEF OldBallots
<1>2. AllStarted'
  BY DEF ElectionInv, AllStarted
<1>3. CallsOfLeaders'
  BY DEF ElectionInv, CallsOfLeaders, CallOK
<1>4. BallotsOK'
  <2>1. \A b \in Ballots' : b.type = "RequestVoteReply" /\ b.voteGranted =>
           <<Ballot(b).term, Ballot(b).to, Ballot(b).from>> \in votes'
    BY DEF ElectionInv, BallotsOK
  <2>2. srv' \in [Server -> ServerState]
    BY DEF TypeInv, TypeOK
  <2> QED
    BY <1>1, <2>1, <2>2, BallotsStep DEF ElectionInv
<1>5. OneBallotEach'
  BY DEF ElectionInv, OneBallotEach, Ballot
<1>6. CountIsTrue'
  <2> SUFFICES ASSUME NEW j \in Server, srv'[j].state = "Candidate"
               PROVE  srv'[j].votesReceived <= Cardinality(Counted(j)')
    BY DEF CountIsTrue
  <2> QED
    BY <1>1, CountStep DEF ElectionInv, SameCount
<1> QED
  BY <1>2, <1>3, <1>4, <1>5, <1>6 DEF ElectionInv

\* A leader's calls bear its name and term and go to others.
LEMMA LeaderCalls ==
    ASSUME NEW i, NEW s, NEW log, NEW next, NEW commit,
           NEW m \in replicateLog(i, s, log, next, commit)
    PROVE  /\ m.type = "AppendEntries" /\ m.from = i /\ m.term = s.currentTerm
           /\ m.to # i
BY DEF replicateLog, sendAppendEntriesToPeer, Peers

\* What is under way was under way before or was just sent.
LEMMA PutBound ==
    ASSUME NEW rest, NEW new, Put(rest, new)
    PROVE  net' \subseteq rest \cup new
BY DEF Put

\* The same when a received message may come again.
LEMMA ConsumeOneBound ==
    ASSUME NEW m, NEW new, ConsumeOne(m, new)
    PROVE  net' \subseteq net \cup new
BY PutBound DEF ConsumeOne

-----------------------------------------------------------------------------
(* The steps *)

\* Heartbeats and proposals change neither votes nor ballots.
LEMMA LeaderSendsInv ==
    ASSUME TypeInv, TypeInv', ElectionInv, Record, NEW i \in Server,
           srv[i].state = "Leader", UNCHANGED <<srv, started, timeouts>>,
           NEW log, Send(replicateLog(i, srv[i], log, nextIndex[i],
                                      app[i].commitIndex))
    PROVE  ElectionInv'
<1>1. srv' = [srv EXCEPT ![i] = srv[i]] /\ srv[i] \in ServerState
  BY DEF TypeInv, TypeOK
<1>2. NodesInv' /\ votes' = votes /\ elected' = elected
  BY <1>1, SameRoleStep DEF ElectionInv, SameRole
<1> DEFINE calls == replicateLog(i, srv[i], log, nextIndex[i],
                                 app[i].commitIndex)
<1>3. net' \subseteq net \cup calls
  BY PutBound DEF Send
<1>4. \A m \in calls : /\ m.type = "AppendEntries" /\ m.from = i
                       /\ m.term = srv[i].currentTerm /\ m.to # i
  BY LeaderCalls
<1> HIDE DEF calls
<1>5. Ballots' \subseteq Ballots
  BY <1>3, <1>4 DEF Ballots
<1>6. <<srv[i].currentTerm, i>> \in elected
  BY DEF ElectionInv, NodesInv, VoteRecorded
<1>7. \A m \in net' : m \in net \/ CallOK(m)'
  BY <1>2, <1>3, <1>4, <1>6 DEF CallOK
<1>8. Onward /\ SameCount
  BY DEF Onward, SameCount, TypeInv, TypeOK, ServerState
<1> QED
  BY <1>2, <1>5, <1>7, <1>8, QuietStep

\* Handling an AppendEntries call: a node may step down, in a new term or in its
\* own, and then meets the leader of that term.
LEMMA AppendEntriesInv ==
    ASSUME TypeInv, TypeInv', ElectionInv, Record, NEW i \in Server,
           NEW m \in net, AppendEntries(i, m)
    PROVE  ElectionInv'
<1> DEFINE s == followLeader(srv[i], m.term)
<1>1. m \in AppendEntriesRequest /\ m.to = i /\ m.type = "AppendEntries"
  BY MessageByType DEF TypeInv, TypeOK, AppendEntries
<1>2. m.term \in Nat /\ m.from \in Server
  BY <1>1 DEF AppendEntriesRequest
<1>3. <<m.term, m.from>> \in elected /\ m.from # i
  BY <1>1 DEF ElectionInv, CallsOfLeaders, CallOK
<1>4. srv[i] \in ServerState /\ srv[i].currentTerm \in Nat
  BY DEF TypeInv, TypeOK, ServerState
<1>5. s \in ServerState
  BY <1>2, <1>4, BecomeFollowerType DEF followLeader
<1>6. \/ srv' = [srv EXCEPT ![i] = srv[i]]
      \/ m.term >= srv[i].currentTerm /\ srv' = [srv EXCEPT ![i] = s]
  <2>1. [srv EXCEPT ![i] = srv[i]] = srv
    BY DEF TypeInv, TypeOK
  <2> QED
    BY <2>1, Zenon DEF AppendEntries
<1>7. /\ NodesInv' /\ votes \subseteq votes' /\ elected \subseteq elected'
      /\ Onward /\ SameCount
  <2>1. CASE srv' = [srv EXCEPT ![i] = srv[i]]
    <3>1. NodesInv' /\ votes' = votes /\ elected' = elected
      BY <1>4, <2>1, SameRoleStep DEF ElectionInv, SameRole
    <3>2. srv' = srv
      BY <2>1 DEF TypeInv, TypeOK
    <3> QED
      BY <3>1, <3>2 DEF Onward, SameCount, TypeInv, TypeOK, ServerState
  <2>2. CASE /\ m.term > srv[i].currentTerm
             /\ srv' = [srv EXCEPT ![i] = s]
    <3>1. s.currentTerm = m.term /\ s.state = "Follower"
      BY <1>4, <2>2 DEF followLeader, becomeFollower, persist, ServerState
    <3> HIDE DEF s
    <3>2. NodesInv' /\ votes \subseteq votes' /\ elected' = elected
      BY <1>5, <2>2, <3>1, NewTermStep DEF ElectionInv
    <3>3. Onward /\ SameCount
      BY <1>2, <1>4, <2>2, <3>1 DEF Onward, SameCount, TypeInv, TypeOK, ServerState
    <3> QED
      BY <3>2, <3>3
  <2>3. CASE /\ m.term = srv[i].currentTerm /\ srv[i].state # "Follower"
             /\ srv' = [srv EXCEPT ![i] = s]
    <3>1. s.currentTerm = m.term /\ s.state = "Follower" /\ s.votedFor = None
      BY <1>4, <2>3 DEF followLeader, becomeFollower, persist, ServerState
    <3> HIDE DEF s
    <3>2. NodesInv' /\ votes' = votes /\ elected' = elected
      BY <1>2, <1>3, <1>5, <2>3, <3>1, StepDownStep DEF ElectionInv
    <3>3. Onward /\ SameCount
      BY <1>2, <1>4, <2>3, <3>1 DEF Onward, SameCount, TypeInv, TypeOK, ServerState
    <3> QED
      BY <3>2, <3>3
  <2>4. CASE /\ m.term = srv[i].currentTerm /\ srv[i].state = "Follower"
             /\ srv' = [srv EXCEPT ![i] = s]
    <3>1. s = srv[i]
      BY <1>2, <1>4, <2>4 DEF followLeader
    <3> QED
      BY <2>1, <2>4, <3>1
  <2> QED
    BY <1>2, <1>4, <1>6, <2>1, <2>2, <2>3, <2>4
<1>8. UNCHANGED <<timeouts, started>>
  BY DEF AppendEntries
<1>9. \A x \in net' : \/ x \in net
                      \/ x.type = "AppendEntriesReply" /\ x.req = m
  <2> DEFINE resp(t, ok) == [type |-> "AppendEntriesReply", req |-> m,
                             term |-> t, success |-> ok]
  <2>1. PICK t \in Nat, ok \in BOOLEAN : ConsumeOne(m, Reply(m, resp(t, ok)))
    BY <1>2, <1>4 DEF AppendEntries
  <2>2. net' \subseteq net \cup Reply(m, resp(t, ok))
    BY <2>1, ConsumeOneBound
  <2>3. \A x \in Reply(m, resp(t, ok)) :
           x.type = "AppendEntriesReply" /\ x.req = m
    BY DEF Reply
  <2> HIDE DEF resp
  <2> QED
    BY <2>2, <2>3
<1>10. Ballots' \subseteq Ballots
  BY <1>9 DEF Ballots
<1>11. \A x \in net' : x \in net \/ CallOK(x)'
  BY <1>1, <1>3, <1>9 DEF CallOK
<1> QED
  BY <1>7, <1>8, <1>10, <1>11, QuietStep

\* Handling the reply to one: the node may step down in a new term.
LEMMA HandleAppendEntriesResponseInv ==
    ASSUME TypeInv, TypeInv', ElectionInv, Record, NEW i \in Server,
           NEW m \in net, handleAppendEntriesResponse(i, m)
    PROVE  ElectionInv'
<1> DEFINE s == becomeFollower(srv[i], m.term)
<1>1. m.term \in Nat /\ srv[i] \in ServerState /\ srv[i].currentTerm \in Nat
  BY MessageByType DEF TypeInv, TypeOK, handleAppendEntriesResponse,
                       AppendEntriesResponse, ServerState
<1>2. \/ srv' = srv
      \/ m.term > srv[i].currentTerm /\ srv' = [srv EXCEPT ![i] = s]
  BY Zenon DEF handleAppendEntriesResponse
<1>3. /\ NodesInv' /\ votes \subseteq votes' /\ elected' = elected
      /\ Onward /\ SameCount
  <2>1. CASE srv' = srv
    <3>1. srv' = [srv EXCEPT ![i] = srv[i]]
      BY <2>1 DEF TypeInv, TypeOK
    <3>2. NodesInv' /\ votes' = votes /\ elected' = elected
      BY <1>1, <3>1, SameRoleStep DEF ElectionInv, SameRole
    <3> QED
      BY <2>1, <3>2 DEF Onward, SameCount, TypeInv, TypeOK, ServerState
  <2>2. CASE m.term > srv[i].currentTerm /\ srv' = [srv EXCEPT ![i] = s]
    <3>1. s \in ServerState
      BY <1>1, BecomeFollowerType
    <3>2. s.currentTerm = m.term /\ s.state = "Follower"
      BY <1>1 DEF becomeFollower, persist, ServerState
    <3> HIDE DEF s
    <3>3. NodesInv' /\ votes \subseteq votes' /\ elected' = elected
      BY <2>2, <3>1, <3>2, NewTermStep DEF ElectionInv
    <3>4. Onward /\ SameCount
      BY <1>1, <2>2, <3>2 DEF Onward, SameCount, TypeInv, TypeOK, ServerState
    <3> QED
      BY <3>3, <3>4
  <2> QED
    BY <1>2, <2>1, <2>2
<1>4. UNCHANGED <<timeouts, started>>
  BY DEF handleAppendEntriesResponse
<1>5. ASSUME NEW x \in net', x \notin net
      PROVE  x.type = "AppendEntries" /\ CallOK(x)'
  <2> DEFINE p    == m.req.to
             next == backOff(nextIndex[i][p])
             call == sendAppendEntriesToPeer(i, p, srv[i], logs[i].log, next,
                                             app[i].commitIndex)
  <2>1. ConsumeOne(m, {}) \/ (srv[i].state = "Leader" /\ ConsumeOne(m, {call}))
    BY Zenon DEF handleAppendEntriesResponse
  <2>2. srv[i].state = "Leader" /\ x = call
    BY <1>5, <2>1, ConsumeOneBound
  <2>3. <<srv[i].currentTerm, i>> \in elected
    BY <2>2 DEF ElectionInv, NodesInv, VoteRecorded
  <2>4. p # i
    BY DEF handleAppendEntriesResponse, ElectionInv, CallsOfLeaders, CallOK
  <2> QED
    BY <1>3, <2>2, <2>3, <2>4 DEF sendAppendEntriesToPeer, CallOK
<1>6. Ballots' \subseteq Ballots
  BY <1>5 DEF Ballots
<1>7. elected \subseteq elected' /\ \A x \in net' : x \in net \/ CallOK(x)'
  BY <1>3, <1>5
<1> QED
  BY <1>3, <1>4, <1>6, <1>7, QuietStep

\* A vote that a waiting candidate counts was given to it in this term and had
\* not been counted.
LEMMA VoteCounts ==
    ASSUME ShortCalls, TypeInv, ElectionInv, NEW i \in Server, NEW m \in net,
           m.type = "RequestVoteReply", m.req.from = i, Waiting(m.req),
           srv[i].state = "Candidate", m.voteGranted
    PROVE  /\ m.req.to \in Voters(srv[i].currentTerm, i)
           /\ m.req.term = srv[i].currentTerm
           /\ Cardinality(Counted(i) \cup {m.req.to}) \in Nat
           /\ srv[i].votesReceived + 1 <= Cardinality(Counted(i) \cup {m.req.to})
<1>1. m \in Ballots /\ Ballot(m) = m.req
  BY DEF Ballots, Ballot
<1>2. /\ m.req.to \in Server /\ m.req.sent \in Nat
      /\ timeouts[i] \in Nat /\ srv[i].votesReceived \in Nat
  BY <1>1, BallotType DEF TypeInv, TypeOK, ServerState
<1>3. /\ m.req.sent <= timeouts[i]
      /\ m.req.sent = timeouts[i] => m.req.term = srv[i].currentTerm
      /\ <<m.req.term, m.req.to, i>> \in votes
  BY <1>1 DEF ElectionInv, BallotsOK
<1>4. m.req.term = srv[i].currentTerm
  BY <1>2, <1>3, WaitingIsFresh
<1>5. m.req.to \in Voters(srv[i].currentTerm, i)
  BY <1>2, <1>3, <1>4 DEF Voters
<1>6. m.req.to \notin Counted(i)
  BY <1>1, <1>4 DEF Counted
<1>7. IsFiniteSet(Counted(i)) /\ Cardinality(Counted(i)) \in Nat
  <2>1. Counted(i) \subseteq Server
    BY DEF Counted, Voters
  <2> QED
    BY <2>1, ServerAssumption, FS_Subset, FS_CardinalityType
<1>8. Cardinality(Counted(i) \cup {m.req.to}) = Cardinality(Counted(i)) + 1
  BY <1>6, <1>7, FS_AddElement
<1>9. srv[i].votesReceived <= Cardinality(Counted(i))
  BY DEF ElectionInv, CountIsTrue
<1> QED
  BY <1>2, <1>4, <1>5, <1>7, <1>8, <1>9

\* Handling the reply to a vote request.
LEMMA HandleVoteResponseInv ==
    ASSUME ShortCalls, TypeInv, TypeInv', ElectionInv, Record, NEW i \in Server,
           NEW m \in net, handleVoteResponse(i, m)
    PROVE  ElectionInv'
<1> DEFINE s == srv[i]
           c == [s EXCEPT !.votesReceived = @ + 1]
<1>1. /\ m.type = "RequestVoteReply" /\ m.req.from = i /\ Waiting(m.req)
      /\ UNCHANGED <<timeouts, started>>
  BY DEF handleVoteResponse
<1>2. m.term \in Nat /\ s \in ServerState /\ s.currentTerm \in Nat
  BY <1>1, MessageByType DEF RequestVoteResponse, TypeInv, TypeOK, ServerState
<1>3. /\ c \in ServerState /\ SameRole(s, c)
      /\ c.votesReceived = s.votesReceived + 1
  BY <1>2 DEF ServerState, SameRole
<1>4. ASSUME Consume(m, {})
      PROVE  /\ net' \subseteq net \ {m} /\ Ballots' \subseteq Ballots
             /\ \A x \in net' : x \in net \/ CallOK(x)'
  <2>1. net' \subseteq net \ {m}
    BY <1>4, PutBound DEF Consume
  <2> QED
    BY <2>1 DEF Ballots
<1>5. CASE Consume(m, {}) /\ UNCHANGED srv
  <2>1. srv' = [srv EXCEPT ![i] = s]
    BY <1>5 DEF TypeInv, TypeOK
  <2>2. NodesInv' /\ votes' = votes /\ elected' = elected
    BY <1>2, <2>1, SameRoleStep DEF ElectionInv, SameRole
  <2>3. Onward /\ SameCount
    BY <1>5 DEF Onward, SameCount, TypeInv, TypeOK, ServerState
  <2> QED
    BY <1>1, <1>4, <1>5, <2>2, <2>3, QuietStep
<1>6. CASE /\ m.term > s.currentTerm
           /\ srv' = [srv EXCEPT ![i] = becomeFollower(s, m.term)]
           /\ Consume(m, {})
  <2> DEFINE t == becomeFollower(s, m.term)
  <2>1. t \in ServerState
    BY <1>2, BecomeFollowerType
  <2>2. t.currentTerm = m.term /\ t.state = "Follower"
    BY <1>2 DEF becomeFollower, persist, ServerState
  <2> HIDE DEF t
  <2>3. srv' = [srv EXCEPT ![i] = t]
    BY <1>6 DEF t
  <2>4. NodesInv' /\ votes \subseteq votes' /\ elected' = elected
    BY <1>6, <2>1, <2>2, <2>3, NewTermStep DEF ElectionInv
  <2>5. Onward /\ SameCount
    BY <1>2, <1>6, <2>2, <2>3
       DEF Onward, SameCount, TypeInv, TypeOK, ServerState
  <2> QED
    BY <1>1, <1>4, <1>6, <2>4, <2>5, QuietStep
<1>7. CASE /\ s.state = "Candidate" /\ m.voteGranted
           /\ srv' = [srv EXCEPT ![i] = c]
           /\ Consume(m, {})
  <2> HIDE DEF c
  <2>1. NodesInv' /\ votes' = votes /\ elected' = elected
    BY <1>3, <1>7, SameRoleStep DEF ElectionInv
  <2>2. /\ srv'[i] = c
        /\ \A j \in Server \ {i} : srv'[j] = srv[j]
    BY <1>7 DEF TypeInv, TypeOK
  <2>3. Onward
    <3>1. ASSUME NEW j \in Server
          PROVE  /\ srv'[j].currentTerm = srv[j].currentTerm
                 /\ srv'[j].state = srv[j].state
                 /\ srv[j].currentTerm \in Nat
      <4>1. srv[j].currentTerm \in Nat
        BY DEF TypeInv, TypeOK, ServerState
      <4> QED
        BY <1>3, <2>2, <4>1 DEF SameRole
    <3> QED
      BY <3>1 DEF Onward
  <2>4. /\ net' \subseteq net \ {m} /\ Ballots' \subseteq Ballots /\ OldBallots
        /\ srv' \in [Server -> ServerState]
    BY <1>4, <1>7 DEF OldBallots, TypeInv, TypeOK
  <2>5. AllStarted' /\ CallsOfLeaders' /\ OneBallotEach'
    BY <1>1, <2>1, <2>4 DEF ElectionInv, AllStarted, CallsOfLeaders, CallOK,
                            OneBallotEach, Ballot
  <2>6. BallotsOK'
    <3>1. \A b \in Ballots' : b.type = "RequestVoteReply" /\ b.voteGranted =>
             <<Ballot(b).term, Ballot(b).to, Ballot(b).from>> \in votes'
      BY <2>1, <2>4 DEF ElectionInv, BallotsOK
    <3> QED
      BY <1>1, <2>3, <2>4, <3>1, BallotsStep DEF ElectionInv
  <2>7. CountIsTrue'
    <3> SUFFICES ASSUME NEW j \in Server, srv'[j].state = "Candidate"
                 PROVE  srv'[j].votesReceived <= Cardinality(Counted(j)')
      BY DEF CountIsTrue
    <3>1. CASE j # i
      BY <2>1, <2>2, <2>3, <2>4, <3>1, CountStep DEF ElectionInv
    <3>2. CASE j = i
      <4> DEFINE D == Counted(i) \cup {m.req.to}
      <4>1. /\ m.req.to \in Voters(srv[i].currentTerm, i)
            /\ m.req.term = srv[i].currentTerm
            /\ Cardinality(D) \in Nat
            /\ srv[i].votesReceived + 1 <= Cardinality(D)
        BY <1>1, <1>7, VoteCounts
      <4>2. srv'[i].currentTerm = srv[i].currentTerm
             /\ srv'[i].votesReceived = srv[i].votesReceived + 1
        BY <1>3, <2>2 DEF SameRole
      <4>3. Counted(i) \subseteq Counted(i)'
        BY <2>1, <2>4, <4>2, CountedGrows
      <4>4. m.req.to \in Counted(i)'
        <5>1. ASSUME NEW b \in Ballots', Ballot(b).from = i,
                     Ballot(b).to = m.req.to,
                     Ballot(b).term = srv'[i].currentTerm
              PROVE  FALSE
          <6>1. m \in Ballots /\ Ballot(m) = m.req /\ b \in Ballots /\ b # m
            BY <1>1, <2>4 DEF Ballots, Ballot
          <6> QED
            BY <1>1, <4>1, <4>2, <5>1, <6>1 DEF ElectionInv, OneBallotEach
        <5>2. m.req.to \in Voters(srv[i].currentTerm, i)'
          BY <2>1, <4>1, <4>2 DEF Voters
        <5> QED
          BY <4>2, <5>1, <5>2 DEF Counted, Voters, Ballot
      <4>5. D \subseteq Counted(i)' /\ Counted(i)' \subseteq Server
        BY <4>3, <4>4 DEF Counted, Voters
      <4>6. /\ Cardinality(Counted(i)') \in Nat
            /\ Cardinality(D) <= Cardinality(Counted(i)')
        BY <4>5, CardinalityMonotone
      <4>7. srv[i].votesReceived \in Nat
        BY <1>2 DEF ServerState
      <4> QED
        BY <3>2, <4>1, <4>2, <4>6, <4>7
    <3> QED
      BY <3>1, <3>2
  <2> QED
    BY <2>1, <2>5, <2>6, <2>7 DEF ElectionInv
<1>8. CASE /\ s.state = "Candidate" /\ m.voteGranted
           /\ c.votesReceived >= majority
           /\ becomeLeader(i, c)
           /\ Consume(m, replicateLog(i, c, logs[i].log, nextIndex'[i],
                                      app[i].commitIndex))
  <2> DEFINE t     == [c EXCEPT !.state = "Leader"]
             calls == replicateLog(i, c, logs[i].log, nextIndex'[i],
                                   app[i].commitIndex)
  <2>1. /\ t \in ServerState /\ t.currentTerm = s.currentTerm
        /\ t.votedFor = s.votedFor /\ t.state = "Leader"
    BY <1>2, <1>3 DEF ServerState
  <2>2. srv' = [srv EXCEPT ![i] = t]
    BY <1>8 DEF becomeLeader
  <2> HIDE DEF t, c
  <2>3. Cardinality(Voters(s.currentTerm, i)) >= majority
    <3> DEFINE D == Counted(i) \cup {m.req.to}
    <3>1. /\ m.req.to \in Voters(s.currentTerm, i)
          /\ Cardinality(D) \in Nat
          /\ s.votesReceived + 1 <= Cardinality(D)
      BY <1>1, <1>8, VoteCounts
    <3>2. /\ D \subseteq Voters(s.currentTerm, i)
          /\ Voters(s.currentTerm, i) \subseteq Server
      BY <3>1 DEF Counted, Voters
    <3>3. /\ Cardinality(Voters(s.currentTerm, i)) \in Nat
          /\ Cardinality(D) <= Cardinality(Voters(s.currentTerm, i))
      BY <3>2, CardinalityMonotone
    <3>4. majority \in Nat /\ s.votesReceived \in Nat
      BY <1>2, ServerAssumption, FS_CardinalityType DEF majority, ServerState
    <3>5. s.votesReceived + 1 >= majority
      BY <1>3, <1>8
    <3> HIDE DEF D
    <3> QED
      BY <3>1, <3>3, <3>4, <3>5
  <2>4. /\ NodesInv' /\ votes' = votes
        /\ elected' = elected \cup {<<s.currentTerm, i>>}
    BY <1>8, <2>1, <2>2, <2>3, WinStep DEF ElectionInv
  <2>5. net' \subseteq net \cup calls
    BY <1>8, PutBound DEF Consume
  <2>6. \A x \in calls : /\ x.type = "AppendEntries" /\ x.from = i
                         /\ x.term = s.currentTerm /\ x.to # i
    BY <1>3, LeaderCalls DEF SameRole
  <2> HIDE DEF calls
  <2>7. Ballots' \subseteq Ballots
    BY <2>5, <2>6 DEF Ballots
  <2>8. \A x \in net' : x \in net \/ CallOK(x)'
    BY <2>4, <2>5, <2>6 DEF CallOK
  <2>9. Onward /\ SameCount
    BY <1>2, <2>1, <2>2 DEF Onward, SameCount, TypeInv, TypeOK, ServerState
  <2>10. votes \subseteq votes' /\ elected \subseteq elected'
    BY <2>4
  <2> QED
    BY <1>1, <2>4, <2>7, <2>8, <2>9, <2>10, QuietStep
<1> QED
  BY <1>5, <1>6, <1>7, <1>8, Zenon DEF handleVoteResponse

\* Handling a vote request: the node may enter the candidate's term and may
\* vote; its answer takes the place of the request.
LEMMA RequestVoteInv ==
    ASSUME TypeInv, TypeInv', ElectionInv, Record, NEW i \in Server,
           NEW m \in net, RequestVote(i, m)
    PROVE  ElectionInv'
<1> DEFINE s     == IF m.term > srv[i].currentTerm
                    THEN becomeFollower(srv[i], m.term) ELSE srv[i]
           grant == shouldVoteFor(s, logs[i].log, m)
           t     == IF grant THEN persist([s EXCEPT !.votedFor = m.from])
                             ELSE s
           resp  == [type |-> "RequestVoteReply", req |-> m,
                     term |-> s.currentTerm, voteGranted |-> grant]
<1>1. /\ m.type = "RequestVote" /\ m.to = i
      /\ srv' = [srv EXCEPT ![i] = t]
      /\ Consume(m, Reply(m, resp))
      /\ UNCHANGED <<started, timeouts>>
  BY DEF RequestVote
<1>2. m \in RequestVoteRequest /\ m.term \in Nat /\ m.from \in Server
  BY <1>1, MessageByType DEF TypeInv, TypeOK, RequestVoteRequest
<1>3. srv[i] \in ServerState /\ srv[i].currentTerm \in Nat
  BY DEF TypeInv, TypeOK, ServerState
<1>4. s \in ServerState /\ s.currentTerm \in Nat
  BY <1>2, <1>3, BecomeFollowerType DEF ServerState
<1>5. /\ ~grant => t = s
      /\ grant => /\ t.currentTerm = s.currentTerm /\ t.state = s.state
                  /\ t.votedFor = m.from /\ t.votesReceived = s.votesReceived
                  /\ s.votedFor \in {None, m.from}
                  /\ m.term >= s.currentTerm
  BY <1>4 DEF persist, ServerState, shouldVoteFor
<1>6. t \in ServerState
  <2>1. [s EXCEPT !.votedFor = m.from] \in ServerState
    BY <1>2, <1>4 DEF ServerState
  <2> QED
    BY <1>4, <2>1, PersistType
<1>7. /\ m.term > srv[i].currentTerm
            => s.currentTerm = m.term /\ s.state = "Follower"
      /\ ~(m.term > srv[i].currentTerm) => s = srv[i]
  BY <1>3 DEF becomeFollower, persist, ServerState
<1>8. resp.type = "RequestVoteReply" /\ resp.req = m /\ resp.voteGranted = grant
  OBVIOUS
<1> HIDE DEF s, grant, t, resp
<1>9. /\ srv'[i] = t
      /\ \A j \in Server \ {i} : srv'[j] = srv[j]
  BY <1>1 DEF TypeInv, TypeOK
<1>10. NodesInv' /\ votes \subseteq votes' /\ elected' = elected
  <2>1. CASE m.term > srv[i].currentTerm
    BY <1>1, <1>5, <1>6, <1>7, <2>1, NewTermStep DEF ElectionInv
  <2>2. CASE /\ ~(m.term > srv[i].currentTerm) /\ grant
             /\ srv[i].votedFor = None
    BY <1>1, <1>2, <1>5, <1>6, <1>7, <2>2, GrantStep DEF ElectionInv
  <2>3. CASE /\ ~(m.term > srv[i].currentTerm)
             /\ ~(grant /\ srv[i].votedFor = None)
    <3>1. SameRole(srv[i], t)
      BY <1>5, <1>7, <2>3 DEF SameRole
    <3> QED
      BY <1>1, <1>6, <3>1, SameRoleStep DEF ElectionInv
  <2> QED
    BY <2>1, <2>2, <2>3
<1>11. Onward /\ SameCount
  <2>1. ASSUME NEW j \in Server
        PROVE  /\ srv'[j].currentTerm >= srv[j].currentTerm
               /\ srv'[j].state = "Candidate" =>
                    /\ srv[j].state = "Candidate"
                    /\ srv'[j].currentTerm = srv[j].currentTerm
                    /\ srv'[j].votesReceived = srv[j].votesReceived
    <3>1. srv[j].currentTerm \in Nat
      BY DEF TypeInv, TypeOK, ServerState
    <3>2. CASE j # i
      BY <1>9, <3>1, <3>2
    <3>3. CASE j = i
      BY <1>2, <1>3, <1>5, <1>7, <1>9, <3>1, <3>3
    <3> QED
      BY <3>2, <3>3
  <2> QED
    BY <2>1 DEF Onward, SameCount
<1>12. m \in Ballots /\ Ballot(m) = m /\ Ballot(resp) = m
  BY <1>1, <1>8 DEF Ballots, Ballot
<1>13. net' \subseteq (net \ {m}) \cup {resp}
  <2>1. Reply(m, resp) \subseteq {resp}
    BY DEF Reply
  <2> QED
    BY <1>1, <2>1, PutBound DEF Consume
<1>14. \A b \in Ballots' : (b \in Ballots /\ b # m) \/ b = resp
  BY <1>13 DEF Ballots
<1>15. OldBallots
  BY <1>12, <1>14 DEF OldBallots
<1>16. AllStarted'
  BY <1>1 DEF ElectionInv, AllStarted
<1>17. CallsOfLeaders'
  BY <1>8, <1>10, <1>13 DEF ElectionInv, CallsOfLeaders, CallOK
<1>18. BallotsOK'
  <2>1. ASSUME grant PROVE <<m.term, i, m.from>> \in votes'
    <3>1. t.votedFor = m.from /\ t.currentTerm = m.term
      BY <1>2, <1>3, <1>5, <1>7, <2>1
    <3>2. t.votedFor # None
      BY <1>2, <3>1, ServerAssumption
    <3> QED
      BY <1>9, <1>10, <3>1, <3>2 DEF NodesInv, VoteRecorded
  <2>2. ASSUME NEW b \in Ballots', b.type = "RequestVoteReply", b.voteGranted
        PROVE  <<Ballot(b).term, Ballot(b).to, Ballot(b).from>> \in votes'
    <3>1. CASE b \in Ballots
      BY <1>10, <2>2, <3>1 DEF ElectionInv, BallotsOK
    <3>2. CASE b = resp
      BY <1>1, <1>8, <1>12, <2>1, <2>2, <3>2
    <3> QED
      BY <1>14, <3>1, <3>2
  <2>3. srv' \in [Server -> ServerState] /\ timeouts' = timeouts
    BY <1>1 DEF TypeInv, TypeOK
  <2> QED
    BY <1>11, <1>15, <2>2, <2>3, BallotsStep DEF ElectionInv
<1>19. OneBallotEach'
  <2> SUFFICES ASSUME NEW b \in Ballots', NEW d \in Ballots',
                      Ballot(b).from = Ballot(d).from,
                      Ballot(b).to = Ballot(d).to,
                      Ballot(b).term = Ballot(d).term
               PROVE  b = d
    BY DEF OneBallotEach, Ballot
  <2>1. \A x, y \in Ballots :
           (/\ Ballot(x).from = Ballot(y).from /\ Ballot(x).to = Ballot(y).to
            /\ Ballot(x).term = Ballot(y).term) => x = y
    BY DEF ElectionInv, OneBallotEach
  <2>2. CASE b # resp /\ d # resp
    BY <1>14, <2>1, <2>2
  <2>3. CASE b = resp /\ d # resp
    BY <1>12, <1>14, <2>1, <2>3
  <2>4. CASE b # resp /\ d = resp
    BY <1>12, <1>14, <2>1, <2>4
  <2> QED
    BY <2>2, <2>3, <2>4
<1>20. CountIsTrue'
  <2> SUFFICES ASSUME NEW j \in Server, srv'[j].state = "Candidate"
               PROVE  srv'[j].votesReceived <= Cardinality(Counted(j)')
    BY DEF CountIsTrue
  <2> QED
    BY <1>10, <1>11, <1>15, CountStep DEF ElectionInv, SameCount
<1> QED
  BY <1>10, <1>16, <1>17, <1>18, <1>19, <1>20 DEF ElectionInv

\* The election timer fires: the calls are the first of their term, and the
\* candidate has counted its own vote.
LEMMA ElectionTimeoutInv ==
    ASSUME TypeInv, TypeInv', ElectionInv, Record, NEW i \in Server,
           ElectionTimeout(i)
    PROVE  ElectionInv'
<1> DEFINE t     == becomeCandidate(srv[i], i)
           calls == requestVotes(i, srv'[i], logs[i].log, timeouts'[i])
<1>1. /\ srv' = [srv EXCEPT ![i] = t] /\ started' = started
      /\ timeouts' = [timeouts EXCEPT ![i] = @ + 1]
      /\ Send(calls)
  BY DEF ElectionTimeout
<1>2. t \in ServerState
  BY BecomeCandidateType DEF TypeInv, TypeOK
<1>3. /\ t.currentTerm = srv[i].currentTerm + 1 /\ t.state = "Candidate"
      /\ t.votedFor = i /\ t.votesReceived = 1 /\ srv[i].currentTerm \in Nat
  BY DEF becomeCandidate, persist, TypeInv, TypeOK, ServerState
<1> HIDE DEF t
<1>4. /\ srv'[i] = t
      /\ \A j \in Server \ {i} : srv'[j] = srv[j]
      /\ timeouts'[i] = timeouts[i] + 1 /\ timeouts[i] \in Nat
      /\ \A j \in Server \ {i} : timeouts'[j] = timeouts[j]
  BY <1>1 DEF TypeInv, TypeOK
<1>5. NodesInv' /\ votes \subseteq votes' /\ elected' = elected
  <2>1. srv' = [srv EXCEPT ![i] = t]
    BY <1>1
  <2>2. t.currentTerm > srv[i].currentTerm
    BY <1>3
  <2> QED
    BY <1>2, <1>3, <2>1, <2>2, NewTermStep DEF ElectionInv
<1>6. net' \subseteq net \cup calls
  BY <1>1, PutBound DEF Send
<1>7. \A x \in calls :
         /\ x.type = "RequestVote" /\ x.from = i /\ x.to # i
         /\ x.term = t.currentTerm /\ x.sent = timeouts[i] + 1
  BY <1>4 DEF requestVotes, Peers
<1>8. \A x, y \in calls : x.to = y.to => x = y
  BY DEF requestVotes
<1> HIDE DEF calls
<1>9. \A b \in Ballots' : b \in Ballots \/ (b \in calls /\ Ballot(b) = b)
  <2>1. \A x \in calls : Ballot(x) = x
    BY <1>7 DEF Ballot
  <2>2. ASSUME NEW b \in Ballots' PROVE b \in Ballots \/ b \in calls
    BY <1>6 DEF Ballots
  <2> QED
    BY <2>1, <2>2
<1>10. \A b \in Ballots : Ballot(b).from = i =>
          /\ Ballot(b).term < t.currentTerm
          /\ Ballot(b).sent < timeouts[i] + 1
  <2> SUFFICES ASSUME NEW b \in Ballots, Ballot(b).from = i
               PROVE  /\ Ballot(b).term < t.currentTerm
                      /\ Ballot(b).sent < timeouts[i] + 1
    OBVIOUS
  <2>1. Ballot(b).term \in Nat /\ Ballot(b).sent \in Nat
    BY BallotType
  <2>2. /\ Ballot(b).term <= srv[i].currentTerm
        /\ Ballot(b).sent <= timeouts[i]
    BY DEF ElectionInv, BallotsOK
  <2> QED
    BY <1>3, <1>4, <2>1, <2>2
<1>11. AllStarted'
  BY <1>1 DEF ElectionInv, AllStarted
<1>12. CallsOfLeaders'
  BY <1>5, <1>6, <1>7 DEF ElectionInv, CallsOfLeaders, CallOK
<1>13. BallotsOK'
  <2> SUFFICES ASSUME NEW b \in Ballots'
               PROVE  LET r == Ballot(b)
                      IN  /\ r.to # r.from
                          /\ r.sent <= timeouts'[r.from]
                          /\ r.term <= srv'[r.from].currentTerm
                          /\ (/\ r.sent = timeouts'[r.from]
                              /\ srv'[r.from].state = "Candidate")
                                => r.term = srv'[r.from].currentTerm
                          /\ (b.type = "RequestVoteReply" /\ b.voteGranted)
                                => <<r.term, r.to, r.from>> \in votes'
    BY DEF BallotsOK, Ballot
  <2>1. CASE b \in Ballots
    <3> DEFINE r == Ballot(b)
    <3>1. /\ r.to # r.from
          /\ r.sent <= timeouts[r.from]
          /\ r.term <= srv[r.from].currentTerm
          /\ r.sent = timeouts[r.from] /\ srv[r.from].state = "Candidate"
                => r.term = srv[r.from].currentTerm
          /\ b.type = "RequestVoteReply" /\ b.voteGranted
                => <<r.term, r.to, r.from>> \in votes'
      BY <1>5, <2>1 DEF ElectionInv, BallotsOK
    <3>2. r.from \in Server /\ r.term \in Nat /\ r.sent \in Nat
      BY <2>1, BallotType
    <3>3. r.from = i => r.term < t.currentTerm /\ r.sent < timeouts[i] + 1
      BY <1>10, <2>1
    <3> HIDE DEF r
    <3>4. CASE r.from = i
      BY <1>2, <1>3, <1>4, <3>1, <3>2, <3>3, <3>4 DEF r
    <3>5. CASE r.from # i
      BY <1>4, <3>1, <3>2, <3>5 DEF r
    <3> QED
      BY <3>4, <3>5
  <2>2. CASE b \in calls /\ Ballot(b) = b
    BY <1>2, <1>3, <1>4, <1>7, <2>2
  <2> QED
    BY <1>9, <2>1, <2>2
<1>14. OneBallotEach'
  <2> SUFFICES ASSUME NEW b \in Ballots', NEW d \in Ballots',
                      Ballot(b).from = Ballot(d).from,
                      Ballot(b).to = Ballot(d).to,
                      Ballot(b).term = Ballot(d).term
               PROVE  b = d
    BY DEF OneBallotEach, Ballot
  <2>1. t.currentTerm \in Nat /\ \A x \in Ballots : Ballot(x).term \in Nat
    BY <1>3, BallotType
  <2>2. CASE b \in Ballots /\ d \in Ballots
    BY <2>2 DEF ElectionInv, OneBallotEach
  <2>3. CASE b \in calls /\ Ballot(b) = b /\ d \in Ballots
    BY <1>7, <1>10, <2>1, <2>3
  <2>4. CASE d \in calls /\ Ballot(d) = d /\ b \in Ballots
    BY <1>7, <1>10, <2>1, <2>4
  <2>5. CASE b \in calls /\ Ballot(b) = b /\ d \in calls /\ Ballot(d) = d
    BY <1>8, <2>5
  <2> QED
    BY <1>9, <2>2, <2>3, <2>4, <2>5
<1>15. CountIsTrue'
  <2> SUFFICES ASSUME NEW j \in Server, srv'[j].state = "Candidate"
               PROVE  srv'[j].votesReceived <= Cardinality(Counted(j)')
    BY DEF CountIsTrue
  <2>1. CASE j = i
    <3>1. i \in Voters(srv[i].currentTerm, i)'
      <4>1. srv'[i].votedFor = i /\ i # None
        BY <1>3, <1>4, ServerAssumption
      <4>2. <<srv'[i].currentTerm, i, i>> \in votes'
        BY <1>5, <4>1 DEF NodesInv, VoteRecorded
      <4> QED
        BY <4>2 DEF Voters
    <3>2. \A b \in Ballots' : Ballot(b).to # Ballot(b).from
      BY <1>13 DEF BallotsOK, Ballot
    <3>3. i \in Counted(i)'
      BY <3>1, <3>2 DEF Counted, Voters, Ballot
    <3>4. {i} \subseteq Counted(i)' /\ Counted(i)' \subseteq Server
      BY <3>3 DEF Counted, Voters
    <3>5. /\ Cardinality({i}) <= Cardinality(Counted(i)')
          /\ Cardinality({i}) = 1
      BY <3>4, CardinalityMonotone, FS_Singleton
    <3> QED
      BY <1>3, <1>4, <2>1, <3>5
  <2>2. CASE j # i
    <3>1. srv'[j] = srv[j]
      BY <1>4, <2>2
    <3>2. Counted(j) \subseteq Counted(j)'
      <4> SUFFICES ASSUME NEW v \in Counted(j) PROVE v \in Counted(j)'
        OBVIOUS
      <4>1. v \in Server /\ <<srv'[j].currentTerm, v, j>> \in votes'
        BY <1>5, <3>1 DEF Counted, Voters
      <4>2. ASSUME NEW b \in Ballots'
            PROVE  ~ /\ Ballot(b).from = j /\ Ballot(b).to = v
                     /\ Ballot(b).term = srv'[j].currentTerm
        <5>1. CASE b \in Ballots
          BY <3>1, <5>1 DEF Counted
        <5>2. CASE b \in calls /\ Ballot(b) = b
          BY <1>7, <2>2, <5>2
        <5> QED
          BY <1>9, <5>1, <5>2
      <4> QED
        BY <4>1, <4>2 DEF Counted, Voters, Ballot
    <3>3. /\ Cardinality(Counted(j)) \in Nat
          /\ Cardinality(Counted(j)') \in Nat
          /\ Cardinality(Counted(j)) <= Cardinality(Counted(j)')
      <4>1. Counted(j)' \subseteq Server
        BY DEF Counted, Voters
      <4> QED
        BY <3>2, <4>1, CardinalityMonotone
    <3>4. /\ srv[j].votesReceived <= Cardinality(Counted(j))
          /\ srv[j].votesReceived \in Nat
      BY <3>1 DEF ElectionInv, CountIsTrue, TypeInv, TypeOK, ServerState
    <3> QED
      BY <3>1, <3>3, <3>4
  <2> QED
    BY <2>1, <2>2
<1> QED
  BY <1>5, <1>11, <1>12, <1>13, <1>14, <1>15 DEF ElectionInv

-----------------------------------------------------------------------------
(* Together *)

\* The invariant holds of a fresh cluster.
LEMMA InitElectionInv == HInit => ElectionInv
<1> SUFFICES ASSUME HInit PROVE ElectionInv
  OBVIOUS
<1>1. NodesInv
  BY DEF HInit, Init, NodesInv, HistoryOK, VoteRecorded, FreeVote,
         SecondVote, Majorities
<1>2. AllStarted /\ CallsOfLeaders /\ CountIsTrue
  BY DEF HInit, Init, AllStarted, CallsOfLeaders, CountIsTrue
<1>3. BallotsOK /\ OneBallotEach
  <2>1. Ballots = {}
    BY DEF HInit, Init, Ballots
  <2> QED
    BY <2>1 DEF BallotsOK, OneBallotEach
<1> QED
  BY <1>1, <1>2, <1>3 DEF ElectionInv

\* A restart is noted, and a count of restarts never goes down.
LEMMA RestartNoted ==
    ASSUME TypeInv, NEW i \in Server, Restart(i)
    PROVE  ~NoRestarts'
<1>1. restarts[i] \in Nat /\ restarts'[i] = restarts[i] + 1
  BY DEF Restart, TypeInv, TypeOK
<1>2. restarts'[i] # 0
  BY <1>1
<1> QED
  BY <1>2 DEF NoRestarts

\* Without a restart now there was none before.
LEMMA RestartsStay ==
    ASSUME TypeInv, [Next]_vars, NoRestarts'
    PROVE  NoRestarts
<1>1. ASSUME NEW i \in Server, Restart(i) PROVE FALSE
  BY <1>1, RestartNoted
<1>2. ASSUME NEW i \in Server, NEW m \in net, Receive(i, m)
      PROVE  UNCHANGED restarts
  BY <1>2 DEF Receive, RequestVote, handleVoteResponse, AppendEntries,
              handleAppendEntriesResponse
<1>3. UNCHANGED restarts
  BY <1>1, <1>2 DEF Next, vars, ElectionTimeout, sendHeartbeats, Propose, Start
<1> QED
  BY <1>3 DEF NoRestarts

\* Every step keeps the invariant.
LEMMA NextElectionInv ==
    ASSUME ShortCalls, NoRestarts', TypeInv, TypeInv', ElectionInv, HNext
    PROVE  ElectionInv'
<1>1. Record /\ Next
  BY DEF HNext
<1>2. ASSUME NEW i \in Server, ElectionTimeout(i) PROVE ElectionInv'
  BY <1>1, <1>2, ElectionTimeoutInv
<1>3. ASSUME NEW i \in Server, sendHeartbeats(i) PROVE ElectionInv'
  BY <1>1, <1>3, LeaderSendsInv DEF sendHeartbeats
<1>4. ASSUME NEW i \in Server, NEW v \in Value, Propose(i, v)
      PROVE  ElectionInv'
  BY <1>1, <1>4, LeaderSendsInv DEF Propose
<1>5. ASSUME NEW i \in Server, NEW m \in net, Receive(i, m)
      PROVE  ElectionInv'
  BY <1>1, <1>5, RequestVoteInv, HandleVoteResponseInv, AppendEntriesInv,
     HandleAppendEntriesResponseInv DEF Receive
<1>6. ASSUME NEW i \in Server, Restart(i) PROVE FALSE
  BY <1>6, RestartNoted
<1>7. ASSUME NEW i \in Server, Start(i) PROVE FALSE
  BY <1>7 DEF Start, ElectionInv, AllStarted
<1> QED
  BY <1>1, <1>2, <1>3, <1>4, <1>5, <1>6, <1>7 DEF Next

\* So does a step that changes nothing.
LEMMA ElectionInvStutters ==
    ASSUME ElectionInv, UNCHANGED hvars
    PROVE  ElectionInv'
<1> USE DEF hvars, vars
<1>1. NodesInv'
  BY DEF ElectionInv, NodesInv, HistoryOK, VoteRecorded, FreeVote,
         SecondVote, Majorities, Voters
<1>2. AllStarted' /\ CallsOfLeaders' /\ BallotsOK' /\ OneBallotEach'
  BY DEF ElectionInv, AllStarted, CallsOfLeaders, CallOK, BallotsOK,
         OneBallotEach, Ballots, Ballot
<1>3. CountIsTrue'
  BY DEF ElectionInv, CountIsTrue, Counted, Voters, Ballots, Ballot
<1> QED
  BY <1>1, <1>2, <1>3 DEF ElectionInv

\* The history variables restrict no step, so what RaftNode keeps, RaftHistory
\* keeps.
LEMMA HistoryTypeInv == HSpec => []TypeInv
<1>1. HInit => TypeInv
  BY InitTypeInv DEF HInit
<1>2. TypeInv /\ [HNext]_hvars => TypeInv'
  <2>1. [HNext]_hvars => [Next]_vars
    BY DEF HNext, hvars
  <2> QED
    BY <2>1, NextTypeInv
<1> QED
  BY <1>1, <1>2, PTL DEF HSpec

\* Until a process restarts no term has two leaders, if every call is given up
\* before its sender's election timer can fire again: votes granted in an
\* earlier term are then never counted, and a node that voted twice in a term
\* (RequestVote after AppendEntries cleared votedFor) does not lead in it.
THEOREM OneLeaderPerTerm ==
    ASSUME ShortCalls
    PROVE  HSpec => [](NoRestarts => ElectionSafety)
<1>1. HInit => (NoRestarts => ElectionInv)
  BY InitElectionInv
<1>2. TypeInv /\ TypeInv' /\ (NoRestarts => ElectionInv) /\ [HNext]_hvars
        => (NoRestarts => ElectionInv)'
  <2> SUFFICES ASSUME TypeInv, TypeInv', NoRestarts => ElectionInv,
                      [HNext]_hvars, NoRestarts'
               PROVE  ElectionInv'
    OBVIOUS
  <2>1. ElectionInv
    BY RestartsStay DEF HNext, hvars
  <2>2. CASE HNext
    BY <2>1, <2>2, NextElectionInv
  <2>3. CASE UNCHANGED hvars
    BY <2>1, <2>3, ElectionInvStutters
  <2> QED
    BY <2>2, <2>3
<1>3. ElectionInv => ElectionSafety
  BY NodesInvSafe DEF ElectionInv
<1> QED
  BY <1>1, <1>2, <1>3, HistoryTypeInv, PTL DEF HSpec

=============================================================================
