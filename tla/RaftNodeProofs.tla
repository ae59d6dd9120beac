--------------------------- MODULE RaftNodeProofs ---------------------------
(***************************************************************************)
(* What holds of RaftNode in every cluster, whatever its timing, bounds    *)
(* and restarts: the types, terms survive, leaders only append, and the    *)
(* log file and its buffer hold the log.                                   *)
(***************************************************************************)
EXTENDS RaftNode, SequenceTheorems, WellFoundedInduction, TLAPS

-----------------------------------------------------------------------------
(* What the operators return *)

\* A cut within the bounds of a sequence is a sequence.
LEMMA SubSeqType ==
    ASSUME NEW S, NEW s \in Seq(S), NEW a \in Nat \ {0}, NEW b \in Int,
           b <= Len(s)
    PROVE  SubSeq(s, a, b) \in Seq(S)
<1>1. \A k \in a..b : s[k] \in S
  BY ElementOfSeq, LenProperties
<1> QED
  BY <1>1, SubSeqProperties

Below == {ss \in Nat \X Nat : ss[1] < ss[2]}

\* Less-than on the naturals is well-founded.
LEMMA BelowIsLess == OpToRel(<, Nat) = Below
  BY DEF OpToRel, Below

\* The same of the relation named here, which the provers can expand.
LEMMA BelowWellFounded == IsWellFoundedOn(Below, Nat)
  BY BelowIsLess, NatLessThanWellFounded

\* A non-empty set of naturals has a least element.
LEMMA LeastOf ==
    ASSUME NEW C, C \subseteq Nat, C # {}
    PROVE  \E k \in C : \A j \in C : k <= j
<1>1. PICK k \in C : \A j \in C : ~(<<j, k>> \in Below)
  BY BelowWellFounded, WFMin
<1>2. ASSUME NEW j \in C PROVE k <= j
  <2>1. ~(<<j, k>>[1] < <<j, k>>[2])
    BY <1>1, <<j, k>> \in Nat \X Nat, Zenon DEF Below
  <2> QED
    BY <2>1
<1> QED
  BY <1>2

\* A non-empty bounded set of naturals has a greatest element.
LEMMA GreatestOf ==
    ASSUME NEW N \in Nat, NEW C, C \subseteq 0..N, C # {}
    PROVE  \E k \in C : \A j \in C : j <= k
<1> DEFINE D == {d \in Nat : \E k \in C : d = N - k}
<1>1. D # {}
  <2>1. PICK k \in C : TRUE
    OBVIOUS
  <2>2. N - k \in D
    BY <2>1
  <2> QED BY <2>2
<1>2. PICK d \in D : \A e \in D : d <= e
  <2> D \subseteq Nat OBVIOUS
  <2> HIDE DEF D
  <2> QED BY <1>1, LeastOf
<1>3. PICK k \in C : d = N - k
  OBVIOUS
<1>4. \A j \in C : N - k <= N - j
  BY <1>2, <1>3
<1> QED
  BY <1>4

\* Writing the state file keeps a node's fields well-typed.
LEMMA PersistType ==
    ASSUME NEW s \in ServerState
    PROVE  persist(s) \in ServerState
BY DEF ServerState, StateFile, persist

\* So does stepping down to a term.
LEMMA BecomeFollowerType ==
    ASSUME NEW s \in ServerState, NEW t \in Nat
    PROVE  becomeFollower(s, t) \in ServerState
<1>1. [s EXCEPT !.state = "Follower", !.currentTerm = t, !.votedFor = None,
                !.votesReceived = 0] \in ServerState
  BY DEF ServerState
<1> QED
  BY <1>1, PersistType DEF becomeFollower

\* So does standing for election.
LEMMA BecomeCandidateType ==
    ASSUME NEW s \in ServerState, NEW i \in Server
    PROVE  becomeCandidate(s, i) \in ServerState
<1>1. ASSUME NEW t \in Nat
      PROVE  [s EXCEPT !.state = "Candidate", !.currentTerm = t,
                       !.votedFor = i, !.votesReceived = 1] \in ServerState
  BY DEF ServerState
<1>2. s.currentTerm + 1 \in Nat
  BY DEF ServerState
<1> QED
  BY <1>1, <1>2, PersistType DEF becomeCandidate

\* The part of a log that appendNewEntries keeps ends between prevLogIndex and
\* the end of the log.
LEMMA KeptLenRange ==
    ASSUME NEW log \in Seq(Entry), NEW req \in AppendEntriesRequest,
           checkLogConsistency(log, req)
    PROVE  KeptLen(log, req) \in req.prevLogIndex..Len(log)
<1> DEFINE C == Conflicts(log, req)
<1>1. Len(log) \in Nat /\ req.prevLogIndex \in Nat
       /\ req.prevLogIndex <= Len(log)
  BY LenProperties DEF AppendEntriesRequest, checkLogConsistency
<1>2. Len(req.entries) \in Nat
  BY LenProperties DEF AppendEntriesRequest
<1>3. CASE C = {}
  BY <1>1, <1>3 DEF KeptLen
<1>4. CASE C # {}
  <2> DEFINE first == CHOOSE k \in C : \A j \in C : k <= j
  <2>1. C \subseteq Nat
    BY <1>2 DEF Conflicts
  <2>2. PICK k \in C : \A j \in C : k <= j
    BY <1>4, <2>1, LeastOf
  <2>3. first \in C
    BY <2>2
  <2>4. first \in 1..Len(req.entries) /\ req.prevLogIndex + first <= Len(log)
    BY <2>3 DEF Conflicts
  <2> QED
    BY <1>1, <1>2, <1>4, <2>4 DEF KeptLen
<1> QED
  BY <1>3, <1>4

\* appendNewEntries returns a log and its two parts on disk.
LEMMA AppendNewEntriesType ==
    ASSUME NEW l \in LogState, NEW req \in AppendEntriesRequest,
           checkLogConsistency(l.log, req)
    PROVE  appendNewEntries(l, req) \in LogState
<1> DEFINE kept == KeptLen(l.log, req)
           new  == SubSeq(req.entries, kept - req.prevLogIndex + 1,
                          Len(req.entries))
           base == IF kept < Len(l.log) THEN TruncateLog(l, kept) ELSE l
<1>1. l.log \in Seq(Entry) /\ req.entries \in Seq(Entry)
       /\ req.prevLogIndex \in Nat
  BY DEF LogState, AppendEntriesRequest
<1>2. Len(l.log) \in Nat /\ Len(req.entries) \in Nat
  BY <1>1, LenProperties
<1>3. kept \in req.prevLogIndex..Len(l.log)
  BY <1>1, KeptLenRange
<1>4. new \in Seq(Entry)
  <2>1. kept - req.prevLogIndex + 1 \in Nat \ {0}
    BY <1>1, <1>2, <1>3
  <2> QED
    BY <1>1, <1>2, <2>1, SubSeqType
<1>5. SubSeq(l.log, 1, kept) \in Seq(Entry)
  BY <1>1, <1>2, <1>3, SubSeqType
<1>6. SubSeq(l.log, 1, kept) \in Seq(Entry \cup {Torn})
  BY <1>5, SeqMonotonic
<1>7. base \in LogState
  BY <1>5, <1>6, EmptySeq DEF TruncateLog, LogState
<1>8. base.log \o new \in Seq(Entry) /\ base.logBuf \o new \in Seq(Entry)
  BY <1>4, <1>7, ConcatProperties DEF LogState
<1>9. appendNewEntries(l, req) = AppendLogEntry(base, new)
  BY DEF appendNewEntries
<1> HIDE DEF base, new
<1> QED
  BY <1>7, <1>8, <1>9 DEF AppendLogEntry, LogState

\* Applying, on a node whose commitIndex lies within its log.
LEMMA ApplyType ==
    ASSUME NEW a \in ApplyState, NEW log \in Seq(Entry),
           a.commitIndex <= Len(log)
    PROVE  applyCommittedEntries(a, log) \in ApplyState
<1>1. a.commitIndex \in Nat /\ a.lastApplied \in Nat
       /\ a.applyCh \in Seq(Entry)
  BY DEF ApplyState
<1>2. SubSeq(log, a.lastApplied + 1, a.commitIndex) \in Seq(Entry)
  BY <1>1, SubSeqType
<1>3. a.applyCh \o SubSeq(log, a.lastApplied + 1, a.commitIndex) \in Seq(Entry)
  BY <1>1, <1>2, ConcatProperties
<1> QED
  BY <1>1, <1>3 DEF applyCommittedEntries, ApplyState

\* A follower's new commitIndex lies within its log.
LEMMA UpdateCommitIndexType ==
    ASSUME NEW a \in ApplyState, NEW log \in Seq(Entry),
           NEW req \in AppendEntriesRequest
    PROVE  updateCommitIndex(a, log, req) \in ApplyState
<1> DEFINE c == minOf(req.leaderCommit, Len(log))
           b == [a EXCEPT !.commitIndex = c]
<1>1. c \in Nat /\ c <= Len(log)
  BY LenProperties DEF minOf, AppendEntriesRequest
<1>2. b \in ApplyState /\ b.commitIndex = c
  BY <1>1 DEF ApplyState
<1>3. applyCommittedEntries(b, log) \in ApplyState
  BY <1>1, <1>2, ApplyType
<1> QED
  BY <1>3 DEF updateCommitIndex

\* A leader's new commitIndex is one of its candidates, within its log.
LEMMA AdvanceCommitIndexType ==
    ASSUME NEW i \in Server, NEW a \in ApplyState, NEW log \in Seq(Entry),
           NEW term, NEW match
    PROVE  advanceCommitIndex(i, a, log, term, match) \in ApplyState
<1> DEFINE C == Committable(i, a, log, term, match)
           top == CHOOSE n \in C : \A j \in C : j <= n
           b == [a EXCEPT !.commitIndex = top]
<1>1. Len(log) \in Nat /\ a.commitIndex \in Nat
  BY LenProperties DEF ApplyState
<1>2. C \subseteq 0..Len(log)
  BY <1>1 DEF Committable
<1>3. CASE C = {}
  BY <1>3 DEF advanceCommitIndex
<1>4. CASE C # {}
  <2>1. PICK n \in C : \A j \in C : j <= n
    BY <1>1, <1>2, <1>4, GreatestOf
  <2>2. top \in C
    BY <2>1
  <2>3. top \in Nat /\ top <= Len(log)
    BY <1>1, <1>2, <2>2
  <2>4. b \in ApplyState /\ b.commitIndex = top
    BY <2>3 DEF ApplyState
  <2>5. applyCommittedEntries(b, log) \in ApplyState
    BY <2>3, <2>4, ApplyType
  <2> QED
    BY <1>4, <2>5 DEF advanceCommitIndex
<1> QED
  BY <1>3, <1>4

-----------------------------------------------------------------------------
(* Messages *)

\* The tag of a message decides its type.
LEMMA MessageByType ==
    ASSUME NEW m \in Message
    PROVE  /\ m.type = "RequestVote" => m \in RequestVoteRequest
           /\ m.type = "RequestVoteReply" => m \in RequestVoteResponse
           /\ m.type = "AppendEntries" => m \in AppendEntriesRequest
           /\ m.type = "AppendEntriesReply" => m \in AppendEntriesResponse
BY DEF Message, RequestVoteRequest, RequestVoteResponse, AppendEntriesRequest,
       AppendEntriesResponse

\* What is put on the network stays well-typed.
LEMMA PutType ==
    ASSUME NEW rest, NEW new, rest \subseteq Message, new \subseteq Message,
           Put(rest, new)
    PROVE  net' \subseteq Message
BY DEF Put

\* The same when a received message may come again.
LEMMA ConsumeOneType ==
    ASSUME net \subseteq Message, NEW m, NEW new, new \subseteq Message,
           ConsumeOne(m, new)
    PROVE  net' \subseteq Message
<1>1. CASE Put(net \ {m}, new)
  BY <1>1, net \ {m} \subseteq Message, PutType
<1>2. CASE Put(net, new)
  BY <1>2, PutType
<1> QED
  BY <1>1, <1>2 DEF ConsumeOne

\* The vote requests of an election.
LEMMA RequestVotesType ==
    ASSUME NEW i \in Server, NEW s \in ServerState, NEW log \in Seq(Entry),
           NEW n \in Nat, restarts \in [Server -> Nat]
    PROVE  requestVotes(i, s, log, n) \subseteq RequestVoteRequest
<1>1. Len(log) \in Nat /\ lastLogTerm(log) \in Nat
  <2>1. CASE log = << >>
    BY <2>1, LenProperties DEF lastLogTerm
  <2>2. CASE log # << >>
    <3>1. Len(log) \in 1..Len(log)
      BY <2>2, EmptySeq, LenProperties
    <3>2. log[Len(log)] \in Entry
      BY <3>1, ElementOfSeq
    <3> QED
      BY <2>2, <3>2, LenProperties DEF lastLogTerm, Entry
  <2> QED
    BY <2>1, <2>2
<1>2. s.currentTerm \in Nat /\ restarts[i] \in Nat
  BY DEF ServerState
<1> QED
  BY <1>1, <1>2 DEF requestVotes, RequestVoteRequest, Peers

\* An AppendEntries call of a node whose nextIndex for the peer is at least 1.
LEMMA SendAppendEntriesType ==
    ASSUME NEW i \in Server, NEW p \in Server, NEW s \in ServerState,
           NEW log \in Seq(Entry), NEW next \in Nat \ {0}, NEW commit \in Nat,
           restarts \in [Server -> Nat], timeouts \in [Server -> Nat]
    PROVE  sendAppendEntriesToPeer(i, p, s, log, next, commit)
              \in AppendEntriesRequest
<1>1. Len(log) \in Nat
  BY LenProperties
<1>2. SubSeq(log, next, Len(log)) \in Seq(Entry)
  BY <1>1, SubSeqType
<1>3. (IF next - 1 \in 1..Len(log) THEN log[next - 1].term ELSE 0) \in Nat
  <2>1. next - 1 \in 1..Len(log) => log[next - 1] \in Entry
    BY ElementOfSeq
  <2> QED
    BY <2>1 DEF Entry
<1>4. next - 1 \in Nat /\ s.currentTerm \in Nat
       /\ timeouts[i] \in Nat /\ restarts[i] \in Nat
  BY DEF ServerState
<1> QED
  BY <1>2, <1>3, <1>4 DEF sendAppendEntriesToPeer, AppendEntriesRequest

-----------------------------------------------------------------------------
(* The type invariant.  A leader's next call to a peer starts at              *)
(* nextIndex - 1, so its type rests on nextIndex never falling to 0 while    *)
(* the node leads.                                                           *)

LeaderIndices ==
    \A i \in Server : srv[i].state = "Leader" =>
        \A p \in Peers(i) : nextIndex[i][p] >= 1

TypeInv == TypeOK /\ LeaderIndices

\* The calls of a leader, or of a node that has just set its peer indices.
LEMMA ReplicateLogType ==
    ASSUME TypeOK, NEW i \in Server, NEW s \in ServerState,
           NEW log \in Seq(Entry), NEW next \in [Server -> Nat],
           \A p \in Peers(i) : next[p] >= 1
    PROVE  replicateLog(i, s, log, next, app[i].commitIndex) \subseteq Message
<1>1. ASSUME NEW p \in Peers(i)
      PROVE  sendAppendEntriesToPeer(i, p, s, log, next[p],
                                     app[i].commitIndex) \in Message
  <2>3. app[i].commitIndex \in Nat
    BY DEF TypeOK, ApplyState
  <2>1. p \in Server /\ next[p] \in Nat \ {0}
    BY DEF Peers
  <2>2. restarts \in [Server -> Nat] /\ timeouts \in [Server -> Nat]
    BY DEF TypeOK
  <2>4. sendAppendEntriesToPeer(i, p, s, log, next[p], app[i].commitIndex)
          \in AppendEntriesRequest
    BY <2>1, <2>2, <2>3, SendAppendEntriesType
  <2> QED
    BY <2>4 DEF Message
<1> QED
  BY <1>1 DEF replicateLog

\* The types hold of a fresh cluster.
LEMMA InitTypeInv == Init => TypeInv
<1> SUFFICES ASSUME Init PROVE TypeInv
  OBVIOUS
<1>1. srv \in [Server -> ServerState]
  BY DEF Init, freshFile, ServerState, StateFile
<1>2. logs \in [Server -> LogState]
  BY EmptySeq DEF Init, LogState
<1>3. app \in [Server -> ApplyState]
  BY EmptySeq DEF Init, ApplyState
<1>4. /\ nextIndex \in [Server -> [Server -> Nat]]
      /\ matchIndex \in [Server -> [Server -> Nat]]
      /\ net \subseteq Message
      /\ started \in [Server -> BOOLEAN]
      /\ timeouts \in [Server -> Nat]
      /\ restarts \in [Server -> Nat]
  BY DEF Init
<1>5. LeaderIndices
  BY DEF Init, LeaderIndices
<1> QED
  BY <1>1, <1>2, <1>3, <1>4, <1>5 DEF TypeInv, TypeOK

\* The election timer's callback keeps the types.
LEMMA ElectionTimeoutTypeInv ==
    ASSUME TypeInv, NEW i \in Server, ElectionTimeout(i)
    PROVE  TypeInv'
<1> USE DEF ElectionTimeout, TypeInv
<1>1. becomeCandidate(srv[i], i) \in ServerState
  BY BecomeCandidateType DEF TypeOK
<1>2. srv' \in [Server -> ServerState] /\ timeouts' \in [Server -> Nat]
  BY <1>1 DEF TypeOK
<1>3. requestVotes(i, srv'[i], logs[i].log, timeouts'[i])
        \subseteq RequestVoteRequest
  <2>1. /\ srv'[i] \in ServerState /\ logs[i].log \in Seq(Entry)
        /\ timeouts'[i] \in Nat /\ restarts \in [Server -> Nat]
    BY <1>2 DEF TypeOK, LogState
  <2> QED
    BY <2>1, RequestVotesType
<1>4. net' \subseteq Message
  <2>1. requestVotes(i, srv'[i], logs[i].log, timeouts'[i]) \subseteq Message
    BY <1>3 DEF Message
  <2> QED
    BY <2>1, PutType DEF Send, TypeOK
<1>5. TypeOK'
  BY <1>2, <1>4 DEF TypeOK
<1>6. LeaderIndices'
  <2>1. srv'[i].state = "Candidate"
    BY DEF TypeOK, ServerState, becomeCandidate, persist
  <2> QED
    BY <2>1 DEF LeaderIndices, TypeOK
<1> QED
  BY <1>5, <1>6

\* So does the heartbeat timer's callback.
LEMMA SendHeartbeatsTypeInv ==
    ASSUME TypeInv, NEW i \in Server, sendHeartbeats(i)
    PROVE  TypeInv'
<1> USE DEF sendHeartbeats, TypeInv
<1>1. replicateLog(i, srv[i], logs[i].log, nextIndex[i], app[i].commitIndex)
        \subseteq Message
  <2>1. /\ srv[i] \in ServerState /\ logs[i].log \in Seq(Entry)
        /\ nextIndex[i] \in [Server -> Nat]
        /\ \A p \in Peers(i) : nextIndex[i][p] >= 1
    BY DEF TypeOK, LogState, LeaderIndices
  <2> QED
    BY <2>1, ReplicateLogType
<1>2. net' \subseteq Message
  BY <1>1, PutType DEF Send, TypeOK
<1>3. TypeOK'
  BY <1>2 DEF TypeOK
<1>4. LeaderIndices'
  BY DEF LeaderIndices
<1> QED
  BY <1>3, <1>4

\* So does a proposal.
LEMMA ProposeTypeInv ==
    ASSUME TypeInv, NEW i \in Server, NEW v \in Value, Propose(i, v)
    PROVE  TypeInv'
<1> USE DEF Propose, TypeInv
<1> DEFINE entry == [term |-> srv[i].currentTerm, command |-> v]
<1>1. entry \in Entry
  BY DEF TypeOK, ServerState, Entry
<1>2. AppendLogEntry(logs[i], <<entry>>) \in LogState
  <2>1. <<entry>> \in Seq(Entry)
    BY <1>1
  <2>2. /\ logs[i].log \o <<entry>> \in Seq(Entry)
        /\ logs[i].logBuf \o <<entry>> \in Seq(Entry)
    BY <2>1, ConcatProperties DEF TypeOK, LogState
  <2> HIDE DEF entry
  <2> QED
    BY <2>2 DEF AppendLogEntry, TypeOK, LogState
<1>3. logs' \in [Server -> LogState]
  BY <1>2 DEF TypeOK
<1>4. replicateLog(i, srv[i], logs'[i].log, nextIndex[i], app[i].commitIndex)
        \subseteq Message
  <2>1. /\ srv[i] \in ServerState /\ logs'[i].log \in Seq(Entry)
        /\ nextIndex[i] \in [Server -> Nat]
        /\ \A p \in Peers(i) : nextIndex[i][p] >= 1
    BY <1>3 DEF TypeOK, LogState, LeaderIndices
  <2> QED
    BY <2>1, ReplicateLogType
<1>5. net' \subseteq Message
  BY <1>4, PutType DEF Send, TypeOK
<1>6. TypeOK'
  BY <1>3, <1>5 DEF TypeOK
<1>7. LeaderIndices'
  BY DEF LeaderIndices
<1> QED
  BY <1>6, <1>7

\* So does the RequestVote handler.
LEMMA RequestVoteTypeInv ==
    ASSUME TypeInv, NEW i \in Server, NEW m \in net, RequestVote(i, m)
    PROVE  TypeInv'
<1> DEFINE s     == IF m.term > srv[i].currentTerm
                    THEN becomeFollower(srv[i], m.term) ELSE srv[i]
           grant == shouldVoteFor(s, logs[i].log, m)
           t     == IF grant THEN persist([s EXCEPT !.votedFor = m.from])
                             ELSE s
           resp  == [type |-> "RequestVoteReply", req |-> m,
                     term |-> s.currentTerm, voteGranted |-> grant]
<1>1. /\ srv' = [srv EXCEPT ![i] = t]
      /\ Consume(m, Reply(m, resp))
      /\ UNCHANGED <<logs, app, nextIndex, matchIndex, started, timeouts,
                     restarts>>
  BY DEF RequestVote
<1>2. m \in RequestVoteRequest
  BY MessageByType DEF TypeInv, TypeOK, RequestVote
<1>3. m.term \in Nat /\ m.from \in Server
  BY <1>2 DEF RequestVoteRequest
<1>4. s \in ServerState
  BY <1>3, BecomeFollowerType DEF TypeInv, TypeOK
<1>5. [s EXCEPT !.votedFor = m.from] \in ServerState
  BY <1>3, <1>4 DEF ServerState
<1>6. t \in ServerState
  BY <1>4, <1>5, PersistType
<1>7. resp \in RequestVoteResponse
  <2>1. s.currentTerm \in Nat
    BY <1>4 DEF ServerState
  <2>2. grant \in BOOLEAN
    BY DEF shouldVoteFor
  <2> HIDE DEF s, grant
  <2> QED
    BY <1>2, <2>1, <2>2 DEF RequestVoteResponse
<1>8. s.state = "Leader" => s = srv[i]
  BY DEF becomeFollower, persist, TypeInv, TypeOK, ServerState
<1>9. t.state = "Leader" => srv[i].state = "Leader"
  BY <1>4, <1>8 DEF persist, ServerState
<1> HIDE DEF s, grant, t, resp
<1>10. net' \subseteq Message
  <2>1. Reply(m, resp) \subseteq Message
    BY <1>7 DEF Reply, Message
  <2> QED
    BY <1>1, <2>1, PutType DEF Consume, TypeInv, TypeOK
<1>11. TypeOK'
  BY <1>1, <1>6, <1>10 DEF TypeInv, TypeOK
<1>12. LeaderIndices'
  BY <1>1, <1>9 DEF LeaderIndices, TypeInv, TypeOK
<1> QED
  BY <1>11, <1>12 DEF TypeInv

\* So does counting a vote, and taking over as leader: every peer index is set
\* before the first calls are made.
LEMMA HandleVoteResponseTypeInv ==
    ASSUME TypeInv, NEW i \in Server, NEW m \in net, handleVoteResponse(i, m)
    PROVE  TypeInv'
<1> DEFINE s == srv[i]
           c == [s EXCEPT !.votesReceived = @ + 1]
<1>1. m \in RequestVoteResponse
  BY MessageByType DEF TypeInv, TypeOK, handleVoteResponse
<1>2. m.term \in Nat /\ s \in ServerState /\ logs[i].log \in Seq(Entry)
  BY <1>1 DEF RequestVoteResponse, TypeInv, TypeOK, LogState
<1>3. c \in ServerState /\ c.state = s.state
  BY <1>2 DEF ServerState
<1>4. UNCHANGED <<logs, app, started, timeouts, restarts>>
  BY DEF handleVoteResponse
<1>5. CASE Consume(m, {}) /\ UNCHANGED <<srv, nextIndex, matchIndex>>
  <2>1. net' \subseteq Message
    BY <1>5, PutType DEF Consume, TypeInv, TypeOK
  <2> QED
    BY <1>4, <1>5, <2>1 DEF TypeInv, TypeOK, LeaderIndices
<1>6. CASE /\ srv' = [srv EXCEPT ![i] = becomeFollower(s, m.term)]
           /\ Consume(m, {}) /\ UNCHANGED <<nextIndex, matchIndex>>
  <2>1. net' \subseteq Message
    BY <1>6, PutType DEF Consume, TypeInv, TypeOK
  <2>2. becomeFollower(s, m.term) \in ServerState
    BY <1>2, BecomeFollowerType
  <2>3. becomeFollower(s, m.term).state = "Follower"
    BY <1>2 DEF becomeFollower, persist, ServerState
  <2>4. TypeOK'
    BY <1>4, <1>6, <2>1, <2>2 DEF TypeInv, TypeOK
  <2>5. LeaderIndices'
    BY <1>6, <2>3 DEF LeaderIndices, TypeInv, TypeOK
  <2> QED
    BY <2>4, <2>5 DEF TypeInv
<1>7. CASE /\ s.state = "Candidate" /\ srv' = [srv EXCEPT ![i] = c]
           /\ Consume(m, {}) /\ UNCHANGED <<nextIndex, matchIndex>>
  <2>1. net' \subseteq Message
    BY <1>7, PutType DEF Consume, TypeInv, TypeOK
  <2> HIDE DEF c
  <2>2. TypeOK'
    BY <1>3, <1>4, <1>7, <2>1 DEF TypeInv, TypeOK
  <2>3. LeaderIndices'
    BY <1>3, <1>7 DEF LeaderIndices, TypeInv, TypeOK
  <2> QED
    BY <2>2, <2>3 DEF TypeInv
<1>8. CASE /\ becomeLeader(i, c)
           /\ Consume(m, replicateLog(i, c, logs[i].log, nextIndex'[i],
                                      app[i].commitIndex))
  <2>1. [c EXCEPT !.state = "Leader"] \in ServerState
    BY <1>3 DEF ServerState
  <2>2. Len(logs[i].log) + 1 \in Nat
    BY <1>2, LenProperties
  <2>3. /\ nextIndex' \in [Server -> [Server -> Nat]]
        /\ matchIndex' \in [Server -> [Server -> Nat]]
    BY <1>8, <2>2 DEF becomeLeader, TypeInv, TypeOK
  <2>4. \A p \in Peers(i) : nextIndex'[i][p] >= 1
    BY <1>2, <1>8, LenProperties DEF becomeLeader, Peers, TypeInv, TypeOK
  <2>5. \A j \in Server \ {i} : nextIndex'[j] = nextIndex[j]
                                /\ srv'[j] = srv[j]
    BY <1>8 DEF becomeLeader, TypeInv, TypeOK
  <2>6. srv' \in [Server -> ServerState]
    BY <1>8, <2>1 DEF becomeLeader, TypeInv, TypeOK
  <2> HIDE DEF c
  <2>7. replicateLog(i, c, logs[i].log, nextIndex'[i], app[i].commitIndex)
          \subseteq Message
    BY <1>2, <1>3, <2>3, <2>4, ReplicateLogType DEF TypeInv
  <2>8. net' \subseteq Message
    BY <1>8, <2>7, PutType DEF Consume, TypeInv, TypeOK
  <2>9. TypeOK'
    BY <1>4, <2>3, <2>6, <2>8 DEF TypeInv, TypeOK
  <2>10. LeaderIndices'
    BY <2>4, <2>5 DEF LeaderIndices, TypeInv
  <2> QED
    BY <2>9, <2>10 DEF TypeInv
<1> QED
  BY <1>5, <1>6, <1>7, <1>8, Zenon DEF handleVoteResponse

\* So does the AppendEntries handler.
LEMMA AppendEntriesTypeInv ==
    ASSUME TypeInv, NEW i \in Server, NEW m \in net, AppendEntries(i, m)
    PROVE  TypeInv'
<1> DEFINE s == followLeader(srv[i], m.term)
           resp(t, ok) == [type |-> "AppendEntriesReply", req |-> m,
                           term |-> t, success |-> ok]
<1>1. m \in AppendEntriesRequest
  BY MessageByType DEF TypeInv, TypeOK, AppendEntries
<1>2. /\ m.term \in Nat /\ srv[i] \in ServerState /\ logs[i] \in LogState
      /\ app[i] \in ApplyState
  BY <1>1 DEF AppendEntriesRequest, TypeInv, TypeOK
<1>3. s \in ServerState
  BY <1>2, BecomeFollowerType DEF followLeader
<1>4. s.state = "Leader" => srv[i].state = "Leader"
  BY <1>2 DEF followLeader, becomeFollower, persist, ServerState
<1>5. \A t \in Nat, ok \in BOOLEAN : resp(t, ok) \in Message
  BY <1>1 DEF Message, AppendEntriesResponse
<1>6. srv[i].currentTerm \in Nat
  BY <1>2 DEF ServerState
<1>7. UNCHANGED <<nextIndex, matchIndex, started, timeouts, restarts>>
  BY DEF AppendEntries
<1>8. net' \subseteq Message
  <2>1. PICK t \in Nat, ok \in BOOLEAN : ConsumeOne(m, Reply(m, resp(t, ok)))
    BY <1>2, <1>6 DEF AppendEntries
  <2>2. Reply(m, resp(t, ok)) \subseteq Message
    BY <1>5 DEF Reply
  <2> HIDE DEF resp
  <2> QED
    BY <2>1, <2>2, ConsumeOneType DEF TypeInv, TypeOK
<1>9. CASE UNCHANGED <<srv, logs, app>>
  BY <1>7, <1>8, <1>9 DEF TypeInv, TypeOK, LeaderIndices
<1>10. CASE srv' = [srv EXCEPT ![i] = s] /\ UNCHANGED <<logs, app>>
  <2> HIDE DEF s
  <2>1. TypeOK'
    BY <1>3, <1>7, <1>8, <1>10 DEF TypeInv, TypeOK
  <2>2. LeaderIndices'
    BY <1>4, <1>7, <1>10 DEF LeaderIndices, TypeInv, TypeOK
  <2> QED
    BY <2>1, <2>2 DEF TypeInv
<1>11. CASE /\ checkLogConsistency(logs[i].log, m)
            /\ srv' = [srv EXCEPT ![i] = s]
            /\ logs' = [logs EXCEPT ![i] = appendNewEntries(@, m)]
            /\ app' = [app EXCEPT ![i] = updateCommitIndex(@, logs'[i].log, m)]
  <2> HIDE DEF s
  <2>1. appendNewEntries(logs[i], m) \in LogState
    BY <1>1, <1>2, <1>11, AppendNewEntriesType
  <2>2. logs' \in [Server -> LogState]
    BY <1>11, <2>1 DEF TypeInv, TypeOK
  <2>3. logs'[i].log \in Seq(Entry)
    BY <2>2 DEF LogState
  <2>4. updateCommitIndex(app[i], logs'[i].log, m) \in ApplyState
    BY <1>1, <1>2, <2>3, UpdateCommitIndexType
  <2>5. app' \in [Server -> ApplyState]
    BY <1>11, <2>4 DEF TypeInv, TypeOK
  <2>6. TypeOK'
    BY <1>3, <1>7, <1>8, <1>11, <2>2, <2>5 DEF TypeInv, TypeOK
  <2>7. LeaderIndices'
    BY <1>4, <1>7, <1>11 DEF LeaderIndices, TypeInv, TypeOK
  <2> QED
    BY <2>6, <2>7 DEF TypeInv
<1> QED
  BY <1>9, <1>10, <1>11, Zenon DEF AppendEntries

\* So does handling a reply: back-off stops at 1.
LEMMA HandleAppendEntriesResponseTypeInv ==
    ASSUME TypeInv, NEW i \in Server, NEW m \in net,
           handleAppendEntriesResponse(i, m)
    PROVE  TypeInv'
<1> DEFINE p     == m.req.to
           match == matched(i, m.req)
           next  == backOff(nextIndex[i][p])
           call  == sendAppendEntriesToPeer(i, p, srv[i], logs[i].log, next,
                                            app[i].commitIndex)
<1>1. m \in AppendEntriesResponse
  BY MessageByType DEF TypeInv, TypeOK, handleAppendEntriesResponse
<1>2. m.req \in AppendEntriesRequest /\ m.term \in Nat
  BY <1>1 DEF AppendEntriesResponse
<1>3. p \in Server /\ match \in Nat
  <2>1. /\ m.req.prevLogIndex \in Nat /\ m.req.entries \in Seq(Entry)
        /\ p \in Server
    BY <1>2 DEF AppendEntriesRequest
  <2>2. Len(m.req.entries) \in Nat
    BY <2>1, LenProperties
  <2> QED
    BY <2>1, <2>2 DEF matched
<1>4. next \in Nat \ {0}
  <2>1. nextIndex[i][p] \in Nat
    BY <1>3 DEF TypeInv, TypeOK
  <2> QED
    BY <2>1 DEF backOff
<1>5. /\ srv[i] \in ServerState /\ logs[i].log \in Seq(Entry)
      /\ app[i] \in ApplyState /\ app[i].commitIndex \in Nat
  BY DEF TypeInv, TypeOK, LogState, ApplyState
<1>6. UNCHANGED <<logs, started, timeouts, restarts>>
  BY DEF handleAppendEntriesResponse
<1>7. call \in Message
  <2>1. restarts \in [Server -> Nat] /\ timeouts \in [Server -> Nat]
    BY DEF TypeInv, TypeOK
  <2> HIDE DEF p, next
  <2>2. call \in AppendEntriesRequest
    BY <1>3, <1>4, <1>5, <2>1, SendAppendEntriesType
  <2> QED
    BY <2>2 DEF Message
<1> HIDE DEF match, next, call
<1>8. net' \subseteq Message
  <2>1. ConsumeOne(m, {}) \/ ConsumeOne(m, {call})
    BY Zenon DEF handleAppendEntriesResponse, call, next
  <2>2. {} \subseteq Message /\ {call} \subseteq Message
    BY <1>7
  <2> QED
    BY <2>1, <2>2, ConsumeOneType DEF TypeInv, TypeOK
<1>9. CASE UNCHANGED <<srv, app, nextIndex, matchIndex>>
  BY <1>6, <1>8, <1>9 DEF TypeInv, TypeOK, LeaderIndices
<1>10. CASE /\ srv' = [srv EXCEPT ![i] = becomeFollower(@, m.term)]
            /\ UNCHANGED <<app, nextIndex, matchIndex>>
  <2>1. becomeFollower(srv[i], m.term) \in ServerState
    BY <1>2, <1>5, BecomeFollowerType
  <2>2. becomeFollower(srv[i], m.term).state = "Follower"
    BY <1>5 DEF becomeFollower, persist, ServerState
  <2>3. TypeOK'
    BY <1>6, <1>8, <1>10, <2>1 DEF TypeInv, TypeOK
  <2>4. LeaderIndices'
    BY <1>10, <2>2 DEF LeaderIndices, TypeInv, TypeOK
  <2> QED
    BY <2>3, <2>4 DEF TypeInv
<1>11. CASE /\ matchIndex' = [matchIndex EXCEPT ![i][p] = match]
            /\ nextIndex'  = [nextIndex EXCEPT ![i][p] = match + 1]
            /\ app' = [app EXCEPT ![i] =
                          advanceCommitIndex(i, @, logs[i].log,
                                             srv[i].currentTerm,
                                             matchIndex'[i])]
            /\ UNCHANGED srv
  <2>1. advanceCommitIndex(i, app[i], logs[i].log, srv[i].currentTerm,
                           matchIndex'[i]) \in ApplyState
    BY <1>5, AdvanceCommitIndexType
  <2>2. app' \in [Server -> ApplyState]
    BY <1>11, <2>1 DEF TypeInv, TypeOK
  <2> HIDE DEF p
  <2>3. /\ matchIndex' \in [Server -> [Server -> Nat]]
        /\ nextIndex' \in [Server -> [Server -> Nat]]
    BY <1>3, <1>11 DEF TypeInv, TypeOK
  <2>4. TypeOK'
    BY <1>6, <1>8, <1>11, <2>2, <2>3 DEF TypeInv, TypeOK
  <2>5. LeaderIndices'
    BY <1>3, <1>11 DEF LeaderIndices, TypeInv, TypeOK, Peers
  <2> QED
    BY <2>4, <2>5 DEF TypeInv
<1>12. CASE /\ nextIndex' = [nextIndex EXCEPT ![i][p] = next]
            /\ UNCHANGED <<srv, app, matchIndex>>
  <2> HIDE DEF p
  <2>1. nextIndex' \in [Server -> [Server -> Nat]]
    BY <1>3, <1>4, <1>12 DEF TypeInv, TypeOK
  <2>2. TypeOK'
    BY <1>6, <1>8, <1>12, <2>1 DEF TypeInv, TypeOK
  <2>3. LeaderIndices'
    BY <1>3, <1>4, <1>12 DEF LeaderIndices, TypeInv, TypeOK, Peers
  <2> QED
    BY <2>2, <2>3 DEF TypeInv
<1> QED
  BY <1>9, <1>10, <1>11, <1>12, Zenon DEF handleAppendEntriesResponse, match, next

\* A log file without a torn line is read back as a log.
LEMMA LoadLogType ==
    ASSUME NEW file \in Seq(Entry \cup {Torn})
    PROVE  LoadLog(file) \in Seq(Entry)
<1>1. CASE \E k \in 1..Len(file) : file[k] = Torn
  BY <1>1, EmptySeq DEF LoadLog
<1>2. CASE ~ \E k \in 1..Len(file) : file[k] = Torn
  <2>1. \A k \in 1..Len(file) : file[k] \in Entry
    BY <1>2, ElementOfSeq
  <2>2. file \in Seq(Entry)
    BY <2>1, SeqDef, LenProperties, Len(file) \in Nat
  <2> QED
    BY <1>2, <2>2 DEF LoadLog
<1> QED
  BY <1>1, <1>2

\* So does a restart, whatever part of the buffer reached the file.
LEMMA RestartTypeInv ==
    ASSUME TypeInv, NEW i \in Server, Restart(i)
    PROVE  TypeInv'
<1> DEFINE up == [currentTerm   |-> srv[i].stateFile.currentTerm,
                  votedFor      |-> srv[i].stateFile.votedFor,
                  state         |-> "Follower",
                  votesReceived |-> 0,
                  stateFile     |-> srv[i].stateFile]
<1>1. logs' \in [Server -> LogState]
  <2>1. PICK k \in 0..Len(logs[i].logBuf), torn \in BOOLEAN :
          LET flushed == logs[i].logFile \o SubSeq(logs[i].logBuf, 1, k)
              file    == IF torn THEN Append(flushed, Torn) ELSE flushed
          IN  logs' = [logs EXCEPT ![i] = [log     |-> LoadLog(file),
                                           logFile |-> file,
                                           logBuf  |-> << >>]]
    BY DEF Restart
  <2> DEFINE flushed == logs[i].logFile \o SubSeq(logs[i].logBuf, 1, k)
             file    == IF torn THEN Append(flushed, Torn) ELSE flushed
  <2>2. /\ logs[i].logBuf \in Seq(Entry)
        /\ logs[i].logFile \in Seq(Entry \cup {Torn})
    BY DEF TypeInv, TypeOK, LogState
  <2>3. k \in Int /\ k <= Len(logs[i].logBuf)
    BY <2>2, LenProperties
  <2>4. SubSeq(logs[i].logBuf, 1, k) \in Seq(Entry)
    BY <2>2, <2>3, SubSeqType
  <2>5. SubSeq(logs[i].logBuf, 1, k) \in Seq(Entry \cup {Torn})
    BY <2>4, SeqMonotonic
  <2>6. flushed \in Seq(Entry \cup {Torn})
    BY <2>2, <2>5, ConcatProperties
  <2>7. file \in Seq(Entry \cup {Torn})
    <3> HIDE DEF flushed
    <3>1. Torn \in Entry \cup {Torn}
      OBVIOUS
    <3> QED
      BY <2>6, <3>1, AppendProperties
  <2>8. logs' = [logs EXCEPT ![i] = [log     |-> LoadLog(file),
                                     logFile |-> file,
                                     logBuf  |-> << >>]]
    BY <2>1
  <2> HIDE DEF file
  <2>9. LoadLog(file) \in Seq(Entry)
    BY <2>7, LoadLogType
  <2>10. [log |-> LoadLog(file), logFile |-> file, logBuf |-> << >>]
            \in LogState
    BY <2>7, <2>9, EmptySeq DEF LogState
  <2> QED
    BY <2>8, <2>10 DEF TypeInv, TypeOK
<1>2. up \in ServerState
  BY DEF TypeInv, TypeOK, ServerState, StateFile
<1>3. srv' = [srv EXCEPT ![i] = up]
  BY DEF Restart
<1>4. app' \in [Server -> ApplyState]
  <2>1. [commitIndex |-> 0, lastApplied |-> 0, applyCh |-> << >>]
           \in ApplyState
    BY EmptySeq DEF ApplyState
  <2> QED
    BY <2>1 DEF Restart, TypeInv, TypeOK
<1>5. /\ nextIndex' \in [Server -> [Server -> Nat]]
      /\ matchIndex' \in [Server -> [Server -> Nat]]
      /\ started' \in [Server -> BOOLEAN]
      /\ restarts' \in [Server -> Nat]
      /\ net' \subseteq Message
      /\ timeouts' \in [Server -> Nat]
  <2>1. /\ nextIndex' \in [Server -> [Server -> Nat]]
        /\ matchIndex' \in [Server -> [Server -> Nat]]
    BY DEF Restart, TypeInv, TypeOK
  <2>2. started' \in [Server -> BOOLEAN] /\ restarts' \in [Server -> Nat]
    BY DEF Restart, TypeInv, TypeOK
  <2>3. net' \subseteq Message /\ timeouts' \in [Server -> Nat]
    BY DEF Restart, TypeInv, TypeOK
  <2> QED
    BY <2>1, <2>2, <2>3
<1>6. TypeOK'
  <2>1. srv' \in [Server -> ServerState]
    BY <1>2, <1>3 DEF TypeInv, TypeOK
  <2> QED
    BY <1>1, <1>4, <1>5, <2>1 DEF TypeOK
<1>7. LeaderIndices'
  <2>1. srv'[i].state = "Follower"
    BY <1>3 DEF TypeInv, TypeOK
  <2>2. \A j \in Server \ {i} : srv'[j] = srv[j] /\ nextIndex'[j] = nextIndex[j]
    BY DEF Restart, TypeInv, TypeOK
  <2> QED
    BY <2>1, <2>2 DEF LeaderIndices, TypeInv
<1> QED
  BY <1>6, <1>7 DEF TypeInv

\* So does Start().
LEMMA StartTypeInv ==
    ASSUME TypeInv, NEW i \in Server, Start(i)
    PROVE  TypeInv'
<1>1. srv[i] \in ServerState /\ srv[i].currentTerm \in Nat
  BY DEF TypeInv, TypeOK, ServerState
<1>2. becomeFollower(srv[i], srv[i].currentTerm) \in ServerState
  BY <1>1, BecomeFollowerType
<1>3. becomeFollower(srv[i], srv[i].currentTerm).state = "Follower"
  BY <1>1 DEF becomeFollower, persist, ServerState
<1>4. TypeOK'
  BY <1>2 DEF Start, TypeInv, TypeOK
<1>5. LeaderIndices'
  BY <1>3 DEF Start, LeaderIndices, TypeInv, TypeOK
<1> QED
  BY <1>4, <1>5 DEF TypeInv

\* Every step keeps the types.
LEMMA NextTypeInv == TypeInv /\ [Next]_vars => TypeInv'
<1> SUFFICES ASSUME TypeInv, [Next]_vars PROVE TypeInv'
  OBVIOUS
<1>1. CASE UNCHANGED vars
  BY <1>1 DEF vars, TypeInv, TypeOK, LeaderIndices
<1>2. ASSUME NEW i \in Server, ElectionTimeout(i) PROVE TypeInv'
  BY <1>2, ElectionTimeoutTypeInv
<1>3. ASSUME NEW i \in Server, sendHeartbeats(i) PROVE TypeInv'
  BY <1>3, SendHeartbeatsTypeInv
<1>4. ASSUME NEW i \in Server, NEW v \in Value, Propose(i, v) PROVE TypeInv'
  BY <1>4, ProposeTypeInv
<1>5. ASSUME NEW i \in Server, NEW m \in net, Receive(i, m) PROVE TypeInv'
  BY <1>5, RequestVoteTypeInv, HandleVoteResponseTypeInv,
     AppendEntriesTypeInv, HandleAppendEntriesResponseTypeInv DEF Receive
<1>6. ASSUME NEW i \in Server, Restart(i) PROVE TypeInv'
  BY <1>6, RestartTypeInv
<1>7. ASSUME NEW i \in Server, Start(i) PROVE TypeInv'
  BY <1>7, StartTypeInv
<1> QED
  BY <1>1, <1>2, <1>3, <1>4, <1>5, <1>6, <1>7 DEF Next

\* The types hold throughout.
LEMMA TypeInvariance == Spec => []TypeInv
BY InitTypeInv, NextTypeInv, PTL DEF Spec

\* In every cluster, under every timing and through every restart, the fields
\* of the nodes and the calls under way have their types; in particular no
\* call starts below index 0, however replies and back-off interleave
\* (handleAppendEntriesResponse, becomeLeader).
THEOREM TypeCorrect == Spec => []TypeOK
<1>1. TypeInv => TypeOK
  BY DEF TypeInv
<1> QED
  BY <1>1, TypeInvariance, PTL

-----------------------------------------------------------------------------
(* How one step changes the fields of one node *)

\* What the state file holds is what the node holds.
Persisted(s) == /\ s.stateFile.currentTerm = s.currentTerm
                /\ s.stateFile.votedFor = s.votedFor

\* From s to t: the term does not decrease, what is persisted stays so, and a
\* leader that still leads has kept its term.
Forward(s, t) ==
    /\ t.currentTerm >= s.currentTerm
    /\ Persisted(s) => Persisted(t)
    /\ s.state = "Leader" /\ t.state = "Leader" => t.currentTerm = s.currentTerm

\* Nothing happened.
LEMMA SameForward ==
    ASSUME NEW s \in ServerState
    PROVE  Forward(s, s)
BY DEF Forward, ServerState

\* Stepping down to a term that is not lower.
LEMMA BecomeFollowerForward ==
    ASSUME NEW s \in ServerState, NEW t \in Nat, t >= s.currentTerm
    PROVE  Forward(s, becomeFollower(s, t))
BY DEF Forward, Persisted, becomeFollower, persist, ServerState, StateFile

\* Every step takes every node forward, or leads through its state file.
LEMMA NodeForward ==
    ASSUME TypeInv, Next, NEW j \in Server, Persisted(srv[j])
    PROVE  Forward(srv[j], srv'[j])
<1> DEFINE G == Forward(srv[j], srv'[j])
<1>0. srv \in [Server -> ServerState] /\ srv[j] \in ServerState
  BY DEF TypeInv, TypeOK
<1>1. ASSUME UNCHANGED srv PROVE G
  BY <1>0, <1>1, SameForward
<1>2. ASSUME NEW i \in Server, NEW t, srv' = [srv EXCEPT ![i] = t],
             Forward(srv[i], t)
      PROVE  G
  <2>1. CASE i = j
    BY <1>0, <1>2, <2>1
  <2>2. CASE i # j
    BY <1>0, <1>2, <2>2, SameForward
  <2> QED
    BY <2>1, <2>2
<1>3. ASSUME NEW i \in Server, ElectionTimeout(i) PROVE G
  <2>1. Forward(srv[i], becomeCandidate(srv[i], i))
    BY <1>0, <1>3 DEF ElectionTimeout, Forward, Persisted, becomeCandidate,
                      persist, ServerState, StateFile
  <2> QED
    BY <1>2, <1>3, <2>1 DEF ElectionTimeout
<1>4. ASSUME NEW i \in Server, NEW m \in net, RequestVote(i, m) PROVE G
  <2> DEFINE s     == IF m.term > srv[i].currentTerm
                      THEN becomeFollower(srv[i], m.term) ELSE srv[i]
             grant == shouldVoteFor(s, logs[i].log, m)
             t     == IF grant THEN persist([s EXCEPT !.votedFor = m.from])
                               ELSE s
  <2>1. srv' = [srv EXCEPT ![i] = t]
    BY <1>4 DEF RequestVote
  <2>2. m \in RequestVoteRequest
    BY <1>4, MessageByType DEF TypeInv, TypeOK, RequestVote
  <2>3. m.term \in Nat /\ m.from \in Server /\ srv[i] \in ServerState
         /\ srv[i].currentTerm \in Nat
    BY <1>0, <2>2 DEF RequestVoteRequest, ServerState
  <2>4. s \in ServerState /\ Forward(srv[i], s)
    BY <2>3, BecomeFollowerForward, BecomeFollowerType, SameForward
  <2>5. Forward(srv[i], t)
    <3> HIDE DEF s
    <3>1. CASE grant
      BY <2>3, <2>4, <3>1 DEF Forward, Persisted, persist, ServerState, StateFile
    <3>2. CASE ~grant
      BY <2>4, <3>2
    <3> QED
      BY <3>1, <3>2
  <2> HIDE DEF t
  <2> QED
    BY <1>2, <2>1, <2>5
<1>5. ASSUME NEW i \in Server, NEW m \in net, handleVoteResponse(i, m) PROVE G
  <2>1. m \in RequestVoteResponse
    BY <1>5, MessageByType DEF TypeInv, TypeOK, handleVoteResponse
  <2>2. m.term \in Nat /\ srv[i] \in ServerState /\ srv[i].currentTerm \in Nat
    BY <1>0, <2>1 DEF RequestVoteResponse, ServerState
  <2> DEFINE s == srv[i]
             c == [s EXCEPT !.votesReceived = @ + 1]
             l == [c EXCEPT !.state = "Leader"]
  <2>3. Forward(s, c)
    BY <2>2 DEF Forward, Persisted, ServerState
  <2>4. s.state = "Candidate" => Forward(s, l)
    BY <2>2 DEF Forward, Persisted, ServerState
  <2>5. m.term > s.currentTerm => Forward(s, becomeFollower(s, m.term))
    BY <2>2, BecomeFollowerForward
  <2> HIDE DEF c
  <2>6. \/ UNCHANGED srv
        \/ m.term > s.currentTerm
             /\ srv' = [srv EXCEPT ![i] = becomeFollower(s, m.term)]
        \/ srv' = [srv EXCEPT ![i] = c]
        \/ s.state = "Candidate" /\ srv' = [srv EXCEPT ![i] = l]
    BY <1>5 DEF handleVoteResponse, becomeLeader, c
  <2> HIDE DEF l
  <2> QED
    BY <1>1, <1>2, <2>3, <2>4, <2>5, <2>6
<1>6. ASSUME NEW i \in Server, NEW m \in net, AppendEntries(i, m) PROVE G
  <2>1. m \in AppendEntriesRequest
    BY <1>6, MessageByType DEF TypeInv, TypeOK, AppendEntries
  <2>2. m.term \in Nat /\ srv[i] \in ServerState /\ srv[i].currentTerm \in Nat
    BY <1>0, <2>1 DEF AppendEntriesRequest, ServerState
  <2>3. m.term >= srv[i].currentTerm
          => Forward(srv[i], followLeader(srv[i], m.term))
    BY <2>2, SameForward, BecomeFollowerForward DEF followLeader
  <2>4. \/ UNCHANGED srv
        \/ /\ m.term >= srv[i].currentTerm
           /\ srv' = [srv EXCEPT ![i] = followLeader(srv[i], m.term)]
    BY <1>6, Zenon DEF AppendEntries
  <2> QED
    BY <1>1, <1>2, <2>3, <2>4
<1>7. ASSUME NEW i \in Server, NEW m \in net, handleAppendEntriesResponse(i, m)
      PROVE  G
  <2>1. m \in AppendEntriesResponse
    BY <1>7, MessageByType DEF TypeInv, TypeOK, handleAppendEntriesResponse
  <2>2. m.term \in Nat /\ srv[i] \in ServerState /\ srv[i].currentTerm \in Nat
    BY <1>0, <2>1 DEF AppendEntriesResponse, ServerState
  <2>3. m.term > srv[i].currentTerm
          => Forward(srv[i], becomeFollower(srv[i], m.term))
    BY <2>2, BecomeFollowerForward
  <2>4. \/ UNCHANGED srv
        \/ /\ m.term > srv[i].currentTerm
           /\ srv' = [srv EXCEPT ![i] = becomeFollower(srv[i], m.term)]
    BY <1>7, Zenon DEF handleAppendEntriesResponse
  <2> QED
    BY <1>1, <1>2, <2>3, <2>4
<1>8. ASSUME NEW i \in Server, Restart(i) PROVE G
  <2>1. CASE i = j
    BY <1>0, <1>8, <2>1 DEF Restart, Forward, Persisted, ServerState, StateFile
  <2>2. CASE i # j
    BY <1>0, <1>8, <2>2, SameForward DEF Restart
  <2> QED
    BY <2>1, <2>2
<1>9. ASSUME NEW i \in Server, Start(i) PROVE G
  <2>1. Forward(srv[i], becomeFollower(srv[i], srv[i].currentTerm))
    <3>1. srv[i] \in ServerState /\ srv[i].currentTerm \in Nat
      BY <1>0 DEF ServerState
    <3> QED
      BY <3>1, BecomeFollowerForward
  <2> QED
    BY <1>2, <1>9, <2>1 DEF Start
<1>10. ASSUME NEW i \in Server, NEW v \in Value, Propose(i, v) PROVE G
  BY <1>1, <1>10 DEF Propose
<1>11. ASSUME NEW i \in Server, sendHeartbeats(i) PROVE G
  BY <1>1, <1>11 DEF sendHeartbeats
<1> QED
  BY <1>3, <1>4, <1>5, <1>6, <1>7, <1>8, <1>9, <1>10, <1>11 DEF Next, Receive

-----------------------------------------------------------------------------
(* Terms *)

TermOnDisk == \A i \in Server : Persisted(srv[i])

\* Term and vote are on disk at the end of every handler.
LEMMA TermOnDiskInv == Spec => []TermOnDisk
<1>1. Init => TermOnDisk
  BY DEF Init, TermOnDisk, Persisted, freshFile
<1>2. TypeInv /\ TermOnDisk /\ [Next]_vars => TermOnDisk'
  <2> SUFFICES ASSUME TypeInv, TermOnDisk, [Next]_vars PROVE TermOnDisk'
    OBVIOUS
  <2>1. CASE UNCHANGED vars
    BY <2>1 DEF vars, TermOnDisk
  <2>2. CASE Next
    BY <2>2, NodeForward DEF TermOnDisk, Forward
  <2> QED
    BY <2>1, <2>2
<1> QED
  BY <1>1, <1>2, TypeInvariance, PTL DEF Spec

\* A node's term never decreases, through any number of restarts and under any
\* timing: persist() runs before the lock is given back, and NewRaftNode
\* starts from the file (becomeFollower, becomeCandidate, LoadState).
THEOREM TermsSurvive == Spec => TermNeverRegresses
<1>1. TypeInv /\ TermOnDisk /\ [Next]_vars
        => [\A i \in Server : srv'[i].currentTerm >= srv[i].currentTerm]_vars
  <2> SUFFICES ASSUME TypeInv, TermOnDisk, Next, NEW i \in Server
               PROVE  srv'[i].currentTerm >= srv[i].currentTerm
    OBVIOUS
  <2> QED
    BY NodeForward DEF TermOnDisk, Forward
<1> QED
  BY <1>1, TypeInvariance, TermOnDiskInv, PTL DEF Spec, TermNeverRegresses

-----------------------------------------------------------------------------
(* Leaders *)

\* A log followed by more entries starts with the log.
LEMMA PrefixOfConcat ==
    ASSUME NEW S, NEW s \in Seq(S), NEW t \in Seq(S)
    PROVE  IsPrefix(s, s \o t)
<1>1. /\ s \o t \in Seq(S) /\ Len(s \o t) = Len(s) + Len(t)
      /\ \A k \in 1..Len(s) : (s \o t)[k] = s[k]
      /\ Len(s) \in Nat /\ Len(t) \in Nat
  BY ConcatProperties, LenProperties
<1>2. SubSeq(s, 1, Len(s)) = SubSeq(s \o t, 1, Len(s))
  BY <1>1, SubSeqProperties
<1> QED
  BY <1>1, <1>2 DEF IsPrefix

\* A log starts with itself.
LEMMA PrefixOfItself ==
    ASSUME NEW S, NEW s \in Seq(S)
    PROVE  IsPrefix(s, s)
BY LenProperties DEF IsPrefix

\* A step that leaves a node leading has not touched its log, or appended.
LEMMA LeaderStep ==
    ASSUME TypeInv, Next, NEW j \in Server,
           srv[j].state = "Leader", srv'[j].state = "Leader"
    PROVE  IsPrefix(logs[j].log, logs'[j].log)
<1> DEFINE G == IsPrefix(logs[j].log, logs'[j].log)
<1>1. /\ logs \in [Server -> LogState] /\ logs[j].log \in Seq(Entry)
      /\ srv \in [Server -> ServerState]
  BY DEF TypeInv, TypeOK, LogState
<1>2. ASSUME logs'[j].log = logs[j].log PROVE G
  BY <1>1, <1>2, PrefixOfItself
<1>3. ASSUME UNCHANGED logs PROVE G
  BY <1>2, <1>3
<1>4. ASSUME NEW i \in Server, NEW v \in Value, Propose(i, v) PROVE G
  <2>1. CASE i # j
    BY <1>1, <1>2, <1>4, <2>1 DEF Propose
  <2>2. CASE i = j
    <3> DEFINE entry == [term |-> srv[i].currentTerm, command |-> v]
    <3>1. <<entry>> \in Seq(Entry)
      BY <1>1 DEF Entry, ServerState
    <3> HIDE DEF entry
    <3>2. logs'[j].log = logs[j].log \o <<entry>>
      BY <1>1, <1>4, <2>2 DEF Propose, AppendLogEntry, LogState, entry
    <3> QED
      BY <1>1, <3>1, <3>2, PrefixOfConcat
  <2> QED
    BY <2>1, <2>2
<1>5. ASSUME NEW i \in Server, NEW m \in net, AppendEntries(i, m) PROVE G
  <2>1. CASE i # j
    BY <1>1, <1>2, <1>5, <2>1 DEF AppendEntries
  <2>2. CASE i = j
    <3>1. followLeader(srv[j], m.term).state = "Follower"
      BY <1>1 DEF followLeader, becomeFollower, persist, ServerState
    <3>2. srv' # [srv EXCEPT ![j] = followLeader(srv[j], m.term)]
      BY <1>1, <3>1
    <3>3. UNCHANGED logs
      BY <1>5, <2>2, <3>2, Zenon DEF AppendEntries
    <3> QED
      BY <1>3, <3>3
  <2> QED
    BY <2>1, <2>2
<1>6. ASSUME NEW i \in Server, Restart(i) PROVE G
  <2>1. CASE i # j
    BY <1>1, <1>2, <1>6, <2>1 DEF Restart
  <2>2. CASE i = j
    BY <1>1, <1>6, <2>2 DEF Restart
  <2> QED
    BY <2>1, <2>2
<1>7. ASSUME NEW i \in Server, ElectionTimeout(i) \/ sendHeartbeats(i) \/ Start(i)
      PROVE  G
  BY <1>3, <1>7 DEF ElectionTimeout, sendHeartbeats, Start
<1>8. ASSUME NEW i \in Server, NEW m \in net,
             \/ RequestVote(i, m) \/ handleVoteResponse(i, m)
             \/ handleAppendEntriesResponse(i, m)
      PROVE  G
  BY <1>3, <1>8 DEF RequestVote, handleVoteResponse, handleAppendEntriesResponse
<1> QED
  BY <1>4, <1>5, <1>6, <1>7, <1>8 DEF Next, Receive

\* Whatever the timing, and even where a term has two leaders, a node that goes
\* on leading keeps its term and only appends to its log: every path that
\* cuts a log makes its node step down first (AppendEntries, Propose).
THEOREM LeadersAppendOnly == Spec => LeaderAppendOnly
<1>1. TypeInv /\ TermOnDisk /\ [Next]_vars
        => [\A i \in Server :
              srv[i].state = "Leader" /\ srv'[i].state = "Leader" =>
                /\ srv'[i].currentTerm = srv[i].currentTerm
                /\ IsPrefix(logs[i].log, logs'[i].log)]_vars
  <2> SUFFICES ASSUME TypeInv, TermOnDisk, Next, NEW i \in Server,
                      srv[i].state = "Leader", srv'[i].state = "Leader"
               PROVE  /\ srv'[i].currentTerm = srv[i].currentTerm
                      /\ IsPrefix(logs[i].log, logs'[i].log)
    OBVIOUS
  <2>1. Forward(srv[i], srv'[i])
    BY NodeForward DEF TermOnDisk
  <2> QED
    BY <2>1, LeaderStep DEF Forward
<1> QED
  BY <1>1, TypeInvariance, TermOnDiskInv, PTL DEF Spec, LeaderAppendOnly

-----------------------------------------------------------------------------
(* The disk *)

\* The log file of l has no line cut short.
Whole(l) == \A k \in 1..Len(l.logFile) : l.logFile[k] # Torn

OnDisk(l) == Whole(l) => l.logFile \o l.logBuf = l.log

\* Appending to the log and to the buffer keeps file and buffer in step.
LEMMA AppendOnDisk ==
    ASSUME NEW l \in LogState, NEW new \in Seq(Entry), OnDisk(l)
    PROVE  OnDisk(AppendLogEntry(l, new))
<1> DEFINE a == AppendLogEntry(l, new)
           S == Entry \cup {Torn}
<1>1. /\ l.logFile \in Seq(S) /\ l.logBuf \in Seq(Entry)
      /\ l.log \in Seq(Entry)
  BY DEF LogState
<1>2. /\ a.logFile = l.logFile /\ a.logBuf = l.logBuf \o new
      /\ a.log = l.log \o new
  BY DEF AppendLogEntry, LogState
<1>3. l.logBuf \in Seq(S) /\ new \in Seq(S)
  BY <1>1, SeqMonotonic
<1>4. (l.logFile \o l.logBuf) \o new = l.logFile \o (l.logBuf \o new)
  <2> HIDE DEF S
  <2>1. ASSUME NEW f \in Seq(S), NEW b \in Seq(S), NEW n \in Seq(S)
        PROVE  (f \o b) \o n = f \o (b \o n)
    BY ConcatAssociative
  <2> QED
    BY <1>1, <1>3, <2>1
<1> HIDE DEF a
<1>5. OnDisk(a)
  BY <1>2, <1>4 DEF OnDisk, Whole
<1> QED
  BY <1>5 DEF a

\* appendNewEntries keeps them in step, with or without a cut.
LEMMA AppendNewEntriesOnDisk ==
    ASSUME NEW l \in LogState, NEW req \in AppendEntriesRequest,
           checkLogConsistency(l.log, req), OnDisk(l)
    PROVE  OnDisk(appendNewEntries(l, req))
<1> DEFINE kept == KeptLen(l.log, req)
           new  == SubSeq(req.entries, kept - req.prevLogIndex + 1,
                          Len(req.entries))
           base == IF kept < Len(l.log) THEN TruncateLog(l, kept) ELSE l
<1>1. l.log \in Seq(Entry) /\ req.entries \in Seq(Entry)
       /\ req.prevLogIndex \in Nat
  BY DEF LogState, AppendEntriesRequest
<1>2. Len(l.log) \in Nat /\ Len(req.entries) \in Nat
  BY <1>1, LenProperties
<1>3. kept \in req.prevLogIndex..Len(l.log)
  BY <1>1, KeptLenRange
<1>4. new \in Seq(Entry)
  <2>1. kept - req.prevLogIndex + 1 \in Nat \ {0}
    BY <1>1, <1>2, <1>3
  <2> QED
    BY <1>1, <1>2, <2>1, SubSeqType
<1>5. SubSeq(l.log, 1, kept) \in Seq(Entry)
  BY <1>1, <1>2, <1>3, SubSeqType
<1>6. base \in LogState
  <2>1. SubSeq(l.log, 1, kept) \in Seq(Entry \cup {Torn})
    BY <1>5, SeqMonotonic
  <2> QED
    BY <1>5, <2>1, EmptySeq DEF TruncateLog, LogState
<1>7. OnDisk(base)
  <2>1. SubSeq(l.log, 1, kept) \o << >> = SubSeq(l.log, 1, kept)
    BY <1>5, ConcatEmptySeq
  <2> QED
    BY <2>1 DEF TruncateLog, OnDisk
<1>8. appendNewEntries(l, req) = AppendLogEntry(base, new)
  BY DEF appendNewEntries
<1> HIDE DEF base, new
<1> QED
  BY <1>4, <1>6, <1>7, <1>8, AppendOnDisk

\* A restarted process has nothing buffered and reads a whole file as it is.
LEMMA LoadedOnDisk ==
    ASSUME NEW file \in Seq(Entry \cup {Torn})
    PROVE  OnDisk([log |-> LoadLog(file), logFile |-> file, logBuf |-> << >>])
<1>1. file \o << >> = file
  BY ConcatEmptySeq
<1> QED
  BY <1>1 DEF OnDisk, Whole, LoadLog

LogsOnDisk == \A i \in Server : OnDisk(logs[i])

\* Every step keeps every node's file and buffer in step with its log.
LEMMA LogsOnDiskStep ==
    ASSUME TypeInv, LogsOnDisk, Next
    PROVE  LogsOnDisk'
<1>1. logs \in [Server -> LogState]
  BY DEF TypeInv, TypeOK
<1>2. ASSUME UNCHANGED logs PROVE LogsOnDisk'
  BY <1>2 DEF LogsOnDisk
<1>3. ASSUME NEW i \in Server, NEW l, OnDisk(l), logs' = [logs EXCEPT ![i] = l]
      PROVE  LogsOnDisk'
  BY <1>1, <1>3 DEF LogsOnDisk
<1>4. ASSUME NEW i \in Server, NEW v \in Value, Propose(i, v)
      PROVE  LogsOnDisk'
  <2> DEFINE entry == [term |-> srv[i].currentTerm, command |-> v]
  <2>1. <<entry>> \in Seq(Entry)
    BY DEF TypeInv, TypeOK, ServerState, Entry
  <2>2. logs' = [logs EXCEPT ![i] = AppendLogEntry(logs[i], <<entry>>)]
    BY <1>4 DEF Propose
  <2> HIDE DEF entry
  <2>3. OnDisk(AppendLogEntry(logs[i], <<entry>>))
    BY <1>1, <2>1, AppendOnDisk DEF LogsOnDisk
  <2> QED
    BY <1>3, <2>2, <2>3
<1>5. ASSUME NEW i \in Server, NEW m \in net, AppendEntries(i, m)
      PROVE  LogsOnDisk'
  <2>1. m \in AppendEntriesRequest
    BY <1>5, MessageByType DEF TypeInv, TypeOK, AppendEntries
  <2>2. CASE /\ checkLogConsistency(logs[i].log, m)
             /\ logs' = [logs EXCEPT ![i] = appendNewEntries(logs[i], m)]
    <3>1. OnDisk(appendNewEntries(logs[i], m))
      BY <1>1, <2>1, <2>2, AppendNewEntriesOnDisk DEF LogsOnDisk
    <3> QED
      BY <1>3, <2>2, <3>1
  <2> QED
    BY <1>2, <1>5, <2>2, Zenon DEF AppendEntries
<1>6. ASSUME NEW i \in Server, Restart(i) PROVE LogsOnDisk'
  <2>1. PICK k \in 0..Len(logs[i].logBuf), torn \in BOOLEAN :
          LET flushed == logs[i].logFile \o SubSeq(logs[i].logBuf, 1, k)
              file    == IF torn THEN Append(flushed, Torn) ELSE flushed
          IN  logs' = [logs EXCEPT ![i] = [log     |-> LoadLog(file),
                                           logFile |-> file,
                                           logBuf  |-> << >>]]
    BY <1>6 DEF Restart
  <2> DEFINE flushed == logs[i].logFile \o SubSeq(logs[i].logBuf, 1, k)
             file    == IF torn THEN Append(flushed, Torn) ELSE flushed
             l       == [log |-> LoadLog(file), logFile |-> file,
                         logBuf |-> << >>]
  <2>2. logs' = [logs EXCEPT ![i] = l]
    BY <2>1
  <2>3. l \in LogState
    <3>1. logs' \in [Server -> LogState]
      BY <1>6, RestartTypeInv DEF TypeInv, TypeOK
    <3> HIDE DEF l
    <3> QED
      BY <1>1, <2>2, <3>1
  <2>4. file \in Seq(Entry \cup {Torn})
    <3> HIDE DEF file
    <3> QED
      BY <2>3 DEF LogState
  <2>5. OnDisk(l)
    <3> HIDE DEF file
    <3> QED
      BY <2>4, LoadedOnDisk
  <2> HIDE DEF l
  <2> QED
    BY <1>3, <2>2, <2>5
<1>7. ASSUME NEW i \in Server, ElectionTimeout(i) \/ sendHeartbeats(i) \/ Start(i)
      PROVE  LogsOnDisk'
  BY <1>2, <1>7 DEF ElectionTimeout, sendHeartbeats, Start
<1>8. ASSUME NEW i \in Server, NEW m \in net,
             \/ RequestVote(i, m) \/ handleVoteResponse(i, m)
             \/ handleAppendEntriesResponse(i, m)
      PROVE  LogsOnDisk'
  BY <1>2, <1>8 DEF RequestVote, handleVoteResponse, handleAppendEntriesResponse
<1> QED
  BY <1>4, <1>5, <1>6, <1>7, <1>8 DEF Next, Receive

\* Whatever is cut, appended, lost in a crash or read back, the log file
\* followed by the buffered lines is the node's log, unless the file holds a
\* line cut short (AppendLogEntry, TruncateLog, LoadLog).
THEOREM DiskHoldsTheLog == Spec => []DiskLogTracksMemory
<1>1. Init => LogsOnDisk
  <2> SUFFICES ASSUME Init, NEW i \in Server PROVE OnDisk(logs[i])
    BY DEF LogsOnDisk
  <2>1. /\ logs[i].logFile = << >> /\ logs[i].logBuf = << >>
        /\ logs[i].log = << >>
    BY DEF Init
  <2>2. << >> \o << >> = << >>
    BY ConcatEmptySeq, << >> \in Seq(Entry), Zenon
  <2> QED
    BY <2>1, <2>2 DEF OnDisk
<1>2. TypeInv /\ LogsOnDisk /\ [Next]_vars => LogsOnDisk'
  <2> SUFFICES ASSUME TypeInv, LogsOnDisk, [Next]_vars PROVE LogsOnDisk'
    OBVIOUS
  <2>1. CASE UNCHANGED vars
    BY <2>1 DEF vars, LogsOnDisk
  <2>2. CASE Next
    BY <2>2, LogsOnDiskStep
  <2> QED
    BY <2>1, <2>2
<1>3. LogsOnDisk => DiskLogTracksMemory
  BY DEF LogsOnDisk, OnDisk, Whole, DiskLogTracksMemory
<1> QED
  BY <1>1, <1>2, <1>3, TypeInvariance, PTL DEF Spec

=============================================================================
