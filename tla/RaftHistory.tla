---------------------------- MODULE RaftHistory ----------------------------
(***************************************************************************)
(* The cluster of RaftNode together with what a bystander would write      *)
(* down: every vote, every election won, the log of every leader, who held *)
(* which entry in the term it was made, and the longest log prefix any     *)
(* node ever took as committed.  The history variables only read the state *)
(* RaftNode reaches; they restrict none of its steps.                      *)
(***************************************************************************)
EXTENDS RaftNode

VARIABLES
    votes,        \* <<term, voter, candidate>> for every votedFor ever set
    elected,      \* <<term, leader>> for every node that ever led
    leaderLog,    \* per term that had a leader: its log as long as it led
    held,         \* <<term, node, index>> of every entry a node ever held while
                  \* in the term of the entry
    committedLog  \* the longest prefix some node has had as committed

hvars == <<vars, votes, elected, leaderLog, held, committedLog>>

Committed(i) == SubSeq(logs[i].log, 1, app[i].commitIndex)

HInit ==
    /\ Init
    /\ votes = {} /\ elected = {} /\ committedLog = << >>
    /\ leaderLog = [t \in {} |-> << >>] /\ held = {}

\* The nodes that lead in term t after the step, and the entries i then holds
\* that were made in its term.
LeadersNow(t) == {i \in Server : /\ srv'[i].state = "Leader"
                                 /\ srv'[i].currentTerm = t}

OwnNow(i) == {k \in 1..Len(logs'[i].log) :
                 logs'[i].log[k].term = srv'[i].currentTerm}

\* After a step of RaftNode: note the votes and leaders of the new state, with
\* their logs, the entries held, and the longest committed prefix if it grew.
Record ==
    /\ votes' = votes \cup
          {<<srv'[i].currentTerm, i, srv'[i].votedFor>> :
              i \in {j \in Server : srv'[j].votedFor # None}}
    /\ elected' = elected \cup
          {<<srv'[i].currentTerm, i>> :
              i \in {j \in Server : srv'[j].state = "Leader"}}
    /\ leaderLog' =
          [t \in {e[1] : e \in elected'} |->
              IF LeadersNow(t) = {} THEN leaderLog[t]
              ELSE logs'[CHOOSE i \in LeadersNow(t) : TRUE].log]
    /\ held' = held \cup
          UNION {{<<srv'[i].currentTerm, i, k>> : k \in OwnNow(i)} :
                    i \in Server}
    /\ committedLog' =
          LET longer == {i \in Server :
                            app'[i].commitIndex > Len(committedLog)}
          IN  IF longer = {} THEN committedLog
              ELSE LET i == CHOOSE j \in longer : \A k \in longer :
                               app'[k].commitIndex <= app'[j].commitIndex
                   IN  SubSeq(logs'[i].log, 1, app'[i].commitIndex)

HNext == Next /\ Record

HSpec == HInit /\ [][HNext]_hvars

\* No process was restarted so far: after a restart a term may have two leaders
\* and a committed entry may be lost.
NoRestarts == \A i \in Server : restarts[i] = 0

-----------------------------------------------------------------------------
(* Safety *)

\* No term ever has two leaders, however votes and replies are delayed,
\* reordered or lost (startElection, RequestVote, handleVoteResponse).
ElectionSafety ==
    \A e, f \in elected : e[1] = f[1] => e = f

\* Two logs that hold an entry of the same term at the same index are equal up
\* to it, commands included (checkLogConsistency, appendNewEntries).
LogMatching ==
    \A i, j \in Server :
        LET a == logs[i].log
            b == logs[j].log
        IN  \A k \in 1..minOf(Len(a), Len(b)) :
                a[k].term = b[k].term => SubSeq(a, 1, k) = SubSeq(b, 1, k)

\* Whoever leads in the newest term with a leader holds everything that was
\* ever committed (shouldVoteFor's third rule and advanceCommitIndex's
\* current-term rule together).
LeaderCompleteness ==
    \A i \in Server :
        /\ srv[i].state = "Leader"
        /\ \A e \in elected : e[1] <= srv[i].currentTerm
        => IsPrefix(committedLog, logs[i].log)

\* No node takes an entry as committed at an index where another one was
\* committed before (updateCommitIndex, advanceCommitIndex).
StateMachineSafety == \A i \in Server : IsPrefix(Committed(i), committedLog)

\* What this process has sent to applyCh is exactly its committed prefix, in
\* order, nothing twice and nothing left out, also after its log was cut
\* (applyCommittedEntries, appendNewEntries).
AppliedIsCommitted ==
    \A i \in Server : /\ app[i].commitIndex <= Len(logs[i].log)
                      /\ app[i].applyCh = Committed(i)

\* A leader believes of a follower only what is true: while the follower is in
\* the leader's term, their logs agree up to matchIndex
\* (handleAppendEntriesResponse).
MatchIndexSound ==
    \A i, p \in Server :
        /\ i # p /\ srv[i].state = "Leader"
        /\ srv[p].currentTerm = srv[i].currentTerm
        => /\ matchIndex[i][p] <= minOf(Len(logs[i].log), Len(logs[p].log))
           /\ SubSeq(logs[i].log, 1, matchIndex[i][p])
                = SubSeq(logs[p].log, 1, matchIndex[i][p])

\* Every AppendEntries call carries or confirms all entries its leaderCommit
\* covers.  updateCommitIndex relies on it: it commits up to the end of the
\* follower's log, not up to the last entry the call is about
\* (sendAppendEntriesToPeer).
LeaderCommitCovered ==
    \A m \in net :
        m.type = "AppendEntries" =>
            m.leaderCommit <= m.prevLogIndex + Len(m.entries)

-----------------------------------------------------------------------------
(* Steps that never happen *)

\* Within one process, the committed prefix only grows, and what was sent to
\* applyCh is never taken back.
CommitNeverRetreats ==
    [][\A i \in Server : restarts'[i] = restarts[i] =>
          /\ app'[i].commitIndex >= app[i].commitIndex
          /\ IsPrefix(app[i].applyCh, app'[i].applyCh)]_hvars

-----------------------------------------------------------------------------
(* Refinement *)

Promise == INSTANCE ReplicatedLog
              WITH chosen <- committedLog,
                   delivered <- [i \in Server |-> app[i].applyCh]

\* The cluster implements one growing sequence of commands of which every
\* applyCh carries a prefix (advanceCommitIndex, updateCommitIndex,
\* applyCommittedEntries).
ImplementsReplicatedLog == Promise!Spec

-----------------------------------------------------------------------------
(* What the repository's documents say and the code does not do: see the     *)
(* README, section "What does not hold".                                     *)

\* A node votes for one candidate in a term: votedFor, once set, is never set
\* to another id in the same term (RequestVote, becomeCandidate,
\* becomeFollower).
OneVotePerTerm ==
    \A v, w \in votes : v[1] = w[1] /\ v[2] = w[2] => v = w

=============================================================================
