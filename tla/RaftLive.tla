------------------------------ MODULE RaftLive ------------------------------
(***************************************************************************)
(* Progress of a leader that is not replaced: the last term the bounds     *)
(* allow stands for a period in which no election timer fires any more.    *)
(***************************************************************************)
EXTENDS RaftNode

\* The call sendAppendEntriesToPeer would make now.
CurrentCall(i, p) ==
    sendAppendEntriesToPeer(i, p, srv[i], logs[i].log, nextIndex[i][p],
                            app[i].commitIndex)

\* The heartbeat timer fires and the call to p is not lost.
HeartbeatReaches(i, p) == sendHeartbeats(i) /\ CurrentCall(i, p) \in net'

\* p handles the leader's current call and the reply is not lost.
CallAnswered(i, p) ==
    /\ srv[i].state = "Leader" /\ CurrentCall(i, p) \in net
    /\ AppendEntries(p, CurrentCall(i, p))
    /\ \E r \in net' : r.type = "AppendEntriesReply" /\ r.req = CurrentCall(i, p)

\* The goroutine that made the current call handles its reply.
ReplyHandled(i, p) ==
    \E r \in net : /\ srv[i].state = "Leader"
                   /\ r.type = "AppendEntriesReply"
                   /\ r.req = CurrentCall(i, p)
                   /\ handleAppendEntriesResponse(i, r)

\* A message reaches i for the last time.
Drain(i) == \E m \in net : Receive(i, m) /\ m \notin net'

\* The heartbeat timer is re-armed by each of its callbacks, HTTP calls end
\* within RPCTimeout one way or the other, and the network does not lose every
\* call for ever.
Fairness ==
    /\ \A i \in Server : WF_vars(Drain(i))
    /\ \A i, p \in Server : i # p =>
          /\ SF_vars(HeartbeatReaches(i, p))
          /\ SF_vars(CallAnswered(i, p))
          /\ SF_vars(ReplyHandled(i, p))

LiveSpec == Spec /\ Fairness

\* i leads in the last term and the last entry of its log is its own.
LastingLeader(i) ==
    /\ srv[i].state = "Leader" /\ srv[i].currentTerm = MaxTerm
    /\ lastLogTerm(logs[i].log) = MaxTerm

\* Once the lasting leader took in a command, its whole log reaches applyCh on
\* every node, entries of earlier terms included: back-off finds the point
\* where the logs agree, the entries are sent again until they arrive, and the
\* commit index follows (handleAppendEntriesResponse, sendHeartbeats,
\* advanceCommitIndex, updateCommitIndex).
ProposalsAreDelivered ==
    (\E i \in Server : LastingLeader(i))
        ~> (\E i \in Server :
               /\ LastingLeader(i)
               /\ \A p \in Server : Len(app[p].applyCh) = Len(logs[i].log))

-----------------------------------------------------------------------------
(* What the repository's documents say and the code does not do: see the     *)
(* README, section "What does not hold".                                     *)

\* A leader that is not replaced commits what a majority has in its log, also
\* when no client proposes anything new: all of it reaches applyCh everywhere
\* (becomeLeader, advanceCommitIndex).
OldEntriesAreDelivered ==
    \A i \in Server :
        srv[i].state = "Leader" /\ srv[i].currentTerm = MaxTerm
            ~> \A p \in Server : Len(app[p].applyCh) = Len(logs[i].log)

=============================================================================
