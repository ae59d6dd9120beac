----------------------------- MODULE MCRaftNode -----------------------------
(***************************************************************************)
(* RaftNode for TLC.                                                       *)
(***************************************************************************)
EXTENDS RaftNode, TLC

\* Nodes and commands are interchangeable.
Symmetry == Permutations(Server) \cup Permutations(Value)

(***************************************************************************)
(* The view identifies states that differ only in what no later step can   *)
(* read: messages nobody will act on, the age of a call nobody waits for,  *)
(* the vote count of a node that is no candidate and the peer indices of   *)
(* one that does not lead (both are set anew before they are read).  Of    *)
(* the messages left out it keeps how many there are, and how many of them *)
(* can no longer be received, because the bound in Put counts them all.    *)
(***************************************************************************)

\* The reply to req can still have an effect on its sender, now or, if it does
\* not have the role now, after its next election timeout.
Heard(req, role) ==
    /\ Waiting(req)
    /\ \/ srv[req.from].state = role
       \/ (timeouts[req.from] + 1 - req.sent) * ElectionTimeoutMin <= RPCTimeout

Matters(m) ==
    CASE m.type = "RequestVote" ->
            m.term >= srv[m.to].currentTerm \/ Heard(m, "Candidate")
      [] m.type = "AppendEntries" ->
            m.term >= srv[m.to].currentTerm \/ Heard(m, "Leader")
      [] m.type = "RequestVoteReply" ->
            /\ Heard(m.req, "Candidate")
            /\ m.voteGranted \/ m.term > srv[m.req.from].currentTerm
      [] m.type = "AppendEntriesReply" -> Heard(m.req, "Leader")

Aged(req, role) ==
    [req EXCEPT !.sent = IF Heard(req, role) THEN timeouts[req.from] - @
                                             ELSE -1,
                !.inc  = 0]

Seen(m) ==
    CASE m.type = "RequestVote"        -> Aged(m, "Candidate")
      [] m.type = "AppendEntries"      -> Aged(m, "Leader")
      [] m.type = "RequestVoteReply"   -> [m EXCEPT !.req = Aged(@, "Candidate")]
      [] m.type = "AppendEntriesReply" -> [m EXCEPT !.req = Aged(@, "Leader")]

\* Replies nobody waits for any more; they stay under way for ever.
Stranded ==
    {m \in net : /\ m.type \in {"RequestVoteReply", "AppendEntriesReply"}
                 /\ ~Waiting(m.req)}

NodeView ==
    <<[i \in Server |-> IF srv[i].state = "Candidate" THEN srv[i]
                        ELSE [srv[i] EXCEPT !.votesReceived = 0]],
      logs, app,
      [i \in Server |-> IF srv[i].state = "Leader"
                        THEN <<nextIndex[i], matchIndex[i]>> ELSE << >>],
      {Seen(m) : m \in {x \in net : Matters(x)}},
      Cardinality(net), Cardinality(Stranded), started, restarts>>

=============================================================================
