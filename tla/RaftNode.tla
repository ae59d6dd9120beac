------------------------------ MODULE RaftNode ------------------------------
(***************************************************************************)
(* The consensus layer of RaftPay: a cluster of RaftNode objects (package  *)
(* raft) that exchange RequestVote and AppendEntries calls over HTTP.      *)
(*                                                                         *)
(* Every handler and timer callback of the Go code runs with rn.mu held    *)
(* from its first to its last statement, so each is one action here.  What *)
(* interleaves is the delivery of requests, the delivery of replies to the *)
(* goroutines that wait for them, timer callbacks, client proposals and    *)
(* process restarts.                                                       *)
(*                                                                         *)
(* Go methods that only change fields of the receiver are operators from   *)
(* the old value of those fields to the new one, under the Go name.        *)
(***************************************************************************)
EXTENDS Integers, SequencesExt, FiniteSets

CONSTANTS
    Server,             \* the node ids of the cluster
    Value,              \* the commands clients propose
    None,               \* votedFor = "" in the code
    Torn,               \* a log-file line cut short by a crash
    ElectionTimeoutMin, \* Config.ElectionTimeoutMin, in milliseconds
    RPCTimeout,         \* Config.RPCTimeout, in milliseconds
    MaxTerm,            \* bound: no election timer fires at this term
    MaxLogLen,          \* bound: no proposal is taken at this log length
    MaxRestarts,        \* bound: restarts of all nodes together
    MaxInFlight         \* bound: messages under way at once

ASSUME ServerAssumption == IsFiniteSet(Server) /\ None \notin Server

ASSUME TimingAssumption ==
    ElectionTimeoutMin \in Nat \ {0} /\ RPCTimeout \in Nat \ {0}

ASSUME BoundAssumption ==
    /\ MaxTerm \in Nat /\ MaxLogLen \in Nat
    /\ MaxRestarts \in Nat /\ MaxInFlight \in Nat

VARIABLES
    srv,        \* per node: term, vote, role, vote count and state.json
    logs,       \* per node: the log, log.jsonl and its unflushed buffer
    app,        \* per node: commitIndex, lastApplied, what went to applyCh
    nextIndex,  \* per leader and peer
    matchIndex, \* per leader and peer
    net,        \* HTTP requests and replies under way
    started,    \* per node: Start() has run since the process came up
    timeouts,   \* per node: how often its election timer has fired
    restarts    \* per node: how often the process was restarted

vars == <<srv, logs, app, nextIndex, matchIndex, net, started, timeouts,
          restarts>>

Peers(i) == Server \ {i}

majority == (Cardinality(Server) \div 2) + 1

-----------------------------------------------------------------------------
(* Types *)

Entry == [term : Nat, command : Value]

StateFile == [currentTerm : Nat, votedFor : Server \cup {None}]

ServerState == [currentTerm   : Nat,
                votedFor      : Server \cup {None},
                state         : {"Follower", "Candidate", "Leader"},
                votesReceived : Nat,
                stateFile     : StateFile]

\* logFile is what a new process would read, logBuf what bufio still holds.
LogState == [log     : Seq(Entry),
             logFile : Seq(Entry \cup {Torn}),
             logBuf  : Seq(Entry)]

ApplyState == [commitIndex : Nat, lastApplied : Nat, applyCh : Seq(Entry)]

\* A request remembers how often its sender's election timer had fired and
\* which process incarnation sent it; a reply carries the request, as the
\* goroutine that handles the reply still has it.
RequestVoteRequest ==
    [type : {"RequestVote"}, from : Server, to : Server, term : Nat,
     lastLogIndex : Nat, lastLogTerm : Nat, sent : Nat, inc : Nat]

AppendEntriesRequest ==
    [type : {"AppendEntries"}, from : Server, to : Server, term : Nat,
     prevLogIndex : Nat, prevLogTerm : Nat, entries : Seq(Entry),
     leaderCommit : Nat, sent : Nat, inc : Nat]

RequestVoteResponse ==
    [type : {"RequestVoteReply"}, req : RequestVoteRequest, term : Nat,
     voteGranted : BOOLEAN]

AppendEntriesResponse ==
    [type : {"AppendEntriesReply"}, req : AppendEntriesRequest, term : Nat,
     success : BOOLEAN]

Message == RequestVoteRequest \cup AppendEntriesRequest
             \cup RequestVoteResponse \cup AppendEntriesResponse

-----------------------------------------------------------------------------
(* Roles: node.go *)

\* persist() after an assignment to currentTerm or votedFor: the state file
\* is replaced as a whole (written to a temporary file, then renamed).
persist(s) ==
    [s EXCEPT !.stateFile = [currentTerm |-> s.currentTerm,
                             votedFor    |-> s.votedFor]]

\* Mutant: the new term is not written to disk.
becomeFollowerUnsaved(s, term) ==
    [s EXCEPT !.state = "Follower", !.currentTerm = term,
              !.votedFor = None, !.votesReceived = 0]

\* The vote is cleared whatever the term, also when it is the current one.
becomeFollower(s, term) ==
    persist([s EXCEPT !.state = "Follower", !.currentTerm = term,
                      !.votedFor = None, !.votesReceived = 0])

becomeCandidate(s, i) ==
    persist([s EXCEPT !.state = "Candidate", !.currentTerm = @ + 1,
                      !.votedFor = i, !.votesReceived = 1])

-----------------------------------------------------------------------------
(* The log: utils.go, replication.go.  Index 0, the dummy entry, is left    *)
(* out: log[k] here is rn.log[k] there, and Len(log) is lastLogIndex().      *)

lastLogTerm(log) == IF log = << >> THEN 0 ELSE log[Len(log)].term

minOf(a, b) == IF a < b THEN a ELSE b

checkLogConsistency(log, req) ==
    req.prevLogIndex # 0 => /\ req.prevLogIndex <= Len(log)
                            /\ log[req.prevLogIndex].term = req.prevLogTerm

\* Positions of req.entries that the node holds with another term.
Conflicts(log, req) ==
    {k \in 1..Len(req.entries) :
        /\ req.prevLogIndex + k <= Len(log)
        /\ log[req.prevLogIndex + k].term # req.entries[k].term}

\* The length of log that survives: all of it, or what precedes the first
\* conflict.
KeptLen(log, req) ==
    LET C == Conflicts(log, req)
    IN  IF C = {} THEN Len(log)
        ELSE req.prevLogIndex + (CHOOSE k \in C : \A j \in C : k <= j) - 1

\* AppendLogEntry goes to the writer's buffer, never to the file itself.
AppendLogEntry(l, entries) ==
    [l EXCEPT !.log = @ \o entries, !.logBuf = @ \o entries]

\* Mutant: the log is cut in memory but not in the file.
TruncateLogInMemory(l, n) == [l EXCEPT !.log = SubSeq(@, 1, n)]

\* The log is cut after index n; the file is removed, written again and
\* flushed.
TruncateLog(l, n) == [log     |-> SubSeq(l.log, 1, n),
                      logFile |-> SubSeq(l.log, 1, n),
                      logBuf  |-> << >>]

\* Mutant: an index the log has is skipped without comparing the terms.
appendNewEntriesBlindly(l, req) ==
    AppendLogEntry(l, SubSeq(req.entries, Len(l.log) - req.prevLogIndex + 1,
                             Len(req.entries)))

\* The loop skips entries the log has, cuts the log at the first conflict, and
\* appends everything after that.
appendNewEntries(l, req) ==
    LET kept == KeptLen(l.log, req)
        new  == SubSeq(req.entries, kept - req.prevLogIndex + 1,
                       Len(req.entries))
    IN  AppendLogEntry(IF kept < Len(l.log) THEN TruncateLog(l, kept) ELSE l,
                       new)

-----------------------------------------------------------------------------
(* Committing and applying: replication.go, state_machine.go *)

\* Mutant: lastApplied is not advanced.
applyCommittedEntriesAgain(a, log) ==
    IF a.commitIndex <= a.lastApplied THEN a
    ELSE [a EXCEPT !.applyCh = @ \o SubSeq(log, a.lastApplied + 1,
                                           a.commitIndex)]

\* Entries go to applyCh in log order.  The channel holds 100 messages and is
\* taken to have room; the full channel is the subject of RaftPay.
applyCommittedEntries(a, log) ==
    IF a.commitIndex <= a.lastApplied THEN a
    ELSE [a EXCEPT !.applyCh = @ \o SubSeq(log, a.lastApplied + 1,
                                           a.commitIndex),
                   !.lastApplied = a.commitIndex]

\* Mutant: the leader's commit index is adopted even when it is lower.
updateCommitIndexUnguarded(a, log, req) ==
    applyCommittedEntries(
        [a EXCEPT !.commitIndex = minOf(req.leaderCommit, Len(log))], log)

updateCommitIndex(a, log, req) ==
    IF req.leaderCommit > a.commitIndex
    THEN applyCommittedEntries(
           [a EXCEPT !.commitIndex = minOf(req.leaderCommit, Len(log))], log)
    ELSE a

\* Mutant: one copy short of a majority is enough.
CommittableEarly(i, a, log, term, match) ==
    {n \in a.commitIndex + 1 .. Len(log) :
        /\ log[n].term = term
        /\ Cardinality({p \in Peers(i) : match[p] >= n}) + 1 >= majority - 1}

\* Indices a leader may commit: of its own term, above its commitIndex and,
\* by its own count, on a majority.
Committable(i, a, log, term, match) ==
    {n \in a.commitIndex + 1 .. Len(log) :
        /\ log[n].term = term
        /\ Cardinality({p \in Peers(i) : match[p] >= n}) + 1 >= majority}

advanceCommitIndex(i, a, log, term, match) ==
    LET C == Committable(i, a, log, term, match)
    IN  IF C = {} THEN a
        ELSE applyCommittedEntries(
               [a EXCEPT !.commitIndex = CHOOSE n \in C : \A j \in C : j <= n],
               log)

-----------------------------------------------------------------------------
(* The network: transport.go, http_server.go *)

\* The goroutine that sent req still waits for the reply.  Between two campaigns
\* of a node at least ElectionTimeoutMin passes (CampaignsAreSpaced of
\* NodeTimers), so after k more campaigns a vote request is at least
\* k * ElectionTimeoutMin old, and http.Client gives up at RPCTimeout.  An
\* AppendEntries call is made when the timer was just reset or is off.  For it
\* the age is exact unless an election callback has been waiting for the lock
\* since before the node was elected; that wait, and the wait of the goroutine
\* for the lock once its reply is there, are taken to be short and not counted.
\* A restarted process has no call of its predecessor.
Waiting(req) ==
    /\ req.inc = restarts[req.from]
    /\ (timeouts[req.from] - req.sent) * ElectionTimeoutMin <= RPCTimeout

\* A reply nobody waits for is dropped.
Reply(req, resp) == IF Waiting(req) THEN {resp} ELSE {}

\* Any of the messages a step sends may be lost; the others are under way
\* until they are received.  Calls share no order: each has its own connection.
Put(rest, new) ==
    \E kept \in SUBSET new : /\ net' = rest \cup kept
                             /\ Cardinality(net') <= MaxInFlight

Send(new) == Put(net, new)

\* A call of an election is made once, so it and its reply are gone when they
\* are received.  A heartbeat repeats the last AppendEntries call as long as
\* the leader has nothing new, so an equal call, or reply, may still follow.
Consume(m, new) == Put(net \ {m}, new)
ConsumeOne(m, new) == Put(net \ {m}, new) \/ Put(net, new)

requestVotes(i, s, log, sent) ==
    {[type |-> "RequestVote", from |-> i, to |-> p, term |-> s.currentTerm,
      lastLogIndex |-> Len(log), lastLogTerm |-> lastLogTerm(log),
      sent |-> sent, inc |-> restarts[i]] : p \in Peers(i)}

\* Mutant: one entry per call.
sendOneEntryToPeer(i, p, s, log, next, commit) ==
    [type |-> "AppendEntries", from |-> i, to |-> p, term |-> s.currentTerm,
     prevLogIndex |-> next - 1,
     prevLogTerm  |-> IF next - 1 \in 1..Len(log) THEN log[next - 1].term
                                                   ELSE 0,
     entries      |-> SubSeq(log, next, minOf(next, Len(log))),
     leaderCommit |-> commit,
     sent |-> timeouts[i], inc |-> restarts[i]]

\* The whole log from next on, after the entry before it.
sendAppendEntriesToPeer(i, p, s, log, next, commit) ==
    [type |-> "AppendEntries", from |-> i, to |-> p, term |-> s.currentTerm,
     prevLogIndex |-> next - 1,
     prevLogTerm  |-> IF next - 1 \in 1..Len(log) THEN log[next - 1].term
                                                   ELSE 0,
     entries      |-> SubSeq(log, next, Len(log)),
     leaderCommit |-> commit,
     sent |-> timeouts[i], inc |-> restarts[i]]

replicateLog(i, s, log, next, commit) ==
    {sendAppendEntriesToPeer(i, p, s, log, next[p], commit) : p \in Peers(i)}

-----------------------------------------------------------------------------
(* Init: a cluster of fresh data directories on which every node has run   *)
(* Start().                                                                *)

freshFile == [currentTerm |-> 0, votedFor |-> None]

Init ==
    /\ srv = [i \in Server |-> [currentTerm |-> 0, votedFor |-> None,
                                state |-> "Follower", votesReceived |-> 0,
                                stateFile |-> freshFile]]
    /\ logs = [i \in Server |-> [log |-> << >>, logFile |-> << >>,
                                 logBuf |-> << >>]]
    /\ app = [i \in Server |-> [commitIndex |-> 0, lastApplied |-> 0,
                                applyCh |-> << >>]]
    /\ nextIndex  = [i \in Server |-> [p \in Server |-> 0]]
    /\ matchIndex = [i \in Server |-> [p \in Server |-> 0]]
    /\ net = {}
    /\ started  = [i \in Server |-> TRUE]
    /\ timeouts = [i \in Server |-> 0]
    /\ restarts = [i \in Server |-> 0]

-----------------------------------------------------------------------------
(* Elections *)

\* The election timer's callback: becomeCandidate and startElection.
ElectionTimeout(i) ==
    /\ started[i]
    /\ srv[i].state # "Leader"
    /\ srv[i].currentTerm < MaxTerm
    /\ srv' = [srv EXCEPT ![i] = becomeCandidate(@, i)]
    /\ timeouts' = [timeouts EXCEPT ![i] = @ + 1]
    /\ Send(requestVotes(i, srv'[i], logs[i].log, timeouts'[i]))
    /\ UNCHANGED <<logs, app, nextIndex, matchIndex, started, restarts>>

\* Mutant: a vote already given this term does not count.
shouldVoteForAnyone(s, log, req) ==
    /\ req.term >= s.currentTerm
    /\ \/ req.lastLogTerm > lastLogTerm(log)
       \/ /\ req.lastLogTerm = lastLogTerm(log)
          /\ req.lastLogIndex >= Len(log)

\* Mutant: the logs are not compared.
shouldVoteForShorter(s, log, req) ==
    /\ req.term >= s.currentTerm
    /\ s.votedFor \in {None, req.from}

shouldVoteFor(s, log, req) ==
    /\ req.term >= s.currentTerm
    /\ s.votedFor \in {None, req.from}
    /\ \/ req.lastLogTerm > lastLogTerm(log)
       \/ /\ req.lastLogTerm = lastLogTerm(log)
          /\ req.lastLogIndex >= Len(log)

\* The RequestVote handler: a higher term is adopted first, then the vote is
\* decided, and persisted before the reply leaves.
RequestVote(i, m) ==
    LET s     == IF m.term > srv[i].currentTerm
                 THEN becomeFollower(srv[i], m.term) ELSE srv[i]
        grant == shouldVoteFor(s, logs[i].log, m)
    IN  /\ m.type = "RequestVote" /\ m.to = i
        /\ srv' = [srv EXCEPT ![i] =
                      IF grant THEN persist([s EXCEPT !.votedFor = m.from])
                               ELSE s]
        /\ Consume(m, Reply(m, [type |-> "RequestVoteReply", req |-> m,
                                term |-> s.currentTerm,
                                voteGranted |-> grant]))
        /\ UNCHANGED <<logs, app, nextIndex, matchIndex, started, timeouts,
                       restarts>>

\* becomeLeader, with the heartbeats it sends at once.
becomeLeader(i, s) ==
    /\ srv' = [srv EXCEPT ![i] = [s EXCEPT !.state = "Leader"]]
    /\ nextIndex' = [nextIndex EXCEPT ![i] =
                        [p \in Server |-> IF p = i THEN @[p]
                                          ELSE Len(logs[i].log) + 1]]
    /\ matchIndex' = [matchIndex EXCEPT ![i] =
                        [p \in Server |-> IF p = i THEN @[p] ELSE 0]]

\* A vote is counted by a candidate whatever the term it was granted in.
handleVoteResponse(i, m) ==
    LET s == srv[i]
        c == [s EXCEPT !.votesReceived = @ + 1]
    IN  /\ m.type = "RequestVoteReply" /\ m.req.from = i /\ Waiting(m.req)
        /\ \/ /\ \/ s.state # "Candidate"
                 \/ m.term <= s.currentTerm /\ ~m.voteGranted
              /\ Consume(m, {})
              /\ UNCHANGED <<srv, nextIndex, matchIndex>>
           \/ /\ s.state = "Candidate" /\ m.term > s.currentTerm
              /\ srv' = [srv EXCEPT ![i] = becomeFollower(s, m.term)]
              /\ Consume(m, {})
              /\ UNCHANGED <<nextIndex, matchIndex>>
           \/ /\ s.state = "Candidate" /\ m.term <= s.currentTerm
              /\ m.voteGranted /\ c.votesReceived < majority
              /\ srv' = [srv EXCEPT ![i] = c]
              /\ Consume(m, {})
              /\ UNCHANGED <<nextIndex, matchIndex>>
           \/ /\ s.state = "Candidate" /\ m.term <= s.currentTerm
              /\ m.voteGranted /\ c.votesReceived >= majority
              /\ becomeLeader(i, c)
              /\ Consume(m, replicateLog(i, c, logs[i].log, nextIndex'[i],
                                         app[i].commitIndex))
        /\ UNCHANGED <<logs, app, started, timeouts, restarts>>

-----------------------------------------------------------------------------
(* Replication *)

\* A client command reaches the leader: appended, buffered for the disk, sent.
Propose(i, v) ==
    LET entry == [term |-> srv[i].currentTerm, command |-> v]
    IN  /\ srv[i].state = "Leader"
        /\ Len(logs[i].log) < MaxLogLen
        /\ logs' = [logs EXCEPT ![i] = AppendLogEntry(@, <<entry>>)]
        /\ Send(replicateLog(i, srv[i], logs'[i].log, nextIndex[i],
                             app[i].commitIndex))
        /\ UNCHANGED <<srv, app, nextIndex, matchIndex, started, timeouts,
                       restarts>>

\* The heartbeat timer's callback.
sendHeartbeats(i) ==
    /\ srv[i].state = "Leader"
    /\ Send(replicateLog(i, srv[i], logs[i].log, nextIndex[i],
                         app[i].commitIndex))
    /\ UNCHANGED <<srv, logs, app, nextIndex, matchIndex, started, timeouts,
                   restarts>>

\* Mutant: a leader of the same term is left in place.
followLeaderIfNewer(s, term) ==
    IF term > s.currentTerm THEN becomeFollower(s, term) ELSE s

\* A candidate or leader of the same term steps down too, and loses its vote
\* for itself.
followLeader(s, term) ==
    IF term > s.currentTerm \/ s.state # "Follower"
    THEN becomeFollower(s, term) ELSE s

\* The AppendEntries handler.
AppendEntries(i, m) ==
    LET s == followLeader(srv[i], m.term)
        resp(t, ok) == [type |-> "AppendEntriesReply", req |-> m, term |-> t,
                        success |-> ok]
    IN  /\ m.type = "AppendEntries" /\ m.to = i
        /\ \/ /\ m.term < srv[i].currentTerm
              /\ ConsumeOne(m, Reply(m, resp(srv[i].currentTerm, FALSE)))
              /\ UNCHANGED <<srv, logs, app>>
           \/ /\ m.term >= srv[i].currentTerm
              /\ ~checkLogConsistency(logs[i].log, m)
              /\ srv' = [srv EXCEPT ![i] = s]
              /\ ConsumeOne(m, Reply(m, resp(m.term, FALSE)))
              /\ UNCHANGED <<logs, app>>
           \/ /\ m.term >= srv[i].currentTerm
              /\ checkLogConsistency(logs[i].log, m)
              /\ srv' = [srv EXCEPT ![i] = s]
              /\ logs' = [logs EXCEPT ![i] = appendNewEntries(@, m)]
              /\ app' = [app EXCEPT ![i] =
                            updateCommitIndex(@, logs'[i].log, m)]
              /\ ConsumeOne(m, Reply(m, resp(m.term, TRUE)))
        /\ UNCHANGED <<nextIndex, matchIndex, started, timeouts, restarts>>

\* Mutant: nextIndex stays.
backOffNever(next) == next

backOff(next) == IF next - 1 < 1 THEN 1 ELSE next - 1

\* Mutants: a success is taken to cover the whole log of the leader; the last
\* entry of the call is left out.
matchedWholeLog(i, req) == Len(logs[i].log)
matchedOneShort(i, req) == req.prevLogIndex + Len(req.entries) - 1

\* The index up to which a successful call has matched.
matched(i, req) == req.prevLogIndex + Len(req.entries)

\* The reply is used whatever the term its request was sent in.
handleAppendEntriesResponse(i, m) ==
    LET p     == m.req.to
        match == matched(i, m.req)
        next  == backOff(nextIndex[i][p])
    IN  /\ m.type = "AppendEntriesReply" /\ m.req.from = i /\ Waiting(m.req)
        /\ \/ /\ srv[i].state # "Leader"
              /\ ConsumeOne(m, {})
              /\ UNCHANGED <<srv, app, nextIndex, matchIndex>>
           \/ /\ srv[i].state = "Leader" /\ m.term > srv[i].currentTerm
              /\ srv' = [srv EXCEPT ![i] = becomeFollower(@, m.term)]
              /\ ConsumeOne(m, {})
              /\ UNCHANGED <<app, nextIndex, matchIndex>>
           \/ /\ srv[i].state = "Leader" /\ m.term <= srv[i].currentTerm
              /\ m.success
              /\ matchIndex' = [matchIndex EXCEPT ![i][p] = match]
              /\ nextIndex'  = [nextIndex EXCEPT ![i][p] = match + 1]
              /\ app' = [app EXCEPT ![i] =
                            advanceCommitIndex(i, @, logs[i].log,
                                               srv[i].currentTerm,
                                               matchIndex'[i])]
              /\ ConsumeOne(m, {})
              /\ UNCHANGED srv
           \/ /\ srv[i].state = "Leader" /\ m.term <= srv[i].currentTerm
              /\ ~m.success
              /\ nextIndex' = [nextIndex EXCEPT ![i][p] = next]
              /\ ConsumeOne(m, {sendAppendEntriesToPeer(i, p, srv[i],
                                    logs[i].log, next, app[i].commitIndex)})
              /\ UNCHANGED <<srv, app, matchIndex>>
        /\ UNCHANGED <<logs, started, timeouts, restarts>>

-----------------------------------------------------------------------------
(* Process lifecycle *)

\* LoadLog: one unreadable line and the whole log is given up.
LoadLog(file) ==
    IF \E k \in 1..Len(file) : file[k] = Torn THEN << >> ELSE file

\* The process dies and a new one runs NewRaftNode.  bufio writes its buffer
\* out only when it is full, so any prefix of what was buffered may have
\* reached the file, the last line perhaps in part; Stop() flushes nothing
\* either.  The HTTP server answers calls before Start() runs.
Restart(i) ==
    /\ Cardinality({r \in Server \X (1..MaxRestarts) :
                        r[2] <= restarts[r[1]]}) < MaxRestarts
    /\ \E k \in 0..Len(logs[i].logBuf), torn \in BOOLEAN :
         LET flushed == logs[i].logFile \o SubSeq(logs[i].logBuf, 1, k)
             file    == IF torn THEN Append(flushed, Torn) ELSE flushed
         IN  /\ torn => k < Len(logs[i].logBuf)
             /\ logs' = [logs EXCEPT ![i] = [log     |-> LoadLog(file),
                                             logFile |-> file,
                                             logBuf  |-> << >>]]
    /\ srv' = [srv EXCEPT ![i] =
                  [currentTerm   |-> @.stateFile.currentTerm,
                   votedFor      |-> @.stateFile.votedFor,
                   state         |-> "Follower",
                   votesReceived |-> 0,
                   stateFile     |-> @.stateFile]]
    /\ app' = [app EXCEPT ![i] = [commitIndex |-> 0, lastApplied |-> 0,
                                  applyCh |-> << >>]]
    /\ nextIndex'  = [nextIndex  EXCEPT ![i] = [p \in Server |-> 0]]
    /\ matchIndex' = [matchIndex EXCEPT ![i] = [p \in Server |-> 0]]
    /\ started'  = [started  EXCEPT ![i] = FALSE]
    /\ restarts' = [restarts EXCEPT ![i] = @ + 1]
    /\ UNCHANGED <<net, timeouts>>

Start(i) ==
    /\ ~started[i]
    /\ srv' = [srv EXCEPT ![i] = becomeFollower(@, @.currentTerm)]
    /\ started' = [started EXCEPT ![i] = TRUE]
    /\ UNCHANGED <<logs, app, nextIndex, matchIndex, net, timeouts, restarts>>

-----------------------------------------------------------------------------

Receive(i, m) ==
    \/ RequestVote(i, m)
    \/ handleVoteResponse(i, m)
    \/ AppendEntries(i, m)
    \/ handleAppendEntriesResponse(i, m)

Next ==
    \E i \in Server :
        \/ ElectionTimeout(i)
        \/ sendHeartbeats(i)
        \/ \E v \in Value : Propose(i, v)
        \/ \E m \in net : Receive(i, m)
        \/ Restart(i)
        \/ Start(i)

Spec == Init /\ [][Next]_vars

-----------------------------------------------------------------------------

\* Every variable has its type.
TypeOK ==
    /\ srv \in [Server -> ServerState]
    /\ logs \in [Server -> LogState]
    /\ app \in [Server -> ApplyState]
    /\ nextIndex \in [Server -> [Server -> Nat]]
    /\ matchIndex \in [Server -> [Server -> Nat]]
    /\ net \subseteq Message
    /\ started \in [Server -> BOOLEAN]
    /\ timeouts \in [Server -> Nat]
    /\ restarts \in [Server -> Nat]

-----------------------------------------------------------------------------
(* What each node keeps by itself, whatever the timing and the restarts *)

\* A node's term never decreases, through restarts too: what persist() wrote
\* is what the next process starts from.
TermNeverRegresses ==
    [][\A i \in Server :
          srv'[i].currentTerm >= srv[i].currentTerm]_vars

\* While a node leads it only appends to its log, and no step takes it from
\* one leadership to another without an election in between.
LeaderAppendOnly ==
    [][\A i \in Server :
          srv[i].state = "Leader" /\ srv'[i].state = "Leader" =>
              /\ srv'[i].currentTerm = srv[i].currentTerm
              /\ IsPrefix(logs[i].log, logs'[i].log)]_vars

\* Unless a line of it was cut short by a crash, the log file followed by the
\* buffered lines is the log (AppendLogEntry, TruncateLog, LoadLog).
DiskLogTracksMemory ==
    \A i \in Server :
        (\A k \in 1..Len(logs[i].logFile) : logs[i].logFile[k] # Torn)
            => logs[i].logFile \o logs[i].logBuf = logs[i].log

-----------------------------------------------------------------------------
(* What the repository's documents say and the code does not do: see the     *)
(* README, section "What does not hold".                                     *)

\* A candidate with the votes of a majority has become leader: nobody goes on
\* campaigning with the votes to lead (becomeCandidate, handleVoteResponse).
MajorityLeads ==
    \A i \in Server :
        srv[i].state = "Candidate" => srv[i].votesReceived < majority

=============================================================================
