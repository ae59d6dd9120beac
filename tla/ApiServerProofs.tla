-------------------------- MODULE ApiServerProofs --------------------------
(***************************************************************************)
(* What the REST API's answers are worth, for every cluster: that nothing  *)
(* refused is ever found anywhere, whatever the timing and the restarts;   *)
(* and, until a process restarts and if calls are short, that an accepted  *)
(* request's index and term name its entry and what GET /status confirms.  *)
(***************************************************************************)
EXTENDS ApiServer, RaftSafetyProofs

-----------------------------------------------------------------------------
(* Types *)

\* A request or poll that is being handled is at a node.
ApiTypes ==
    /\ reqs \in [Value -> Request]
    /\ status \in Status
    /\ \A v \in Value : reqs[v].stage = "checked" => reqs[v].node \in Server
    /\ status.busy => status.node \in Server

\* A step of the API is one of the cluster, or leaves the nodes alone.
LEMMA ApiStep ==
    ASSUME ApiTypes, [ANext]_avars
    PROVE  [Next]_vars /\ (Record \/ UNCHANGED hvars)
<1>1. CASE NodeStep
  BY <1>1 DEF NodeStep, Next
<1>2. ASSUME NEW v \in Value, propose(v)
      PROVE  [Next]_vars /\ Record
  <2>1. reqs[v].node \in Server
    BY <1>2 DEF propose, Handling, ApiTypes
  <2> QED
    BY <1>2, <2>1 DEF propose, ProposeTransfer, Next
<1>3. ASSUME NEW v \in Value, NEW i \in Server, HandleRequest(v, i)
      PROVE  UNCHANGED hvars
  BY <1>3 DEF HandleRequest
<1>4. ASSUME NEW i \in Server, HandleGetStatus(i) PROVE UNCHANGED hvars
  BY <1>4 DEF HandleGetStatus
<1>5. CASE GetStats
  BY <1>5 DEF GetStats, hvars
<1>6. CASE UNCHANGED avars
  BY <1>6 DEF avars, hvars
<1>7. UNCHANGED hvars => UNCHANGED vars
  BY DEF hvars
<1> QED
  BY <1>1, <1>2, <1>3, <1>4, <1>5, <1>6, <1>7 DEF ANext

\* The types hold at the start.
LEMMA InitApiTypes == AInit => ApiTypes
BY DEF AInit, ApiTypes, Request, Status

\* Every step keeps them.
LEMMA NextApiTypes ==
    ASSUME TypeInv, ApiTypes, [ANext]_avars
    PROVE  ApiTypes'
<1>1. \A i \in Server : /\ restarts[i] \in Nat /\ srv[i].currentTerm \in Nat
                        /\ app[i].commitIndex \in Nat
  BY DEF TypeInv, TypeOK, ServerState, ApplyState
<1>2. CASE NodeStep \/ UNCHANGED avars
  BY <1>2 DEF NodeStep, avars, ApiTypes
<1>3. ASSUME NEW v \in Value, propose(v) PROVE ApiTypes'
  <2> DEFINE i == reqs[v].node
  <2>1. i \in Server /\ reqs[v] \in Request /\ UNCHANGED status
    BY <1>3 DEF propose, Handling, ApiTypes
  <2>2. Len(logs'[i].log) \in Nat
    <3>1. TypeInv'
      BY NextTypeInv, ApiStep
    <3> QED
      BY <2>1, <3>1, LenProperties DEF TypeInv, TypeOK, LogState
  <2> DEFINE new == IF srv[i].state = "Leader"
                    THEN [reqs[v] EXCEPT !.stage = "accepted",
                                         !.index = Len(logs'[i].log),
                                         !.term  = srv[i].currentTerm]
                    ELSE [reqs[v] EXCEPT !.stage = "failed"]
  <2>3. new \in Request /\ new.stage # "checked"
    BY <1>1, <2>1, <2>2 DEF Request
  <2>4. reqs' = [reqs EXCEPT ![v] = new]
    BY <1>3 DEF propose
  <2> HIDE DEF new
  <2> QED
    BY <2>1, <2>3, <2>4 DEF ApiTypes
<1>4. ASSUME NEW v \in Value, NEW i \in Server, HandleRequest(v, i)
      PROVE  ApiTypes'
  <2> DEFINE new == [reqs[v] EXCEPT
                        !.stage = IF srv[i].state = "Leader"
                                  THEN "checked" ELSE "not leader",
                        !.node = i, !.inc = restarts[i]]
  <2>1. reqs[v] \in Request
    BY DEF ApiTypes
  <2>2. new \in Request /\ new.node = i
    BY <1>1, <2>1 DEF Request
  <2>3. reqs' = [reqs EXCEPT ![v] = new] /\ UNCHANGED status
    BY <1>4 DEF HandleRequest, ApiTypes
  <2> HIDE DEF new
  <2> QED
    BY <2>2, <2>3 DEF ApiTypes
<1>5. ASSUME NEW i \in Server, HandleGetStatus(i) PROVE ApiTypes'
  BY <1>1, <1>5 DEF HandleGetStatus, ApiTypes, Status
<1>6. CASE GetStats
  BY <1>1, <1>6 DEF GetStats, ApiTypes, Status
<1> QED
  BY <1>2, <1>3, <1>4, <1>5, <1>6 DEF ANext

\* The types of the nodes and of the API together.
LEMMA ApiTypeInv == ASpec => [](TypeInv /\ ApiTypes)
<1>1. AInit => TypeInv /\ ApiTypes
  BY InitTypeInv, InitApiTypes DEF AInit, HInit
<1>2. TypeInv /\ ApiTypes /\ [ANext]_avars => TypeInv' /\ ApiTypes'
  BY NextApiTypes, ApiStep, NextTypeInv
<1> QED
  BY <1>1, <1>2, PTL DEF ASpec

-----------------------------------------------------------------------------
(* Nothing that was refused is anywhere: all that nodes hold and send is     *)
(* made of entries whose command was accepted.                               *)

LogHolds(l, S) == /\ l.log \in Seq(S) /\ l.logBuf \in Seq(S)
                  /\ l.logFile \in Seq(S \cup {Torn})

Holds(S) ==
    /\ \A i \in Server : LogHolds(logs[i], S)
    /\ \A m \in net : m.type = "AppendEntries" => m.entries \in Seq(S)

\* A step of one node, when what it holds and sends then is of S.
LEMMA HoldsStep ==
    ASSUME NEW S, Holds(S), NEW i \in Server, LogHolds(logs'[i], S),
           \A j \in Server \ {i} : logs'[j] = logs[j],
           \A m \in net' : \/ m \in net \/ m.type # "AppendEntries"
                           \/ m.entries \in Seq(S)
    PROVE  Holds(S)'
<1>1. \A j \in Server : LogHolds(logs'[j], S)
  BY DEF Holds
<1> QED
  BY <1>1 DEF Holds, LogHolds

\* A call carries part of the sender's log.
LEMMA CallHolds ==
    ASSUME NEW S, NEW i, NEW p, NEW s, NEW log \in Seq(S),
           NEW next \in Nat \ {0}, NEW commit
    PROVE  sendAppendEntriesToPeer(i, p, s, log, next, commit).entries
              \in Seq(S)
<1>1. Len(log) \in Nat
  BY LenProperties
<1>2. SubSeq(log, next, Len(log)) \in Seq(S)
  BY <1>1, SubSeqType
<1> QED
  BY <1>2 DEF sendAppendEntriesToPeer

\* So do the calls to all peers.
LEMMA CallsHold ==
    ASSUME NEW S, NEW i \in Server, NEW s, NEW log \in Seq(S), NEW commit,
           NEW next, \A p \in Peers(i) : next[p] \in Nat \ {0}
    PROVE  \A m \in replicateLog(i, s, log, next, commit) :
              m.entries \in Seq(S)
BY CallHolds DEF replicateLog

\* What a node has after an AppendEntries call comes from its log or the call.
LEMMA AppendNewEntriesHolds ==
    ASSUME NEW S, NEW l \in LogState, LogHolds(l, S),
           NEW req \in AppendEntriesRequest, req.entries \in Seq(S),
           checkLogConsistency(l.log, req)
    PROVE  LogHolds(appendNewEntries(l, req), S)
<1> DEFINE kept == KeptLen(l.log, req)
           new  == SubSeq(req.entries, kept - req.prevLogIndex + 1,
                          Len(req.entries))
           base == IF kept < Len(l.log) THEN TruncateLog(l, kept) ELSE l
<1>1. l.log \in Seq(Entry) /\ req.prevLogIndex \in Nat
  BY DEF LogState, AppendEntriesRequest
<1>2. Len(l.log) \in Nat /\ Len(req.entries) \in Nat
  BY <1>1, LenProperties
<1>3. kept \in req.prevLogIndex..Len(l.log)
  BY <1>1, KeptLenRange
<1>4. new \in Seq(S)
  <2>1. kept - req.prevLogIndex + 1 \in Nat \ {0}
    BY <1>1, <1>2, <1>3
  <2> QED
    BY <1>2, <2>1, SubSeqType
<1>5. SubSeq(l.log, 1, kept) \in Seq(S)
  BY <1>1, <1>2, <1>3, SubSeqType DEF LogHolds
<1>6. SubSeq(l.log, 1, kept) \in Seq(S \cup {Torn})
  BY <1>5, SeqMonotonic
<1>7. LogHolds(base, S) /\ DOMAIN base = {"log", "logFile", "logBuf"}
  BY <1>5, <1>6, EmptySeq DEF TruncateLog, LogHolds, LogState
<1>8. base.log \o new \in Seq(S) /\ base.logBuf \o new \in Seq(S)
  BY <1>4, <1>7, ConcatProperties DEF LogHolds
<1>9. appendNewEntries(l, req) = AppendLogEntry(base, new)
  BY DEF appendNewEntries
<1> HIDE DEF base, new
<1> QED
  BY <1>7, <1>8, <1>9 DEF AppendLogEntry, LogHolds

\* A torn or whole log file is read back as entries it held.
LEMMA LoadLogHolds ==
    ASSUME NEW S, NEW file \in Seq(S \cup {Torn})
    PROVE  LoadLog(file) \in Seq(S)
<1>1. CASE \E k \in 1..Len(file) : file[k] = Torn
  BY <1>1, EmptySeq DEF LoadLog
<1>2. CASE ~ \E k \in 1..Len(file) : file[k] = Torn
  <2>1. \A k \in 1..Len(file) : file[k] \in S
    BY <1>2, ElementOfSeq
  <2>2. file \in Seq(S)
    BY <2>1, SeqDef, LenProperties, Len(file) \in Nat
  <2> QED
    BY <1>2, <2>2 DEF LoadLog
<1> QED
  BY <1>1, <1>2

\* A restart invents nothing.
LEMMA RestartHolds ==
    ASSUME TypeInv, NEW S, Holds(S), NEW i \in Server, Restart(i)
    PROVE  Holds(S)'
<1>1. PICK k \in 0..Len(logs[i].logBuf), torn \in BOOLEAN :
        LET flushed == logs[i].logFile \o SubSeq(logs[i].logBuf, 1, k)
            file    == IF torn THEN Append(flushed, Torn) ELSE flushed
        IN  logs' = [logs EXCEPT ![i] = [log     |-> LoadLog(file),
                                         logFile |-> file,
                                         logBuf  |-> << >>]]
  BY DEF Restart
<1> DEFINE T       == S \cup {Torn}
           flushed == logs[i].logFile \o SubSeq(logs[i].logBuf, 1, k)
           file    == IF torn THEN Append(flushed, Torn) ELSE flushed
<1>2. logs[i].logBuf \in Seq(S) /\ logs[i].logFile \in Seq(T)
  BY DEF Holds, LogHolds
<1>3. k \in Int /\ k <= Len(logs[i].logBuf)
  BY <1>2, LenProperties
<1>4. SubSeq(logs[i].logBuf, 1, k) \in Seq(S)
  BY <1>2, <1>3, SubSeqType
<1>5. SubSeq(logs[i].logBuf, 1, k) \in Seq(T)
  BY <1>4, SeqMonotonic
<1>6. flushed \in Seq(T)
  BY <1>2, <1>5, ConcatProperties
<1>7. file \in Seq(T)
  <2> HIDE DEF flushed
  <2>1. Torn \in T
    OBVIOUS
  <2> QED
    BY <1>6, <2>1, AppendProperties
<1>8. logs' = [logs EXCEPT ![i] = [log     |-> LoadLog(file),
                                   logFile |-> file,
                                   logBuf  |-> << >>]]
  BY <1>1
<1> HIDE DEF file
<1>9. LoadLog(file) \in Seq(S)
  BY <1>7, LoadLogHolds
<1>10. logs \in [Server -> LogState]
  BY DEF TypeInv, TypeOK
<1>11. LogHolds(logs'[i], S)
  BY <1>7, <1>8, <1>9, <1>10, EmptySeq DEF LogHolds
<1>12. \A j \in Server \ {i} : logs'[j] = logs[j]
  BY <1>8, <1>10
<1>13. net' = net
  BY DEF Restart
<1> QED
  BY <1>11, <1>12, <1>13, HoldsStep

\* A leader that proposes an entry of S keeps to S.
LEMMA ProposeHolds ==
    ASSUME TypeInv, NEW S, Holds(S), NEW i \in Server, NEW v \in Value,
           Propose(i, v), [term |-> srv[i].currentTerm, command |-> v] \in S
    PROVE  Holds(S)'
<1> DEFINE entry == [term |-> srv[i].currentTerm, command |-> v]
           l     == logs[i]
<1>1. logs \in [Server -> LogState] /\ l \in LogState /\ LogHolds(l, S)
  BY DEF TypeInv, TypeOK, Holds
<1>2. logs' = [logs EXCEPT ![i] = AppendLogEntry(l, <<entry>>)]
  BY DEF Propose
<1>3. <<entry>> \in Seq(S)
  OBVIOUS
<1> HIDE DEF entry
<1>4. l.log \o <<entry>> \in Seq(S) /\ l.logBuf \o <<entry>> \in Seq(S)
  BY <1>1, <1>3, ConcatProperties DEF LogHolds
<1>5. LogHolds(AppendLogEntry(l, <<entry>>), S)
  BY <1>1, <1>4 DEF AppendLogEntry, LogHolds, LogState
<1>6. LogHolds(logs'[i], S) /\ \A j \in Server \ {i} : logs'[j] = logs[j]
  BY <1>1, <1>2, <1>5
<1>7. /\ srv[i].state = "Leader"
      /\ Put(net, replicateLog(i, srv[i], logs'[i].log, nextIndex[i],
                               app[i].commitIndex))
  BY DEF Propose, Send
<1>8. \A p \in Peers(i) : nextIndex[i][p] \in Nat \ {0}
  BY <1>7 DEF TypeInv, TypeOK, LeaderIndices, Peers
<1>9. logs'[i].log \in Seq(S)
  BY <1>6 DEF LogHolds
<1>10. \A m \in net' : m \in net \/ m.entries \in Seq(S)
  <2> DEFINE calls == replicateLog(i, srv[i], logs'[i].log, nextIndex[i],
                                   app[i].commitIndex)
  <2>1. \A m \in calls : m.entries \in Seq(S)
    BY <1>8, <1>9, CallsHold
  <2>2. net' \subseteq net \cup calls
    BY <1>7, PutBound
  <2> QED
    BY <2>1, <2>2
<1> QED
  BY <1>6, <1>10, HoldsStep

\* A leader's heartbeats are calls from its log.
LEMMA SendHeartbeatsHolds ==
    ASSUME TypeInv, NEW S, Holds(S), NEW i \in Server, sendHeartbeats(i)
    PROVE  Holds(S)'
<1>1. /\ srv[i].state = "Leader" /\ logs' = logs
      /\ Put(net, replicateLog(i, srv[i], logs[i].log, nextIndex[i],
                               app[i].commitIndex))
  BY DEF sendHeartbeats, Send
<1>2. \A p \in Peers(i) : nextIndex[i][p] \in Nat \ {0}
  BY <1>1 DEF TypeInv, TypeOK, LeaderIndices, Peers
<1>3. LogHolds(logs[i], S) /\ logs[i].log \in Seq(S)
  BY DEF Holds, LogHolds
<1>4. \A m \in net' : m \in net \/ m.entries \in Seq(S)
  <2> DEFINE calls == replicateLog(i, srv[i], logs[i].log, nextIndex[i],
                                   app[i].commitIndex)
  <2>1. \A m \in calls : m.entries \in Seq(S)
    BY <1>2, <1>3, CallsHold
  <2>2. net' \subseteq net \cup calls
    BY <1>1, PutBound
  <2> QED
    BY <2>1, <2>2
<1> QED
  BY <1>1, <1>3, <1>4, HoldsStep

\* Elections ask for votes only.
LEMMA ElectionTimeoutHolds ==
    ASSUME TypeInv, NEW S, Holds(S), NEW i \in Server, ElectionTimeout(i)
    PROVE  Holds(S)'
<1>1. /\ logs' = logs
      /\ Put(net, requestVotes(i, srv'[i], logs[i].log, timeouts'[i]))
  BY DEF ElectionTimeout, Send
<1>2. net' \subseteq net \cup requestVotes(i, srv'[i], logs[i].log, timeouts'[i])
  BY <1>1, PutBound
<1>3. \A m \in requestVotes(i, srv'[i], logs[i].log, timeouts'[i]) :
         m.type = "RequestVote"
  BY DEF requestVotes
<1> QED
  BY <1>1, <1>2, <1>3, HoldsStep DEF Holds

\* So do votes.
LEMMA RequestVoteHolds ==
    ASSUME TypeInv, NEW S, Holds(S), NEW i \in Server, NEW m \in net,
           RequestVote(i, m)
    PROVE  Holds(S)'
<1> DEFINE s     == IF m.term > srv[i].currentTerm
                    THEN becomeFollower(srv[i], m.term) ELSE srv[i]
           resp  == [type |-> "RequestVoteReply", req |-> m,
                     term |-> s.currentTerm,
                     voteGranted |-> shouldVoteFor(s, logs[i].log, m)]
<1>1. logs' = logs /\ Put(net \ {m}, Reply(m, resp))
  BY DEF RequestVote, Consume
<1>2. resp.type = "RequestVoteReply"
  OBVIOUS
<1> HIDE DEF resp
<1>3. \A x \in net' : x \in net \/ x.type = "RequestVoteReply"
  BY <1>1, <1>2, PutBound DEF Reply
<1> QED
  BY <1>1, <1>3, HoldsStep DEF Holds

\* A new leader sends from its log.
LEMMA HandleVoteResponseHolds ==
    ASSUME TypeInv, NEW S, Holds(S), NEW i \in Server, NEW m \in net,
           handleVoteResponse(i, m)
    PROVE  Holds(S)'
<1> DEFINE c == [srv[i] EXCEPT !.votesReceived = @ + 1]
<1>1. logs' = logs
  BY DEF handleVoteResponse
<1>2. LogHolds(logs[i], S) /\ logs[i].log \in Seq(S)
  BY DEF Holds, LogHolds
<1>3. CASE Consume(m, {})
  <2>1. net' \subseteq net
    BY <1>3, PutBound DEF Consume
  <2> QED
    BY <1>1, <1>2, <2>1, HoldsStep
<1>4. CASE /\ becomeLeader(i, c)
           /\ Consume(m, replicateLog(i, c, logs[i].log, nextIndex'[i],
                                      app[i].commitIndex))
  <2>1. \A p \in Peers(i) : nextIndex'[i][p] \in Nat \ {0}
    <3>1. nextIndex' = [nextIndex EXCEPT ![i] =
                            [p \in Server |-> IF p = i THEN @[p]
                                              ELSE Len(logs[i].log) + 1]]
      BY <1>4 DEF becomeLeader
    <3>2. \A p \in Peers(i) : nextIndex'[i][p] = Len(logs[i].log) + 1
      BY <3>1 DEF TypeInv, TypeOK, Peers
    <3>3. Len(logs[i].log) \in Nat
      BY <1>2, LenProperties
    <3> QED
      BY <3>2, <3>3
  <2> HIDE DEF c
  <2>2. net' \subseteq (net \ {m}) \cup replicateLog(i, c, logs[i].log,
                                           nextIndex'[i], app[i].commitIndex)
    BY <1>4, PutBound DEF Consume
  <2>3. \A x \in net' : x \in net \/ x.entries \in Seq(S)
    BY <1>2, <2>1, <2>2, CallsHold
  <2> QED
    BY <1>1, <1>2, <2>3, HoldsStep
<1> HIDE DEF c
<1> QED
  BY <1>3, <1>4, Zenon DEF handleVoteResponse, c

\* A follower takes over what a call carries.
LEMMA AppendEntriesHolds ==
    ASSUME TypeInv, NEW S, Holds(S), NEW i \in Server, NEW m \in net,
           AppendEntries(i, m)
    PROVE  Holds(S)'
<1>1. /\ m.type = "AppendEntries" /\ m \in AppendEntriesRequest
      /\ m.entries \in Seq(S)
  BY MessageByType DEF AppendEntries, TypeInv, TypeOK, Holds
<1>2. logs \in [Server -> LogState] /\ LogHolds(logs[i], S)
  BY DEF TypeInv, TypeOK, Holds
<1>3. \/ logs' = logs
      \/ /\ checkLogConsistency(logs[i].log, m)
         /\ logs' = [logs EXCEPT ![i] = appendNewEntries(logs[i], m)]
  BY DEF AppendEntries
<1>4. LogHolds(logs'[i], S) /\ \A j \in Server \ {i} : logs'[j] = logs[j]
  <2>1. CASE logs' = logs
    BY <1>2, <2>1
  <2>2. CASE /\ checkLogConsistency(logs[i].log, m)
             /\ logs' = [logs EXCEPT ![i] = appendNewEntries(logs[i], m)]
    BY <1>1, <1>2, <2>2, AppendNewEntriesHolds
  <2> QED
    BY <1>3, <2>1, <2>2
<1>5. \E t, ok : ConsumeOne(m, Reply(m, [type |-> "AppendEntriesReply",
                                req |-> m, term |-> t, success |-> ok]))
  BY DEF AppendEntries
<1>6. \A x \in net' : x \in net \/ x.type = "AppendEntriesReply"
  <2>1. PICK t, ok : ConsumeOne(m, Reply(m, [type |-> "AppendEntriesReply",
                                req |-> m, term |-> t, success |-> ok]))
    BY <1>5
  <2> DEFINE resp == [type |-> "AppendEntriesReply", req |-> m, term |-> t,
                      success |-> ok]
  <2>2. resp.type = "AppendEntriesReply"
    OBVIOUS
  <2>3. ConsumeOne(m, Reply(m, resp))
    BY <2>1
  <2> HIDE DEF resp
  <2> QED
    BY <2>2, <2>3, ConsumeOneBound DEF Reply
<1> QED
  BY <1>4, <1>6, HoldsStep

\* A leader that is refused sends again, from its log.
LEMMA HandleAppendEntriesResponseHolds ==
    ASSUME TypeInv, NEW S, Holds(S), NEW i \in Server, NEW m \in net,
           handleAppendEntriesResponse(i, m)
    PROVE  Holds(S)'
<1> DEFINE p    == m.req.to
           next == backOff(nextIndex[i][p])
           call == sendAppendEntriesToPeer(i, p, srv[i], logs[i].log, next,
                                           app[i].commitIndex)
<1>1. logs' = logs
  BY DEF handleAppendEntriesResponse
<1>2. LogHolds(logs[i], S) /\ logs[i].log \in Seq(S)
  BY DEF Holds, LogHolds
<1>3. next \in Nat \ {0}
  <2>1. p \in Server
    BY MessageByType
       DEF handleAppendEntriesResponse, TypeInv, TypeOK, AppendEntriesResponse,
           AppendEntriesRequest
  <2>2. nextIndex[i][p] \in Nat
    BY <2>1 DEF TypeInv, TypeOK
  <2> QED
    BY <2>2 DEF backOff
<1>4. call.entries \in Seq(S)
  BY <1>2, <1>3, CallHolds
<1> HIDE DEF next, p
<1>5. CASE ConsumeOne(m, {})
  <2>1. net' \subseteq net
    BY <1>5, ConsumeOneBound
  <2> QED
    BY <1>1, <1>2, <2>1, HoldsStep
<1> HIDE DEF call
<1>6. CASE ConsumeOne(m, {call})
  <2>1. net' \subseteq net \cup {call}
    BY <1>6, ConsumeOneBound
  <2> QED
    BY <1>1, <1>2, <1>4, <2>1, HoldsStep
<1> QED
  BY <1>5, <1>6, Zenon DEF handleAppendEntriesResponse, call, next, p


\* A step of the cluster keeps to S if what it proposes is of S.
LEMMA NextHolds ==
    ASSUME TypeInv, NEW S, Holds(S),
           \/ UNCHANGED vars
           \/ NodeStep
           \/ \E i \in Server, v \in Value :
                 /\ Propose(i, v)
                 /\ [term |-> srv[i].currentTerm, command |-> v] \in S
    PROVE  Holds(S)'
<1>1. CASE UNCHANGED vars
  BY <1>1 DEF vars, Holds, LogHolds
<1>2. ASSUME NEW i \in Server, Start(i) PROVE Holds(S)'
  BY <1>2 DEF Start, Holds, LogHolds
<1>3. ASSUME NEW i \in Server, NEW m \in net, Receive(i, m) PROVE Holds(S)'
  BY <1>3, RequestVoteHolds, HandleVoteResponseHolds, AppendEntriesHolds,
     HandleAppendEntriesResponseHolds DEF Receive
<1>4. CASE NodeStep
  BY <1>2, <1>3, <1>4, ElectionTimeoutHolds, SendHeartbeatsHolds, RestartHolds
     DEF NodeStep
<1> QED
  BY <1>1, <1>4, ProposeHolds

\* What was promised to clients: entries with an accepted command.
Told == [term : Nat, command : {v \in Value : reqs[v].stage = "accepted"}]

\* Nodes hold, keep on disk and send nothing else.
OnlyAccepted == Holds(Told)

\* More may be held than before.
LEMMA HoldsMore ==
    ASSUME NEW S, NEW T, Holds(S), S \subseteq T
    PROVE  Holds(T)
<1>1. Seq(S) \subseteq Seq(T) /\ Seq(S \cup {Torn}) \subseteq Seq(T \cup {Torn})
  BY SeqMonotonic
<1> QED
  BY <1>1 DEF Holds, LogHolds

\* A proposal comes from a request that the same step accepts, and what is
\* accepted stays so.
LEMMA ProposedIsTold ==
    ASSUME TypeInv, ApiTypes, [ANext]_avars
    PROVE  /\ Told \subseteq Told'
           /\ \/ UNCHANGED vars
              \/ NodeStep
              \/ \E i \in Server, v \in Value :
                    /\ Propose(i, v)
                    /\ [term |-> srv[i].currentTerm, command |-> v] \in Told'
<1>1. ASSUME NEW v \in Value,
             reqs' = [reqs EXCEPT ![v] = reqs'[v]],
             reqs[v].stage = "accepted" => reqs'[v].stage = "accepted"
      PROVE  Told \subseteq Told'
  <2>1. \A w \in Value : reqs[w].stage = "accepted"
                            => reqs'[w].stage = "accepted"
    BY <1>1 DEF ApiTypes
  <2> QED
    BY <2>1 DEF Told
<1>2. UNCHANGED reqs => Told \subseteq Told'
  BY DEF Told
<1>3. ASSUME NEW v \in Value, propose(v)
      PROVE  /\ Told \subseteq Told'
             /\ \/ UNCHANGED vars
                \/ \E i \in Server, w \in Value :
                      /\ Propose(i, w)
                      /\ [term |-> srv[i].currentTerm, command |-> w] \in Told'
  <2> DEFINE i == reqs[v].node
  <2>1. /\ reqs[v].stage = "checked" /\ i \in Server /\ reqs[v] \in Request
        /\ srv[i].currentTerm \in Nat
    BY <1>3 DEF propose, Handling, ApiTypes, TypeInv, TypeOK, ServerState
  <2>2. reqs' = [reqs EXCEPT ![v] =
              IF srv[i].state = "Leader"
              THEN [reqs[v] EXCEPT !.stage = "accepted",
                             !.index = Len(logs'[i].log),
                             !.term  = srv[i].currentTerm]
              ELSE [reqs[v] EXCEPT !.stage = "failed"]]
    BY <1>3 DEF propose
  <2>3. reqs \in [Value -> Request]
    BY DEF ApiTypes
  <2>4. Told \subseteq Told'
    BY <1>1, <2>1, <2>2, <2>3
  <2>5. srv[i].state = "Leader" => reqs'[v].stage = "accepted"
    BY <2>1, <2>2, <2>3 DEF Request
  <2>6. ASSUME Propose(i, v)
        PROVE  [term |-> srv[i].currentTerm, command |-> v] \in Told'
    <3>1. reqs'[v].stage = "accepted"
      BY <2>5, <2>6 DEF Propose
    <3> QED
      BY <2>1, <3>1 DEF Told
  <2>7. Propose(i, v) \/ UNCHANGED vars
    BY <1>3 DEF propose, ProposeTransfer
  <2> HIDE DEF i
  <2> QED
    BY <2>1, <2>4, <2>6, <2>7
<1>4. ASSUME NEW v \in Value, NEW i \in Server, HandleRequest(v, i)
      PROVE  Told \subseteq Told' /\ UNCHANGED vars
  <2>1. reqs[v].stage # "accepted" /\ UNCHANGED vars
    BY <1>4 DEF HandleRequest, hvars
  <2>2. reqs' = [reqs EXCEPT ![v] = reqs'[v]]
    BY <1>4 DEF HandleRequest, ApiTypes
  <2> QED
    BY <1>1, <2>1, <2>2
<1>5. CASE NodeStep
  BY <1>2, <1>5 DEF NodeStep
<1>6. ASSUME NEW i \in Server, HandleGetStatus(i)
      PROVE  Told \subseteq Told' /\ UNCHANGED vars
  BY <1>2, <1>6 DEF HandleGetStatus, hvars, Told
<1>7. CASE GetStats \/ UNCHANGED avars
  BY <1>2, <1>7 DEF GetStats, avars, hvars
<1> QED
  BY <1>3, <1>4, <1>5, <1>6, <1>7 DEF ANext

\* Every step keeps to what was accepted.
LEMMA NextOnlyAccepted ==
    ASSUME TypeInv, ApiTypes, OnlyAccepted, [ANext]_avars
    PROVE  OnlyAccepted'
<1>1. PICK S : S = Told
  OBVIOUS
<1>2. PICK T : T = Told'
  OBVIOUS
<1>3. Holds(S)
  BY <1>1 DEF OnlyAccepted
<1>4. S \subseteq T
  BY <1>1, <1>2, ProposedIsTold
<1>5. Holds(T)
  BY <1>3, <1>4, HoldsMore
<1>6. \/ UNCHANGED vars
      \/ NodeStep
      \/ \E i \in Server, v \in Value :
            /\ Propose(i, v)
            /\ [term |-> srv[i].currentTerm, command |-> v] \in T
  BY <1>2, ProposedIsTold
<1>7. Holds(T)'
  BY <1>5, <1>6, NextHolds
<1> QED
  BY <1>2, <1>7 DEF OnlyAccepted, Holds, LogHolds

\* What was answered "not leader" or "failed" is in no log, in no file and
\* under way to nobody, whatever the timing and however processes restart: an
\* entry is made only by a propose that finds the node leading, and the step
\* that makes it answers "accepted" (HandleRequest, propose, Restart).
THEOREM RefusedIsNowhere == ASpec => []RefusedLeavesNoTrace
<1>1. AInit => OnlyAccepted
  <2> SUFFICES ASSUME AInit PROVE OnlyAccepted
    OBVIOUS
  <2>1. net = {} /\ \A i \in Server : /\ logs[i].log = << >>
                                      /\ logs[i].logFile = << >>
                                      /\ logs[i].logBuf = << >>
    BY DEF AInit, HInit, Init
  <2> QED
    BY <2>1, EmptySeq DEF OnlyAccepted, Holds, LogHolds
<1>2. TypeInv /\ ApiTypes /\ OnlyAccepted /\ [ANext]_avars => OnlyAccepted'
  BY NextOnlyAccepted
<1>3. OnlyAccepted => RefusedLeavesNoTrace
  <2> SUFFICES ASSUME OnlyAccepted, NEW v \in Value,
                      reqs[v].stage # "accepted"
               PROVE  /\ \A i \in Server : v \notin Commands(logs[i].log)
                      /\ \A i \in Server : v \notin Commands(logs[i].logFile)
                      /\ \A m \in net : m.type = "AppendEntries" =>
                                            v \notin Commands(m.entries)
    BY DEF RefusedLeavesNoTrace
  <2>1. ASSUME NEW s, s \in Seq(Told \cup {Torn})
        PROVE  v \notin Commands(s)
    <3>1. \A k \in DOMAIN s : s[k] # Torn => s[k] \in Told
      BY <2>1, LenProperties, ElementOfSeq
    <3> QED
      BY <3>1 DEF Commands, Told
  <2>2. Seq(Told) \subseteq Seq(Told \cup {Torn})
    BY SeqMonotonic
  <2> QED
    BY <2>1, <2>2 DEF OnlyAccepted, Holds, LogHolds
<1> QED
  BY <1>1, <1>2, <1>3, ApiTypeInv, PTL DEF ASpec


-----------------------------------------------------------------------------
(* What an accepted request and GET /status tell: the inductive invariant *)

\* An answer names an entry of the log of its term's leader.
AcceptedLogged ==
    \A v \in Value :
        reqs[v].stage = "accepted" =>
            /\ reqs[v].term \in DOMAIN leaderLog
            /\ reqs[v].index \in 1..Len(leaderLog[reqs[v].term])
            /\ leaderLog[reqs[v].term][reqs[v].index] = EntryOf(v)

\* What a node said it committed it still has, and when it was asked again, all
\* of it preceded an entry chosen no later than in the term it then gave.
StatusTrue ==
    status.node # None =>
        /\ status.commitIndex <= app[status.node].commitIndex
        /\ status.busy =>
              SafePrefix(committedLog, status.commitIndex, status.term)

LeaderLogFunction == leaderLog = [t \in DOMAIN leaderLog |-> leaderLog[t]]

ClientInv == AcceptedLogged /\ StatusTrue

\* Noting a state a second time adds nothing: the handler that is turned away
\* by ProposeTransfer leaves no trace in the history either.
LEMMA RecordAgain ==
    ASSUME RaftInv, LeaderLogFunction, UNCHANGED vars, Record
    PROVE  UNCHANGED hvars
<1> USE DEF vars
<1>1. votes' = votes
  BY DEF RaftInv, ClusterInv, ElectionInv, NodesInv, VoteRecorded, Record
<1>2. elected' = elected
  BY DEF RaftInv, ClusterInv, ElectionInv, NodesInv, VoteRecorded, Record
<1>3. held' = held
  <2>1. \A i \in Server : \A k \in OwnNow(i) :
           <<srv'[i].currentTerm, i, k>> \in held
    BY DEF OwnNow, RaftInv, ClusterInv, LogInv, HeldOK
  <2> QED
    BY <2>1 DEF Record
<1>4. committedLog' = committedLog
  <2>1. \A i \in Server : /\ app[i].commitIndex <= Len(committedLog)
                          /\ app[i].commitIndex \in Nat
    BY DEF RaftInv, CommitInv, NodeCommits, ClusterInv, TypeInv, TypeOK,
           ApplyState
  <2>2. Len(committedLog) \in Nat
    BY LenProperties DEF RaftInv, CommitInv, LogCommits
  <2>3. {i \in Server : app'[i].commitIndex > Len(committedLog)} = {}
    BY <2>1, <2>2
  <2> QED
    BY <2>3 DEF Record
<1>5. leaderLog' = leaderLog
  <2> DEFINE lead(t) == CHOOSE i \in LeadersNow(t) : TRUE
  <2>1. leaderLog' = [t \in {e[1] : e \in elected'} |->
              IF LeadersNow(t) = {} THEN leaderLog[t] ELSE logs'[lead(t)].log]
    BY DEF Record
  <2>2. {e[1] : e \in elected'} = DOMAIN leaderLog
    BY <1>2 DEF RaftInv, ClusterInv, LogInv, LeaderLogs
  <2>3. ASSUME NEW t, LeadersNow(t) # {}
        PROVE  logs'[lead(t)].log = leaderLog[t]
    <3>1. lead(t) \in LeadersNow(t)
      BY <2>3
    <3>2. \A i \in LeadersNow(t) : logs'[i].log = leaderLog[t]
      BY DEF LeadersNow, RaftInv, ClusterInv, LogInv, NodeLogs
    <3> HIDE DEF lead
    <3> QED
      BY <3>1, <3>2
  <2> HIDE DEF lead
  <2>4. leaderLog' = [t \in DOMAIN leaderLog |-> leaderLog[t]]
    BY <2>1, <2>2, <2>3
  <2> QED
    BY <2>4 DEF LeaderLogFunction
<1> QED
  BY <1>1, <1>2, <1>3, <1>4, <1>5 DEF hvars

\* So every step is one of the cluster with its history, or changes neither.
LEMMA ApiIsHistoryStep ==
    ASSUME RaftInv, LeaderLogFunction, ApiTypes, [ANext]_avars
    PROVE  [HNext]_hvars
<1>1. [Next]_vars /\ (Record \/ UNCHANGED hvars)
  BY ApiStep
<1>2. CASE Next /\ Record
  BY <1>2 DEF HNext
<1>3. CASE UNCHANGED vars /\ Record
  BY <1>3, RecordAgain
<1> QED
  BY <1>1, <1>2, <1>3

\* A log that extends another agrees with it.
LEMMA PrefixAgrees ==
    ASSUME NEW a \in Seq(Entry), NEW b \in Seq(Entry), IsPrefix(a, b),
           NEW n \in Nat, n <= Len(a)
    PROVE  Agree(b, a, n)
<1>1. Len(a) \in Nat /\ Len(b) \in Nat /\ Len(a) <= Len(b)
  BY LenProperties DEF IsPrefix
<1>2. SubSeq(a, 1, Len(a)) = SubSeq(b, 1, Len(a))
  BY DEF IsPrefix
<1>3. \A k \in 1..Len(a) : SubSeq(a, 1, Len(a))[k] = a[k]
  BY <1>1, HeadFacts
<1>4. \A k \in 1..Len(a) : SubSeq(b, 1, Len(a))[k] = b[k]
  BY <1>1, HeadFacts
<1>5. \A k \in 1..Len(a) : b[k] = a[k]
  BY <1>2, <1>3, <1>4
<1> QED
  BY <1>1, <1>5 DEF Agree

\* What a step of the cluster leaves true: leaders' logs and commit indices
\* grow, and what was safely committed remains so.
LEMMA ClusterGrows ==
    ASSUME RaftInv, RaftInv', CommittedAgree', ChosenOrder', NoRestarts',
           [HNext]_hvars
    PROVE  /\ \A t \in DOMAIN leaderLog :
                 /\ t \in DOMAIN leaderLog' /\ Len(leaderLog[t]) \in Nat
                 /\ Agree(leaderLog[t], leaderLog'[t], Len(leaderLog[t]))
           /\ \A j \in Server : app'[j].commitIndex >= app[j].commitIndex
           /\ \A c \in Nat, t \in Nat : SafePrefix(committedLog, c, t) =>
                                           SafePrefix(committedLog, c, t)'
<1>1. CASE UNCHANGED hvars
  <2>1. \A t \in DOMAIN leaderLog : Len(leaderLog[t]) \in Nat
    BY LenProperties DEF RaftInv, ClusterInv, LogInv, LeaderLogs
  <2>2. \A j \in Server : app[j].commitIndex \in Nat
    BY DEF RaftInv, ClusterInv, TypeInv, TypeOK, ApplyState
  <2>3. \A t, n : Chosen(t, n)' = Chosen(t, n)
    BY <1>1 DEF Chosen, Holders, majority, hvars, vars
  <2>4. \A c \in Nat, t \in Nat : SafePrefix(committedLog, c, t) =>
                                     SafePrefix(committedLog, c, t)'
    BY <1>1, <2>3 DEF SafePrefix, Backed, hvars
  <2>5. UNCHANGED <<leaderLog, app>>
    BY <1>1 DEF hvars, vars
  <2>6. \A t \in DOMAIN leaderLog :
           Agree(leaderLog[t], leaderLog'[t], Len(leaderLog[t]))
    BY <2>1, <2>5 DEF Agree
  <2> QED
    BY <2>1, <2>2, <2>4, <2>5, <2>6
<1>2. CASE HNext
  <2>1. Record /\ held \subseteq held'
    BY <1>2, OneNodeSteps DEF RaftInv
  <2>2. PICK i \in Server : Shape(i)
    BY <1>2, OneNodeSteps DEF RaftInv
  <2>3. \A t \in DOMAIN leaderLog :
           /\ t \in DOMAIN leaderLog' /\ Len(leaderLog[t]) \in Nat
           /\ Agree(leaderLog[t], leaderLog'[t], Len(leaderLog[t]))
    BY <2>1, <2>2, RecordLeaderLog DEF RaftInv, ClusterInv
  <2>4. \A j \in Server : app'[j].commitIndex >= app[j].commitIndex
    BY <2>1, <2>2, NodeCommitted DEF RaftInv, ClusterInv
  <2>6. IsPrefix(committedLog, committedLog')
    BY <2>1, <2>2, CommittedGrows
  <2>7. committedLog \in Seq(Entry) /\ committedLog' \in Seq(Entry)
    BY DEF RaftInv, CommitInv, LogCommits
  <2>8. ASSUME NEW c \in Nat, NEW t \in Nat, SafePrefix(committedLog, c, t)
        PROVE  SafePrefix(committedLog, c, t)'
    <3>1. Len(committedLog) \in Nat
      BY <2>7, LenProperties
    <3>2. c <= Len(committedLog)
      BY <2>8, <3>1 DEF SafePrefix, Backed, Agree
    <3>3. Agree(committedLog', committedLog, c)
      BY <2>6, <2>7, <3>2, PrefixAgrees
    <3>4. SafeNext(committedLog', c, t)
      <4>1. t <= t
        OBVIOUS
      <4> QED
        BY <2>1, <2>2, <2>8, <3>3, <4>1, SafePrefixStays DEF RaftInv, ClusterInv
    <3> QED
      BY <3>4 DEF SafeNext, SafePrefix, Backed
  <2> QED
    BY <2>3, <2>4, <2>8
<1> QED
  BY <1>1, <1>2


\* Until a process restarts the nodes behind the API keep what they keep
\* without it.
ClusterSound ==
    RaftInv /\ LeaderLogFunction /\ CommittedAgree /\ ChosenOrder

LEMMA ApiClusterSound ==
    ASSUME ShortCalls
    PROVE  ASpec => [](NoRestarts => ClusterSound)
<1> DEFINE Inv == NoRestarts => RaftInv /\ LeaderLogFunction
<1>1. AInit => Inv
  BY InitRaftInv DEF AInit, HInit, LeaderLogFunction
<1>2. TypeInv /\ TypeInv' /\ ApiTypes /\ Inv /\ [ANext]_avars => Inv'
  <2> SUFFICES ASSUME TypeInv, TypeInv', ApiTypes, Inv, [ANext]_avars,
                      NoRestarts'
               PROVE  RaftInv' /\ LeaderLogFunction'
    OBVIOUS
  <2>1. RaftInv /\ LeaderLogFunction
    BY ApiStep, RestartsStay
  <2>2. [HNext]_hvars
    BY <2>1, ApiIsHistoryStep
  <2>3. RaftInv'
    BY <2>1, <2>2, NextRaftInv
  <2>4. LeaderLogFunction'
    <3>1. CASE UNCHANGED hvars
      BY <2>1, <3>1 DEF LeaderLogFunction, hvars
    <3>2. CASE Record
      BY <3>2 DEF Record, LeaderLogFunction
    <3> QED
      BY <2>2, <3>1, <3>2 DEF HNext
  <2> QED
    BY <2>3, <2>4
<1>3. Inv => (NoRestarts => ClusterSound)
  BY CommittedAgrees DEF ClusterSound
<1> QED
  BY <1>1, <1>2, <1>3, ApiTypeInv, PTL DEF ASpec

\* An accepted request's entry is in its leader's log from then on.
LEMMA NextAcceptedLogged ==
    ASSUME TypeInv, TypeInv', ApiTypes, ApiTypes', NoRestarts', ClusterSound,
           ClusterSound', AcceptedLogged, [ANext]_avars
    PROVE  AcceptedLogged'
<1>1. \A t \in DOMAIN leaderLog :
         /\ t \in DOMAIN leaderLog' /\ Len(leaderLog[t]) \in Nat
         /\ Agree(leaderLog[t], leaderLog'[t], Len(leaderLog[t]))
  BY ApiIsHistoryStep, ClusterGrows DEF ClusterSound
<1>2. ASSUME NEW v \in Value, reqs[v].stage = "accepted", reqs'[v] = reqs[v]
      PROVE  /\ reqs'[v].term \in DOMAIN leaderLog'
             /\ reqs'[v].index \in 1..Len(leaderLog'[reqs'[v].term])
             /\ leaderLog'[reqs'[v].term][reqs'[v].index] = EntryOf(v)'
  <2> DEFINE t == reqs[v].term
             k == reqs[v].index
             a == leaderLog[t]
             b == leaderLog'[t]
  <2>1. t \in DOMAIN leaderLog /\ k \in 1..Len(a) /\ a[k] = EntryOf(v)
    BY <1>2 DEF AcceptedLogged
  <2>2. t \in DOMAIN leaderLog' /\ Len(a) \in Nat /\ Agree(a, b, Len(a))
    BY <1>1, <2>1
  <2>3. Len(b) \in Nat
    BY <2>2, LenProperties DEF ClusterSound, RaftInv, ClusterInv, LogInv,
                               LeaderLogs
  <2>4. EntryOf(v)' = EntryOf(v)
    BY <1>2 DEF EntryOf
  <2>5. reqs'[v].term = t /\ reqs'[v].index = k
    BY <1>2
  <2> HIDE DEF t, k, a
  <2>6. k \in 1..Len(b) /\ b[k] = a[k]
    BY <2>1, <2>2, <2>3 DEF Agree
  <2> QED
    BY <2>1, <2>2, <2>4, <2>5, <2>6
<1>3. ASSUME NEW v \in Value, propose(v), reqs'[v].stage = "accepted"
      PROVE  /\ reqs'[v].term \in DOMAIN leaderLog'
             /\ reqs'[v].index \in 1..Len(leaderLog'[reqs'[v].term])
             /\ leaderLog'[reqs'[v].term][reqs'[v].index] = EntryOf(v)'
  <2> DEFINE i     == reqs[v].node
             t     == srv[i].currentTerm
             log   == logs[i].log
             entry == [term |-> t, command |-> v]
  <2>1. i \in Server /\ reqs[v] \in Request /\ reqs \in [Value -> Request]
    BY <1>3 DEF propose, Handling, ApiTypes
  <2>2. srv[i].state = "Leader"
    BY <1>3, <2>1 DEF propose, Request
  <2>3. /\ reqs'[v].index = Len(logs'[i].log) /\ reqs'[v].term = t
    BY <1>3, <2>1, <2>2 DEF propose, Request
  <2>4. Propose(i, v)
    BY <1>3, <2>2 DEF propose, ProposeTransfer
  <2>5. logs \in [Server -> LogState] /\ log \in Seq(Entry)
    BY <2>1 DEF TypeInv, TypeOK, LogState
  <2>6. logs'[i].log = log \o <<entry>> /\ srv' = srv
    BY <2>1, <2>4, <2>5 DEF Propose, AppendLogEntry, LogState
  <2>7. t \in DOMAIN leaderLog' /\ leaderLog'[t] = logs'[i].log
    <3>1. <<t, i>> \in elected' /\ leaderLog'[t] = logs'[i].log
          /\ DOMAIN leaderLog' = {e[1] : e \in elected'}
      BY <2>1, <2>2, <2>6 DEF ClusterSound, RaftInv, ClusterInv, LogInv,
            NodeLogs, LeaderLogs, ElectionInv, NodesInv, VoteRecorded
    <3>2. <<t, i>>[1] = t
      OBVIOUS
    <3> QED
      BY <3>1, <3>2
  <2>8. EntryOf(v)' = entry
    BY <2>3 DEF EntryOf
  <2>9. entry \in Entry
    BY <2>1 DEF Entry, TypeInv, TypeOK, ServerState
  <2> HIDE DEF log, entry
  <2>10. /\ Len(log \o <<entry>>) = Len(log) + 1 /\ Len(log) \in Nat
         /\ (log \o <<entry>>)[Len(log) + 1] = entry
    BY <2>5, <2>9, LenProperties, ConcatProperties
  <2> QED
    BY <2>3, <2>6, <2>7, <2>8, <2>10
<1>4. ASSUME NEW v \in Value, reqs'[v].stage = "accepted"
      PROVE  propose(v) \/ (reqs[v].stage = "accepted" /\ reqs'[v] = reqs[v])
  <2>1. reqs \in [Value -> Request]
    BY DEF ApiTypes
  <2>2. ASSUME NEW w \in Value, propose(w), w # v
        PROVE  reqs'[v] = reqs[v]
    BY <2>1, <2>2 DEF propose
  <2>3. ASSUME NEW w \in Value, NEW i \in Server, HandleRequest(w, i)
        PROVE  reqs'[v] = reqs[v]
    <3>1. CASE w = v
      BY <1>4, <2>1, <2>3, <3>1 DEF HandleRequest, Request
    <3>2. CASE w # v
      BY <2>1, <2>3, <3>2 DEF HandleRequest
    <3> QED
      BY <3>1, <3>2
  <2>4. \/ UNCHANGED reqs
        \/ \E w \in Value, i \in Server : HandleRequest(w, i)
        \/ \E w \in Value : propose(w)
    BY DEF ANext, NodeStep, HandleGetStatus, GetStats, avars
  <2>5. propose(v) \/ reqs'[v] = reqs[v]
    BY <2>2, <2>3, <2>4
  <2> QED
    BY <1>4, <2>5
<1> QED
  BY <1>2, <1>3, <1>4 DEF AcceptedLogged

\* What GET /status has said stays true of the node that said it.
LEMMA NextStatusTrue ==
    ASSUME TypeInv, TypeInv', ApiTypes, ApiTypes', NoRestarts', ClusterSound,
           ClusterSound', StatusTrue, [ANext]_avars
    PROVE  StatusTrue'
<1> DEFINE n == status.node
           c == status.commitIndex
<1>1. /\ \A j \in Server : /\ app'[j].commitIndex >= app[j].commitIndex
                           /\ app[j].commitIndex \in Nat
                           /\ app'[j].commitIndex \in Nat
                           /\ srv[j].currentTerm \in Nat
      /\ \A d \in Nat, t \in Nat : SafePrefix(committedLog, d, t) =>
                                      SafePrefix(committedLog, d, t)'
  <2>1. \A j \in Server : /\ app[j].commitIndex \in Nat
                          /\ app'[j].commitIndex \in Nat
                          /\ srv[j].currentTerm \in Nat
    BY DEF TypeInv, TypeOK, ApplyState, ServerState
  <2>2. \A j \in Server : app'[j].commitIndex >= app[j].commitIndex
    BY ApiIsHistoryStep, ClusterGrows DEF ClusterSound
  <2>3. \A d \in Nat, t \in Nat : SafePrefix(committedLog, d, t) =>
                                     SafePrefix(committedLog, d, t)'
    BY ApiIsHistoryStep, ClusterGrows DEF ClusterSound
  <2> QED
    BY <2>1, <2>2, <2>3
<1>2. status \in Status /\ status' \in Status
  BY DEF ApiTypes
<1>3. c \in Nat /\ status.term \in Nat /\ (n # None => n \in Server)
  BY <1>2 DEF Status
<1>4. CASE UNCHANGED status
  <2>1. ASSUME n # None PROVE c <= app'[n].commitIndex
    <3> HIDE DEF n, c
    <3>1. c <= app[n].commitIndex
      BY <2>1 DEF StatusTrue, n, c
    <3>2. n \in Server
      BY <1>3, <2>1
    <3> QED
      BY <1>1, <1>3, <3>1, <3>2
  <2>2. ASSUME n # None, status.busy
        PROVE  SafePrefix(committedLog, c, status.term)'
    BY <1>1, <1>3, <1>4, <2>2 DEF StatusTrue, SafePrefix, Backed
  <2> QED
    BY <1>4, <2>1, <2>2 DEF StatusTrue
<1>5. ASSUME NEW i \in Server, HandleGetStatus(i) PROVE StatusTrue'
  <2> DEFINE d == IF n = i THEN c ELSE 0
             t == srv[i].currentTerm
             log == logs[i].log
             e   == app[i].commitIndex
  <2>1. /\ status'.node = i /\ status'.commitIndex = d /\ status'.term = t
        /\ UNCHANGED hvars
    BY <1>5 DEF HandleGetStatus
  <2>2. d \in Nat /\ t \in Nat /\ e \in Nat
    BY <1>1, <1>3
  <2>3. i # None
    BY ServerAssumption
  <2>4. d <= e
    <3>1. CASE n = i
      BY <2>3, <3>1 DEF StatusTrue
    <3>2. CASE n # i
      BY <2>2, <3>2
    <3> QED
      BY <3>1, <3>2
  <2>5. SafePrefix(log, e, t) /\ Agree(log, committedLog, e)
    BY DEF ClusterSound, RaftInv, CommitInv, NodeCommits, CommittedAgree
  <2>6. SafePrefix(committedLog, d, t)
    <3> HIDE DEF d, t, log, e
    <3>1. CASE d = 0
      BY <3>1 DEF SafePrefix
    <3>2. CASE d # 0
      <4>1. PICK h \in held : h[1] <= t /\ Backed(h, log, e)
        BY <2>2, <2>4, <2>5, <3>2 DEF SafePrefix
      <4>2. /\ h[3] \in Nat /\ Len(leaderLog[h[1]]) \in Nat
        BY LenProperties DEF ClusterSound, RaftInv, ClusterInv, LogInv, HeldOK,
                             LeaderLogs
      <4>3. Len(committedLog) \in Nat
        BY LenProperties DEF ClusterSound, RaftInv, CommitInv, LogCommits
      <4>4. Agree(committedLog, leaderLog[h[1]], e) /\ e <= h[3]
        BY <2>5, <4>1, AgreeSym, AgreeThrough DEF Backed
      <4>5. d <= h[3] /\ Agree(committedLog, leaderLog[h[1]], d)
        BY <2>2, <2>4, <4>2, <4>3, <4>4, AgreeShorter
      <4> QED
        BY <4>1, <4>5 DEF SafePrefix, Backed
    <3> QED
      BY <3>1, <3>2
  <2>7. PICK x \in Nat, y \in Nat : x = d /\ y = t
    BY <2>2
  <2>8. SafePrefix(committedLog, x, y)'
    BY <1>1, <2>6, <2>7
  <2>9. /\ status'.commitIndex = x /\ status'.term = y /\ status'.node = i
        /\ x <= app'[i].commitIndex
    BY <2>1, <2>4, <2>7 DEF hvars, vars
  <2> QED
    BY <2>8, <2>9 DEF StatusTrue, SafePrefix, Backed
<1>6. CASE GetStats
  <2>1. /\ status'.node = n /\ status'.commitIndex = app[n].commitIndex
        /\ status'.busy = FALSE /\ UNCHANGED app
    BY <1>2, <1>6 DEF GetStats, Status, hvars, vars
  <2>2. n \in Server
    BY <1>6 DEF GetStats, ApiTypes
  <2> QED
    BY <1>1, <2>1, <2>2 DEF StatusTrue
<1>7. CASE ~UNCHANGED status
  BY <1>5, <1>6, <1>7 DEF ANext, NodeStep, propose, HandleRequest, avars
<1> QED
  BY <1>4, <1>7


\* The answers are right until a process restarts.
LEMMA ClientInvariance ==
    ASSUME ShortCalls
    PROVE  ASpec => [](NoRestarts => ClientInv)
<1> DEFINE Sound == NoRestarts => ClusterSound
           Inv   == NoRestarts => ClientInv
<1>1. AInit => Inv
  BY DEF AInit, ClientInv, AcceptedLogged, StatusTrue
<1>2. TypeInv /\ TypeInv' /\ ApiTypes /\ ApiTypes' /\ Sound /\ Sound' /\ Inv
        /\ [ANext]_avars => Inv'
  <2> SUFFICES ASSUME TypeInv, TypeInv', ApiTypes, ApiTypes', Sound, Sound',
                      Inv, [ANext]_avars, NoRestarts'
               PROVE  ClientInv'
    OBVIOUS
  <2>1. NoRestarts
    BY ApiStep, RestartsStay
  <2>2. ClusterSound /\ ClusterSound' /\ AcceptedLogged /\ StatusTrue
    BY <2>1 DEF ClientInv
  <2> QED
    BY <2>2, NextAcceptedLogged, NextStatusTrue DEF ClientInv
<1>3. ASpec => []Sound
  BY ApiClusterSound
<1> QED
  BY <1>1, <1>2, <1>3, ApiTypeInv, PTL DEF ASpec

\* Until a process restarts the index and term of an answer name the client's
\* own command, if calls are short: the entry went into the log of the leader
\* of that term, of which there is one, and every entry of the term anywhere is
\* from that log (propose, appendNewEntries).
THEOREM AnswersNameEntries ==
    ASSUME ShortCalls
    PROVE  ASpec => []AcceptedNamesEntry
<1>1. (NoRestarts => ClientInv) /\ (NoRestarts => ClusterSound) /\ TypeInv
        => AcceptedNamesEntry
  <2> SUFFICES ASSUME ClientInv, ClusterSound, TypeInv, NEW v \in Value,
                      NEW i \in Server, reqs[v].stage = "accepted",
                      reqs[v].index <= Len(logs[i].log),
                      logs[i].log[reqs[v].index].term = reqs[v].term
               PROVE  logs[i].log[reqs[v].index] = EntryOf(v)
    BY DEF AcceptedNamesEntry
  <2> DEFINE k    == reqs[v].index
             t    == reqs[v].term
             log  == logs[i].log
             lead == leaderLog[t]
  <2>1. k \in 1..Len(lead) /\ lead[k] = EntryOf(v)
    BY DEF ClientInv, AcceptedLogged
  <2>2. log \in Seq(Entry) /\ FromLeaders(log, leaderLog)
    BY DEF TypeInv, TypeOK, LogState, ClusterSound, RaftInv, ClusterInv, LogInv,
           NodeLogs
  <2>3. Len(log) \in Nat /\ k \in Nat /\ k >= 1
    BY <2>1, <2>2, LenProperties
  <2>4. k <= Len(log) /\ log[k].term = t
    OBVIOUS
  <2> HIDE DEF k, t, log
  <2>5. Agree(log, lead, k)
    BY <2>2, <2>3, <2>4 DEF FromLeaders
  <2>6. log[k] = lead[k]
    BY <2>3, <2>5 DEF Agree
  <2> QED
    BY <2>1, <2>6 DEF k, log
<1> QED
  BY <1>1, ApiTypeInv, ApiClusterSound, ClientInvariance, PTL

\* Until a process restarts, if calls are short, a client that hears from a node
\* first a commit index that covers its answer and then the answer's term knows
\* that its command is committed: what the node had committed by then precedes
\* an entry chosen no later than in that term, which the term's leader, whose
\* log the answer names, holds as well (HandleGetStatus, advanceCommitIndex).
THEOREM PollsConfirm ==
    ASSUME ShortCalls
    PROVE  ASpec => []StatusConfirms
<1>1. (NoRestarts => ClientInv) /\ (NoRestarts => ClusterSound) /\ ApiTypes
        => StatusConfirms
  <2> SUFFICES ASSUME ClientInv, ClusterSound, ApiTypes, NEW v \in Value,
                      reqs[v].stage = "accepted", status.busy,
                      status.term = reqs[v].term,
                      status.commitIndex >= reqs[v].index
               PROVE  /\ Len(committedLog) >= reqs[v].index
                      /\ committedLog[reqs[v].index] = EntryOf(v)
    BY DEF StatusConfirms
  <2> DEFINE k    == reqs[v].index
             t    == reqs[v].term
             c    == status.commitIndex
             lead == leaderLog[t]
             log  == committedLog
  <2>1. t \in DOMAIN leaderLog /\ k \in 1..Len(lead) /\ lead[k] = EntryOf(v)
    BY DEF ClientInv, AcceptedLogged
  <2>2. /\ Len(lead) \in Nat /\ log \in Seq(Entry) /\ Len(log) \in Nat
        /\ k \in Nat /\ k >= 1
    BY <2>1, LenProperties DEF ClusterSound, RaftInv, ClusterInv, LogInv,
                               LeaderLogs, CommitInv, LogCommits
  <2>3. c \in Nat /\ c >= k /\ t \in Nat /\ status.node # None
    BY ServerAssumption DEF ApiTypes, Status, Request
  <2>4. PICK h \in held : h[1] <= t /\ Backed(h, log, c)
    <3>1. SafePrefix(log, c, t)
      BY <2>3 DEF ClientInv, StatusTrue
    <3>2. c # 0
      BY <2>2, <2>3
    <3> QED
      BY <3>1, <3>2 DEF SafePrefix
  <2>5. Agree(leaderLog[h[1]], lead, h[3])
    BY <2>1, <2>4 DEF ClusterSound, ChosenOrder, Backed
  <2>6. h[3] \in Nat /\ Len(leaderLog[h[1]]) \in Nat
    BY LenProperties DEF ClusterSound, RaftInv, ClusterInv, LogInv, HeldOK,
                         LeaderLogs
  <2>7. c <= h[3] /\ Agree(log, leaderLog[h[1]], c)
    BY <2>4 DEF Backed
  <2> HIDE DEF k, t, c, lead, log
  <2>8. k <= Len(log) /\ log[k] = lead[k]
    BY <2>2, <2>3, <2>5, <2>6, <2>7 DEF Agree
  <2> QED
    BY <2>1, <2>2, <2>8 DEF k, log
<1> QED
  BY <1>1, ApiTypeInv, ApiClusterSound, ClientInvariance, PTL


=============================================================================
