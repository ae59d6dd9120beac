------------------------------ MODULE ApiServer ------------------------------
(***************************************************************************)
(* The REST API (package api) in front of the cluster: POST /account and   *)
(* POST /transfer, which differ only in the command they build, and GET    *)
(* /status.  GET /balance is in RaftPay.                                   *)
(*                                                                         *)
(* A handler takes the node's lock twice: GetState to find out whether the *)
(* node leads, then Propose, which looks again.  It answers "accepted" as  *)
(* soon as the entry is in the leader's log and waits for nothing else.    *)
(* Every request brings a command of its own, so Value is also the set of  *)
(* requests; malformed ones are turned away before they reach the node.    *)
(***************************************************************************)
EXTENDS RaftHistory

CONSTANT MaxPolls   \* bound: GET /status requests

ASSUME PollsAssumption == MaxPolls \in Nat

VARIABLES
    reqs,    \* per request: how far it got and what it was answered
    status   \* what the client that polls GET /status knows

avars == <<hvars, reqs, status>>

\* node and inc are the process that handles the request, index and term what
\* an accepted one was told.
Request ==
    [stage : {"new", "checked", "accepted", "not leader", "failed"},
     node : Server \cup {None}, inc : Nat, index : Nat, term : Nat]

\* busy while the handler of process inc of node is between GetState, which
\* gave term, and GetStats; until then commitIndex is the last answer's.
Status == [node : Server \cup {None}, inc : Nat, term : Nat, commitIndex : Nat,
           busy : BOOLEAN, polls : Nat]

AInit ==
    /\ HInit
    /\ status = [node |-> None, inc |-> 0, term |-> 0, commitIndex |-> 0,
                 busy |-> FALSE, polls |-> 0]
    /\ reqs = [v \in Value |-> [stage |-> "new", node |-> None, inc |-> 0,
                                index |-> 0, term |-> 0]]

\* The request reaches node i, which answers 503 unless it leads.
HandleRequest(v, i) ==
    /\ reqs[v].stage = "new"
    /\ reqs' = [reqs EXCEPT ![v].stage = IF srv[i].state = "Leader"
                                         THEN "checked" ELSE "not leader",
                            ![v].node = i, ![v].inc = restarts[i]]
    /\ UNCHANGED <<hvars, status>>

\* The handler of v still runs.
Handling(v) == reqs[v].stage = "checked" /\ reqs[v].inc = restarts[reqs[v].node]

\* Mutants: the node's answer to GetState is taken to hold still; the entry is
\* appended before the role is looked at again.
proposeOnOldCheck(v) ==
    LET i     == reqs[v].node
        entry == [term |-> srv[i].currentTerm, command |-> v]
    IN  /\ Handling(v) /\ Len(logs[i].log) < MaxLogLen
        /\ logs' = [logs EXCEPT ![i] = AppendLogEntry(@, <<entry>>)]
        /\ reqs' = [reqs EXCEPT ![v].stage = "accepted",
                                ![v].index = Len(logs'[i].log),
                                ![v].term  = srv[i].currentTerm]
        /\ UNCHANGED <<srv, app, nextIndex, matchIndex, net, started, timeouts,
                       restarts>>
        /\ Record
        /\ UNCHANGED status

proposeTooEarly(v) ==
    LET i     == reqs[v].node
        entry == [term |-> srv[i].currentTerm, command |-> v]
    IN  /\ Handling(v) /\ Len(logs[i].log) < MaxLogLen
        /\ logs' = [logs EXCEPT ![i] = AppendLogEntry(@, <<entry>>)]
        /\ reqs' = [reqs EXCEPT ![v].stage = IF srv[i].state = "Leader"
                                             THEN "accepted" ELSE "failed",
                                ![v].index = Len(logs'[i].log),
                                ![v].term  = srv[i].currentTerm]
        /\ UNCHANGED <<srv, app, nextIndex, matchIndex, net, started, timeouts,
                       restarts>>
        /\ Record
        /\ UNCHANGED status

\* ProposeTransfer or ProposeCreateAccount on node i: without leadership an
\* error and nothing else.
ProposeTransfer(i, v) ==
    \/ Propose(i, v)
    \/ srv[i].state # "Leader" /\ UNCHANGED vars

\* The rest of the handler: 200 "accepted" with index and term, or 500 if the
\* node stopped leading after the check.
propose(v) ==
    LET i == reqs[v].node
    IN  /\ Handling(v)
        /\ ProposeTransfer(i, v)
        /\ reqs' = [reqs EXCEPT ![v] =
              IF srv[i].state = "Leader"
              THEN [@ EXCEPT !.stage = "accepted",
                             !.index = Len(logs'[i].log),
                             !.term  = srv[i].currentTerm]
              ELSE [@ EXCEPT !.stage = "failed"]]
        /\ Record
        /\ UNCHANGED status

\* GET /status on node i, whose first part is GetState.  The client polls once
\* a request was accepted and forgets what another node told it.
HandleGetStatus(i) ==
    /\ status.polls < MaxPolls
    /\ \E v \in Value : reqs[v].stage = "accepted"
    /\ status' = [node |-> i, inc |-> restarts[i], term |-> srv[i].currentTerm,
                  commitIndex |-> IF status.node = i THEN status.commitIndex
                                                     ELSE 0,
                  busy |-> TRUE, polls |-> status.polls + 1]
    /\ UNCHANGED <<hvars, reqs>>

\* The second part, after which the answer is sent.
GetStats ==
    /\ status.busy /\ status.inc = restarts[status.node]
    /\ status' = [status EXCEPT !.commitIndex = app[status.node].commitIndex,
                                !.busy = FALSE]
    /\ UNCHANGED <<hvars, reqs>>

\* What the cluster does by itself.
NodeStep ==
    /\ \E i \in Server :
          \/ ElectionTimeout(i)
          \/ sendHeartbeats(i)
          \/ \E m \in net : Receive(i, m)
          \/ Restart(i)
          \/ Start(i)
    /\ Record
    /\ UNCHANGED <<reqs, status>>

ANext ==
    \/ NodeStep
    \/ \E v \in Value : \/ \E i \in Server : HandleRequest(v, i)
                        \/ propose(v)
    \/ \E i \in Server : HandleGetStatus(i)
    \/ GetStats

ASpec == AInit /\ [][ANext]_avars

-----------------------------------------------------------------------------

\* The entry a request was told about.
EntryOf(v) == [term |-> reqs[v].term, command |-> v]

\* The index and term in an answer name the client's own command: wherever in
\* the cluster a log has an entry of that term at that index, it is that one
\* (propose checks again after GetState).  After a restart, when a term may have
\* two leaders, answers are worth nothing.
AcceptedNamesEntry ==
    NoRestarts => \A v \in Value, i \in Server :
        LET k == reqs[v].index
        IN  /\ reqs[v].stage = "accepted"
            /\ k <= Len(logs[i].log) /\ logs[i].log[k].term = reqs[v].term
            => logs[i].log[k] = EntryOf(v)

\* What a client can make of GET /status, whose two halves are read at
\* different times: when a node, leader or not, has said that it committed up to
\* the index of an answer and is after that still in its term, then the client's
\* command is the committed one.
StatusConfirms ==
    NoRestarts => \A v \in Value :
        LET k == reqs[v].index
        IN  /\ reqs[v].stage = "accepted"
            /\ status.busy /\ status.term = reqs[v].term
            /\ status.commitIndex >= k
            => Len(committedLog) >= k /\ committedLog[k] = EntryOf(v)

Commands(entries) ==
    {entries[k].command : k \in {n \in DOMAIN entries : entries[n] # Torn}}

\* A client that was refused can safely send the request again: what was
\* answered "not leader" or "failed" is in no log, in no file and under way to
\* nobody, also when the node that refused it crashes (HandleRequest, propose).
RefusedLeavesNoTrace ==
    \A v \in Value :
        reqs[v].stage \in {"not leader", "failed"} =>
            /\ \A i \in Server : v \notin Commands(logs[i].log)
            /\ \A i \in Server : v \notin Commands(logs[i].logFile)
            /\ \A m \in net : m.type = "AppendEntries" =>
                                  v \notin Commands(m.entries)

-----------------------------------------------------------------------------
(* What the repository's documents say and the code does not do: see the     *)
(* README, section "What does not hold".                                     *)

\* A request that was accepted is carried out: no other command is committed
\* in its place.
AcceptedIsCarriedOut ==
    \A v \in Value :
        reqs[v].stage = "accepted" /\ reqs[v].index <= Len(committedLog)
            => committedLog[reqs[v].index] = EntryOf(v)

=============================================================================
