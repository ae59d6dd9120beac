# RaftPay in TLA+

RaftPay is a replicated payment ledger: every node runs a Raft implementation
(`src/raft`), a ledger fed by the committed log (`src/ledger`) and a REST API
(`src/api`). This directory holds TLA+ models of it, the TLC configurations that
check them on small instances, and theorems with proofs that TLAPS checks.

Run, from this directory, `tlc -config MCLeaderChanges.cfg MCRaft` (the runs and
their modules are listed under "Runs") and `tlapm RaftElectionProofs.tla` (likewise the
other modules whose names end in `Proofs`).

## The system

| component | state | operations | talks to |
|---|---|---|---|
| Elections (`election.go`, `rpc.go`, `node.go`) | currentTerm, votedFor, state, votesReceived | election timer callback, `RequestVote`, `handleVoteResponse`, `becomeFollower/Candidate/Leader` | peers over HTTP, Persister |
| Replication (`replication.go`, `rpc.go`, `proposal.go`) | log, nextIndex, matchIndex, commitIndex | `Propose`, heartbeat timer callback, `AppendEntries`, `handleAppendEntriesResponse`, `advanceCommitIndex`, `updateCommitIndex` | peers over HTTP, Persister |
| Applying (`state_machine.go`) | lastApplied, the channel applyCh (100 places) | `applyCommittedEntries` | the applier, through applyCh |
| Persister (`persistence.go`) | `state.json`, `log.jsonl`, a 64 KB write buffer | `SaveState`, `LoadState`, `AppendLogEntry`, `TruncateLog`, `LoadLog` | the file system |
| Lifecycle and timers (`node.go`, `main.go`) | two timers, stopCh | `NewRaftNode`, `Start`, `Stop` | all of the above |
| Transport, HTTP server (`transport.go`, `http_server.go`) | calls under way | `SendRequestVote`, `SendAppendEntries` and the two handlers | peers |
| Ledger (`ledger.go`) | accounts, processedTxns | `CreateAccount`, `Transfer`, `GetBalance` | |
| Applier (`raft_ledger.go`) | one goroutine | `applyTransfer`, `applyCreateAccount` | applyCh, Ledger |
| REST API (`handlers.go`) | none | create account, transfer, balance, status | the node, the ledger |

Every handler and timer callback of a node holds `rn.mu` from start to end, and
calls to peers are made by goroutines that take the lock again when the reply is
there. So what interleaves is: requests and replies in any order, timers, client
proposals, and restarts. What is hard, and what the properties are about
(`PROJECT.json` lists each hazard at its line):

* replies are handled without the term or the leadership they belong to
  (`handleVoteResponse`, `handleAppendEntriesResponse`), so an answer that is
  late meets a node in another election or another leadership;
* `becomeFollower` clears the vote whatever the term, and `Start` calls it after
  the vote was loaded from disk;
* log entries are acknowledged while they are in a buffer that nothing flushes,
  and one unreadable line makes `LoadLog` give up the whole log;
* a follower commits up to the end of its own log, a leader only counts copies
  of entries of its term, and logs are cut when they conflict;
* a full applyCh makes `applyCommittedEntries` skip an entry for good;
* the API looks at the node under two locks, answers before anything is committed
  and reads the local ledger;
* a timer's callback waits for the lock and cannot be recalled, and every role
  change has to leave the right timer armed;
* `SaveState` and `TruncateLog` are several file operations each, of which any may
  fail or be the last before a crash; failures are logged and otherwise ignored;
* the ledger is in memory only and is rebuilt by replay; a failed transfer leaves no
  mark; balances are float64.

What makes each component correct: one leader per term and terms that survive
restarts (elections); logs that agree where terms agree, committed entries that
never change, a leader's view of its followers that is true (replication); every
applyCh a prefix of one growing log, nothing twice, nothing left out (applying);
file and buffer together always the log, a state file as new as what was announced
(Persister); a timer that is always armed, elections and heartbeats in time
(timers); delivery of what a lasting
leader took in (all together); conservation of money, idempotent transfers and
reads that reflect committed transfers (ledger and API).

## Modules

* `RaftNode` is the cluster. Its constants are the node ids, the commands, the two
  timing parameters and four named bounds. One action per callback or handler:

  | action | code |
  |---|---|
  | `ElectionTimeout` | the callback in `resetElectionTimer`, with `becomeCandidate` and `startElection` |
  | `RequestVote`, `AppendEntries` | the handlers of `rpc.go`, persisting and applying included |
  | `handleVoteResponse` | with `becomeLeader` and its first heartbeats |
  | `handleAppendEntriesResponse` | with `advanceCommitIndex`, applying, or back-off and the repeated call |
  | `Propose`, `sendHeartbeats` | `proposal.go`, the heartbeat callback |
  | `Restart`, `Start` | the process dies and `NewRaftNode` runs; `Start()` |

  Go methods that only change fields of the receiver are operators under their Go
  name, from the old fields to the new ones. `srv` holds a node's election fields
  and `state.json`, `logs` the log, `log.jsonl` and the buffer, `app` commitIndex,
  lastApplied and what this process has sent to applyCh. The log's dummy entry 0
  is left out, so `log[k]` is `rn.log[k]` and `Len(log)` is `lastLogIndex()`.

  `net` is the set of requests and replies under way. A step's messages are lost
  or not when they are sent; the others may be received in any order or never. A
  reply carries its request because the goroutine that handles it still has it.
  `Waiting` says when that goroutine has given up: a call made when the sender's
  election timer had fired n times is at least k * ElectionTimeoutMin old after k
  more firings, and `http.Client` ends it at RPCTimeout. That firings are so far apart
  is `CampaignsAreSpaced` of `NodeTimers`, for callbacks that wait for the lock less than
  ElectionTimeoutMin - HeartbeatInterval. The argument is exact for vote requests. For
  AppendEntries calls it leaves out an election callback that has been waiting for the lock
  since before the node was elected, and for all calls the wait of the goroutine for the
  lock once its reply is there: both are short against the timeouts. Vote
  requests are made once per election and are consumed when they are received; an
  AppendEntries call is repeated by heartbeats, so an equal one may follow and
  receiving leaves the choice (`ConsumeOne`).

  A restart is the death of the process: what was written survives (the machine
  stays up), what was buffered survives up to an arbitrary point, perhaps in the
  middle of a line (`Torn`). `SaveState` is atomic here (it renames). Between
  `Restart` and `Start` the HTTP server already answers calls. A call handled then may arm
  the election timer (rpc.go:68, node.go:116); that it does not fire before `Start` is
  taken from `main.go`, which calls `Start` right after it has started the servers.
* `RaftHistory` adds what a bystander would note (votes, elections won, each leader's log
  in `leaderLog`, who ever held an entry while in its term in `held`, the longest
  committed prefix) and states the safety properties of the cluster; those of single
  nodes are in `RaftNode`. It restricts no step. `leaderLog` and `held` serve the proofs.
* `ReplicatedLog` is what consensus promises the ledger: one sequence that only
  grows, and per process a delivered prefix of it. `RaftHistory` instantiates it
  with `chosen <- committedLog` and `delivered <-` the applyCh histories.
* `RaftLive` adds fairness and the progress property.
* `Persister` is the files of one node, one file operation per step. `pc` says which
  operation of `SaveState` (`WriteTemp`, `Rename`) or `TruncateLog` (`TruncateLog`,
  `RemoveFile`, `Reopen`, `Flush`) comes next; `rn.mu` is held meanwhile, so only
  `Crash` comes between. A line of `log.jsonl` is three pieces (two halves of an entry
  and the newline): `Spill` writes the buffer out up to any piece, `LoadLog` accepts a
  last line without newline, gives up the whole file for any other fragment, and the
  next entry is appended to whatever the file ends with. `Fault` is a failing
  operation: the code logs it, or ignores it, and goes on. `RaftNode` takes these
  operations as atomic and adds the cluster around them.
* `NodeTimers` is the two timers of one node in discrete time. A timer that runs out
  (`Fire`) leaves a callback that waits for `rn.mu`; stopping or resetting the timer
  does not recall it. `StepDown`, `GrantVote`, `HearLeader` and `WinElection` are what
  calls and replies do to role and timers, in any order the environment likes; `Start`
  and `Stop` are the lifecycle. `since` and `before` are clocks for the properties.
* `Ledger` is `ledger.go` and the applier's `applyTransfer`/`applyCreateAccount`, as
  operators from ledger to ledger: every method holds the ledger's lock throughout, and
  an error leaves the ledger alone. Balances are integers in a unit fine enough for all
  amounts, rounded to `Precision` significant bits after each operation, to even
  (`fl`), which is float64 arithmetic with fewer bits. Commands are those the handlers'
  validation lets through: amounts above zero, initial balances not below.
* `RaftPay` is the payment system above consensus. Consensus is taken at its promise
  (`chosen` only grows, each node learns of a prefix). `AdvanceCommit` is what
  `updateCommitIndex` and `advanceCommitIndex` do before they call
  `applyCommittedEntries`, whose loop is `SendEntry`, one non-blocking send per step;
  `applier` is the other goroutine; `HandleGetBalance` reads a ledger at any time;
  `Restart` is a new process with an empty ledger, channel and indices. Receiving a
  message and applying it are one step of `applier`: in the code the message is out of
  the channel a moment earlier, which is one more place in the channel. `handled`,
  `booked` and `read` are history.
  `PipelineImplementsReplicatedLog` closes the circle: what reaches the ledgers is again
  a behaviour of `ReplicatedLog`.
* `ApiServer` puts the REST API in front of `RaftHistory`: POST /account and
  /transfer are `HandleRequest` (the leader check, `GetState`) and later `propose`,
  which looks again; GET /status is `HandleGetStatus` (`GetState`) and later `GetStats`.
  A handler whose process restarted never answers. Every request has a command of its
  own.
* `MCRaftNode`, `MCRaft`, `MCApi` and `MCRaftPay` give TLC symmetry and views.
* `RaftNodeProofs`, `RaftElectionProofs`, `RaftLogProofs`, `RaftSafetyProofs` and
  `ApiServerProofs`, each on top of the one before, and `NodeTimersProofs`,
  `PersisterProofs` and `RaftPayProofs` hold the theorems.

Operators called a *mutant* in a comment are plausible slips in the definition
that follows them; `PROJECT.json` pairs each with a property that catches it.

## Runs

| run | instance | shows |
|---|---|---|
| `replication` | 3 nodes, 2 terms, 2 entries, 2 messages | types, `LogMatching`, `StateMachineSafety`, `AppliedIsCommitted`, `MatchIndexSound`, `LeaderCommitCovered`, `CommitNeverRetreats`, if calls end before the next election timeout (RPCTimeout 200 ms, ElectionTimeoutMin 300 ms) and nobody restarts |
| `leader_changes` | 3 nodes, 3 terms, 1 entry of 2 commands, 2 messages | `ElectionSafety`, `LeaderCompleteness` and the refinement `ImplementsReplicatedLog`, same conditions |
| `progress` | 2 nodes, 3 terms, 2 entries | `ProposalsAreDelivered` |
| `api` | 3 nodes, 2 terms, 1 entry, 2 requests, 2 polls, 1 restart | `AcceptedNamesEntry`, `StatusConfirms`, `RefusedLeavesNoTrace` |
| `disk` | 3 nodes, the shipped timing, 2 terms, 1 entry, 2 restarts | `DiskLogTracksMemory`, `TermNeverRegresses`, `LeaderAppendOnly` |
| `ledger` | 1 node, 2 accounts, 2 ids, 2 amounts, 4 commands, 2 places in applyCh | no overdraft (`TypeOK`), `DoubleEntry`, `AtMostOnce`, also when entries are skipped |
| `nodes` | 2 nodes, 2 accounts, 3 commands, room in applyCh, 1 restart | `LedgersAgree`, `ReadsAreCommitted`, `CommittedIsApplied`, `PipelineImplementsReplicatedLog` |
| `timers` | the shipped intervals in units of 75 ms (1, 4 to 8), callbacks wait up to 2 | `SomethingWakesIt`, `ElectionInTime`, `HeartbeatInTime`, `CampaignsAreSpaced` |
| `files` | 2 entries, 1 write of a full buffer, 1 fault, 2 crashes | `VoteIsDurable`, `RecoversOwnLog`, `OnlyTheBufferIsLost`, `SavedTermNeverRegresses` |
| `stale_vote` | the shipped timing (500 ms, 300 ms), 2 terms | violates `ElectionSafety` |
| `lost_buffer` | short calls, 1 restart | violates `LeaderCompleteness` |
| `skipped_entry` | 2 nodes, 1 place in applyCh | violates `LedgersAgree` |

`replication` and `leader_changes` show what the algorithm gives under the two
conditions it needs and the program does not ensure: calls that end before the next
election, and nodes that do not restart. A third one is that applyCh has room whenever the
loop sends: `RaftNode` takes it for granted (`AppliedIsCommitted` and
`ImplementsReplicatedLog` rest on it), `nodes` has a place for every command. The violations
show that each is needed:

* *stale vote*: `handleVoteResponse` compares only the role. With the shipped
  configuration a vote for term t reaches the candidate of term t+1 and is counted
  there, so a node leads a term in which no majority voted for it.
* *lost buffer*: a committed entry is lost when one node of its majority restarts. (The
  restarted node's erased vote, node.go:73, would be a second way to a leader without it.)
* *skipped entry*: `applyCommittedEntries` passes an entry over when applyCh is full and
  still sends a later one, so the ledger lacks a command for good. The shipped channel
  has 100 places; a restarted node, whose commit index jumps from 0 over the whole log
  in one call, fills them if the applier is slower than the loop.

The run `api` is about what a client can conclude. The answer's index and term name its
own entry. One answer of GET /status does not confirm anything, because term and commit
index are read under two locks and another leader may come in between; two answers of
one node do (`StatusConfirms`). A refused request is nowhere in the cluster and can be
sent again. The first two are stated up to the first restart, for the reasons above.

### What does not hold

The following definitions state what a document or comment of the repository says. They
are in the modules for reference and no run checks them (the second only without
restarts), because the code does not meet them; naming one in a configuration shows the counterexample.

| definition | says | what happens |
|---|---|---|
| `RaftHistory!OneVotePerTerm` | ARCHITECTURE.md:99, at most one vote per term | a candidate that follows the leader of its own term clears its vote and may grant another (harmless to `ElectionSafety`: it has stopped counting) |
| `RaftHistory!ElectionSafety` with a restart | ARCHITECTURE.md:363, no two leaders | `Start` calls `becomeFollower` on the loaded term, which clears the loaded vote and writes the cleared one (node.go:73): the restarted node votes again in the same term |
| `RaftNode!MajorityLeads` | ARCHITECTURE.md:51, a majority makes a leader | one node without peers never gets a reply and never looks at its count |
| `RaftLive!OldEntriesAreDelivered` | ARCHITECTURE.md:62, entries on a majority are committed | a new leader has no entry of its own term and commits nothing until a client proposes |
| `ApiServer!AcceptedIsCarriedOut` | README.md:246, "Transfer completed successfully" | an accepted entry is overwritten by another leader's |
| `RaftPay!ReadsDoNotGoBack` | ARCHITECTURE.md:364, no stale data | the second node asked is behind the first |
| `RaftPay!DuplicatesHaveNoEffect` | ARCHITECTURE.md:165, duplicate applies have no effect | a transfer that failed the first time succeeds the second time |
| `RaftPay!Conservation` | README.md:30, ACID | with Precision 2 debit and credit round differently |
| `NodeTimers!CampaignsOnlyInSilence` | ARCHITECTURE.md:46, no heartbeat within the timeout | the callback already waits for the lock when the heartbeat is handled |
| `NodeTimers!StoppedNodeIsQuiet` | node.go:77, types.go:99 | a waiting callback, or a call that arms the timer again |

`Persister` states four properties with their conditions; without them they fail as
follows. `VoteIsDurable` after a failed write: `persist` logs the error and the vote is
granted, although rpc.go:29 says it is on disk before. `RecoversOwnLog` after a failed
`os.Remove`: the kept entries are appended behind the old ones. `OnlyTheBufferIsLost`
when a crash cuts a line, or comes between `os.Remove` and the rewrite: the whole log is
lost, not the "last few entries" of ARCHITECTURE.md:383.

### Bounds

Three nodes are the smallest cluster in which a majority is not everyone. `MaxTerm`
is the term at which no election timer fires any more: two terms give every race
between two leaderships, three are needed for an entry of an old term to be
committed or overwritten by a third leader. Two log entries let logs diverge behind
a common prefix, back off over more than one entry, and be cut below their end.
`MaxInFlight` bounds the messages under way; with two, an old message can be
overtaken by any number of newer ones. In `api` it is one, because what races there are the
halves of the handlers, and in `disk`, which is about single nodes. Restarts are bounded over the whole cluster. All
invariants and action properties of the passing runs are proved below for all bounds,
`DoubleEntry` for balances below 2^`Precision`.

In `RaftPay`, three or four commands open two accounts and transfer twice, with one id
or two, to oneself too; two places for four entries let the loop skip one and send a
later one. In `Persister` two entries make a log that can be cut in the middle; a crash
is possible at every step and the properties say what one more process would find. In
`NodeTimers` the clocks stop past the largest time a property asks about, so the state
space is finite without a bound on time.

The bounds end behaviours that the program would continue, so deadlock is not checked
(except in `timers` and `files`, which can always go on).

Symmetry is over nodes, commands and transaction ids, which the models only compare for
equality (not used in `progress` and `nodes`, the liveness runs). The views drop what no
later step can read: calls and replies nobody will act on (of these the number stays, as
`MaxInFlight` counts them, and how many of them are replies nobody waits for, which no
step removes), absolute ages of calls, the vote count of non-candidates and the peer indices of non-leaders, both of which are set
before they are next read; `ApiView` also the answers of GET /status that confirm
nothing, `Unread` the last balance read. `View` drops the history variables `votes`,
`leaderLog` and `held`, which no checked property reads. A
run uses a view only if its properties do not mention what it drops.

### Fairness

`LiveSpec` assumes, per leader i and peer p: the heartbeat timer, which every
callback re-arms, fires again and again and its call to p is not lost for ever (strong
fairness, the usual fair-lossy link); p handles a call that keeps arriving and its
reply gets through in the end; the goroutine that waits for a reply handles it; and
(weak fairness) nothing stays under way for ever, as `http.Client` ends every call.
Nothing is assumed of elections. `MaxTerm` stands for a time from which no election
timer fires, and the property speaks of a leader of that term that took in a
command. Without one of its own, a new leader commits nothing (`advanceCommitIndex`
counts only entries of its term and `becomeLeader` appends none); see the hazards.

In `RaftPay`, weak fairness: the loop runs on because it waits for nothing, and the applier
takes a message that is there. That a node learns of a commit is not assumed: when a leader
restarts before it has announced one, the next leader announces nothing until a client
proposes (`OldEntriesAreDelivered`). So `CommittedIsApplied` is about what a process knows to
be committed: it does not stay out of its ledger, unless the process dies. The run has a
channel with room; with one place the property fails, as a skipped entry is never applied.

## Proofs

The theorems hold for every set of nodes, commands, entries and accounts and for every
bound. They assume what the modules' ASSUMEs say (the nodes are a finite set without the
value for "no vote", the timing parameters are positive, the bounds are natural numbers,
heartbeats and the wait for the lock fit into the shortest election timeout) and, where it
is said below, conditions that the program does not ensure and that the violation runs
show to be needed. TLC finds no violation of the inductive invariants on the runs'
instances (those of `RaftLogProofs` and `RaftSafetyProofs` it checked on part of the
states only: with `leaderLog` and `held` there are too many).

### One node and elections

* `RaftNodeProofs!TypeCorrect`: `Spec => []TypeOK`. Not inductive by itself: a call
  starts at nextIndex - 1, so the type of a leader's calls needs `LeaderIndices`,
  nextIndex >= 1 for each peer of a leader. The proof has one lemma per action and
  lemmas on what `appendNewEntries`, `advanceCommitIndex` and the other operators
  return (the first conflict and the largest committable index exist because sets of
  naturals have least, and bounded ones greatest, elements).
* `RaftNodeProofs!TermsSurvive`: `TermNeverRegresses`. A restart goes back to the
  file, so the proof carries `TermOnDisk`: term and vote in `state.json` are the
  node's at the end of every handler.
* `RaftNodeProofs!LeadersAppendOnly`: `LeaderAppendOnly`, from the same
  invariant. It needs no election safety: the node steps down before its log is cut.
* `RaftNodeProofs!DiskHoldsTheLog`: `DiskLogTracksMemory`, inductive given the types.
* `RaftElectionProofs!OneLeaderPerTerm`: `HSpec => [](NoRestarts => ElectionSafety)` from
  `ShortCalls` (RPCTimeout < ElectionTimeoutMin). `NoRestarts` is a state predicate, no
  process has restarted yet, so the theorem speaks of every execution up to its first
  restart; neither condition can be dropped (`stale_vote`, and "What does not hold" for
  restarts). Once a process has restarted `NoRestarts` stays false, so the inductive
  invariant is needed only where it holds before and after the step. That two
  majorities share a voter is not enough here, because a voter may vote twice. The
  inductive invariant `ElectionInv` says of such a node that one of its votes is for
  itself, that it was not elected in that term and that it follows as long as the term
  lasts (`SecondVote`); of a node without a vote that it has at most voted for itself
  and was not elected (`FreeVote`), which needs that an AppendEntries call comes from
  an elected node other than the receiver (`CallsOfLeaders`). So of two leaders of a
  term the common voter would be one, and it was not elected. That a leader had a majority
  (`Majorities`) rests on the count: a candidate's votesReceived is at most the number
  of nodes that voted for it in this term and whose answer is no longer under way
  (`CountIsTrue`), each is asked once (`OneBallotEach`), and an answer somebody still
  waits for is of the present term (`BallotsOK`, where `ShortCalls` is used).

### Logs and commits

Both modules assume `ShortCalls` too and speak of executions up to the first restart. The
action property and the refinement are about whole executions and have `[]NoRestarts` as a
hypothesis.

* `RaftLogProofs!LogsMatch` and `MatchIndexTrue`: `LogMatching` and `MatchIndexSound`.
  `LogInv` measures everything against `leaderLog`: an entry of term t in any log or call
  stands at its index in the log of t's leader, and all before it agrees with that log
  (`LeaderLogs`, `NodeLogs`, `CallsOK`); there is one such log because there is one leader.
  A successful reply, and a matchIndex, say that the follower took over the leader's log
  that far while in its term (`RepliesTrue`, `MatchesTrue`). An answer somebody still waits
  for is of the present leadership (`CallKnown`, where `ShortCalls` is used).
* `RaftSafetyProofs` adds `SafeInv` and `CommitInv`. An entry of term t *can be chosen* as
  long as a majority held it in term t or has not left term t (`CanChoose`). The nodes in
  this set only become fewer, so nothing that could not be chosen becomes chosen later.
  A leader holds every older entry that can be chosen (`LeadersSafe`): of the voters that
  elected it one held the entry, still holds it (`HeldStays`), and only votes for a log
  that is as up to date, which has the entry as well (`VotesSafe`, `BallotLogs`). A
  committed prefix ends at or below a chosen entry of the leader's term that committed it
  (`SafePrefix`), on nodes and in the leaderCommit of calls. From it follow
  `CommittedIsFinal` (`StateMachineSafety`), `LeadersAreComplete` (`LeaderCompleteness`),
  `AppliedExactly` (`AppliedIsCommitted`), `CallsCoverCommits` (`LeaderCommitCovered`) and
  `CommitsOnlyGrow` (`CommitNeverRetreats`). `AppliedExactly`, and the refinement below, are
  about a channel that has room whenever the loop sends, as `RaftNode`'s always has.
* `RaftSafetyProofs!RefinesReplicatedLog`: `ImplementsReplicatedLog`. Every step is
  one of a single node (`OneNodeSteps`); committedLog grows (`CommittedGrows`) and the
  node's applyCh becomes a longer prefix of it, or nothing changes.

### What a client can conclude

`ApiServerProofs` lifts the invariants of the cluster to `ASpec`: a step of the API is a step
of `HSpec` or leaves the cluster alone.

* `RefusedIsNowhere` (`RefusedLeavesNoTrace`) needs neither short calls nor processes that
  do not restart. Its inductive invariant `OnlyAccepted` says that every entry in a log, a
  file, a buffer or a call has a term and the command of an accepted request, or is a torn
  line: an entry comes only from a `propose` that finds its node leading, and that step
  answers "accepted".
* `AnswersNameEntries` (`AcceptedNamesEntry`) and `PollsConfirm` (`StatusConfirms`) assume
  `ShortCalls` and hold up to the first restart, as the properties say. `AcceptedLogged`:
  the entry of an answer stands in `leaderLog` of its term at its index. With `LogInv` every
  entry of that term anywhere is from this log. `StatusTrue`: the node still
  has committed what it said it had, and when it is asked for its term again, all of it
  precedes an entry chosen no later than in that term (`SafePrefix`), which the term's
  leader has in its log.

### Timers

`NodeTimersProofs` needs only `TimerAssumption`. The invariant `TimersInv` says that at most
one callback of the election timer waits, how far the last campaign is back when it does,
and how much time is ahead of a timer that was set since (`OneElectionCallback`); and it
bounds the time to the next campaign or heartbeats by what the timer has left or the
callback has waited (`CampaignAhead`, `BeatAhead`). Theorems: `NeverLeftAsleep`
(`SomethingWakesIt`), `ElectionsComeInTime` (`ElectionInTime`), `HeartbeatsComeInTime`
(`HeartbeatInTime`) and `CampaignsKeepApart` (`CampaignsAreSpaced`).

### Files

`PersisterProofs` needs only `FileAssumption`; crashes are not restricted, and faults only
by the properties' own conditions. `StateFileCurrent` gives `VotesAreDurable`
(`VoteIsDurable`) and, as its first conjunct needs no condition, `SavedTermsGrow`
(`SavedTermNeverRegresses`). `LogFileOwn` says that at *every* point of writing the buffer
out the file reads back as a beginning of the log (`ReadsBack`), which also covers a line
that was cut, and that what was once in the file is in its place (`InFile`). It gives
`OwnLogRecovered` (`RecoversOwnLog`) and `StoredIsKept` (`OnlyTheBufferIsLost`).

### Ledger

* For every execution, also those in which a full channel passes entries over:
  `BalancesAreNatural` (`TypeOK`, with it no overdraft) and `MovedAtMostOnce`
  (`AtMostOnce`). The invariant `BookInv` adds that indices on their way are of chosen
  commands, and that a transfer which changed a balance is marked as processed. That
  rounding gives a natural number (`flNatural`) needs that every number lies below some
  power of two.
* For executions in which applyCh has room whenever the loop sends (`[]NeverFull`; the run
  `skipped_entry` shows what happens otherwise): `SameEntriesSameLedger` (`LedgersAgree`),
  `ReadsShowCommitted` (`ReadsAreCommitted`) and the refinement `PipelineKeepsThePromise`
  (`PipelineImplementsReplicatedLog`). `PipeInv` says that what was taken from the channel,
  what is in it and the loop's index are 1, 2, 3 and so on; `LedgerInv` that each ledger is
  the replay of as many commands as were taken. `RoomForAll` shows that the condition is
  met where applyCh has a place for every command.

* For executions in which no balance reaches 2^`Precision` (`[]BalancesExact`; 2^53 units
  in the code), full channels and restarts included: `BooksAddUp` (`DoubleEntry`). A number
  below 2^`Precision` is not rounded (`flExact`), and rounding never takes a larger one
  below it (`flBelow`), so a balance that is below it after the credit was credited
  exactly. `BooksInv` adds to `BookInv` that an account which does not exist has balance 0,
  without which opening one would not add its initial balance, and that the sums of the
  booked commands exist and end at the balance (`Balanced`).
* `SmallAmountsAreExact` shows when that condition is met: if all the commands that may be
  committed, each of the largest amount, stay below 2^`Precision`. It rests on no entry
  being applied twice in a process (`Counted`), also when entries are passed over.
  `SmallAmountsAddUp` puts the two together and covers the run `ledger` (4 commands of at
  most 2, against 2^10).

### How recursion and induction are done

A recursive function (`Replay`, `Pow2`, the sums in `Booked`) is the CHOOSE of its equation,
so the proofs have to show that the equation has a solution. For `Replay` and the sums this
is part of the invariant and carried from step to step; for `Pow2` the solution is put
together from its finite beginnings. Where induction over the naturals would be natural, the
proofs take the least counterexample instead (`LeastOf`, `MaxOf`).

### Only model-checked

`ProposalsAreDelivered` and `CommittedIsApplied`: liveness under fairness is out of TLAPS's
reach here and stays with TLC.

## Plan

What was planned is done: every module of the inventory is written, and every invariant and
action property a passing run checks has a theorem. Left open, each with its reason above or
below: the violations, which are the code's; liveness beyond the runs' bounds; late replies of
an earlier leadership.

## Not modelled, and why

* JSON and HTTP plumbing: `LogEntry.UnmarshalJSON` restores the command, so the coding
  round trip keeps entries; malformed requests are turned away before they reach the
  node. A log line above the scanner's 64 KB would make the log unreadable like a torn one.
* What late AppendEntries replies of an earlier leadership of the same node do in the end.
  The shipped timing allows them, and so does the model with that timing, but the passing
  runs and the theorems on logs exclude them (`ShortCalls`) and the harm takes six terms,
  out of TLC's reach: A leads term 1 and holds two entries nobody else has, C leads term 2
  and holds one other; A leads term 3, B takes over A's two entries and its reply is late;
  C leads term 4 with B's vote and replaces A's log; A leads term 5 with C's vote and appends
  an entry at index 2; the late reply sets matchIndex for B to 2, so A commits an entry that
  only A has; C leads term 6 with B's vote and without that entry.
* float64 at its other end: overflow to infinity.
* Code without callers: `Persister.Flush`, `Close`, `DeleteAll`, `DisablePersistence`,
  `RaftLedger.Stop`, `Ledger.GetAllAccounts`. The ticker goroutine only waits.
* Documentation that no state of the models speaks about: the redirect (307) to the leader
  of ARCHITECTURE.md:225, where the code answers 503 with a hint.
* Log output, flags, the benchmark, the demo and the container files.
