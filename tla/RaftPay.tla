------------------------------ MODULE RaftPay ------------------------------
(***************************************************************************)
(* The payment system on top of the consensus layer: how a committed       *)
(* command gets from a node's log through applyCh into its ledger, and     *)
(* what GET /balance answers meanwhile.                                    *)
(*                                                                         *)
(* The consensus layer is taken at its promise, the module ReplicatedLog:  *)
(* one sequence of commands that only grows.  Each node learns how much of *)
(* it is committed.  Two goroutines of a node then run at their own pace:  *)
(* the one that holds rn.mu in applyCommittedEntries and sends to applyCh  *)
(* without ever waiting, and the applier, which takes the messages out and *)
(* applies them.                                                           *)
(***************************************************************************)
EXTENDS Ledger, SequencesExt

CONSTANTS
    Server,       \* the node ids of the cluster
    Capacity,     \* what applyCh holds: 100 in main.go
    MaxChosen,    \* bound: commands committed
    MaxRestarts   \* bound: restarts of all nodes together

ASSUME PayAssumption ==
    /\ IsFiniteSet(Server) /\ Server # {}
    /\ Capacity \in Nat \ {0} /\ MaxChosen \in Nat /\ MaxRestarts \in Nat

VARIABLES
    chosen,    \* the commands committed so far
    raft,      \* per node: commitIndex, lastApplied and the loop's index
    applyCh,   \* per node: the log indices in the channel
    ledgers,   \* per node: the ledger
    handled,   \* per node: the log indices the applier has taken, in order
    booked,    \* per node: the commands among them that changed a balance
    read,      \* the last answer of GET /balance
    restarts   \* how often a process was restarted

vars == <<chosen, raft, applyCh, ledgers, handled, booked, read, restarts>>

\* loop is the index applyCommittedEntries has come to, 0 outside of it.
ApplyState == [commitIndex : Nat, lastApplied : Nat, loop : Nat]

fresh == [commitIndex |-> 0, lastApplied |-> 0, loop |-> 0]

\* handled, booked and read are history: no step below depends on them.
Init ==
    /\ chosen = << >>
    /\ raft     = [i \in Server |-> fresh]
    /\ applyCh  = [i \in Server |-> << >>]
    /\ ledgers  = [i \in Server |-> NewLedger]
    /\ handled  = [i \in Server |-> << >>]
    /\ booked   = [i \in Server |-> << >>]
    /\ read = [account |-> CHOOSE a \in Account : TRUE, balance |-> 0,
               upto |-> 0]
    /\ restarts = 0

-----------------------------------------------------------------------------

\* A leader commits a command that a client proposed.
Commit(cmd) ==
    /\ Len(chosen) < MaxChosen
    /\ chosen' = Append(chosen, cmd)
    /\ UNCHANGED <<raft, applyCh, ledgers, handled, booked, read, restarts>>

\* Mutant: the loop starts one entry early.
AdvanceCommitAgain(i, n) ==
    /\ raft[i].loop = 0 /\ n > raft[i].commitIndex
    /\ raft' = [raft EXCEPT ![i].commitIndex = n,
                            ![i].loop = Max({1, raft[i].lastApplied})]
    /\ UNCHANGED <<chosen, applyCh, ledgers, handled, booked, read, restarts>>

\* Node i finds that entries up to n are committed and enters
\* applyCommittedEntries.  rn.mu is held until the loop ends.
AdvanceCommit(i, n) ==
    /\ raft[i].loop = 0 /\ n > raft[i].commitIndex
    /\ raft' = [raft EXCEPT ![i].commitIndex = n,
                            ![i].loop = raft[i].lastApplied + 1]
    /\ UNCHANGED <<chosen, applyCh, ledgers, handled, booked, read, restarts>>

\* Mutant: the last committed entry is left for the next time.
NextIndexShort(r, k) == IF k < r.commitIndex - 1 THEN k + 1 ELSE 0

\* The loop's index after entry k: the loop ends behind commitIndex.
NextIndex(r, k) == IF k < r.commitIndex THEN k + 1 ELSE 0

\* One round of the loop: the entry goes into the channel, or is passed over
\* when the channel is full.
SendEntry(i) ==
    LET k == raft[i].loop
        r == [raft[i] EXCEPT !.loop = NextIndex(raft[i], k)]
    IN  /\ k # 0
        /\ \/ /\ Len(applyCh[i]) < Capacity
              /\ applyCh' = [applyCh EXCEPT ![i] = Append(@, k)]
              /\ raft' = [raft EXCEPT ![i] = [r EXCEPT !.lastApplied = k]]
           \/ /\ Len(applyCh[i]) >= Capacity
              /\ raft' = [raft EXCEPT ![i] = r]
              /\ UNCHANGED applyCh
        /\ UNCHANGED <<chosen, ledgers, handled, booked, read, restarts>>

\* The applier takes a message and applies its command.
applier(i) ==
    /\ applyCh[i] # << >>
    /\ LET k   == Head(applyCh[i])
           new == applyCommand(ledgers[i], chosen[k])
       IN  /\ ledgers' = [ledgers EXCEPT ![i] = new]
           /\ handled' = [handled EXCEPT ![i] = Append(@, k)]
           /\ booked'  = [booked EXCEPT ![i] =
                  IF new.balance # ledgers[i].balance
                  THEN Append(@, chosen[k]) ELSE @]
    /\ applyCh' = [applyCh EXCEPT ![i] = Tail(@)]
    /\ UNCHANGED <<chosen, raft, read, restarts>>

\* Mutant: without the lock a transfer is seen between debit and credit.
HandleGetBalanceUnlocked(i, a) ==
    /\ a \in ledgers[i].accounts
    /\ read' = [account |-> a, upto |-> Len(handled[i]),
                balance |-> ledgers[i].balance[a] -
                    IF applyCh[i] = << >> THEN 0
                    ELSE LET cmd == chosen[Head(applyCh[i])]
                         IN  IF /\ cmd.type = "TRANSFER" /\ cmd.from = a
                                /\ Valid(ledgers[i], cmd)
                             THEN cmd.amount ELSE 0]
    /\ UNCHANGED <<chosen, raft, applyCh, ledgers, handled, booked, restarts>>

\* GET /balance/a on node i: the local ledger answers, leader or not.
HandleGetBalance(i, a) ==
    /\ a \in ledgers[i].accounts
    /\ read' = [account |-> a, balance |-> ledgers[i].balance[a],
                upto |-> Len(handled[i])]
    /\ UNCHANGED <<chosen, raft, applyCh, ledgers, handled, booked, restarts>>

\* Mutant: the new applier is given the old ledger.
RestartOnOldLedger(i) ==
    /\ restarts < MaxRestarts
    /\ raft'    = [raft EXCEPT ![i] = fresh]
    /\ applyCh' = [applyCh EXCEPT ![i] = << >>]
    /\ handled' = [handled EXCEPT ![i] = << >>]
    /\ booked'  = [booked EXCEPT ![i] = << >>]
    /\ restarts' = restarts + 1
    /\ UNCHANGED <<chosen, read, ledgers>>

\* The process restarts.  Ledger, channel and indices are only in memory.
Restart(i) ==
    /\ restarts < MaxRestarts
    /\ raft'    = [raft EXCEPT ![i] = fresh]
    /\ applyCh' = [applyCh EXCEPT ![i] = << >>]
    /\ ledgers' = [ledgers EXCEPT ![i] = NewLedger]
    /\ handled' = [handled EXCEPT ![i] = << >>]
    /\ booked'  = [booked EXCEPT ![i] = << >>]
    /\ restarts' = restarts + 1
    /\ UNCHANGED <<chosen, read>>

Next ==
    \/ \E cmd \in Command : Commit(cmd)
    \/ \E i \in Server :
          \/ \E n \in 1..Len(chosen) : AdvanceCommit(i, n)
          \/ SendEntry(i)
          \/ applier(i)
          \/ \E a \in Account : HandleGetBalance(i, a)
          \/ Restart(i)

Spec == Init /\ [][Next]_vars

\* The loop runs on, as it waits for nothing, and the applier waits for nothing
\* but messages.  That a node ever learns of a commit is not assumed: after a
\* change of leader it may not, until a client proposes something new.
Fairness ==
    \A i \in Server :
        /\ WF_vars(SendEntry(i))
        /\ WF_vars(applier(i))

LiveSpec == Spec /\ Fairness

-----------------------------------------------------------------------------
(* Properties of one ledger *)

\* Every variable has its type; no balance is ever negative (Transfer's check
\* of the funds).
TypeOK ==
    /\ chosen \in Seq(Command)
    /\ raft \in [Server -> ApplyState]
    /\ applyCh \in [Server -> Seq(Nat)]
    /\ ledgers \in [Server -> LedgerState]
    /\ handled \in [Server -> Seq(Nat)]
    /\ booked \in [Server -> Seq(Command)]
    /\ read \in [account : Account, balance : Nat, upto : Nat]
    /\ restarts \in Nat

\* What a booked command adds to account a.
Effect(cmd, a) ==
    IF cmd.type = "CREATE_ACCOUNT"
    THEN IF cmd.accountID = a THEN cmd.initialBalance ELSE 0
    ELSE (IF cmd.to = a THEN cmd.amount ELSE 0)
            - (IF cmd.from = a THEN cmd.amount ELSE 0)

\* What the commands of b together add to account a.
Booked(b, a) ==
    LET upTo[n \in 0..Len(b)] ==
            IF n = 0 THEN 0 ELSE upTo[n - 1] + Effect(b[n], a)
    IN  upTo[Len(b)]

\* Every balance is what the commands that changed a balance add up to: no
\* account is opened twice, no transfer is carried out by half, none changes a
\* third account, and a transfer to oneself changes nothing (CreateAccount,
\* Transfer).
DoubleEntry ==
    \A i \in Server, a \in Account :
        ledgers[i].balance[a] = Booked(booked[i], a)

\* However often a transfer was committed under one id, it has moved money at
\* most once in the ledger, and after a restart the replay moves it at most
\* once again in the new one (processedTxns).
AtMostOnce ==
    \A i \in Server : \A j, k \in DOMAIN booked[i] :
        /\ booked[i][j].type = "TRANSFER" /\ booked[i][k].type = "TRANSFER"
        /\ booked[i][j].txnID = booked[i][k].txnID
        => j = k

-----------------------------------------------------------------------------
(* Properties of the cluster *)

\* Nodes that have applied up to the same index have the same ledger, whatever
\* commands failed and whoever restarted (applyCommittedEntries, applier).
LedgersAgree ==
    \A i, j \in Server :
        /\ raft[i].lastApplied = raft[j].lastApplied
        /\ applyCh[i] = << >> /\ applyCh[j] = << >>
        => ledgers[i] = ledgers[j]

\* The ledger after the first n commands.
Replay[n \in 0..Len(chosen)] ==
    IF n = 0 THEN NewLedger ELSE applyCommand(Replay[n - 1], chosen[n])

\* A balance that was read is the account's balance after some number of
\* committed commands, and stays so: nothing that is undone later, and no
\* ledger with a gap, is ever shown (HandleGetBalance, applier).
ReadsAreCommitted ==
    read.balance = Replay[read.upto].balance[read.account]

\* Node i knows that entry n is committed, and its ledger has not seen it.
Owes(i, n) == raft[i].commitIndex >= n /\ n \notin ToSet(handled[i])

\* Whatever a process knows to be committed reaches its ledger in the end, in
\* that process, unless the process dies first: the loop of
\* applyCommittedEntries leaves nothing behind that only a later commit would
\* send, and the applier gets round to all of it.  Only a restart takes
\* commitIndex back, and the next process owes its ledger the entry anew.
CommittedIsApplied ==
    \A i \in Server, n \in 1..MaxChosen : []<>~Owes(i, n)

Consensus == INSTANCE ReplicatedLog
                WITH delivered <- [i \in Server |->
                        [k \in 1..(Len(handled[i]) + Len(applyCh[i])) |->
                            chosen[(handled[i] \o applyCh[i])[k]]]]

\* Loop, channel and applier hand every node's ledger the committed commands in
\* order, without gap or repetition, from the start in each process.
PipelineImplementsReplicatedLog == Consensus!Spec

-----------------------------------------------------------------------------
(* What the repository's documents say and the code does not do: see the     *)
(* README, section "What does not hold".                                     *)

\* The money in a ledger is the money its accounts were opened with.
Conservation ==
    \A i \in Server :
        SumFunction(ledgers[i].balance) =
            SumFunction([k \in DOMAIN booked[i] |->
                IF booked[i][k].type = "TRANSFER" THEN 0
                ELSE booked[i][k].initialBalance])

\* A command that was applied before has no effect when it is applied again
\* (processedTxns, CreateAccount's check for the account).
DuplicatesHaveNoEffect ==
    [][\A i \in Server :
          /\ Len(handled'[i]) > Len(handled[i])
          /\ \E k \in DOMAIN handled[i] :
                chosen[handled[i][k]] = chosen[Last(handled'[i])]
          => ledgers'[i].balance = ledgers[i].balance]_vars

\* A client that reads an account twice does not see it go back in time,
\* whichever nodes answer.
ReadsDoNotGoBack ==
    [][/\ read'.account = read.account /\ read'.upto < read.upto
       => read'.balance = read.balance]_vars

=============================================================================
