----------------------------- MODULE NodeTimers -----------------------------
(***************************************************************************)
(* The two timers of one RaftNode (node.go) and what keeps them running.   *)
(*                                                                         *)
(* A timer that runs out starts a goroutine whose first statement waits    *)
(* for rn.mu.  While it waits, a handler that holds the lock may stop or   *)
(* reset the timer, which does not recall the goroutine.  Time is counted  *)
(* in ticks; a callback gets the lock within LockWait ticks, handlers take *)
(* none.  The calls the node receives are the environment's choice.        *)
(***************************************************************************)
EXTENDS Integers, SequencesExt

CONSTANTS
    ElectionTimeoutMin, ElectionTimeoutMax, HeartbeatInterval,  \* Config
    LockWait    \* how long a callback waits for rn.mu at most

ASSUME TimerAssumption ==
    /\ HeartbeatInterval \in Nat \ {0} /\ LockWait \in Nat
    /\ ElectionTimeoutMin \in Nat /\ ElectionTimeoutMax \in Nat
    /\ HeartbeatInterval + LockWait < ElectionTimeoutMin
    /\ ElectionTimeoutMin < ElectionTimeoutMax

VARIABLES
    phase,    \* of the process: "serving" before Start(), "running", "stopped"
    role,
    timers,   \* ticks until each timer runs out, Off if it does not
    waiting,  \* per timer: how long each of its callbacks has waited so far
    since,    \* ticks since the last campaign, heartbeats, call of a leader
              \* and reset of the election timer
    before    \* how long ago a campaign and a leader's call were when the
              \* last campaign began

vars == <<phase, role, timers, waiting, since, before>>

Off == -1

\* Bound: the clocks stop here, past what any property asks.
LongAgo == [campaign |-> ElectionTimeoutMin, contact |-> ElectionTimeoutMin,
            beat     |-> HeartbeatInterval + LockWait + 1,
            reset    |-> ElectionTimeoutMax + LockWait]

\* Mutants: the random part alone; the random part not reduced by the minimum.
ElectionTimeoutsShort == 1..(ElectionTimeoutMax - ElectionTimeoutMin)

ElectionTimeoutsLong ==
    ElectionTimeoutMin..(ElectionTimeoutMin + ElectionTimeoutMax - 1)

\* What resetElectionTimer chooses from.
ElectionTimeouts == ElectionTimeoutMin..(ElectionTimeoutMax - 1)

Init ==
    /\ phase = "serving" /\ role = "Follower"
    /\ timers  = [election |-> Off, heartbeat |-> Off]
    /\ waiting = [election |-> << >>, heartbeat |-> << >>]
    /\ since   = LongAgo
    /\ before  = [campaign |-> since.campaign, contact |-> since.contact]

-----------------------------------------------------------------------------
(* Role changes, with rn.mu held *)

\* Mutant: the heartbeat timer runs on.
becomeFollowerBeating ==
    /\ role' = "Follower"
    /\ \E d \in ElectionTimeouts : timers' = [timers EXCEPT !.election = d]

becomeFollower ==
    /\ role' = "Follower"
    /\ \E d \in ElectionTimeouts :
          timers' = [election |-> d, heartbeat |-> Off]

becomeCandidate ==
    /\ role' = "Candidate"
    /\ \E d \in ElectionTimeouts : timers' = [timers EXCEPT !.election = d]
    /\ since' = [since EXCEPT !.campaign = 0, !.reset = 0]

becomeLeader ==
    /\ role' = "Leader"
    /\ timers' = [election |-> Off, heartbeat |-> HeartbeatInterval]
    /\ since' = [since EXCEPT !.beat = 0]

-----------------------------------------------------------------------------
(* Handlers *)

\* A call or a reply with a higher term.
StepDown ==
    /\ becomeFollower
    /\ since' = [since EXCEPT !.reset = 0]
    /\ UNCHANGED <<phase, waiting, before>>

\* RequestVote grants the vote; a candidate or leader has voted for itself.
GrantVote ==
    /\ role = "Follower"
    /\ \E d \in ElectionTimeouts : timers' = [timers EXCEPT !.election = d]
    /\ since' = [since EXCEPT !.reset = 0]
    /\ UNCHANGED <<phase, role, waiting, before>>

\* AppendEntries of a leader that is not out of date: the timer is reset, after
\* becomeFollower unless the node follows in that term already.
HearLeader ==
    /\ \/ becomeFollower
       \/ /\ role = "Follower"
          /\ \E d \in ElectionTimeouts : timers' = [timers EXCEPT !.election = d]
          /\ UNCHANGED role
    /\ since' = [since EXCEPT !.contact = 0, !.reset = 0]
    /\ UNCHANGED <<phase, waiting, before>>

\* handleVoteResponse brings the last vote.
WinElection ==
    /\ role = "Candidate"
    /\ becomeLeader
    /\ UNCHANGED <<phase, waiting, before>>

-----------------------------------------------------------------------------
(* Timers *)

\* A timer runs out: its callback waits for the lock.
Fire(t) ==
    /\ timers[t] = 0
    /\ timers'  = [timers EXCEPT ![t] = Off]
    /\ waiting' = [waiting EXCEPT ![t] = Append(@, 0)]
    /\ UNCHANGED <<phase, role, since, before>>

\* The callback of resetElectionTimer, the oldest one waiting.
ElectionCallback ==
    /\ waiting.election # << >>
    /\ waiting' = [waiting EXCEPT !.election = Tail(@)]
    /\ \/ /\ role # "Leader"
          /\ becomeCandidate
          /\ before' = [campaign |-> since.campaign, contact |-> since.contact]
       \/ /\ role = "Leader"
          /\ UNCHANGED <<role, timers, since, before>>
    /\ UNCHANGED phase

\* Mutant: the timer is armed again with the wrong interval.
HeartbeatCallbackLate ==
    /\ waiting.heartbeat # << >>
    /\ waiting' = [waiting EXCEPT !.heartbeat = Tail(@)]
    /\ \/ /\ role = "Leader"
          /\ timers' = [timers EXCEPT !.heartbeat = ElectionTimeoutMin]
          /\ since'  = [since EXCEPT !.beat = 0]
       \/ role # "Leader" /\ UNCHANGED <<timers, since>>
    /\ UNCHANGED <<phase, role, before>>

\* The callback of resetHeartbeatTimer.
HeartbeatCallback ==
    /\ waiting.heartbeat # << >>
    /\ waiting' = [waiting EXCEPT !.heartbeat = Tail(@)]
    /\ \/ /\ role = "Leader"
          /\ timers' = [timers EXCEPT !.heartbeat = HeartbeatInterval]
          /\ since'  = [since EXCEPT !.beat = 0]
       \/ role # "Leader" /\ UNCHANGED <<timers, since>>
    /\ UNCHANGED <<phase, role, before>>

\* Time passes unless a timer is due or a callback has waited long enough.
Tick ==
    /\ \A t \in DOMAIN timers :
          /\ timers[t] # 0
          /\ \A k \in DOMAIN waiting[t] : waiting[t][k] < LockWait
    /\ timers' = [t \in DOMAIN timers |->
                     IF timers[t] = Off THEN Off ELSE timers[t] - 1]
    /\ waiting' = [t \in DOMAIN waiting |->
                     [k \in DOMAIN waiting[t] |-> waiting[t][k] + 1]]
    /\ since' = [e \in DOMAIN since |-> Min({since[e] + 1, LongAgo[e]})]
    /\ UNCHANGED <<phase, role, before>>

-----------------------------------------------------------------------------
(* Lifecycle: main.go, node.go.  The HTTP server answers before Start() and  *)
(* after Stop().                                                             *)

Start ==
    /\ phase = "serving" /\ phase' = "running"
    /\ becomeFollower
    /\ since' = [since EXCEPT !.reset = 0]
    /\ UNCHANGED <<waiting, before>>

Stop ==
    /\ phase = "running" /\ phase' = "stopped"
    /\ timers' = [election |-> Off, heartbeat |-> Off]
    /\ UNCHANGED <<role, waiting, since, before>>

Next ==
    \/ StepDown \/ GrantVote \/ HearLeader \/ WinElection
    \/ \E t \in DOMAIN timers : Fire(t)
    \/ ElectionCallback \/ HeartbeatCallback
    \/ Tick
    \/ Start \/ Stop

Spec == Init /\ [][Next]_vars

-----------------------------------------------------------------------------

\* A running node always has something to wake it: a leader its heartbeat timer
\* and no election timer, the others their election timer and no heartbeat
\* timer, or the callback already waits for the lock.
SomethingWakesIt ==
    phase = "running" =>
        IF role = "Leader"
        THEN /\ timers.election = Off
             /\ timers.heartbeat # Off \/ waiting.heartbeat # << >>
        ELSE /\ timers.heartbeat = Off
             /\ timers.election # Off \/ waiting.election # << >>

\* A running node that does not lead and hears of nobody campaigns before
\* ElectionTimeoutMax and the wait for the lock are over, again and again.
ElectionInTime ==
    phase = "running" /\ role # "Leader"
        => since.reset < ElectionTimeoutMax + LockWait

\* A leader's heartbeats are never further apart than the interval and the wait
\* for the lock, elections lost and won in between included.
HeartbeatInTime ==
    phase = "running" /\ role = "Leader"
        => since.beat <= HeartbeatInterval + LockWait

\* Two campaigns of a node are at least ElectionTimeoutMin apart, although a
\* callback cannot be recalled: the age of a call that RaftNode's Waiting
\* computes from the number of campaigns rests on it (resetElectionTimer).
CampaignsAreSpaced == before.campaign >= ElectionTimeoutMin

-----------------------------------------------------------------------------
(* What the repository's documents say and the code does not do: see the     *)
(* README, section "What does not hold".                                     *)

\* A node campaigns only when it has heard no leader for an election timeout.
CampaignsOnlyInSilence == before.contact >= ElectionTimeoutMin

\* A node that was stopped starts no election any more.
StoppedNodeIsQuiet ==
    [][phase = "stopped" => since'.campaign >= since.campaign]_vars

=============================================================================
