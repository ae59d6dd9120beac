-------------------------- MODULE NodeTimersProofs --------------------------
(***************************************************************************)
(* The timers of a node never fail it, for every configuration in which    *)
(* heartbeats and the wait for the lock fit into the shortest election     *)
(* timeout.                                                                *)
(*                                                                         *)
(* A callback that waits for the lock stands for a timer that has run out: *)
(* what holds of a timer's remaining ticks is carried over, when it fires, *)
(* to the ticks its callback has waited.                                   *)
(***************************************************************************)
EXTENDS NodeTimers, SequenceTheorems, TLAPS

-----------------------------------------------------------------------------
(* The inductive invariant *)

Ticks == Nat \cup {Off}

TimersType ==
    /\ phase \in {"serving", "running", "stopped"}
    /\ role \in {"Follower", "Candidate", "Leader"}
    /\ timers \in [election : Ticks, heartbeat : Ticks]
    /\ waiting \in [election : Seq(0..LockWait), heartbeat : Seq(0..LockWait)]
    /\ since \in [campaign : Nat, contact : Nat, beat : Nat, reset : Nat]
    /\ before \in [campaign : Nat, contact : Nat]

\* At most one callback of the election timer waits.  No campaign has begun for
\* ElectionTimeoutMin when it does, and a timer set since has most of its time
\* ahead of it.
OneElectionCallback ==
    /\ timers.election # Off
          => since.campaign + timers.election >= ElectionTimeoutMin
    /\ waiting.election # << >> =>
          /\ Len(waiting.election) = 1
          /\ since.campaign >= ElectionTimeoutMin
          /\ timers.election # Off => timers.election + waiting.election[1]
                                         >= ElectionTimeoutMin

\* The time to the next campaign.
CampaignAhead ==
    phase = "running" /\ role # "Leader" =>
        /\ timers.heartbeat = Off
        /\ timers.election # Off
              => since.reset + timers.election < ElectionTimeoutMax
        /\ timers.election = Off
              => /\ waiting.election # << >>
                 /\ since.reset < ElectionTimeoutMax + waiting.election[1]

\* The time to the next heartbeats.
BeatAhead ==
    phase = "running" /\ role = "Leader" =>
        /\ timers.election = Off
        /\ timers.heartbeat # Off
              => since.beat + timers.heartbeat <= HeartbeatInterval
        /\ timers.heartbeat = Off
              => \E k \in 1..Len(waiting.heartbeat) :
                    since.beat <= HeartbeatInterval + waiting.heartbeat[k]

TimersInv ==
    /\ TimersType
    /\ OneElectionCallback
    /\ CampaignsAreSpaced
    /\ CampaignAhead
    /\ BeatAhead

-----------------------------------------------------------------------------
(* What the steps are made of *)

\* Tick caps the clocks with Min.
LEMMA MinOfTwo ==
    ASSUME NEW a \in Nat, NEW b \in Nat
    PROVE  /\ Min({a, b}) \in {a, b}
           /\ Min({a, b}) <= a /\ Min({a, b}) <= b
<1> DEFINE P(x) == x \in {a, b} /\ \A y \in {a, b} : x <= y
<1>1. \E x : P(x)
  <2>1. CASE a <= b
    <3>1. P(a)  BY <2>1
    <3> QED  BY <3>1
  <2>2. CASE b <= a
    <3>1. P(b)  BY <2>2
    <3> QED  BY <3>1
  <2> QED  BY <2>1, <2>2
<1>2. \E x \in {a, b} : \A y \in {a, b} : x <= y  BY <1>1
<1> QED  BY <1>2 DEF Min

\* Tick adds one to the time each callback has waited.
Longer(s) == [k \in DOMAIN s |-> s[k] + 1]

LEMMA LongerWaits ==
    ASSUME NEW s \in Seq(0..LockWait), \A k \in DOMAIN s : s[k] < LockWait
    PROVE  /\ Longer(s) \in Seq(0..LockWait)
           /\ Len(Longer(s)) = Len(s)
           /\ Longer(s) # << >> <=> s # << >>
           /\ \A k \in 1..Len(s) : s[k] \in Nat /\ Longer(s)[k] = s[k] + 1
<1>1. Len(s) \in Nat /\ DOMAIN s = 1..Len(s)  OBVIOUS
<1>2. Longer(s) = [k \in 1..Len(s) |-> s[k] + 1]  BY <1>1 DEF Longer
<1>3. \A k \in 1..Len(s) : s[k] \in Nat /\ s[k] + 1 \in 0..LockWait
  BY <1>1, TimerAssumption
<1>4. Longer(s) \in Seq(0..LockWait) /\ Len(Longer(s)) = Len(s)
  BY <1>1, <1>2, <1>3, IsASeq
<1>5. Longer(s) # << >> <=> s # << >>
  BY <1>1, <1>4, EmptySeq
<1> QED  BY <1>2, <1>3, <1>4, <1>5

\* A clock and the wait it is compared with move together.
LEMMA OneMoreTick ==
    ASSUME NEW m \in Nat, NEW w \in Nat, NEW c \in Nat, NEW cc \in Nat,
           cc <= c + 1
    PROVE  /\ c < m + w => cc < m + (w + 1)
           /\ c <= m + w => cc <= m + (w + 1)
OBVIOUS

\* The fields of timers, waiting and since.
LEMMA Fields ==
    ASSUME TimersType
    PROVE  /\ DOMAIN timers = {"election", "heartbeat"}
           /\ DOMAIN waiting = {"election", "heartbeat"}
           /\ DOMAIN since = {"campaign", "contact", "beat", "reset"}
           /\ timers.election \in Ticks /\ timers.heartbeat \in Ticks
           /\ waiting.election \in Seq(0..LockWait)
           /\ waiting.heartbeat \in Seq(0..LockWait)
           /\ since.campaign \in Nat /\ since.contact \in Nat
           /\ since.beat \in Nat /\ since.reset \in Nat
BY DEF TimersType

\* Every election timeout lasts from ElectionTimeoutMin to less than
\* ElectionTimeoutMax: resetElectionTimer.
LEMMA TimeoutRange ==
    ASSUME NEW d \in ElectionTimeouts
    PROVE  /\ d \in Nat /\ d \in Ticks /\ d # Off
           /\ ElectionTimeoutMin <= d /\ d < ElectionTimeoutMax
BY TimerAssumption DEF ElectionTimeouts, Ticks, Off

\* Initially nothing runs and nothing waits: NewRaftNode.
LEMMA InitTimers == Init => TimersInv
<1> SUFFICES ASSUME Init PROVE TimersInv  OBVIOUS
<1>1. TimersType
  BY TimerAssumption DEF Init, TimersType, Ticks, Off, LongAgo
<1>2. OneElectionCallback /\ CampaignsAreSpaced /\ CampaignAhead /\ BeatAhead
  BY TimerAssumption DEF Init, OneElectionCallback, CampaignsAreSpaced,
     CampaignAhead, BeatAhead, LongAgo, Off
<1> QED  BY <1>1, <1>2 DEF TimersInv

LEMMA TimersStutter ==
    ASSUME TimersInv, UNCHANGED vars
    PROVE  TimersInv'
BY DEF TimersInv, TimersType, OneElectionCallback, CampaignsAreSpaced,
   CampaignAhead, BeatAhead, vars

-----------------------------------------------------------------------------
(* The steps *)

\* A step that arms the election timer anew and leaves the callbacks alone: the
\* handlers and Start.
LEMMA RearmKeeps ==
    ASSUME TimersInv, UNCHANGED <<waiting, before>>,
           NEW d \in ElectionTimeouts, timers'.election = d,
           timers' \in [election : Ticks, heartbeat : Ticks],
           timers'.heartbeat = Off \/ timers'.heartbeat = timers.heartbeat,
           timers'.heartbeat # Off => phase # "running",
           phase' \in {"serving", "running", "stopped"},
           phase' # phase => timers'.heartbeat = Off,
           role' = "Follower",
           since' \in [campaign : Nat, contact : Nat, beat : Nat, reset : Nat],
           since'.campaign = since.campaign, since'.reset = 0
    PROVE  TimersInv'
<1> USE TimerAssumption, TimeoutRange, Fields DEF TimersInv
<1>1. TimersType'  BY DEF TimersType
<1>2. OneElectionCallback'
  <2>1. waiting.election # << >> => waiting.election[1] \in Nat
    OBVIOUS
  <2>2. /\ timers'.election \in Nat /\ timers'.election >= ElectionTimeoutMin
        /\ since'.campaign \in Nat /\ ElectionTimeoutMin \in Nat
    OBVIOUS
  <2>3. since'.campaign + timers'.election >= ElectionTimeoutMin
    BY <2>2
  <2>4. waiting.election # << >>
           => timers'.election + waiting.election[1] >= ElectionTimeoutMin
    BY <2>1, <2>2
  <2> QED  BY <2>3, <2>4 DEF OneElectionCallback
<1>3. CampaignsAreSpaced'  BY DEF CampaignsAreSpaced
<1>4. CampaignAhead'  BY DEF CampaignAhead
<1>5. BeatAhead'  BY DEF BeatAhead
<1> QED  BY <1>1, <1>2, <1>3, <1>4, <1>5

LEMMA StepDownKeeps == ASSUME TimersInv, StepDown PROVE TimersInv'
<1> USE DEF TimersInv
<1>1. PICK d \in ElectionTimeouts :
         timers' = [election |-> d, heartbeat |-> Off]
  BY DEF StepDown, becomeFollower
<1>2. timers' \in [election : Ticks, heartbeat : Ticks]
  BY <1>1, TimeoutRange DEF Ticks
<1>3. since' \in [campaign : Nat, contact : Nat, beat : Nat, reset : Nat]
      /\ since'.campaign = since.campaign /\ since'.reset = 0
  BY DEF StepDown, TimersType
<1> QED
  BY <1>1, <1>2, <1>3, RearmKeeps DEF StepDown, becomeFollower, TimersType

LEMMA StartKeeps == ASSUME TimersInv, Start PROVE TimersInv'
<1> USE DEF TimersInv
<1>1. PICK d \in ElectionTimeouts :
         timers' = [election |-> d, heartbeat |-> Off]
  BY DEF Start, becomeFollower
<1>2. timers' \in [election : Ticks, heartbeat : Ticks]
  BY <1>1, TimeoutRange DEF Ticks
<1>3. since' \in [campaign : Nat, contact : Nat, beat : Nat, reset : Nat]
      /\ since'.campaign = since.campaign /\ since'.reset = 0
  BY DEF Start, TimersType
<1> QED  BY <1>1, <1>2, <1>3, RearmKeeps DEF Start, becomeFollower

LEMMA GrantVoteKeeps == ASSUME TimersInv, GrantVote PROVE TimersInv'
<1> USE DEF TimersInv
<1>1. PICK d \in ElectionTimeouts : timers' = [timers EXCEPT !.election = d]
  BY DEF GrantVote
<1>2. timers' \in [election : Ticks, heartbeat : Ticks]
      /\ timers'.election = d /\ timers'.heartbeat = timers.heartbeat
  BY <1>1, TimeoutRange DEF TimersType
<1>3. since' \in [campaign : Nat, contact : Nat, beat : Nat, reset : Nat]
      /\ since'.campaign = since.campaign /\ since'.reset = 0
  BY DEF GrantVote, TimersType
<1>4. timers'.heartbeat # Off => phase # "running"
  BY <1>2 DEF GrantVote, CampaignAhead
<1> QED  BY <1>2, <1>3, <1>4, RearmKeeps DEF GrantVote, TimersType

LEMMA HearLeaderKeeps == ASSUME TimersInv, HearLeader PROVE TimersInv'
<1> USE DEF TimersInv
<1>1. since' \in [campaign : Nat, contact : Nat, beat : Nat, reset : Nat]
      /\ since'.campaign = since.campaign /\ since'.reset = 0
  BY DEF HearLeader, TimersType
<1>2. CASE becomeFollower
  <2>1. PICK d \in ElectionTimeouts :
           timers' = [election |-> d, heartbeat |-> Off]
    BY <1>2 DEF becomeFollower
  <2>2. timers' \in [election : Ticks, heartbeat : Ticks]
    BY <2>1, TimeoutRange DEF Ticks
  <2> QED
    BY <1>1, <1>2, <2>1, <2>2, RearmKeeps
       DEF HearLeader, becomeFollower, TimersType
<1>3. CASE /\ role = "Follower" /\ UNCHANGED role
           /\ \E d \in ElectionTimeouts :
                 timers' = [timers EXCEPT !.election = d]
  <2>1. PICK d \in ElectionTimeouts : timers' = [timers EXCEPT !.election = d]
    BY <1>3
  <2>2. timers' \in [election : Ticks, heartbeat : Ticks]
        /\ timers'.election = d /\ timers'.heartbeat = timers.heartbeat
    BY <2>1, TimeoutRange DEF TimersType
  <2>3. timers'.heartbeat # Off => phase # "running"
    BY <1>3, <2>2 DEF CampaignAhead
  <2> QED
    BY <1>1, <1>3, <2>2, <2>3, RearmKeeps DEF HearLeader, TimersType
<1> QED  BY <1>2, <1>3 DEF HearLeader

\* The new leader's election timer is off and its first heartbeats are sent.
LEMMA WinElectionKeeps == ASSUME TimersInv, WinElection PROVE TimersInv'
<1> USE TimerAssumption, Fields DEF TimersInv, WinElection, becomeLeader
<1>1. TimersType'  BY DEF TimersType, Ticks
<1>2. OneElectionCallback'  BY DEF OneElectionCallback, TimersType
<1>3. CampaignsAreSpaced'  BY DEF CampaignsAreSpaced
<1>4. CampaignAhead'  BY DEF CampaignAhead
<1>5. BeatAhead'  BY DEF BeatAhead, TimersType, Off
<1> QED  BY <1>1, <1>2, <1>3, <1>4, <1>5

\* A timer cannot run out while an earlier callback of the election timer still
\* waits: its time is ElectionTimeoutMin at least, the wait LockWait at most.
LEMMA FireElectionKeeps == ASSUME TimersInv, Fire("election") PROVE TimersInv'
<1> USE TimerAssumption, Fields DEF TimersInv, Fire
<1>1. waiting.election = << >>
  <2> SUFFICES ASSUME waiting.election # << >> PROVE FALSE  OBVIOUS
  <2>1. waiting.election[1] \in 0..LockWait  OBVIOUS
  <2>2. timers.election # Off  BY DEF Off
  <2> QED  BY <2>1, <2>2 DEF OneElectionCallback
<1>2. /\ waiting'.heartbeat = waiting.heartbeat
      /\ Len(waiting'.election) = 1 /\ waiting'.election[1] = 0
      /\ waiting'.election # << >>
  <2>1. waiting'.election = Append(waiting.election, 0)
        /\ waiting'.heartbeat = waiting.heartbeat
    BY DEF TimersType
  <2>2. Len(Append(waiting.election, 0)) = 1
        /\ Append(waiting.election, 0)[1] = 0
    BY <1>1
  <2> QED  BY <2>1, <2>2
<1>3. timers'.election = Off /\ timers'.heartbeat = timers.heartbeat
      /\ timers.election = 0 /\ timers.election # Off
  BY DEF Off
<1>4. TimersType'
  <2>1. Append(waiting.election, 0) \in Seq(0..LockWait)  OBVIOUS
  <2>2. waiting' \in [election : Seq(0..LockWait),
                      heartbeat : Seq(0..LockWait)]
    BY <2>1 DEF TimersType
  <2>3. timers' \in [election : Ticks, heartbeat : Ticks]
    BY DEF TimersType, Ticks
  <2> QED  BY <2>2, <2>3 DEF TimersType
<1>5. OneElectionCallback'
  BY <1>2, <1>3 DEF OneElectionCallback
<1>6. CampaignsAreSpaced'  BY DEF CampaignsAreSpaced
<1>7. CampaignAhead'
  <2> SUFFICES ASSUME phase' = "running", role' # "Leader"
               PROVE  timers'.heartbeat = Off /\ since'.reset < ElectionTimeoutMax
    BY <1>2, <1>3 DEF CampaignAhead
  <2> QED  BY <1>3 DEF CampaignAhead
<1>8. BeatAhead'  BY <1>2, <1>3 DEF BeatAhead
<1> QED  BY <1>4, <1>5, <1>6, <1>7, <1>8

LEMMA FireHeartbeatKeeps ==
    ASSUME TimersInv, Fire("heartbeat") PROVE TimersInv'
<1> USE TimerAssumption, Fields DEF TimersInv, Fire
<1>1. waiting'.election = waiting.election
      /\ waiting'.heartbeat = Append(waiting.heartbeat, 0)
  OBVIOUS
<1>2. timers'.heartbeat = Off /\ timers'.election = timers.election
      /\ timers.heartbeat = 0 /\ timers.heartbeat # Off
  BY DEF Off
<1>3. TimersType'
  <2>1. Append(waiting.heartbeat, 0) \in Seq(0..LockWait)  OBVIOUS
  <2>2. waiting' \in [election : Seq(0..LockWait),
                      heartbeat : Seq(0..LockWait)]
    BY <2>1 DEF TimersType
  <2>3. timers' \in [election : Ticks, heartbeat : Ticks]
    BY DEF TimersType, Ticks
  <2> QED  BY <2>2, <2>3 DEF TimersType
<1>4. OneElectionCallback'  BY <1>1, <1>2 DEF OneElectionCallback
<1>5. CampaignsAreSpaced'  BY DEF CampaignsAreSpaced
<1>6. CampaignAhead'  BY <1>1, <1>2 DEF CampaignAhead
<1>7. BeatAhead'
  <2> DEFINE k == Len(waiting.heartbeat) + 1
  <2>1. k \in 1..Len(waiting'.heartbeat) /\ waiting'.heartbeat[k] = 0
    BY <1>1
  <2> QED  BY <1>1, <1>2, <2>1 DEF BeatAhead
<1> QED  BY <1>3, <1>4, <1>5, <1>6, <1>7

\* The callback of the election timer starts a campaign, ElectionTimeoutMin or
\* more after the one before, and arms the timer again.
LEMMA CampaignKeeps ==
    ASSUME TimersInv, ElectionCallback, role # "Leader" PROVE TimersInv'
<1> USE TimerAssumption, Fields DEF TimersInv
<1>1. PICK d \in ElectionTimeouts : timers' = [timers EXCEPT !.election = d]
  BY DEF ElectionCallback, becomeCandidate
<1>2. /\ timers' \in [election : Ticks, heartbeat : Ticks]
      /\ timers'.election = d /\ timers'.heartbeat = timers.heartbeat
      /\ ElectionTimeoutMin <= d /\ d < ElectionTimeoutMax
      /\ d # Off /\ d \in Nat
  BY <1>1, TimeoutRange DEF TimersType
<1>3. waiting.election # << >> /\ Len(waiting.election) = 1
      /\ since.campaign >= ElectionTimeoutMin
  BY DEF ElectionCallback, OneElectionCallback
<1>4. /\ waiting'.election = Tail(waiting.election)
      /\ waiting'.heartbeat = waiting.heartbeat
      /\ waiting' \in [election : Seq(0..LockWait),
                       heartbeat : Seq(0..LockWait)]
  <2>1. Tail(waiting.election) \in Seq(0..LockWait)  BY <1>3
  <2> QED  BY <2>1 DEF ElectionCallback, TimersType
<1>5. waiting'.election = << >>
  <2>1. Len(Tail(waiting.election)) = 0  BY <1>3
  <2>2. waiting'.election \in Seq(0..LockWait)  BY <1>4
  <2> QED  BY <1>4, <2>1, <2>2, EmptySeq
<1>6. /\ since' \in [campaign : Nat, contact : Nat, beat : Nat, reset : Nat]
      /\ since'.campaign = 0 /\ since'.reset = 0
  <2>1. since' = [since EXCEPT !.campaign = 0, !.reset = 0]
    BY DEF ElectionCallback, becomeCandidate
  <2>2. since \in [campaign : Nat, contact : Nat, beat : Nat, reset : Nat]
    BY DEF TimersType
  <2> QED  BY <2>1, <2>2
<1>7. TimersType'
  BY <1>2, <1>4, <1>6
     DEF TimersType, ElectionCallback, becomeCandidate
<1>8. OneElectionCallback'  BY <1>2, <1>5, <1>6 DEF OneElectionCallback
<1>9. CampaignsAreSpaced'
  BY <1>3 DEF CampaignsAreSpaced, ElectionCallback
<1>10. CampaignAhead'
  BY <1>2, <1>6 DEF CampaignAhead, ElectionCallback, becomeCandidate
<1>11. BeatAhead'  BY DEF BeatAhead, ElectionCallback, becomeCandidate
<1> QED  BY <1>7, <1>8, <1>9, <1>10, <1>11

\* A leader's late callback of the election timer does nothing.
LEMMA IdleCallbackKeeps ==
    ASSUME TimersInv, ElectionCallback, role = "Leader" PROVE TimersInv'
<1> USE TimerAssumption, Fields DEF TimersInv
<1>1. /\ waiting.election # << >>
      /\ UNCHANGED <<phase, role, timers, since, before>>
  BY DEF ElectionCallback, becomeCandidate
<1>2. Len(waiting.election) = 1
  BY <1>1 DEF OneElectionCallback
<1>3. /\ waiting'.election = Tail(waiting.election)
      /\ waiting'.heartbeat = waiting.heartbeat
      /\ waiting' \in [election : Seq(0..LockWait),
                       heartbeat : Seq(0..LockWait)]
  <2>1. Tail(waiting.election) \in Seq(0..LockWait)  BY <1>1
  <2> QED  BY <2>1 DEF ElectionCallback, TimersType
<1>4. waiting'.election = << >>
  <2>1. Len(Tail(waiting.election)) = 0  BY <1>1, <1>2
  <2>2. waiting'.election \in Seq(0..LockWait)  BY <1>3
  <2> QED  BY <1>3, <2>1, <2>2, EmptySeq
<1>5. TimersType'  BY <1>1, <1>3 DEF TimersType
<1>6. OneElectionCallback'  BY <1>1, <1>4 DEF OneElectionCallback
<1>7. CampaignsAreSpaced'  BY <1>1 DEF CampaignsAreSpaced
<1>8. CampaignAhead'  BY <1>1 DEF CampaignAhead
<1>9. BeatAhead'  BY <1>1, <1>3 DEF BeatAhead
<1> QED  BY <1>5, <1>6, <1>7, <1>8, <1>9

LEMMA HeartbeatCallbackKeeps ==
    ASSUME TimersInv, HeartbeatCallback PROVE TimersInv'
<1> USE TimerAssumption, Fields DEF TimersInv
<1>1. /\ waiting.heartbeat # << >>
      /\ UNCHANGED <<phase, role, before>>
  BY DEF HeartbeatCallback
<1>2. /\ waiting'.election = waiting.election
      /\ waiting' \in [election : Seq(0..LockWait),
                       heartbeat : Seq(0..LockWait)]
  <2>1. Tail(waiting.heartbeat) \in Seq(0..LockWait)  BY <1>1
  <2> QED  BY <2>1 DEF HeartbeatCallback, TimersType
<1>3. CASE role = "Leader"
  <2>1. /\ timers' \in [election : Ticks, heartbeat : Ticks]
        /\ timers'.election = timers.election
        /\ timers'.heartbeat = HeartbeatInterval
        /\ HeartbeatInterval # Off
    <3>1. HeartbeatInterval \in Ticks /\ HeartbeatInterval # Off
      BY DEF Ticks, Off
    <3>2. timers' = [timers EXCEPT !.heartbeat = HeartbeatInterval]
      BY <1>3 DEF HeartbeatCallback
    <3>3. timers \in [election : Ticks, heartbeat : Ticks]
      BY DEF TimersType
    <3> QED  BY <3>1, <3>2, <3>3
  <2>2. /\ since' \in [campaign : Nat, contact : Nat, beat : Nat, reset : Nat]
        /\ since'.campaign = since.campaign /\ since'.beat = 0
    BY <1>3 DEF HeartbeatCallback, TimersType
  <2>3. TimersType'  BY <1>1, <1>2, <2>1, <2>2 DEF TimersType
  <2>4. OneElectionCallback'  BY <1>2, <2>1, <2>2 DEF OneElectionCallback
  <2>5. CampaignsAreSpaced'  BY <1>1 DEF CampaignsAreSpaced
  <2>6. CampaignAhead'  BY <1>1, <1>3 DEF CampaignAhead
  <2>7. BeatAhead'  BY <1>1, <1>3, <2>1, <2>2 DEF BeatAhead
  <2> QED  BY <2>3, <2>4, <2>5, <2>6, <2>7
<1>4. CASE role # "Leader"
  <2>1. UNCHANGED <<timers, since>>  BY <1>4 DEF HeartbeatCallback
  <2>2. TimersType'  BY <1>1, <1>2, <2>1 DEF TimersType
  <2>3. OneElectionCallback'  BY <1>2, <2>1 DEF OneElectionCallback
  <2>4. CampaignsAreSpaced'  BY <1>1 DEF CampaignsAreSpaced
  <2>5. CampaignAhead'  BY <1>1, <1>2, <2>1 DEF CampaignAhead
  <2>6. BeatAhead'  BY <1>1, <1>4 DEF BeatAhead
  <2> QED  BY <2>2, <2>3, <2>4, <2>5, <2>6
<1> QED  BY <1>3, <1>4

LEMMA StopKeeps == ASSUME TimersInv, Stop PROVE TimersInv'
<1> USE TimerAssumption, Fields DEF TimersInv, Stop
<1>1. TimersType'  BY DEF TimersType, Ticks
<1>2. OneElectionCallback'  BY DEF OneElectionCallback
<1>3. CampaignsAreSpaced'  BY DEF CampaignsAreSpaced
<1>4. CampaignAhead' /\ BeatAhead'  BY DEF CampaignAhead, BeatAhead
<1> QED  BY <1>1, <1>2, <1>3, <1>4

\* A tick takes from a timer what it adds to the clocks and to the waits.
LEMMA TickKeeps == ASSUME TimersInv, Tick PROVE TimersInv'
<1> USE TimerAssumption, Fields DEF TimersInv
<1>1. UNCHANGED <<phase, role, before>>  BY DEF Tick
<1>2. /\ timers.election # 0 /\ timers.heartbeat # 0
      /\ \A k \in DOMAIN waiting.election : waiting.election[k] < LockWait
      /\ \A k \in DOMAIN waiting.heartbeat : waiting.heartbeat[k] < LockWait
  BY DEF Tick
<1>3. /\ timers' \in [election : Ticks, heartbeat : Ticks]
      /\ timers'.election = IF timers.election = Off THEN Off
                            ELSE timers.election - 1
      /\ timers'.heartbeat = IF timers.heartbeat = Off THEN Off
                             ELSE timers.heartbeat - 1
  <2> DEFINE e == IF timers.election = Off THEN Off ELSE timers.election - 1
             h == IF timers.heartbeat = Off THEN Off ELSE timers.heartbeat - 1
  <2>1. e \in Ticks /\ h \in Ticks  BY <1>2 DEF Ticks, Off
  <2>2. timers' = [election |-> e, heartbeat |-> h]
    BY DEF Tick
  <2> QED  BY <2>1, <2>2
<1>4. /\ waiting' \in [election : Seq(0..LockWait),
                       heartbeat : Seq(0..LockWait)]
      /\ waiting'.election = Longer(waiting.election)
      /\ waiting'.heartbeat = Longer(waiting.heartbeat)
  <2>1. /\ Longer(waiting.election) \in Seq(0..LockWait)
        /\ Longer(waiting.heartbeat) \in Seq(0..LockWait)
    BY <1>2, LongerWaits
  <2>2. waiting' = [election |-> Longer(waiting.election),
                    heartbeat |-> Longer(waiting.heartbeat)]
    BY DEF Tick, Longer
  <2> QED  BY <2>1, <2>2
<1>5. /\ Len(waiting'.heartbeat) = Len(waiting.heartbeat)
      /\ Len(waiting'.election) = Len(waiting.election)
      /\ waiting'.election # << >> <=> waiting.election # << >>
      /\ \A k \in 1..Len(waiting.election) :
            /\ waiting.election[k] \in Nat
            /\ waiting'.election[k] = waiting.election[k] + 1
      /\ \A k \in 1..Len(waiting.heartbeat) :
            /\ waiting.heartbeat[k] \in Nat
            /\ waiting'.heartbeat[k] = waiting.heartbeat[k] + 1
  BY <1>2, <1>4, LongerWaits
<1>6. /\ since' \in [campaign : Nat, contact : Nat, beat : Nat, reset : Nat]
      /\ since'.campaign >= ElectionTimeoutMin
            \/ since'.campaign = since.campaign + 1
      /\ since'.beat <= since.beat + 1
      /\ since'.reset <= since.reset + 1
      /\ since'.campaign \in Nat /\ since'.beat \in Nat /\ since'.reset \in Nat
  <2> DEFINE c(f) == Min({since[f] + 1, LongAgo[f]})
  <2>1. \A f \in {"campaign", "contact", "beat", "reset"} :
           since[f] + 1 \in Nat /\ LongAgo[f] \in Nat
    BY DEF LongAgo
  <2>2. \A f \in {"campaign", "contact", "beat", "reset"} :
           c(f) \in {since[f] + 1, LongAgo[f]} /\ c(f) <= since[f] + 1
    BY <2>1, MinOfTwo
  <2>3. since' = [campaign |-> c("campaign"), contact |-> c("contact"),
                  beat |-> c("beat"), reset |-> c("reset")]
    BY DEF Tick
  <2> HIDE DEF c
  <2>4. \A f \in {"campaign", "contact", "beat", "reset"} : c(f) \in Nat
    BY <2>1, <2>2
  <2>5. LongAgo["campaign"] = ElectionTimeoutMin  BY DEF LongAgo
  <2> QED  BY <2>2, <2>3, <2>4, <2>5
<1>7. TimersType'  BY <1>1, <1>3, <1>4, <1>6 DEF TimersType
<1>8. OneElectionCallback'
  <2>1. ASSUME timers'.election # Off
        PROVE  since'.campaign + timers'.election >= ElectionTimeoutMin
    <3>1. /\ timers.election \in Nat /\ timers'.election \in Nat
          /\ timers'.election = timers.election - 1
          /\ timers.election # Off
      <4>1. timers.election # Off /\ timers'.election = timers.election - 1
        BY <2>1, <1>3
      <4>2. timers.election \in Nat /\ timers.election # 0
        BY <1>2, <4>1 DEF Ticks
      <4> QED  BY <4>1, <4>2
    <3>2. since.campaign + timers.election >= ElectionTimeoutMin
      BY <3>1 DEF OneElectionCallback
    <3>3. CASE since'.campaign >= ElectionTimeoutMin
      BY <3>1, <3>3, <1>6
    <3>4. CASE since'.campaign = since.campaign + 1
      <4>1. since'.campaign + timers'.election = since.campaign + timers.election
        BY <3>1, <3>4
      <4> QED  BY <3>2, <4>1
    <3> QED  BY <3>3, <3>4, <1>6
  <2>2. ASSUME waiting'.election # << >>
        PROVE  /\ Len(waiting'.election) = 1
               /\ since'.campaign >= ElectionTimeoutMin
               /\ timers'.election # Off
                    => timers'.election + waiting'.election[1]
                          >= ElectionTimeoutMin
    <3>1. /\ Len(waiting.election) = 1 /\ since.campaign >= ElectionTimeoutMin
          /\ waiting.election[1] \in Nat
          /\ waiting'.election[1] = waiting.election[1] + 1
      BY <2>2, <1>5 DEF OneElectionCallback
    <3>2. since'.campaign >= ElectionTimeoutMin  BY <3>1, <1>6
    <3>3. ASSUME timers'.election # Off
          PROVE  timers'.election + waiting'.election[1] >= ElectionTimeoutMin
      <4>1. /\ timers.election \in Nat /\ timers.election # Off
            /\ timers'.election = timers.election - 1
        BY <3>3, <1>2, <1>3 DEF Ticks, Off
      <4>2. timers.election + waiting.election[1] >= ElectionTimeoutMin
        BY <2>2, <4>1, <1>5 DEF OneElectionCallback
      <4> QED  BY <3>1, <4>1, <4>2
    <3> QED  BY <3>1, <3>2, <3>3, <1>5
  <2> QED  BY <2>1, <2>2 DEF OneElectionCallback
<1>9. CampaignsAreSpaced'  BY <1>1 DEF CampaignsAreSpaced
<1>10. CampaignAhead'
  <2> SUFFICES ASSUME phase = "running", role # "Leader"
               PROVE  CampaignAhead'
    BY <1>1 DEF CampaignAhead
  <2>1. timers.heartbeat = Off /\ timers'.heartbeat = Off
    BY <1>3 DEF CampaignAhead
  <2>2. CASE timers.election = Off
    <3>1. /\ waiting.election # << >> /\ timers'.election = Off
          /\ since.reset < ElectionTimeoutMax + waiting.election[1]
      BY <2>2, <1>3 DEF CampaignAhead
    <3>2. 1 \in 1..Len(waiting.election)  BY <3>1
    <3>3. waiting.election[1] \in Nat
          /\ waiting'.election[1] = waiting.election[1] + 1
      BY <3>2, <1>5
    <3>4. since'.reset < ElectionTimeoutMax + waiting'.election[1]
      BY <3>1, <3>3, <1>6, OneMoreTick
    <3> QED  BY <2>1, <3>1, <3>4, <1>5 DEF CampaignAhead
  <2>3. CASE timers.election # Off
    <3>1. /\ timers.election \in Nat /\ timers'.election # Off
          /\ timers'.election = timers.election - 1
      BY <2>3, <1>2, <1>3 DEF Ticks, Off
    <3>2. since.reset + timers.election < ElectionTimeoutMax
      BY <2>3 DEF CampaignAhead
    <3>3. since'.reset + timers'.election < ElectionTimeoutMax
      BY <3>1, <3>2, <1>6
    <3> QED  BY <2>1, <3>1, <3>3 DEF CampaignAhead
  <2> QED  BY <2>2, <2>3
<1>11. BeatAhead'
  <2> SUFFICES ASSUME phase = "running", role = "Leader"
               PROVE  BeatAhead'
    BY <1>1 DEF BeatAhead
  <2>1. timers.election = Off /\ timers'.election = Off
    BY <1>3 DEF BeatAhead
  <2>2. CASE timers.heartbeat = Off
    <3>1. PICK k \in 1..Len(waiting.heartbeat) :
             since.beat <= HeartbeatInterval + waiting.heartbeat[k]
      BY <2>2 DEF BeatAhead
    <3>2. waiting.heartbeat[k] \in Nat
          /\ waiting'.heartbeat[k] = waiting.heartbeat[k] + 1
      BY <1>5
    <3>3. since'.beat <= HeartbeatInterval + waiting'.heartbeat[k]
      BY <3>1, <3>2, <1>6, OneMoreTick
    <3> QED  BY <2>1, <2>2, <3>3, <1>3, <1>5 DEF BeatAhead
  <2>3. CASE timers.heartbeat # Off
    <3>1. /\ timers.heartbeat \in Nat /\ timers'.heartbeat # Off
          /\ timers'.heartbeat = timers.heartbeat - 1
      BY <2>3, <1>2, <1>3 DEF Ticks, Off
    <3>2. since.beat + timers.heartbeat <= HeartbeatInterval
      BY <2>3 DEF BeatAhead
    <3>3. since'.beat + timers'.heartbeat <= HeartbeatInterval
      BY <3>1, <3>2, <1>6
    <3> QED  BY <2>1, <3>1, <3>3 DEF BeatAhead
  <2> QED  BY <2>2, <2>3
<1> QED  BY <1>7, <1>8, <1>9, <1>10, <1>11

-----------------------------------------------------------------------------
(* The theorems *)

LEMMA NextKeepsTimers == TimersInv /\ [Next]_vars => TimersInv'
<1> SUFFICES ASSUME TimersInv, [Next]_vars PROVE TimersInv'  OBVIOUS
<1>1. CASE StepDown  BY <1>1, StepDownKeeps
<1>2. CASE GrantVote  BY <1>2, GrantVoteKeeps
<1>3. CASE HearLeader  BY <1>3, HearLeaderKeeps
<1>4. CASE WinElection  BY <1>4, WinElectionKeeps
<1>5. CASE \E t \in DOMAIN timers : Fire(t)
  <2>1. DOMAIN timers = {"election", "heartbeat"}  BY Fields DEF TimersInv
  <2> QED  BY <1>5, <2>1, FireElectionKeeps, FireHeartbeatKeeps
<1>6. CASE ElectionCallback  BY <1>6, CampaignKeeps, IdleCallbackKeeps
<1>7. CASE HeartbeatCallback  BY <1>7, HeartbeatCallbackKeeps
<1>8. CASE Tick  BY <1>8, TickKeeps
<1>9. CASE Start  BY <1>9, StartKeeps
<1>10. CASE Stop  BY <1>10, StopKeeps
<1>11. CASE UNCHANGED vars  BY <1>11, TimersStutter
<1> QED
  BY <1>1, <1>2, <1>3, <1>4, <1>5, <1>6, <1>7, <1>8, <1>9, <1>10, <1>11
     DEF Next

LEMMA TimersAlways == Spec => []TimersInv
BY InitTimers, NextKeepsTimers, PTL DEF Spec

\* A running node is never left with neither a timer nor a callback that will
\* call it: no order of handlers, late callbacks and restarts of the timers
\* (resetElectionTimer, resetHeartbeatTimer, becomeLeader) loses the wake-up.
THEOREM NeverLeftAsleep == Spec => []SomethingWakesIt
<1>1. TimersInv => SomethingWakesIt
  <2> SUFFICES ASSUME TimersInv PROVE SomethingWakesIt  OBVIOUS
  <2>1. waiting.heartbeat = << >> => Len(waiting.heartbeat) = 0  OBVIOUS
  <2> QED
    BY <2>1, Fields DEF TimersInv, CampaignAhead, BeatAhead, SomethingWakesIt
<1> QED  BY <1>1, TimersAlways, PTL

\* A running node that does not lead begins its next campaign less than
\* ElectionTimeoutMax + LockWait after its election timer was last reset.
THEOREM ElectionsComeInTime == Spec => []ElectionInTime
<1>1. TimersInv => ElectionInTime
  <2> SUFFICES ASSUME TimersInv, phase = "running", role # "Leader"
               PROVE  since.reset < ElectionTimeoutMax + LockWait
    BY DEF ElectionInTime
  <2>1. CASE timers.election # Off
    <3>1. since.reset + timers.election < ElectionTimeoutMax
          /\ timers.election \in Nat /\ since.reset \in Nat
      BY <2>1, Fields DEF TimersInv, CampaignAhead, Ticks
    <3> QED  BY <3>1, TimerAssumption
  <2>2. CASE timers.election = Off
    <3>1. /\ waiting.election # << >> /\ since.reset \in Nat
          /\ since.reset < ElectionTimeoutMax + waiting.election[1]
          /\ waiting.election \in Seq(0..LockWait)
      BY <2>2, Fields DEF TimersInv, CampaignAhead
    <3>2. 1 \in 1..Len(waiting.election)  BY <3>1
    <3>3. waiting.election[1] \in 0..LockWait  BY <3>1, <3>2, ElementOfSeq
    <3> QED  BY <3>1, <3>3, TimerAssumption
  <2> QED  BY <2>1, <2>2
<1> QED  BY <1>1, TimersAlways, PTL

\* A leader's heartbeats are at most HeartbeatInterval + LockWait apart, which
\* TimerAssumption keeps below every follower's election timeout.
THEOREM HeartbeatsComeInTime == Spec => []HeartbeatInTime
<1>1. TimersInv => HeartbeatInTime
  <2> SUFFICES ASSUME TimersInv, phase = "running", role = "Leader"
               PROVE  since.beat <= HeartbeatInterval + LockWait
    BY DEF HeartbeatInTime
  <2>1. CASE timers.heartbeat # Off
    <3>1. since.beat + timers.heartbeat <= HeartbeatInterval
          /\ timers.heartbeat \in Nat /\ since.beat \in Nat
      BY <2>1, Fields DEF TimersInv, BeatAhead, Ticks
    <3> QED  BY <3>1, TimerAssumption
  <2>2. CASE timers.heartbeat = Off
    <3>1. PICK k \in 1..Len(waiting.heartbeat) :
             since.beat <= HeartbeatInterval + waiting.heartbeat[k]
      BY <2>2 DEF TimersInv, BeatAhead
    <3>2. waiting.heartbeat \in Seq(0..LockWait) /\ since.beat \in Nat
      BY Fields DEF TimersInv
    <3>3. waiting.heartbeat[k] \in 0..LockWait  BY <3>2, ElementOfSeq
    <3> QED  BY <3>1, <3>2, <3>3, TimerAssumption
  <2> QED  BY <2>1, <2>2
<1> QED  BY <1>1, TimersAlways, PTL

\* Two campaigns of a node are ElectionTimeoutMin apart at least, although a
\* callback that waits for the lock cannot be recalled (resetElectionTimer).
THEOREM CampaignsKeepApart == Spec => []CampaignsAreSpaced
<1>1. TimersInv => CampaignsAreSpaced  BY DEF TimersInv
<1> QED  BY <1>1, TimersAlways, PTL

=============================================================================
