--------------------------- MODULE RaftLogProofs ---------------------------
(***************************************************************************)
(* Logs agree up to the first restart, for every cluster, if a call is     *)
(* given up before its sender's election timer can fire again.             *)
(*                                                                         *)
(* Everything is measured against leaderLog: an entry of term t anywhere,  *)
(* in a log or in a call, stands at its place in the log of the leader of  *)
(* t, and so does all that precedes it.                                    *)
(***************************************************************************)
EXTENDS RaftElectionProofs

-----------------------------------------------------------------------------
(* The inductive invariant *)

\* The two logs have the same first n entries.
Agree(a, b, n) ==
    n <= Len(a) /\ n <= Len(b) /\ \A k \in 1..n : a[k] = b[k]

\* Every entry of log stands, with all before it, in lead at the entry's term.
FromLeaders(log, lead) ==
    \A n \in 1..Len(log) :
        /\ log[n].term \in DOMAIN lead
        /\ Agree(log, lead[log[n].term], n)

UpTo(log, t) == \A n \in 1..Len(log) : log[n].term <= t

LeaderLogs ==
    /\ DOMAIN leaderLog = {e[1] : e \in elected}
    /\ \A t \in DOMAIN leaderLog :
          /\ leaderLog[t] \in Seq(Entry)
          /\ FromLeaders(leaderLog[t], leaderLog) /\ UpTo(leaderLog[t], t)

\* A candidate has not been elected in its term yet.
NodeLogs ==
    \A i \in Server :
        /\ FromLeaders(logs[i].log, leaderLog)
        /\ UpTo(logs[i].log, srv[i].currentTerm)
        /\ srv[i].state = "Leader"
              => leaderLog[srv[i].currentTerm] = logs[i].log
        /\ srv[i].state = "Candidate"
              => <<srv[i].currentTerm, i>> \notin elected

\* A call carries a piece of its leader's log.
PieceOf(r, log) ==
    /\ r.prevLogIndex + Len(r.entries) <= Len(log)
    /\ \A k \in 1..Len(r.entries) : r.entries[k] = log[r.prevLogIndex + k]
    /\ r.prevLogIndex # 0 => r.prevLogTerm = log[r.prevLogIndex].term

\* The AppendEntries calls and replies under way, and the call of each.
Calls == {m \in net : m.type \in {"AppendEntries", "AppendEntriesReply"}}

Call(m) == IF m.type = "AppendEntries" THEN m ELSE m.req

\* A call that is waited for is of the present leadership.
CallKnown(r) ==
    /\ r.term \in DOMAIN leaderLog
    /\ PieceOf(r, leaderLog[r.term])
    /\ r.sent <= timeouts[r.from]
    /\ r.sent = timeouts[r.from] =>
          /\ srv[r.from].state # "Candidate"
          /\ srv[r.from].state = "Leader"
                => r.term = srv[r.from].currentTerm

CallsOK == \A m \in Calls : CallKnown(Call(m))

NextIndexOK ==
    \A i \in Server : srv[i].state = "Leader" =>
        \A p \in Peers(i) : nextIndex[i][p] <= Len(logs[i].log) + 1

\* held speaks of entries leaders made, and misses none that a node holds in
\* the term of the entry.
HeldOK ==
    /\ held \subseteq Nat \X Server \X Nat
    /\ \A h \in held :
          /\ h[1] <= srv[h[2]].currentTerm /\ h[1] \in DOMAIN leaderLog
          /\ h[3] \in 1..Len(leaderLog[h[1]])
          /\ leaderLog[h[1]][h[3]].term = h[1]
    /\ \A i \in Server : \A k \in 1..Len(logs[i].log) :
          logs[i].log[k].term = srv[i].currentTerm
              => <<srv[i].currentTerm, i, k>> \in held

\* Node p has in term t taken over the first n entries of the leader's log.
Acked(t, p, n) ==
    /\ n = 0 \/ srv[p].currentTerm >= t
    /\ srv[p].currentTerm = t => Agree(logs[p].log, leaderLog[t], n)
    /\ \A k \in 1..n : leaderLog[t][k].term = t => <<t, p, k>> \in held

RepliesTrue ==
    \A m \in net : m.type = "AppendEntriesReply" /\ m.success =>
        Acked(m.req.term, m.req.to, m.req.prevLogIndex + Len(m.req.entries))

MatchesTrue ==
    \A i \in Server : srv[i].state = "Leader" =>
        \A p \in Peers(i) : /\ matchIndex[i][p] <= Len(logs[i].log)
                            /\ Acked(srv[i].currentTerm, p, matchIndex[i][p])

LogInv ==
    /\ LeaderLogs
    /\ NodeLogs
    /\ CallsOK
    /\ NextIndexOK
    /\ HeldOK
    /\ RepliesTrue
    /\ MatchesTrue

-----------------------------------------------------------------------------
(* Logs that agree *)

\* The entries of a log have terms.
LEMMA EntryTerms ==
    ASSUME NEW log \in Seq(Entry)
    PROVE  Len(log) \in Nat /\ \A k \in 1..Len(log) : log[k].term \in Nat
<1>1. \A k \in 1..Len(log) : log[k] \in Entry
  BY ElementOfSeq
<1> QED
  BY <1>1, LenProperties DEF Entry

\* Agreement up to n is agreement up to any smaller index.
LEMMA AgreeShorter ==
    ASSUME NEW a, NEW b, NEW n \in Int, NEW k \in Int,
           Len(a) \in Nat, Len(b) \in Nat, Agree(a, b, n), k <= n
    PROVE  Agree(a, b, k)
BY DEF Agree

\* Logs that agree with the same log agree with each other.
LEMMA AgreeThrough ==
    ASSUME NEW a, NEW b, NEW c, NEW n, Agree(a, c, n), Agree(b, c, n)
    PROVE  Agree(a, b, n)
BY DEF Agree

\* Agreement is symmetric.
LEMMA AgreeSym ==
    ASSUME NEW a, NEW b, NEW n, Agree(a, b, n)
    PROVE  Agree(b, a, n)
BY DEF Agree

\* What is left of a log after its first a entries.
LEMMA TailFacts ==
    ASSUME NEW s \in Seq(Entry), NEW a \in Nat
    PROVE  /\ SubSeq(s, a + 1, Len(s)) \in Seq(Entry)
           /\ Len(SubSeq(s, a + 1, Len(s)))
                = IF a < Len(s) THEN Len(s) - a ELSE 0
           /\ \A k \in 1..(Len(s) - a) : SubSeq(s, a + 1, Len(s))[k] = s[a + k]
<1>1. Len(s) \in Nat
  BY LenProperties
<1>2. \A k \in (a + 1)..Len(s) : s[k] \in Entry
  BY <1>1, ElementOfSeq
<1>3. /\ SubSeq(s, a + 1, Len(s)) \in Seq(Entry)
      /\ Len(SubSeq(s, a + 1, Len(s)))
           = IF a + 1 <= Len(s) THEN Len(s) - (a + 1) + 1 ELSE 0
      /\ \A k \in 1..(Len(s) - (a + 1) + 1) :
            SubSeq(s, a + 1, Len(s))[k] = s[(a + 1) + k - 1]
  <2> DEFINE b == a + 1
             c == Len(s)
  <2>1. b \in Int /\ c \in Int
    BY <1>1
  <2>2. \A k \in b..c : s[k] \in Entry
    BY <1>2
  <2> HIDE DEF b, c
  <2>3. /\ SubSeq(s, b, c) \in Seq(Entry)
        /\ Len(SubSeq(s, b, c)) = IF b <= c THEN c - b + 1 ELSE 0
        /\ \A k \in 1..(c - b + 1) : SubSeq(s, b, c)[k] = s[b + k - 1]
    BY <2>1, <2>2, SubSeqProperties
  <2> QED
    BY <2>3 DEF b, c
<1>4. ASSUME NEW k \in 1..(Len(s) - a)
      PROVE  SubSeq(s, a + 1, Len(s))[k] = s[a + k]
  <2>1. (a + 1) + k - 1 = a + k /\ k \in 1..(Len(s) - (a + 1) + 1)
    BY <1>1
  <2> QED
    BY <1>3, <2>1
<1> QED
  BY <1>1, <1>3, <1>4

\* The first n entries of a log.
LEMMA HeadFacts ==
    ASSUME NEW s \in Seq(Entry), NEW n \in Nat, n <= Len(s)
    PROVE  /\ SubSeq(s, 1, n) \in Seq(Entry) /\ Len(SubSeq(s, 1, n)) = n
           /\ \A k \in 1..n : SubSeq(s, 1, n)[k] = s[k]
<1>1. Len(s) \in Nat
  BY LenProperties
<1>2. \A k \in 1..n : s[k] \in Entry
  BY <1>1, ElementOfSeq
<1> QED
  BY <1>2, SubSeqProperties

\* Agreement means equal prefixes.
LEMMA AgreePrefix ==
    ASSUME NEW a \in Seq(Entry), NEW b \in Seq(Entry), NEW n \in Nat,
           Agree(a, b, n)
    PROVE  SubSeq(a, 1, n) = SubSeq(b, 1, n)
<1>1. n <= Len(a) /\ n <= Len(b) /\ \A k \in 1..n : a[k] = b[k]
  BY DEF Agree
<1>2. Len(a) \in Nat /\ Len(b) \in Nat
  BY LenProperties
<1>4. /\ SubSeq(a, 1, n) \in Seq(Entry) /\ SubSeq(b, 1, n) \in Seq(Entry)
      /\ Len(SubSeq(a, 1, n)) = n /\ Len(SubSeq(b, 1, n)) = n
      /\ \A k \in 1..n : SubSeq(a, 1, n)[k] = a[k] /\ SubSeq(b, 1, n)[k] = b[k]
  BY <1>1, <1>2, HeadFacts
<1> QED
  BY <1>1, <1>4, SeqEqual

\* What appendNewEntries makes of a log that agrees with the leader's wherever
\* they have an entry of the same term: it agrees with the leader's up to the
\* end of the call; it is cut only there; and no agreement is lost.
LEMMA AppendResult ==
    ASSUME NEW l \in LogState, NEW req \in AppendEntriesRequest,
           NEW lead \in Seq(Entry), NEW new,
           new = appendNewEntries(l, req).log,
           checkLogConsistency(l.log, req), PieceOf(req, lead),
           \A k \in 1..Len(l.log) :
               k <= Len(lead) /\ l.log[k].term = lead[k].term
                   => Agree(l.log, lead, k)
    PROVE  /\ new \in Seq(Entry)
           /\ Agree(new, lead, req.prevLogIndex + Len(req.entries))
           /\ \/ new = l.log
              \/ Len(new) = req.prevLogIndex + Len(req.entries)
           /\ \A n \in Nat : Agree(l.log, lead, n) => Agree(new, lead, n)
<1> DEFINE log  == l.log
           prev == req.prevLogIndex
           ents == req.entries
           kept == KeptLen(log, req)
           tail == SubSeq(ents, (kept - prev) + 1, Len(ents))
           base == IF kept < Len(log) THEN SubSeq(log, 1, kept) ELSE log
           end  == prev + Len(ents)
           C    == Conflicts(log, req)
           first == CHOOSE k \in C : \A j \in C : k <= j
<1>1. log \in Seq(Entry) /\ ents \in Seq(Entry) /\ prev \in Nat
  BY DEF LogState, AppendEntriesRequest
<1>2. Len(log) \in Nat /\ Len(ents) \in Nat /\ Len(lead) \in Nat
      /\ end \in Nat
  BY <1>1, LenProperties
<1>3. kept \in prev..Len(log)
  BY <1>1, KeptLenRange
<1>4. /\ end <= Len(lead)
      /\ \A k \in 1..Len(ents) : ents[k] = lead[prev + k]
      /\ prev # 0 => /\ req.prevLogTerm = lead[prev].term
                     /\ prev <= Len(log) /\ log[prev].term = req.prevLogTerm
  BY DEF PieceOf, checkLogConsistency
<1>5. \A k \in 1..Len(log) : k <= Len(lead) /\ log[k].term = lead[k].term
          => Agree(log, lead, k)
  OBVIOUS
<1>6. C = {k \in 1..Len(ents) : /\ prev + k <= Len(log)
                                /\ log[prev + k].term # ents[k].term}
  BY DEF Conflicts
<1>7. kept = IF C = {} THEN Len(log) ELSE prev + first - 1
  BY DEF KeptLen
<1>8. new = base \o tail
  BY DEF appendNewEntries, AppendLogEntry, TruncateLog, LogState
<1>9. C # {} => first \in C /\ \A j \in C : first <= j
  <2>1. C \subseteq Nat
    BY <1>2 DEF Conflicts
  <2>2. C # {} => \E f \in C : \A j \in C : f <= j
    BY <2>1, LeastOf
  <2> QED
    BY <2>2
<1>10. /\ tail \in Seq(Entry)
       /\ Len(tail) = IF kept < end THEN end - kept ELSE 0
       /\ \A k \in 1..(end - kept) : tail[k] = ents[(kept - prev) + k]
  <2>1. kept - prev \in Nat
    BY <1>1, <1>2, <1>3
  <2>2. /\ tail \in Seq(Entry)
        /\ Len(tail) = IF kept - prev < Len(ents)
                       THEN Len(ents) - (kept - prev) ELSE 0
        /\ \A k \in 1..(Len(ents) - (kept - prev)) :
              tail[k] = ents[(kept - prev) + k]
    BY <1>1, <2>1, TailFacts
  <2>3. Len(ents) - (kept - prev) = end - kept
    BY <1>1, <1>2, <1>3
  <2> HIDE DEF tail, kept, prev, ents
  <2> QED
    BY <1>1, <1>2, <1>3, <2>2, <2>3
<1>11. /\ base \in Seq(Entry) /\ Len(base) = kept
       /\ \A k \in 1..kept : base[k] = log[k]
  <2>1. kept \in Nat /\ kept <= Len(log)
    BY <1>1, <1>2, <1>3
  <2>2. /\ SubSeq(log, 1, kept) \in Seq(Entry)
        /\ Len(SubSeq(log, 1, kept)) = kept
        /\ \A k \in 1..kept : SubSeq(log, 1, kept)[k] = log[k]
    BY <1>1, <2>1, HeadFacts
  <2> HIDE DEF kept, log
  <2> QED
    BY <1>1, <1>2, <2>1, <2>2
<1> HIDE DEF log, prev, ents, kept, tail, base, end, C, first
<1>12. Agree(log, lead, prev)
  <2>1. CASE prev = 0
    BY <1>2, <2>1 DEF Agree
  <2>2. CASE prev # 0
    <3>1. prev \in 1..Len(log) /\ prev <= Len(lead)
      BY <1>1, <1>2, <1>4, <2>2 DEF end
    <3> QED
      BY <1>4, <1>5, <2>2, <3>1
  <2> QED
    BY <2>1, <2>2
<1>13. /\ new \in Seq(Entry) /\ Len(new) = kept + Len(tail)
       /\ \A k \in 1..kept : new[k] = log[k]
       /\ \A k \in (kept + 1)..end : new[k] = lead[k]
  <2>1. /\ new \in Seq(Entry) /\ Len(new) = kept + Len(tail)
        /\ \A k \in 1..(kept + Len(tail)) :
              new[k] = IF k <= kept THEN base[k] ELSE tail[k - kept]
    <3>1. /\ base \o tail \in Seq(Entry)
          /\ Len(base \o tail) = Len(base) + Len(tail)
          /\ \A k \in 1..(Len(base) + Len(tail)) : (base \o tail)[k]
                = IF k <= Len(base) THEN base[k] ELSE tail[k - Len(base)]
      BY <1>10, <1>11, ConcatProperties
    <3> QED
      BY <1>8, <1>11, <3>1, Zenon
  <2>2. ASSUME NEW k \in (kept + 1)..end PROVE new[k] = lead[k]
    <3>1. /\ k - kept \in 1..(end - kept) /\ k - prev \in 1..Len(ents)
          /\ k \in 1..(kept + Len(tail)) /\ ~(k <= kept)
          /\ (kept - prev) + (k - kept) = k - prev /\ prev + (k - prev) = k
      BY <1>1, <1>2, <1>3, <1>10 DEF end
    <3>2. tail[k - kept] = ents[k - prev]
      BY <1>10, <3>1
    <3>3. ents[k - prev] = lead[k]
      BY <1>4, <3>1
    <3> QED
      BY <2>1, <3>1, <3>2, <3>3
  <2>3. ASSUME NEW k \in 1..kept PROVE new[k] = log[k]
    <3>1. k \in 1..(kept + Len(tail)) /\ k <= kept
      BY <1>1, <1>2, <1>3, <1>10
    <3> QED
      BY <1>11, <2>1, <3>1
  <2> QED
    BY <2>1, <2>2, <2>3
<1>14. ASSUME Agree(log, lead, kept), kept < end
       PROVE  Agree(new, lead, end) /\ Len(new) = end
  <2>1. Len(new) = end
    BY <1>1, <1>2, <1>3, <1>10, <1>13, <1>14
  <2>2. ASSUME NEW k \in 1..end PROVE new[k] = lead[k]
    <3>1. CASE k <= kept
      BY <1>1, <1>2, <1>3, <1>13, <1>14, <3>1 DEF Agree
    <3>2. CASE k > kept
      BY <1>1, <1>2, <1>3, <1>13, <3>2
    <3> QED
      BY <1>1, <1>2, <1>3, <3>1, <3>2
  <2> QED
    BY <1>2, <1>4, <2>1, <2>2 DEF Agree
<1>15. Agree(log, lead, end) \/ kept < end
  <2> SUFFICES ASSUME ~(kept < end) PROVE Agree(log, lead, end)
    OBVIOUS
  <2>1. CASE Len(ents) = 0
    BY <1>1, <1>12, <2>1 DEF end
  <2>2. CASE Len(ents) # 0
    <3>1. /\ Len(ents) \in 1..Len(ents) /\ end \in 1..Len(log)
          /\ end = prev + Len(ents)
      BY <1>1, <1>2, <1>3, <2>2 DEF end
    <3>2. C = {}
      BY <1>1, <1>2, <1>6, <1>7, <1>9, <3>1
    <3>3. log[end].term = lead[end].term
      BY <1>4, <1>6, <3>1, <3>2
    <3> QED
      BY <1>4, <1>5, <3>1, <3>3
  <2> QED
    BY <2>1, <2>2
<1>16. CASE C = {}
  <2>1. kept = Len(log)
    BY <1>7, <1>16
  <2>2. CASE kept < end
    <3>1. Agree(log, lead, kept)
      <4>1. CASE kept = prev
        BY <1>12, <4>1
      <4>2. CASE kept # prev
        <5>1. /\ kept - prev \in 1..Len(ents) /\ prev + (kept - prev) = kept
              /\ kept \in 1..Len(log) /\ kept <= Len(lead)
          BY <1>1, <1>2, <1>3, <1>4, <2>1, <2>2, <4>2 DEF end
        <5>2. log[kept].term = lead[kept].term
          BY <1>4, <1>6, <1>16, <2>1, <5>1
        <5> QED
          BY <1>5, <5>1, <5>2
      <4> QED
        BY <4>1, <4>2
    <3>2. Agree(new, lead, end) /\ Len(new) = end
      BY <1>14, <2>2, <3>1
    <3>3. ASSUME NEW n \in Nat, Agree(log, lead, n) PROVE Agree(new, lead, n)
      <4>1. n <= end
        BY <1>2, <2>1, <2>2, <3>3 DEF Agree
      <4> QED
        BY <1>2, <3>2, <4>1, AgreeShorter
    <3> QED
      BY <1>13, <3>2, <3>3 DEF end, log, prev, ents
  <2>3. CASE ~(kept < end)
    <3>1. Len(new) = Len(log)
      BY <1>1, <1>2, <1>3, <1>10, <1>13, <2>1, <2>3
    <3>2. new = log
      BY <1>1, <1>13, <2>1, <3>1, SeqEqual
    <3> QED
      BY <1>13, <1>15, <2>3, <3>2 DEF end, log, prev, ents
  <2> QED
    BY <2>2, <2>3
<1>17. CASE C # {}
  <2>1. /\ first \in 1..Len(ents) /\ prev + first <= Len(log)
        /\ log[prev + first].term # lead[prev + first].term
        /\ kept = prev + first - 1
    BY <1>4, <1>6, <1>7, <1>9, <1>17
  <2>2. kept < end /\ prev + first \in Nat \ {0} /\ kept + 1 = prev + first
    BY <1>1, <1>2, <2>1 DEF end
  <2>3. Agree(log, lead, kept)
    <3>1. CASE first = 1
      BY <1>1, <1>12, <2>1, <3>1
    <3>2. CASE first # 1
      <4>1. /\ first - 1 \in 1..Len(ents) /\ prev + (first - 1) = kept
            /\ kept \in 1..Len(log) /\ kept <= Len(lead)
            /\ ~(first <= first - 1)
        BY <1>1, <1>2, <1>4, <2>1, <3>2 DEF end
      <4>2. first - 1 \notin C
        BY <1>9, <1>17, <4>1
      <4>3. log[kept].term = lead[kept].term
        BY <1>2, <1>4, <1>6, <4>1, <4>2
      <4> QED
        BY <1>5, <4>1, <4>3
    <3> QED
      BY <3>1, <3>2
  <2>4. Agree(new, lead, end) /\ Len(new) = end
    BY <1>14, <2>2, <2>3
  <2>5. ASSUME NEW n \in Nat, Agree(log, lead, n) PROVE Agree(new, lead, n)
    <3>1. ~(prev + first \in 1..n)
      BY <2>1, <2>5 DEF Agree
    <3>2. n <= end
      BY <1>2, <2>2, <3>1, <1>1, <1>3
    <3> QED
      BY <1>2, <2>4, <3>2, AgreeShorter
  <2> QED
    BY <1>13, <2>4, <2>5 DEF end, log, prev, ents
<1> QED
  BY <1>16, <1>17

-----------------------------------------------------------------------------
(* The shape of a step: what any action of node i does to node i, to its      *)
(* peer indices, its vote and the network.                                    *)

\* The handler of call m takes the call's entries over.
Accepts(i, m) ==
    /\ m.type = "AppendEntries" /\ m.to = i
    /\ m.term >= srv[i].currentTerm
    /\ checkLogConsistency(logs[i].log, m)
    /\ logs'[i] = appendNewEntries(logs[i], m)
    /\ app'[i] = updateCommitIndex(app[i], logs'[i].log, m)
    /\ srv'[i].currentTerm = m.term /\ srv'[i].state = "Follower"

\* A leader takes a command.
Appends(i) ==
    /\ srv[i].state = "Leader" /\ srv' = srv /\ app' = app
    /\ \E v \in Value :
          logs'[i].log = logs[i].log
                            \o <<[term |-> srv[i].currentTerm, command |-> v]>>

\* A leader counts its peers' copies.
Commits(i) ==
    /\ srv[i].state = "Leader" /\ srv' = srv
    /\ app'[i] = advanceCommitIndex(i, app[i], logs[i].log,
                                    srv[i].currentTerm, matchIndex'[i])

LogStep(i) ==
    \/ logs'[i] = logs[i] /\ (app'[i] = app[i] \/ Commits(i))
    \/ Appends(i)
    \/ \E m \in net : Accepts(i, m)

RoleStep(i) ==
    /\ srv'[i].currentTerm >= srv[i].currentTerm
    /\ srv'[i].state = "Leader" =>
          /\ srv[i].state # "Follower"
          /\ srv'[i].currentTerm = srv[i].currentTerm
    /\ srv'[i].state = "Candidate" =>
          /\ logs'[i] = logs[i]
          /\ \/ /\ srv[i].state = "Candidate" /\ timeouts' = timeouts
                /\ srv'[i].currentTerm = srv[i].currentTerm
             \/ /\ timeouts'[i] = timeouts[i] + 1 /\ srv'[i].votedFor = i
                /\ srv'[i].currentTerm = srv[i].currentTerm + 1
    /\ \/ timeouts' = timeouts
       \/ timeouts'[i] = timeouts[i] + 1 /\ srv'[i].state = "Candidate"

OthersStay(i) ==
    \A j \in Server \ {i} :
        /\ srv'[j] = srv[j] /\ logs'[j] = logs[j] /\ app'[j] = app[j]
        /\ nextIndex'[j] = nextIndex[j] /\ matchIndex'[j] = matchIndex[j]
        /\ timeouts'[j] = timeouts[j]

\* The request m shows a log that is at least as up to date as log.
UpToDate(m, log) ==
    \/ m.lastLogTerm > lastLogTerm(log)
    \/ m.lastLogTerm = lastLogTerm(log) /\ m.lastLogIndex >= Len(log)

VoteStep(i) ==
    srv'[i].votedFor # None =>
        \/ /\ srv'[i].votedFor = srv[i].votedFor
           /\ srv'[i].currentTerm = srv[i].currentTerm
        \/ /\ srv'[i].state = "Candidate" /\ srv'[i].votedFor = i
           /\ srv'[i].currentTerm = srv[i].currentTerm + 1
        \/ \E m \in net :
              /\ m.type = "RequestVote" /\ m.to = i
              /\ m.from = srv'[i].votedFor /\ m.term = srv'[i].currentTerm
              /\ UpToDate(m, logs[i].log) /\ logs'[i] = logs[i]

IndexStep(i) ==
    srv'[i].state = "Leader" => \A p \in Peers(i) :
        \/ /\ srv[i].state = "Leader"
           /\ nextIndex'[i][p] \in {nextIndex[i][p], backOff(nextIndex[i][p])}
           /\ matchIndex'[i][p] = matchIndex[i][p]
        \/ /\ nextIndex'[i][p] = Len(logs[i].log) + 1
           /\ matchIndex'[i][p] = 0 /\ logs'[i] = logs[i]
        \/ \E m \in net :
              /\ m.type = "AppendEntriesReply" /\ m.success
              /\ m.req.from = i /\ m.req.to = p /\ Waiting(m.req)
              /\ srv[i].state = "Leader" /\ logs'[i] = logs[i]
              /\ matchIndex'[i][p] = m.req.prevLogIndex + Len(m.req.entries)
              /\ nextIndex'[i][p] = matchIndex'[i][p] + 1

\* A message node i sends: a vote request, an answer, or a leader's call.
NewMessage(i, m) ==
    \/ m.type = "RequestVoteReply"
    \/ /\ m.type = "RequestVote" /\ m.from = i
       /\ srv'[i].state = "Candidate" /\ m.term = srv'[i].currentTerm
       /\ m.lastLogIndex = Len(logs[i].log)
       /\ m.lastLogTerm = lastLogTerm(logs[i].log)
    \/ /\ srv'[i].state = "Leader" /\ timeouts' = timeouts /\ app'[i] = app[i]
       /\ \E p \in Peers(i) :
             m = sendAppendEntriesToPeer(i, p, srv'[i], logs'[i].log,
                                         nextIndex'[i][p], app[i].commitIndex)
    \/ /\ m.type = "AppendEntriesReply" /\ m.req \in net
       /\ m.req.type = "AppendEntries" /\ m.req.to = i
       /\ m.success => Accepts(i, m.req)

Shape(i) ==
    /\ OthersStay(i)
    /\ LogStep(i)
    /\ RoleStep(i)
    /\ VoteStep(i)
    /\ IndexStep(i)
    /\ \A m \in net' : m \in net \/ NewMessage(i, m)

\* A node steps down to a term.
LEMMA BecomeFollowerFields ==
    ASSUME NEW s \in ServerState, NEW t \in Nat
    PROVE  /\ becomeFollower(s, t).state = "Follower"
           /\ becomeFollower(s, t).currentTerm = t
           /\ becomeFollower(s, t).votedFor = None
BY DEF becomeFollower, persist, ServerState

\* The election timer's callback.
LEMMA ElectionTimeoutShape ==
    ASSUME TypeInv, NEW i \in Server, ElectionTimeout(i)
    PROVE  Shape(i)
<1> DEFINE t     == becomeCandidate(srv[i], i)
           calls == requestVotes(i, srv'[i], logs[i].log, timeouts'[i])
<1>1. /\ srv' = [srv EXCEPT ![i] = t]
      /\ timeouts' = [timeouts EXCEPT ![i] = @ + 1]
      /\ Send(calls)
      /\ UNCHANGED <<logs, app, nextIndex, matchIndex>>
  BY DEF ElectionTimeout
<1>2. /\ t.currentTerm = srv[i].currentTerm + 1 /\ t.state = "Candidate"
      /\ t.votedFor = i /\ srv[i].currentTerm \in Nat
  BY DEF becomeCandidate, persist, TypeInv, TypeOK, ServerState
<1>3. /\ srv'[i] = t /\ timeouts'[i] = timeouts[i] + 1
      /\ \A j \in Server \ {i} : srv'[j] = srv[j] /\ timeouts'[j] = timeouts[j]
  BY <1>1 DEF TypeInv, TypeOK
<1>4. \A m \in calls :
         /\ m.type = "RequestVote" /\ m.from = i
         /\ m.term = srv'[i].currentTerm /\ m.lastLogIndex = Len(logs[i].log)
         /\ m.lastLogTerm = lastLogTerm(logs[i].log)
  BY DEF requestVotes
<1>5. net' \subseteq net \cup calls
  BY <1>1, PutBound DEF Send
<1> HIDE DEF t, calls
<1>6. \A m \in net' : m \in net \/ NewMessage(i, m)
  BY <1>2, <1>3, <1>4, <1>5 DEF NewMessage
<1>7. OthersStay(i) /\ LogStep(i)
  BY <1>1, <1>3 DEF OthersStay, LogStep
<1>8. RoleStep(i) /\ VoteStep(i) /\ IndexStep(i)
  BY <1>1, <1>2, <1>3 DEF RoleStep, VoteStep, IndexStep
<1> QED
  BY <1>6, <1>7, <1>8 DEF Shape

\* A leader's calls are messages of its step.
LEMMA LeaderMessages ==
    ASSUME NEW i \in Server, NEW s, srv'[i].state = "Leader",
           s.currentTerm = srv'[i].currentTerm,
           timeouts' = timeouts, app'[i] = app[i],
           net' \subseteq net \cup replicateLog(i, s, logs'[i].log, nextIndex'[i],
                                                app[i].commitIndex)
    PROVE  \A m \in net' : m \in net \/ NewMessage(i, m)
<1> SUFFICES ASSUME NEW p \in Peers(i)
             PROVE  sendAppendEntriesToPeer(i, p, s, logs'[i].log,
                                     nextIndex'[i][p], app[i].commitIndex)
                    = sendAppendEntriesToPeer(i, p, srv'[i], logs'[i].log,
                                     nextIndex'[i][p], app[i].commitIndex)
  BY DEF NewMessage, replicateLog
<1> QED
  BY DEF sendAppendEntriesToPeer

\* The heartbeat timer's callback.
LEMMA SendHeartbeatsShape ==
    ASSUME TypeInv, NEW i \in Server, sendHeartbeats(i)
    PROVE  Shape(i)
<1>1. /\ srv[i].state = "Leader" /\ UNCHANGED <<srv, logs, app, nextIndex,
                                                matchIndex, timeouts>>
      /\ Send(replicateLog(i, srv[i], logs[i].log, nextIndex[i],
                           app[i].commitIndex))
  BY DEF sendHeartbeats
<1>2. \A m \in net' : m \in net \/ NewMessage(i, m)
  BY <1>1, PutBound, LeaderMessages DEF Send
<1>3. srv[i].currentTerm \in Nat
  BY DEF TypeInv, TypeOK, ServerState
<1>4. OthersStay(i) /\ LogStep(i)
  BY <1>1 DEF OthersStay, LogStep
<1>5. RoleStep(i) /\ VoteStep(i) /\ IndexStep(i)
  BY <1>1, <1>3 DEF RoleStep, VoteStep, IndexStep
<1> QED
  BY <1>2, <1>4, <1>5 DEF Shape

\* A proposal.
LEMMA ProposeShape ==
    ASSUME TypeInv, NEW i \in Server, NEW v \in Value, Propose(i, v)
    PROVE  Shape(i)
<1> DEFINE entry == [term |-> srv[i].currentTerm, command |-> v]
<1>1. /\ srv[i].state = "Leader" /\ UNCHANGED <<srv, app, nextIndex,
                                                matchIndex, timeouts>>
      /\ logs' = [logs EXCEPT ![i] = AppendLogEntry(@, <<entry>>)]
      /\ Send(replicateLog(i, srv[i], logs'[i].log, nextIndex[i],
                           app[i].commitIndex))
  BY DEF Propose
<1>2. \A m \in net' : m \in net \/ NewMessage(i, m)
  BY <1>1, PutBound, LeaderMessages DEF Send
<1>3. srv[i].currentTerm \in Nat
  BY DEF TypeInv, TypeOK, ServerState
<1>4. /\ logs'[i].log = logs[i].log \o <<entry>>
      /\ \A j \in Server \ {i} : logs'[j] = logs[j]
  BY <1>1 DEF AppendLogEntry, TypeInv, TypeOK, LogState
<1>5. OthersStay(i) /\ LogStep(i)
  BY <1>1, <1>4 DEF OthersStay, LogStep, Appends
<1>6. RoleStep(i) /\ VoteStep(i) /\ IndexStep(i)
  BY <1>1, <1>3 DEF RoleStep, VoteStep, IndexStep
<1> QED
  BY <1>2, <1>5, <1>6 DEF Shape


\* A step that touches nothing but node i's role, and makes no leader.
LEMMA QuietShape ==
    ASSUME TypeInv, NEW i \in Server, NEW t \in ServerState,
           srv' = [srv EXCEPT ![i] = t],
           UNCHANGED <<logs, app, nextIndex, matchIndex, timeouts>>,
           \/ /\ t.state = srv[i].state
              /\ t.currentTerm = srv[i].currentTerm
           \/ /\ t.state = "Follower"
              /\ t.currentTerm >= srv[i].currentTerm,
           VoteStep(i),
           \A m \in net' : m \in net \/ NewMessage(i, m)
    PROVE  Shape(i)
<1>1. /\ srv'[i] = t /\ t.currentTerm \in Nat /\ srv[i].currentTerm \in Nat
      /\ \A j \in Server \ {i} : srv'[j] = srv[j]
  BY DEF TypeInv, TypeOK, ServerState
<1>2. OthersStay(i) /\ LogStep(i)
  BY <1>1 DEF OthersStay, LogStep
<1>3. srv[i].state \in {"Follower", "Candidate", "Leader"}
  BY DEF TypeInv, TypeOK, ServerState
<1>4. RoleStep(i) /\ IndexStep(i)
  BY <1>1, <1>3 DEF RoleStep, IndexStep
<1> QED
  BY <1>2, <1>4 DEF Shape

\* The RequestVote handler.
LEMMA RequestVoteShape ==
    ASSUME TypeInv, NEW i \in Server, NEW m \in net, RequestVote(i, m)
    PROVE  Shape(i)
<1> DEFINE s     == IF m.term > srv[i].currentTerm
                    THEN becomeFollower(srv[i], m.term) ELSE srv[i]
           grant == shouldVoteFor(s, logs[i].log, m)
           t     == IF grant THEN persist([s EXCEPT !.votedFor = m.from])
                             ELSE s
           resp  == [type |-> "RequestVoteReply", req |-> m,
                     term |-> s.currentTerm, voteGranted |-> grant]
<1>1. /\ m.type = "RequestVote" /\ m.to = i
      /\ srv' = [srv EXCEPT ![i] = t]
      /\ Consume(m, Reply(m, resp))
      /\ UNCHANGED <<logs, app, nextIndex, matchIndex, timeouts>>
  BY DEF RequestVote
<1>2. m \in RequestVoteRequest /\ m.term \in Nat /\ m.from \in Server
  BY <1>1, MessageByType DEF TypeInv, TypeOK, RequestVoteRequest
<1>3. srv[i] \in ServerState /\ srv[i].currentTerm \in Nat
  BY DEF TypeInv, TypeOK, ServerState
<1>4. s \in ServerState /\ s.currentTerm \in Nat
  BY <1>2, <1>3, BecomeFollowerType DEF ServerState
<1>5. /\ ~grant => t = s
      /\ grant => /\ t.currentTerm = s.currentTerm /\ t.state = s.state
                  /\ t.votedFor = m.from
                  /\ m.term >= s.currentTerm /\ UpToDate(m, logs[i].log)
  BY <1>4 DEF persist, ServerState, shouldVoteFor, UpToDate
<1>6. t \in ServerState
  <2>1. [s EXCEPT !.votedFor = m.from] \in ServerState
    BY <1>2, <1>4 DEF ServerState
  <2> QED
    BY <1>4, <2>1, PersistType
<1>7. /\ m.term > srv[i].currentTerm
            => /\ s.currentTerm = m.term /\ s.state = "Follower"
               /\ s.votedFor = None
      /\ ~(m.term > srv[i].currentTerm) => s = srv[i]
  BY <1>2, <1>3, BecomeFollowerFields
<1>8. resp.type = "RequestVoteReply"
  OBVIOUS
<1> HIDE DEF s, grant, t, resp
<1>9. srv'[i] = t
  BY <1>1 DEF TypeInv, TypeOK
<1>10. VoteStep(i)
  <2>1. CASE grant
    BY <1>1, <1>2, <1>3, <1>5, <1>7, <1>9, <2>1 DEF VoteStep
  <2>2. CASE ~grant
    BY <1>5, <1>7, <1>9, <2>2 DEF VoteStep
  <2> QED
    BY <2>1, <2>2
<1>11. \A x \in net' : x \in net \/ NewMessage(i, x)
  <2>1. Reply(m, resp) \subseteq {resp}
    BY DEF Reply
  <2>2. net' \subseteq net \cup {resp}
    BY <1>1, <2>1, PutBound DEF Consume
  <2> QED
    BY <1>8, <2>2 DEF NewMessage
<1>12. \/ t.state = srv[i].state /\ t.currentTerm = srv[i].currentTerm
       \/ t.state = "Follower" /\ t.currentTerm >= srv[i].currentTerm
  BY <1>2, <1>3, <1>5, <1>7
<1> QED
  BY <1>1, <1>6, <1>10, <1>11, <1>12, QuietShape

\* A vote's answer, and taking over as leader.
LEMMA HandleVoteResponseShape ==
    ASSUME TypeInv, NEW i \in Server, NEW m \in net, handleVoteResponse(i, m)
    PROVE  Shape(i)
<1> DEFINE s == srv[i]
           c == [s EXCEPT !.votesReceived = @ + 1]
<1>1. /\ m.type = "RequestVoteReply"
      /\ UNCHANGED <<logs, app, timeouts>>
  BY DEF handleVoteResponse
<1>2. m.term \in Nat /\ s \in ServerState /\ s.currentTerm \in Nat
  BY <1>1, MessageByType DEF RequestVoteResponse, TypeInv, TypeOK, ServerState
<1>3. c \in ServerState /\ SameRole(s, c)
  BY <1>2 DEF ServerState, SameRole
<1>4. Consume(m, {}) => \A x \in net' : x \in net \/ NewMessage(i, x)
  BY PutBound DEF Consume
<1>5. CASE Consume(m, {}) /\ UNCHANGED <<srv, nextIndex, matchIndex>>
  <2>1. srv' = [srv EXCEPT ![i] = s] /\ VoteStep(i)
    BY <1>5 DEF TypeInv, TypeOK, VoteStep
  <2> QED
    BY <1>1, <1>2, <1>4, <1>5, <2>1, QuietShape
<1>6. CASE /\ m.term > s.currentTerm
           /\ srv' = [srv EXCEPT ![i] = becomeFollower(s, m.term)]
           /\ Consume(m, {}) /\ UNCHANGED <<nextIndex, matchIndex>>
  <2> DEFINE t == becomeFollower(s, m.term)
  <2>1. /\ t \in ServerState /\ t.currentTerm = m.term
        /\ t.state = "Follower" /\ t.votedFor = None
    BY <1>2, BecomeFollowerType, BecomeFollowerFields
  <2> HIDE DEF t
  <2>2. srv' = [srv EXCEPT ![i] = t]
    BY <1>6 DEF t
  <2>3. VoteStep(i) /\ t.currentTerm >= srv[i].currentTerm
    BY <1>2, <1>6, <2>1, <2>2 DEF TypeInv, TypeOK, VoteStep
  <2> QED
    BY <1>1, <1>4, <1>6, <2>1, <2>2, <2>3, QuietShape
<1>7. CASE /\ srv' = [srv EXCEPT ![i] = c]
           /\ Consume(m, {}) /\ UNCHANGED <<nextIndex, matchIndex>>
  <2> HIDE DEF c
  <2>1. VoteStep(i)
    BY <1>3, <1>7 DEF TypeInv, TypeOK, VoteStep, SameRole
  <2> QED
    BY <1>1, <1>3, <1>4, <1>7, <2>1, QuietShape DEF SameRole
<1>8. CASE /\ s.state = "Candidate" /\ becomeLeader(i, c)
           /\ Consume(m, replicateLog(i, c, logs[i].log, nextIndex'[i],
                                      app[i].commitIndex))
  <2> DEFINE t == [c EXCEPT !.state = "Leader"]
  <2>1. /\ t.state = "Leader" /\ t.currentTerm = c.currentTerm
        /\ t.votedFor = c.votedFor
    BY <1>3 DEF ServerState
  <2>2. /\ srv'[i] = t
        /\ \A j \in Server \ {i} : /\ srv'[j] = srv[j]
                                   /\ nextIndex'[j] = nextIndex[j]
                                   /\ matchIndex'[j] = matchIndex[j]
        /\ \A p \in Peers(i) : /\ nextIndex'[i][p] = Len(logs[i].log) + 1
                               /\ matchIndex'[i][p] = 0
    BY <1>8 DEF becomeLeader, Peers, TypeInv, TypeOK
  <2> HIDE DEF t, c
  <2>3. /\ srv'[i].state = "Leader" /\ srv'[i].votedFor = srv[i].votedFor
        /\ srv'[i].currentTerm = srv[i].currentTerm
        /\ c.currentTerm = srv'[i].currentTerm
    BY <1>3, <2>1, <2>2 DEF SameRole
  <2>4. OthersStay(i) /\ LogStep(i)
    BY <1>1, <2>2 DEF OthersStay, LogStep
  <2>5. RoleStep(i) /\ VoteStep(i) /\ IndexStep(i)
    BY <1>1, <1>2, <1>8, <2>2, <2>3 DEF RoleStep, VoteStep, IndexStep
  <2>6. net' \subseteq net \cup replicateLog(i, c, logs'[i].log, nextIndex'[i],
                                             app[i].commitIndex)
    BY <1>1, <1>8, PutBound DEF Consume
  <2>7. \A x \in net' : x \in net \/ NewMessage(i, x)
    BY <1>1, <2>3, <2>6, LeaderMessages
  <2> QED
    BY <2>4, <2>5, <2>7 DEF Shape
<1> HIDE DEF c
<1> QED
  BY <1>5, <1>6, <1>7, <1>8 DEF handleVoteResponse, c


\* The AppendEntries handler.
LEMMA AppendEntriesShape ==
    ASSUME TypeInv, NEW i \in Server, NEW m \in net, AppendEntries(i, m)
    PROVE  Shape(i)
<1> DEFINE s == followLeader(srv[i], m.term)
           resp(t, ok) == [type |-> "AppendEntriesReply", req |-> m, term |-> t,
                           success |-> ok]
<1>1. /\ m.type = "AppendEntries" /\ m.to = i
      /\ UNCHANGED <<nextIndex, matchIndex, timeouts>>
  BY DEF AppendEntries
<1>2. m.term \in Nat
  BY <1>1, MessageByType DEF TypeInv, TypeOK, AppendEntriesRequest
<1>3. srv[i] \in ServerState /\ srv[i].currentTerm \in Nat
  BY DEF TypeInv, TypeOK, ServerState
<1>4. /\ s \in ServerState /\ s.state = "Follower"
      /\ m.term >= srv[i].currentTerm => s.currentTerm = m.term
      /\ s.votedFor = None \/ s = srv[i]
  <2>1. CASE m.term > srv[i].currentTerm \/ srv[i].state # "Follower"
    BY <1>2, <1>3, <2>1, BecomeFollowerType, BecomeFollowerFields DEF followLeader
  <2>2. CASE ~(m.term > srv[i].currentTerm \/ srv[i].state # "Follower")
    BY <1>2, <1>3, <2>2 DEF followLeader
  <2> QED
    BY <2>1, <2>2
<1>5. ASSUME NEW t, NEW ok, ConsumeOne(m, Reply(m, resp(t, ok))),
             ok => Accepts(i, m)
      PROVE  \A x \in net' : x \in net \/ NewMessage(i, x)
  <2> DEFINE r == resp(t, ok)
  <2>1. r.type = "AppendEntriesReply" /\ r.req = m /\ r.success = ok
    OBVIOUS
  <2>2. Reply(m, r) \subseteq {r}
    BY DEF Reply
  <2> HIDE DEF r
  <2>3. net' \subseteq net \cup {r}
    BY <1>5, <2>2, ConsumeOneBound DEF r
  <2> QED
    BY <1>1, <1>5, <2>1, <2>3 DEF NewMessage
<1> HIDE DEF s
<1>6. CASE /\ ConsumeOne(m, Reply(m, resp(srv[i].currentTerm, FALSE)))
           /\ UNCHANGED <<srv, logs, app>>
  <2>1. srv' = [srv EXCEPT ![i] = srv[i]] /\ VoteStep(i)
    BY <1>6 DEF TypeInv, TypeOK, VoteStep
  <2>2. \A x \in net' : x \in net \/ NewMessage(i, x)
    BY <1>5, <1>6
  <2> QED
    BY <1>1, <1>3, <1>6, <2>1, <2>2, QuietShape
<1>7. CASE /\ m.term >= srv[i].currentTerm
           /\ srv' = [srv EXCEPT ![i] = s]
           /\ ConsumeOne(m, Reply(m, resp(m.term, FALSE)))
           /\ UNCHANGED <<logs, app>>
  <2>1. VoteStep(i)
    BY <1>4, <1>7 DEF TypeInv, TypeOK, VoteStep
  <2>2. \A x \in net' : x \in net \/ NewMessage(i, x)
    BY <1>5, <1>7
  <2> QED
    BY <1>1, <1>4, <1>7, <2>1, <2>2, QuietShape
<1>8. CASE /\ m.term >= srv[i].currentTerm
           /\ checkLogConsistency(logs[i].log, m)
           /\ srv' = [srv EXCEPT ![i] = s]
           /\ logs' = [logs EXCEPT ![i] = appendNewEntries(@, m)]
           /\ app' = [app EXCEPT ![i] = updateCommitIndex(@, logs'[i].log, m)]
           /\ ConsumeOne(m, Reply(m, resp(m.term, TRUE)))
  <2>1. /\ srv'[i] = s /\ logs'[i] = appendNewEntries(logs[i], m)
        /\ app'[i] = updateCommitIndex(app[i], logs'[i].log, m)
        /\ \A j \in Server \ {i} : /\ srv'[j] = srv[j] /\ logs'[j] = logs[j]
                                   /\ app'[j] = app[j]
    BY <1>8 DEF TypeInv, TypeOK
  <2>2. Accepts(i, m)
    BY <1>1, <1>4, <1>8, <2>1 DEF Accepts
  <2>3. \A x \in net' : x \in net \/ NewMessage(i, x)
    BY <1>5, <1>8, <2>2
  <2>4. OthersStay(i) /\ LogStep(i)
    BY <1>1, <2>1, <2>2 DEF OthersStay, LogStep
  <2>5. RoleStep(i) /\ VoteStep(i) /\ IndexStep(i)
    BY <1>1, <1>2, <1>3, <1>4, <1>8, <2>1 DEF RoleStep, VoteStep, IndexStep
  <2> QED
    BY <2>3, <2>4, <2>5 DEF Shape
<1> QED
  BY <1>6, <1>7, <1>8, Zenon DEF AppendEntries, s

\* An answer to a call.
LEMMA HandleAppendEntriesResponseShape ==
    ASSUME TypeInv, ElectionInv, NEW i \in Server, NEW m \in net,
           handleAppendEntriesResponse(i, m)
    PROVE  Shape(i)
<1> DEFINE p     == m.req.to
           match == matched(i, m.req)
           next  == backOff(nextIndex[i][p])
<1>1. /\ m.type = "AppendEntriesReply" /\ m.req.from = i /\ Waiting(m.req)
      /\ UNCHANGED <<logs, timeouts>>
  BY DEF handleAppendEntriesResponse
<1>2. /\ m.term \in Nat /\ m.req \in AppendEntriesRequest /\ p \in Server
  BY <1>1, MessageByType
     DEF AppendEntriesResponse, AppendEntriesRequest, TypeInv, TypeOK
<1>3. srv[i] \in ServerState /\ srv[i].currentTerm \in Nat
  BY DEF TypeInv, TypeOK, ServerState
<1>4. ConsumeOne(m, {}) => \A x \in net' : x \in net \/ NewMessage(i, x)
  BY ConsumeOneBound
<1>5. CASE ConsumeOne(m, {}) /\ UNCHANGED <<srv, app, nextIndex, matchIndex>>
  <2>1. srv' = [srv EXCEPT ![i] = srv[i]] /\ VoteStep(i)
    BY <1>5 DEF TypeInv, TypeOK, VoteStep
  <2> QED
    BY <1>1, <1>3, <1>4, <1>5, <2>1, QuietShape
<1>6. CASE /\ m.term > srv[i].currentTerm
           /\ srv' = [srv EXCEPT ![i] = becomeFollower(@, m.term)]
           /\ ConsumeOne(m, {}) /\ UNCHANGED <<app, nextIndex, matchIndex>>
  <2> DEFINE t == becomeFollower(srv[i], m.term)
  <2>1. /\ t \in ServerState /\ t.currentTerm = m.term
        /\ t.state = "Follower" /\ t.votedFor = None
    BY <1>2, <1>3, BecomeFollowerType, BecomeFollowerFields
  <2> HIDE DEF t
  <2>2. srv' = [srv EXCEPT ![i] = t]
    BY <1>6 DEF t
  <2>3. VoteStep(i) /\ t.currentTerm >= srv[i].currentTerm
    BY <1>2, <1>3, <1>6, <2>1, <2>2 DEF TypeInv, TypeOK, VoteStep
  <2> QED
    BY <1>1, <1>4, <1>6, <2>1, <2>2, <2>3, QuietShape
<1>7. CASE /\ srv[i].state = "Leader" /\ m.success
           /\ matchIndex' = [matchIndex EXCEPT ![i][p] = match]
           /\ nextIndex'  = [nextIndex EXCEPT ![i][p] = match + 1]
           /\ app' = [app EXCEPT ![i] =
                         advanceCommitIndex(i, @, logs[i].log,
                                            srv[i].currentTerm,
                                            matchIndex'[i])]
           /\ ConsumeOne(m, {})
           /\ UNCHANGED srv
  <2>1. match = m.req.prevLogIndex + Len(m.req.entries)
    BY DEF matched
  <2> HIDE DEF match, next, p
  <2>2. /\ matchIndex'[i][p] = match /\ nextIndex'[i][p] = match + 1
        /\ \A q \in Peers(i) : q # p => /\ matchIndex'[i][q] = matchIndex[i][q]
                                        /\ nextIndex'[i][q] = nextIndex[i][q]
        /\ app'[i] = advanceCommitIndex(i, app[i], logs[i].log,
                                        srv[i].currentTerm, matchIndex'[i])
        /\ \A j \in Server \ {i} : /\ nextIndex'[j] = nextIndex[j]
                                   /\ matchIndex'[j] = matchIndex[j]
                                   /\ app'[j] = app[j]
    BY <1>2, <1>7 DEF TypeInv, TypeOK, Peers
  <2>3. OthersStay(i) /\ LogStep(i)
    BY <1>1, <1>7, <2>2 DEF OthersStay, LogStep, Commits
  <2>4. RoleStep(i) /\ VoteStep(i)
    BY <1>1, <1>3, <1>7 DEF RoleStep, VoteStep
  <2>5. IndexStep(i)
    <3> SUFFICES ASSUME NEW q \in Peers(i)
                 PROVE
        \/ /\ srv[i].state = "Leader"
           /\ nextIndex'[i][q] \in {nextIndex[i][q], backOff(nextIndex[i][q])}
           /\ matchIndex'[i][q] = matchIndex[i][q]
        \/ \E x \in net :
              /\ x.type = "AppendEntriesReply" /\ x.success
              /\ x.req.from = i /\ x.req.to = q /\ Waiting(x.req)
              /\ srv[i].state = "Leader" /\ logs'[i] = logs[i]
              /\ matchIndex'[i][q] = x.req.prevLogIndex + Len(x.req.entries)
              /\ nextIndex'[i][q] = matchIndex'[i][q] + 1
      BY DEF IndexStep
    <3>1. CASE q # p
      BY <1>7, <2>2, <3>1
    <3>2. CASE q = p
      BY <1>1, <1>7, <2>1, <2>2, <3>2 DEF p
    <3> QED
      BY <3>1, <3>2
  <2> QED
    BY <1>4, <1>7, <2>3, <2>4, <2>5 DEF Shape
<1>8. CASE /\ srv[i].state = "Leader"
           /\ nextIndex' = [nextIndex EXCEPT ![i][p] = next]
           /\ ConsumeOne(m, {sendAppendEntriesToPeer(i, p, srv[i],
                                 logs[i].log, next, app[i].commitIndex)})
           /\ UNCHANGED <<srv, app, matchIndex>>
  <2> HIDE DEF match, p
  <2>1. /\ nextIndex'[i][p] = next
        /\ \A q \in Peers(i) : q # p => nextIndex'[i][q] = nextIndex[i][q]
        /\ \A j \in Server \ {i} : nextIndex'[j] = nextIndex[j]
    BY <1>2, <1>8 DEF TypeInv, TypeOK, Peers
  <2>2. OthersStay(i) /\ LogStep(i)
    BY <1>1, <1>8, <2>1 DEF OthersStay, LogStep
  <2>3. RoleStep(i) /\ VoteStep(i) /\ IndexStep(i)
    BY <1>1, <1>3, <1>8, <2>1 DEF RoleStep, VoteStep, IndexStep
  <2>4. p # i
    BY <1>1 DEF ElectionInv, CallsOfLeaders, CallOK, p
  <2>5. \A x \in net' : x \in net \/ NewMessage(i, x)
    <3> HIDE DEF next
    <3>1. net' \subseteq net \cup {sendAppendEntriesToPeer(i, p, srv'[i],
                            logs'[i].log, nextIndex'[i][p], app[i].commitIndex)}
      BY <1>1, <1>8, <2>1, ConsumeOneBound
    <3>2. p \in Peers(i) /\ srv'[i].state = "Leader"
      BY <1>2, <1>8, <2>4 DEF Peers
    <3> QED
      BY <1>1, <1>8, <3>1, <3>2 DEF NewMessage
  <2> QED
    BY <2>2, <2>3, <2>5 DEF Shape
<1> HIDE DEF match, next, p
<1> QED
  BY <1>5, <1>6, <1>7, <1>8, Zenon DEF handleAppendEntriesResponse, match, next, p


\* Every step is a step of one node, of this shape.
LEMMA StepShape ==
    ASSUME NoRestarts', TypeInv, ElectionInv, Next
    PROVE  \E i \in Server : Shape(i)
<1>1. ASSUME NEW i \in Server, Restart(i) PROVE FALSE
  BY <1>1, RestartNoted
<1>2. ASSUME NEW i \in Server, Start(i) PROVE FALSE
  BY <1>2 DEF Start, ElectionInv, AllStarted
<1>3. ASSUME NEW i \in Server, NEW m \in net, Receive(i, m) PROVE Shape(i)
  BY <1>3, RequestVoteShape, HandleVoteResponseShape, AppendEntriesShape,
     HandleAppendEntriesResponseShape DEF Receive
<1> QED
  BY <1>1, <1>2, <1>3, ElectionTimeoutShape, SendHeartbeatsShape, ProposeShape
     DEF Next


-----------------------------------------------------------------------------
(* Logs made of leaders' entries *)

\* In such logs an entry of the same term at the same index means agreement up
\* to it.
LEMMA SameTermAgree ==
    ASSUME NEW a, NEW b, NEW lead, FromLeaders(a, lead), FromLeaders(b, lead),
           NEW k \in 1..Len(a), Len(b) \in Nat, k <= Len(b), Len(a) \in Nat,
           a[k].term = b[k].term
    PROVE  Agree(a, b, k)
<1>1. Agree(a, lead[a[k].term], k)
  BY DEF FromLeaders
<1>2. k \in 1..Len(b)
  OBVIOUS
<1>3. Agree(b, lead[a[k].term], k)
  BY <1>2 DEF FromLeaders
<1> QED
  BY <1>1, <1>3, AgreeThrough

\* They stay such logs when leaders' logs grow.
LEMMA FromLeadersGrows ==
    ASSUME NEW log \in Seq(Entry), NEW lead, NEW more, FromLeaders(log, lead),
           DOMAIN lead \subseteq DOMAIN more,
           \A t \in DOMAIN lead : /\ Len(lead[t]) \in Nat
                                  /\ Agree(lead[t], more[t], Len(lead[t]))
    PROVE  FromLeaders(log, more)
<1> SUFFICES ASSUME NEW n \in 1..Len(log)
             PROVE  /\ log[n].term \in DOMAIN more
                    /\ Agree(log, more[log[n].term], n)
  BY DEF FromLeaders
<1> DEFINE t == log[n].term
<1>1. t \in DOMAIN lead /\ Agree(log, lead[t], n)
  BY DEF FromLeaders
<1>2. Agree(lead[t], more[t], Len(lead[t])) /\ Len(lead[t]) \in Nat
  BY <1>1
<1>3. Len(log) \in Nat
  BY LenProperties
<1>4. Agree(log, more[t], n)
  <2> HIDE DEF t
  <2>1. n <= Len(lead[t]) /\ Len(lead[t]) <= Len(more[t])
    BY <1>1, <1>2 DEF Agree
  <2>2. n <= Len(more[t])
    BY <1>2, <1>3, <2>1 DEF Agree
  <2> QED
    BY <1>1, <1>2, <1>3, <2>1, <2>2 DEF Agree
<1> QED
  BY <1>1, <1>4

\* A log that is all agreement with such a log is one itself.
LEMMA FromLeadersPart ==
    ASSUME NEW a \in Seq(Entry), NEW b, NEW lead, FromLeaders(b, lead),
           Len(b) \in Nat, Agree(a, b, Len(a))
    PROVE  FromLeaders(a, lead)
<1> SUFFICES ASSUME NEW n \in 1..Len(a)
             PROVE  /\ a[n].term \in DOMAIN lead
                    /\ Agree(a, lead[a[n].term], n)
  BY DEF FromLeaders
<1>1. Len(a) \in Nat
  BY LenProperties
<1>2. a[n] = b[n] /\ n \in 1..Len(b)
  BY <1>1 DEF Agree
<1>3. b[n].term \in DOMAIN lead /\ Agree(b, lead[b[n].term], n)
  BY <1>2 DEF FromLeaders
<1>4. Agree(a, b, n)
  BY <1>1, AgreeShorter
<1> QED
  BY <1>2, <1>3, <1>4 DEF Agree


-----------------------------------------------------------------------------
(* What a step does to the logs and to the record of them *)

\* No node's term falls.
LEMMA TermsGrow ==
    ASSUME TypeInv, TypeInv', NEW i \in Server, Shape(i)
    PROVE  \A j \in Server : /\ srv[j].currentTerm \in Nat
                             /\ srv'[j].currentTerm \in Nat
                             /\ srv'[j].currentTerm >= srv[j].currentTerm
<1>1. \A j \in Server : /\ srv[j].currentTerm \in Nat
                        /\ srv'[j].currentTerm \in Nat
  BY DEF TypeInv, TypeOK, ServerState
<1>2. /\ srv'[i].currentTerm >= srv[i].currentTerm
      /\ \A j \in Server : j # i => srv'[j] = srv[j]
  BY DEF Shape, RoleStep, OthersStay
<1> QED
  BY <1>1, <1>2

\* The log after an append: one more entry, of the leader's term.
LEMMA AppendsFacts ==
    ASSUME TypeInv, NEW i \in Server, Appends(i)
    PROVE  /\ Len(logs'[i].log) = Len(logs[i].log) + 1
           /\ Agree(logs[i].log, logs'[i].log, Len(logs[i].log))
           /\ logs'[i].log[Len(logs[i].log) + 1].term = srv[i].currentTerm
<1>1. PICK v \in Value : logs'[i].log = logs[i].log
                      \o <<[term |-> srv[i].currentTerm, command |-> v]>>
  BY DEF Appends
<1> DEFINE entry == [term |-> srv[i].currentTerm, command |-> v]
           log   == logs[i].log
           more  == <<entry>>
<1>2. log \in Seq(Entry) /\ srv[i].currentTerm \in Nat
  BY DEF TypeInv, TypeOK, LogState, ServerState
<1>3. entry \in Entry /\ entry.term = srv[i].currentTerm
  BY <1>2 DEF Entry
<1>4. more \in Seq(Entry) /\ Len(more) = 1 /\ more[1] = entry
  BY <1>3
<1>5. Len(log) \in Nat
  BY <1>2, LenProperties
<1> HIDE DEF entry, log, more
<1>6. /\ Len(log \o more) = Len(log) + Len(more)
      /\ \A k \in 1..(Len(log) + Len(more)) : (log \o more)[k]
            = IF k <= Len(log) THEN log[k] ELSE more[k - Len(log)]
  BY <1>2, <1>4, ConcatProperties
<1>7. logs'[i].log = log \o more
  BY <1>1 DEF entry, log, more
<1> DEFINE new == logs'[i].log
<1>8. /\ Len(new) = Len(log) + 1
      /\ \A k \in 1..(Len(log) + 1) : new[k]
            = IF k <= Len(log) THEN log[k] ELSE more[k - Len(log)]
  BY <1>4, <1>6, <1>7, Zenon
<1> HIDE DEF new
<1>9. /\ Len(log) + 1 \in 1..(Len(log) + 1) /\ ~(Len(log) + 1 <= Len(log))
      /\ (Len(log) + 1) - Len(log) = 1
      /\ \A k \in 1..Len(log) : k \in 1..(Len(log) + 1) /\ k <= Len(log)
  BY <1>5
<1>10. new[Len(log) + 1] = entry
  BY <1>4, <1>8, <1>9
<1>11. Agree(log, new, Len(log))
  BY <1>5, <1>8, <1>9 DEF Agree
<1> QED
  BY <1>3, <1>8, <1>10, <1>11 DEF log, new

\* A node that leads after the step has its old log, or appended to it.
LEMMA LeaderLogGrows ==
    ASSUME TypeInv, NEW i \in Server, Shape(i), srv'[i].state = "Leader"
    PROVE  /\ Agree(logs[i].log, logs'[i].log, Len(logs[i].log))
           /\ logs'[i] = logs[i] \/ Appends(i)
           /\ srv'[i].currentTerm = srv[i].currentTerm
           /\ srv[i].state \in {"Candidate", "Leader"}
<1>1. logs'[i] = logs[i] \/ Appends(i)
  BY DEF Shape, LogStep, Accepts
<1>2. Agree(logs[i].log, logs'[i].log, Len(logs[i].log))
  <2>1. CASE logs'[i] = logs[i]
    <3>1. Len(logs[i].log) \in Nat
      BY LenProperties DEF TypeInv, TypeOK, LogState
    <3> QED
      BY <2>1, <3>1 DEF Agree
  <2>2. CASE Appends(i)
    BY <2>2, AppendsFacts
  <2> QED
    BY <1>1, <2>1, <2>2
<1>3. /\ srv[i].state # "Follower"
      /\ srv[i].state \in {"Follower", "Candidate", "Leader"}
      /\ srv'[i].currentTerm = srv[i].currentTerm
  BY DEF Shape, RoleStep, TypeInv, TypeOK, ServerState
<1> QED
  BY <1>1, <1>2, <1>3

\* leaderLog' follows the leader of the step and keeps all others; leaders' logs
\* only grow; and a new leader's term had none before.
LEMMA RecordLeaderLog ==
    ASSUME TypeInv, TypeInv', ElectionInv, ElectionInv', LogInv, Record,
           NEW i \in Server, Shape(i)
    PROVE  /\ DOMAIN leaderLog' = {e[1] : e \in elected'}
           /\ DOMAIN leaderLog \subseteq DOMAIN leaderLog'
           /\ \A j \in Server : srv'[j].state = "Leader" =>
                 /\ srv'[j].currentTerm \in DOMAIN leaderLog'
                 /\ leaderLog'[srv'[j].currentTerm] = logs'[j].log
           /\ \A t \in DOMAIN leaderLog' :
                 \/ t \in DOMAIN leaderLog /\ leaderLog'[t] = leaderLog[t]
                 \/ /\ srv'[i].state = "Leader" /\ t = srv'[i].currentTerm
                    /\ leaderLog'[t] = logs'[i].log
           /\ srv'[i].state = "Leader" /\ srv[i].state = "Candidate"
                 => srv'[i].currentTerm \notin DOMAIN leaderLog
           /\ \A t \in DOMAIN leaderLog :
                 /\ Len(leaderLog[t]) \in Nat
                 /\ Agree(leaderLog[t], leaderLog'[t], Len(leaderLog[t]))
<1> DEFINE lead(t) == CHOOSE j \in LeadersNow(t) : TRUE
<1>1. /\ leaderLog' = [t \in {e[1] : e \in elected'} |->
                         IF LeadersNow(t) = {} THEN leaderLog[t]
                         ELSE logs'[lead(t)].log]
      /\ elected' = elected \cup
            {<<srv'[j].currentTerm, j>> :
                j \in {k \in Server : srv'[k].state = "Leader"}}
  BY DEF Record
<1>2. DOMAIN leaderLog' = {e[1] : e \in elected'}
  BY <1>1
<1>3. DOMAIN leaderLog = {e[1] : e \in elected} /\ elected \subseteq elected'
  BY <1>1 DEF LogInv, LeaderLogs
<1>4. \A j \in Server : srv'[j].state = "Leader" =>
         /\ <<srv'[j].currentTerm, j>> \in elected'
         /\ srv'[j].currentTerm \in DOMAIN leaderLog'
  BY <1>1, <1>2
<1>5. ElectionSafety'
  BY NodesInvSafe, PTL DEF ElectionInv
<1>6. ASSUME NEW j \in Server, srv'[j].state = "Leader"
      PROVE  LeadersNow(srv'[j].currentTerm) = {j}
  <2>1. j \in LeadersNow(srv'[j].currentTerm)
    BY <1>6 DEF LeadersNow
  <2>2. ASSUME NEW k \in LeadersNow(srv'[j].currentTerm) PROVE k = j
    <3>1. k \in Server /\ srv'[k].state = "Leader"
          /\ srv'[k].currentTerm = srv'[j].currentTerm
      BY DEF LeadersNow
    <3>2. <<srv'[j].currentTerm, k>> \in elected'
          /\ <<srv'[j].currentTerm, j>> \in elected'
      BY <1>4, <1>6, <3>1
    <3>3. <<srv'[j].currentTerm, k>> = <<srv'[j].currentTerm, j>>
      BY <1>5, <3>2 DEF ElectionSafety
    <3> QED
      BY <3>3
  <2> QED
    BY <2>1, <2>2
<1>7. ASSUME NEW j \in Server, srv'[j].state = "Leader"
      PROVE  leaderLog'[srv'[j].currentTerm] = logs'[j].log
  <2>1. LeadersNow(srv'[j].currentTerm) = {j}
    BY <1>6, <1>7
  <2>2. lead(srv'[j].currentTerm) = j
    BY <2>1
  <2> HIDE DEF lead
  <2> QED
    BY <1>1, <1>2, <1>4, <1>7, <2>1, <2>2
<1>8. ASSUME NEW t \in DOMAIN leaderLog'
      PROVE  \/ t \in DOMAIN leaderLog /\ leaderLog'[t] = leaderLog[t]
             \/ /\ srv'[i].state = "Leader" /\ t = srv'[i].currentTerm
                /\ leaderLog'[t] = logs'[i].log
  <2>1. CASE LeadersNow(t) = {}
    <3>1. leaderLog'[t] = leaderLog[t]
      BY <1>1, <1>2, <2>1
    <3>2. PICK e \in elected' : t = e[1]
      BY <1>2
    <3>3. e \in elected
      <4>1. ASSUME NEW j \in Server, srv'[j].state = "Leader",
                   e = <<srv'[j].currentTerm, j>>
            PROVE  FALSE
        BY <2>1, <3>2, <4>1 DEF LeadersNow
      <4> QED
        BY <1>1, <4>1
    <3> QED
      BY <1>3, <3>1, <3>2, <3>3
  <2>2. CASE LeadersNow(t) # {}
    <3>1. PICK j \in Server : srv'[j].state = "Leader"
                              /\ srv'[j].currentTerm = t
      BY <2>2 DEF LeadersNow
    <3>2. leaderLog'[t] = logs'[j].log
      BY <1>7, <3>1
    <3>3. CASE j = i
      BY <3>1, <3>2, <3>3
    <3>4. CASE j # i
      <4>1. srv'[j] = srv[j] /\ logs'[j] = logs[j]
        BY <3>4 DEF Shape, OthersStay
      <4>2. <<t, j>> \in elected /\ leaderLog[t] = logs[j].log
        BY <3>1, <4>1
           DEF LogInv, NodeLogs, ElectionInv, NodesInv, VoteRecorded
      <4>3. t \in DOMAIN leaderLog
        BY <1>3, <4>2
      <4> QED
        BY <3>2, <4>1, <4>2, <4>3
    <3> QED
      BY <3>3, <3>4
  <2> QED
    BY <2>1, <2>2
<1>9. ASSUME srv'[i].state = "Leader", srv[i].state = "Candidate",
             srv'[i].currentTerm \in DOMAIN leaderLog
      PROVE  FALSE
  <2>1. PICK e \in elected : srv'[i].currentTerm = e[1]
    BY <1>3, <1>9
  <2>2. e = <<srv'[i].currentTerm, i>>
    <3>1. e \in elected' /\ <<srv'[i].currentTerm, i>> \in elected'
      BY <1>3, <1>4, <1>9
    <3> QED
      BY <1>5, <2>1, <3>1 DEF ElectionSafety
  <2>3. srv'[i].currentTerm = srv[i].currentTerm
    BY <1>9, LeaderLogGrows
  <2> QED
    BY <1>9, <2>2, <2>3 DEF LogInv, NodeLogs
<1>10. ASSUME NEW t \in DOMAIN leaderLog
       PROVE  /\ Len(leaderLog[t]) \in Nat
              /\ Agree(leaderLog[t], leaderLog'[t], Len(leaderLog[t]))
  <2>1. Len(leaderLog[t]) \in Nat
    BY LenProperties DEF LogInv, LeaderLogs
  <2>2. t \in DOMAIN leaderLog'
    BY <1>2, <1>3
  <2>3. CASE leaderLog'[t] = leaderLog[t]
    BY <2>1, <2>3 DEF Agree
  <2>4. CASE /\ srv'[i].state = "Leader" /\ t = srv'[i].currentTerm
             /\ leaderLog'[t] = logs'[i].log
    <3>1. srv[i].state = "Leader" /\ t = srv[i].currentTerm
      BY <1>9, <2>4, LeaderLogGrows
    <3>2. leaderLog[t] = logs[i].log
      BY <3>1 DEF LogInv, NodeLogs
    <3> QED
      BY <2>1, <2>4, <3>2, LeaderLogGrows
  <2> QED
    BY <1>8, <2>1, <2>2, <2>3, <2>4
<1>11. DOMAIN leaderLog \subseteq DOMAIN leaderLog'
  BY <1>2, <1>3
<1> QED
  BY <1>2, <1>4, <1>7, <1>8, <1>9, <1>10, <1>11

\* held' adds what node i holds of its new term.
LEMMA RecordHeld ==
    ASSUME TypeInv, HeldOK, Record, NEW i \in Server, Shape(i)
    PROVE  held' = held \cup {<<srv'[i].currentTerm, i, k>> : k \in OwnNow(i)}
<1>1. held' = held \cup UNION {{<<srv'[j].currentTerm, j, k>> : k \in OwnNow(j)} :
                                  j \in Server}
  BY DEF Record
<1>2. ASSUME NEW j \in Server, j # i, NEW k \in OwnNow(j)
      PROVE  <<srv'[j].currentTerm, j, k>> \in held
  <2>1. srv'[j] = srv[j] /\ logs'[j] = logs[j]
    BY <1>2 DEF Shape, OthersStay
  <2>2. k \in 1..Len(logs[j].log) /\ logs[j].log[k].term = srv[j].currentTerm
    BY <2>1 DEF OwnNow
  <2> QED
    BY <2>1, <2>2 DEF HeldOK
<1>3. ASSUME NEW h \in held', h \notin held
      PROVE  h \in {<<srv'[i].currentTerm, i, k>> : k \in OwnNow(i)}
  <2>1. PICK j \in Server : h \in {<<srv'[j].currentTerm, j, k>> : k \in OwnNow(j)}
    BY <1>1, <1>3
  <2>2. j = i
    BY <1>2, <1>3, <2>1
  <2> QED
    BY <2>1, <2>2
<1>4. \A k \in OwnNow(i) : <<srv'[i].currentTerm, i, k>> \in held'
  BY <1>1
<1> QED
  BY <1>1, <1>3, <1>4


\* The index of the last entry a call is about.
LastOf(r) == r.prevLogIndex + Len(r.entries)

\* What a node that takes a call over has then, measured against the log of the
\* call's leader.
LEMMA AcceptsFacts ==
    ASSUME TypeInv, LogInv, NEW i \in Server, NEW m \in net, Accepts(i, m)
    PROVE  /\ m.term \in DOMAIN leaderLog /\ leaderLog[m.term] \in Seq(Entry)
           /\ LastOf(m) \in Nat /\ LastOf(m) <= Len(leaderLog[m.term])
           /\ Agree(logs'[i].log, leaderLog[m.term], LastOf(m))
           /\ logs'[i].log = logs[i].log \/ Len(logs'[i].log) = LastOf(m)
           /\ \A n \in Nat : Agree(logs[i].log, leaderLog[m.term], n)
                 => Agree(logs'[i].log, leaderLog[m.term], n)
<1> DEFINE G == leaderLog[m.term]
<1>1. m.type = "AppendEntries" /\ m \in AppendEntriesRequest
  BY MessageByType DEF Accepts, TypeInv, TypeOK
<1>2. m.term \in DOMAIN leaderLog /\ PieceOf(m, G)
  BY <1>1 DEF LogInv, CallsOK, CallKnown, Calls, Call
<1>3. G \in Seq(Entry) /\ FromLeaders(G, leaderLog)
  BY <1>2 DEF LogInv, LeaderLogs
<1>4. logs[i] \in LogState /\ logs[i].log \in Seq(Entry)
      /\ FromLeaders(logs[i].log, leaderLog)
  BY DEF TypeInv, TypeOK, LogState, LogInv, NodeLogs
<1>5. Len(G) \in Nat /\ Len(logs[i].log) \in Nat
  BY <1>3, <1>4, LenProperties
<1> HIDE DEF G
<1>6. \A k \in 1..Len(logs[i].log) :
         k <= Len(G) /\ logs[i].log[k].term = G[k].term
             => Agree(logs[i].log, G, k)
  BY <1>3, <1>4, <1>5, SameTermAgree
<1>7. /\ checkLogConsistency(logs[i].log, m)
      /\ logs'[i].log = appendNewEntries(logs[i], m).log
  BY DEF Accepts
<1>8. /\ Agree(logs'[i].log, G, LastOf(m))
      /\ logs'[i].log = logs[i].log \/ Len(logs'[i].log) = LastOf(m)
      /\ \A n \in Nat : Agree(logs[i].log, G, n) => Agree(logs'[i].log, G, n)
  BY <1>1, <1>2, <1>3, <1>4, <1>6, <1>7, AppendResult DEF LastOf
<1>9. LastOf(m) \in Nat /\ LastOf(m) <= Len(G)
  BY <1>1, <1>2, LenProperties DEF LastOf, AppendEntriesRequest, PieceOf
<1> QED
  BY <1>2, <1>3, <1>8, <1>9 DEF G

\* The logs of leaders and nodes stay made of leaders' entries.
LEMMA LogsStep ==
    ASSUME TypeInv, TypeInv', ElectionInv, ElectionInv', LogInv, Record,
           NEW i \in Server, Shape(i)
    PROVE  LeaderLogs' /\ NodeLogs'
<1> DEFINE old == logs[i].log
           new == logs'[i].log
           G   == leaderLog
           H   == leaderLog'
<1>1. /\ DOMAIN H = {e[1] : e \in elected'}
      /\ DOMAIN G \subseteq DOMAIN H
      /\ \A j \in Server : srv'[j].state = "Leader" =>
            /\ srv'[j].currentTerm \in DOMAIN H
            /\ H[srv'[j].currentTerm] = logs'[j].log
      /\ \A t \in DOMAIN H :
            \/ t \in DOMAIN G /\ H[t] = G[t]
            \/ /\ srv'[i].state = "Leader" /\ t = srv'[i].currentTerm
               /\ H[t] = new
      /\ \A t \in DOMAIN G : /\ Len(G[t]) \in Nat
                             /\ Agree(G[t], H[t], Len(G[t]))
  BY RecordLeaderLog
<1>2. /\ old \in Seq(Entry) /\ new \in Seq(Entry)
      /\ Len(old) \in Nat /\ Len(new) \in Nat
      /\ srv[i].currentTerm \in Nat /\ srv'[i].currentTerm \in Nat
      /\ srv'[i].currentTerm >= srv[i].currentTerm
  <2>1. old \in Seq(Entry) /\ new \in Seq(Entry)
    BY DEF TypeInv, TypeOK, LogState
  <2> QED
    BY <2>1, LenProperties DEF TypeInv, TypeOK, ServerState, Shape, RoleStep
<1>3. ASSUME NEW log \in Seq(Entry), FromLeaders(log, G) PROVE FromLeaders(log, H)
  BY <1>1, <1>3, FromLeadersGrows
<1>4. FromLeaders(new, H) /\ UpTo(new, srv'[i].currentTerm)
  <2>1. FromLeaders(old, G) /\ UpTo(old, srv[i].currentTerm)
    BY DEF LogInv, NodeLogs
  <2>2. UpTo(old, srv'[i].currentTerm)
    <3>1. \A k \in 1..Len(old) : old[k].term \in Nat
      BY <1>2, EntryTerms
    <3> QED
      BY <1>2, <2>1, <3>1 DEF UpTo
  <2>3. CASE new = old
    BY <1>2, <1>3, <2>1, <2>2, <2>3
  <2>4. CASE Appends(i)
    <3>1. /\ Len(new) = Len(old) + 1 /\ Agree(old, new, Len(old))
          /\ new[Len(old) + 1].term = srv[i].currentTerm
          /\ srv[i].state = "Leader" /\ srv' = srv
      BY <2>4, AppendsFacts DEF Appends
    <3>2. srv'[i].currentTerm \in DOMAIN H /\ H[srv'[i].currentTerm] = new
      BY <1>1, <3>1
    <3>3. FromLeaders(old, H)
      BY <1>2, <1>3, <2>1
    <3> HIDE DEF old, new, G, H
    <3>4. ASSUME NEW n \in 1..Len(new)
          PROVE  /\ new[n].term \in DOMAIN H
                 /\ Agree(new, H[new[n].term], n)
                 /\ new[n].term <= srv'[i].currentTerm
      <4>1. CASE n = Len(old) + 1
        BY <1>2, <3>1, <3>2, <4>1 DEF Agree
      <4>2. CASE n \in 1..Len(old)
        <5>1. new[n] = old[n] /\ Agree(old, new, n)
          BY <1>2, <3>1, <4>2 DEF Agree
        <5>2. old[n].term \in DOMAIN H /\ Agree(old, H[old[n].term], n)
          BY <3>3, <4>2 DEF FromLeaders
        <5>3. Agree(new, H[old[n].term], n)
          BY <5>1, <5>2 DEF Agree
        <5> QED
          BY <2>2, <4>2, <5>1, <5>2, <5>3 DEF UpTo
      <4> QED
        BY <1>2, <3>1, <4>1, <4>2
    <3> QED
      BY <3>4 DEF FromLeaders, UpTo
  <2>5. ASSUME NEW m \in net, Accepts(i, m), new # old
        PROVE  FromLeaders(new, H) /\ UpTo(new, srv'[i].currentTerm)
    <3>1. /\ m.term \in DOMAIN G /\ G[m.term] \in Seq(Entry)
          /\ Agree(new, G[m.term], Len(new))
      BY <2>5, AcceptsFacts
    <3>2. /\ FromLeaders(G[m.term], G) /\ UpTo(G[m.term], m.term)
          /\ Len(G[m.term]) \in Nat
      BY <3>1, LenProperties DEF LogInv, LeaderLogs
    <3>3. srv'[i].currentTerm = m.term
      BY <2>5 DEF Accepts
    <3> HIDE DEF old, new, G, H
    <3>4. FromLeaders(new, G)
      BY <1>2, <3>1, <3>2, FromLeadersPart
    <3>5. UpTo(new, m.term)
      BY <1>2, <3>1, <3>2 DEF Agree, UpTo
    <3> QED
      BY <1>2, <1>3, <3>3, <3>4, <3>5
  <2> HIDE DEF G, H
  <2> QED
    BY <2>3, <2>4, <2>5 DEF Shape, LogStep
<1>5. ASSUME NEW t \in DOMAIN H
      PROVE  H[t] \in Seq(Entry) /\ FromLeaders(H[t], H) /\ UpTo(H[t], t)
  <2>1. CASE t \in DOMAIN G /\ H[t] = G[t]
    <3>1. G[t] \in Seq(Entry) /\ FromLeaders(G[t], G) /\ UpTo(G[t], t)
      BY <2>1 DEF LogInv, LeaderLogs
    <3> HIDE DEF G, H
    <3> QED
      BY <1>3, <2>1, <3>1
  <2>2. CASE t = srv'[i].currentTerm /\ H[t] = new
    BY <1>2, <1>4, <2>2
  <2> QED
    BY <1>1, <2>1, <2>2
<1>6. LeaderLogs'
  BY <1>1, <1>5 DEF LeaderLogs
<1>7. ASSUME NEW j \in Server
      PROVE  /\ FromLeaders(logs'[j].log, H)
             /\ UpTo(logs'[j].log, srv'[j].currentTerm)
  <2>1. CASE j = i
    BY <1>4, <2>1
  <2>2. CASE j # i
    <3>1. logs'[j] = logs[j] /\ srv'[j] = srv[j] /\ logs[j].log \in Seq(Entry)
      BY <2>2 DEF Shape, OthersStay, TypeInv, TypeOK, LogState
    <3>2. FromLeaders(logs[j].log, G) /\ UpTo(logs[j].log, srv[j].currentTerm)
      BY DEF LogInv, NodeLogs
    <3> HIDE DEF G, H
    <3> QED
      BY <1>3, <3>1, <3>2
  <2> QED
    BY <2>1, <2>2
<1>8. ASSUME NEW j \in Server, srv'[j].state = "Candidate"
      PROVE  <<srv'[j].currentTerm, j>> \notin elected'
  <2>1. elected' = elected \cup
            {<<srv'[k].currentTerm, k>> :
                k \in {l \in Server : srv'[l].state = "Leader"}}
    BY DEF Record
  <2>2. <<srv'[j].currentTerm, j>> \notin elected
    <3>1. CASE srv[j].state = "Candidate" /\ srv'[j].currentTerm = srv[j].currentTerm
      BY <3>1 DEF LogInv, NodeLogs
    <3>2. CASE srv'[j].currentTerm = srv[j].currentTerm + 1
      <4>1. srv[j].currentTerm \in Nat
        BY DEF TypeInv, TypeOK, ServerState
      <4> QED
        BY <3>2, <4>1 DEF ElectionInv, NodesInv, HistoryOK
    <3> QED
      BY <1>8, <3>1, <3>2 DEF Shape, OthersStay, RoleStep
  <2> QED
    BY <1>8, <2>1, <2>2
<1>9. NodeLogs'
  BY <1>1, <1>7, <1>8 DEF NodeLogs
<1> QED
  BY <1>6, <1>9


\* held keeps speaking of leaders' entries, and of all a node holds.
LEMMA HeldStep ==
    ASSUME TypeInv, TypeInv', ElectionInv, ElectionInv', LogInv, Record,
           NEW i \in Server, Shape(i), NodeLogs', LeaderLogs'
    PROVE  HeldOK' /\ held \subseteq held'
<1>1. held' = held \cup {<<srv'[i].currentTerm, i, k>> : k \in OwnNow(i)}
  BY RecordHeld DEF LogInv
<1>2. /\ DOMAIN leaderLog \subseteq DOMAIN leaderLog'
      /\ \A t \in DOMAIN leaderLog :
            /\ Len(leaderLog[t]) \in Nat
            /\ Agree(leaderLog[t], leaderLog'[t], Len(leaderLog[t]))
  BY RecordLeaderLog
<1>3. \A j \in Server : /\ srv[j].currentTerm \in Nat
                        /\ srv'[j].currentTerm \in Nat
                        /\ srv'[j].currentTerm >= srv[j].currentTerm
  BY TermsGrow
<1>4. /\ held \subseteq Nat \X Server \X Nat
      /\ \A h \in held :
            /\ h[1] <= srv[h[2]].currentTerm /\ h[1] \in DOMAIN leaderLog
            /\ h[3] \in 1..Len(leaderLog[h[1]])
            /\ leaderLog[h[1]][h[3]].term = h[1]
  BY DEF LogInv, HeldOK
<1>5. ASSUME NEW h \in held
      PROVE  /\ h \in Nat \X Server \X Nat
             /\ h[1] <= srv'[h[2]].currentTerm /\ h[1] \in DOMAIN leaderLog'
             /\ h[3] \in 1..Len(leaderLog'[h[1]])
             /\ leaderLog'[h[1]][h[3]].term = h[1]
  <2>1. /\ h \in Nat \X Server \X Nat
        /\ h[1] \in Nat /\ h[2] \in Server /\ h[1] <= srv[h[2]].currentTerm
    BY <1>4
  <2>2. h[1] <= srv'[h[2]].currentTerm
    BY <1>3, <2>1
  <2>3. /\ h[1] \in DOMAIN leaderLog /\ h[3] \in 1..Len(leaderLog[h[1]])
        /\ leaderLog[h[1]][h[3]].term = h[1]
    BY <1>4
  <2>4. /\ Len(leaderLog[h[1]]) \in Nat
        /\ Agree(leaderLog[h[1]], leaderLog'[h[1]], Len(leaderLog[h[1]]))
    BY <1>2, <2>3
  <2>5. leaderLog'[h[1]] \in Seq(Entry)
    BY <1>2, <2>3 DEF LeaderLogs
  <2>6. Len(leaderLog'[h[1]]) \in Nat
    BY <2>5, LenProperties
  <2> QED
    BY <1>2, <2>1, <2>2, <2>3, <2>4, <2>6 DEF Agree
<1>6. ASSUME NEW k \in OwnNow(i)
      PROVE  LET h == <<srv'[i].currentTerm, i, k>>
             IN  /\ h \in Nat \X Server \X Nat
                 /\ h[1] <= srv'[h[2]].currentTerm /\ h[1] \in DOMAIN leaderLog'
                 /\ h[3] \in 1..Len(leaderLog'[h[1]])
                 /\ leaderLog'[h[1]][h[3]].term = h[1]
  <2> DEFINE t == srv'[i].currentTerm
  <2>1. k \in 1..Len(logs'[i].log) /\ logs'[i].log[k].term = t
    BY DEF OwnNow
  <2>2. logs'[i].log \in Seq(Entry)
    BY DEF TypeInv, TypeOK, LogState
  <2>3. Len(logs'[i].log) \in Nat
    BY <2>2, LenProperties
  <2>4. t \in DOMAIN leaderLog' /\ Agree(logs'[i].log, leaderLog'[t], k)
    BY <2>1 DEF NodeLogs, FromLeaders
  <2>5. leaderLog'[t] \in Seq(Entry)
    BY <2>4 DEF LeaderLogs
  <2>6. Len(leaderLog'[t]) \in Nat
    BY <2>5, LenProperties
  <2> QED
    BY <1>3, <2>1, <2>3, <2>4, <2>6 DEF Agree
<1>7. ASSUME NEW h \in held'
      PROVE  /\ h \in Nat \X Server \X Nat
             /\ h[1] <= srv'[h[2]].currentTerm /\ h[1] \in DOMAIN leaderLog'
             /\ h[3] \in 1..Len(leaderLog'[h[1]])
             /\ leaderLog'[h[1]][h[3]].term = h[1]
  <2>1. CASE h \in held
    BY <1>5, <2>1
  <2>2. ASSUME NEW k \in OwnNow(i), h = <<srv'[i].currentTerm, i, k>>
        PROVE  /\ h \in Nat \X Server \X Nat
               /\ h[1] <= srv'[h[2]].currentTerm /\ h[1] \in DOMAIN leaderLog'
               /\ h[3] \in 1..Len(leaderLog'[h[1]])
               /\ leaderLog'[h[1]][h[3]].term = h[1]
    BY <1>6, <2>2
  <2> QED
    BY <1>1, <2>1, <2>2
<1>8. ASSUME NEW j \in Server, NEW k \in 1..Len(logs'[j].log),
             logs'[j].log[k].term = srv'[j].currentTerm
      PROVE  <<srv'[j].currentTerm, j, k>> \in held'
  BY <1>8 DEF Record, OwnNow
<1>9. held \subseteq held'
  BY <1>1
<1> QED
  BY <1>7, <1>8, <1>9 DEF HeldOK


-----------------------------------------------------------------------------
(* Calls and their answers *)

\* A call that starts at next carries the rest of the log.
LEMMA SendPiece ==
    ASSUME NEW i, NEW p, NEW s, NEW log \in Seq(Entry), NEW next \in Nat \ {0},
           next <= Len(log) + 1, NEW commit, NEW m,
           m = sendAppendEntriesToPeer(i, p, s, log, next, commit)
    PROVE  /\ m.type = "AppendEntries" /\ m.from = i /\ m.to = p
           /\ m.term = s.currentTerm /\ m.sent = timeouts[i]
           /\ m.leaderCommit = commit
           /\ PieceOf(m, log) /\ LastOf(m) = Len(log)
<1> DEFINE a == next - 1
<1>1. /\ m.type = "AppendEntries" /\ m.from = i /\ m.to = p
      /\ m.term = s.currentTerm /\ m.sent = timeouts[i]
      /\ m.leaderCommit = commit
      /\ m.prevLogIndex = a
      /\ m.entries = SubSeq(log, next, Len(log))
      /\ a \in 1..Len(log) => m.prevLogTerm = log[a].term
  BY DEF sendAppendEntriesToPeer
<1>2. a \in Nat /\ a + 1 = next /\ a <= Len(log) /\ Len(log) \in Nat
  BY LenProperties
<1> HIDE DEF a
<1>3. /\ Len(m.entries) = IF a < Len(log) THEN Len(log) - a ELSE 0
      /\ \A k \in 1..(Len(log) - a) : m.entries[k] = log[a + k]
  <2>1. m.entries = SubSeq(log, a + 1, Len(log))
    BY <1>1, <1>2
  <2>2. /\ Len(SubSeq(log, a + 1, Len(log)))
             = IF a < Len(log) THEN Len(log) - a ELSE 0
        /\ \A k \in 1..(Len(log) - a) :
              SubSeq(log, a + 1, Len(log))[k] = log[a + k]
    BY <1>2, TailFacts
  <2> QED
    BY <2>1, <2>2, Zenon
<1>4. Len(m.entries) = Len(log) - a
  BY <1>2, <1>3
<1>5. LastOf(m) = Len(log)
  BY <1>1, <1>2, <1>4 DEF LastOf
<1>6. PieceOf(m, log)
  BY <1>1, <1>2, <1>3, <1>4 DEF PieceOf
<1> QED
  BY <1>1, <1>5, <1>6

\* A leader's log grows under a call.
LEMMA PieceGrows ==
    ASSUME NEW r \in AppendEntriesRequest, NEW a, NEW b, PieceOf(r, a),
           Len(a) \in Nat, Len(b) \in Nat, Agree(a, b, Len(a))
    PROVE  PieceOf(r, b)
<1>1. r.prevLogIndex \in Nat /\ Len(r.entries) \in Nat
  BY LenProperties DEF AppendEntriesRequest
<1>2. /\ r.prevLogIndex + Len(r.entries) <= Len(a) /\ Len(a) <= Len(b)
      /\ \A k \in 1..Len(a) : a[k] = b[k]
      /\ \A k \in 1..Len(r.entries) : r.entries[k] = a[r.prevLogIndex + k]
      /\ r.prevLogIndex # 0 => r.prevLogTerm = a[r.prevLogIndex].term
  BY DEF PieceOf, Agree
<1>3. \A k \in 1..Len(r.entries) : r.prevLogIndex + k \in 1..Len(a)
  BY <1>1, <1>2
<1>4. r.prevLogIndex # 0 => r.prevLogIndex \in 1..Len(a)
  BY <1>1, <1>2
<1>5. r.prevLogIndex + Len(r.entries) <= Len(b)
  BY <1>1, <1>2
<1>6. \A k \in 1..Len(r.entries) : r.entries[k] = b[r.prevLogIndex + k]
  BY <1>2, <1>3
<1> QED
  BY <1>2, <1>4, <1>5, <1>6 DEF PieceOf

\* The call of a message about calls.
LEMMA CallType ==
    ASSUME TypeInv, NEW m \in Calls
    PROVE  /\ Call(m) \in AppendEntriesRequest
           /\ Call(m).from \in Server /\ Call(m).to \in Server
           /\ Call(m).term \in Nat /\ Call(m).sent \in Nat
           /\ LastOf(Call(m)) \in Nat
<1>1. Call(m) \in AppendEntriesRequest
  BY MessageByType
     DEF Calls, Call, TypeInv, TypeOK, AppendEntriesResponse
<1> QED
  BY <1>1, LenProperties DEF AppendEntriesRequest, LastOf

\* An answer its sender still waits for is to a call of its present leadership.
LEMMA FreshReply ==
    ASSUME ShortCalls, TypeInv, LogInv, NEW i \in Server, NEW m \in net,
           m.type = "AppendEntriesReply", m.req.from = i, Waiting(m.req),
           srv[i].state = "Leader"
    PROVE  /\ m.req.term = srv[i].currentTerm
           /\ LastOf(m.req) \in Nat /\ LastOf(m.req) <= Len(logs[i].log)
<1>1. m \in Calls /\ Call(m) = m.req
  BY DEF Calls, Call
<1>2. /\ m.req.sent \in Nat /\ LastOf(m.req) \in Nat
      /\ timeouts[i] \in Nat
  BY <1>1, CallType DEF TypeInv, TypeOK
<1>3. /\ m.req.sent <= timeouts[m.req.from]
      /\ m.req.term \in DOMAIN leaderLog
      /\ PieceOf(m.req, leaderLog[m.req.term])
      /\ m.req.sent = timeouts[m.req.from]
           => m.req.term = srv[m.req.from].currentTerm
  BY <1>1 DEF LogInv, CallsOK, CallKnown
<1>4. m.req.sent = timeouts[i]
  BY <1>2, <1>3, WaitingIsFresh
<1>5. leaderLog[srv[i].currentTerm] = logs[i].log
  BY DEF LogInv, NodeLogs
<1> QED
  BY <1>2, <1>3, <1>4, <1>5 DEF PieceOf, LastOf

\* A leader's peer indices stay within its log.
LEMMA IndexBounds ==
    ASSUME ShortCalls, TypeInv, TypeInv', LogInv, NEW i \in Server, Shape(i),
           srv'[i].state = "Leader", NEW p \in Peers(i)
    PROVE  /\ nextIndex'[i][p] \in Nat \ {0}
           /\ nextIndex'[i][p] <= Len(logs'[i].log) + 1
           /\ matchIndex'[i][p] \in Nat
           /\ matchIndex'[i][p] <= Len(logs'[i].log)
<1>1. /\ nextIndex'[i][p] \in Nat \ {0} /\ matchIndex'[i][p] \in Nat
      /\ nextIndex[i][p] \in Nat /\ matchIndex[i][p] \in Nat
  BY DEF TypeInv, TypeOK, LeaderIndices, Peers
<1>2. /\ Len(logs[i].log) \in Nat /\ Len(logs'[i].log) \in Nat
      /\ Len(logs[i].log) <= Len(logs'[i].log)
  <2>1. logs[i].log \in Seq(Entry) /\ logs'[i].log \in Seq(Entry)
    BY DEF TypeInv, TypeOK, LogState
  <2> QED
    BY <2>1, LenProperties, LeaderLogGrows DEF Agree
<1>3. CASE /\ srv[i].state = "Leader"
           /\ nextIndex'[i][p] \in {nextIndex[i][p], backOff(nextIndex[i][p])}
           /\ matchIndex'[i][p] = matchIndex[i][p]
  <2>1. /\ nextIndex[i][p] <= Len(logs[i].log) + 1
        /\ matchIndex[i][p] <= Len(logs[i].log)
    BY <1>3 DEF LogInv, NextIndexOK, MatchesTrue
  <2>2. \A n, k \in Nat : n <= k + 1 => backOff(n) <= k + 1
    BY DEF backOff
  <2>3. nextIndex'[i][p] <= Len(logs[i].log) + 1
    BY <1>1, <1>2, <1>3, <2>1, <2>2
  <2> QED
    BY <1>1, <1>2, <1>3, <2>1, <2>3
<1>4. CASE /\ nextIndex'[i][p] = Len(logs[i].log) + 1
           /\ matchIndex'[i][p] = 0
  BY <1>1, <1>2, <1>4
<1>5. ASSUME NEW m \in net,
             m.type = "AppendEntriesReply", m.success,
             m.req.from = i, m.req.to = p, Waiting(m.req),
             srv[i].state = "Leader",
             matchIndex'[i][p] = m.req.prevLogIndex + Len(m.req.entries),
             nextIndex'[i][p] = matchIndex'[i][p] + 1
      PROVE  /\ nextIndex'[i][p] <= Len(logs'[i].log) + 1
             /\ matchIndex'[i][p] <= Len(logs'[i].log)
  <2>1. LastOf(m.req) \in Nat /\ LastOf(m.req) <= Len(logs[i].log)
    BY <1>5, FreshReply
  <2>2. matchIndex'[i][p] = LastOf(m.req)
    BY <1>5 DEF LastOf
  <2> QED
    BY <1>1, <1>2, <1>5, <2>1, <2>2
<1> QED
  BY <1>1, <1>3, <1>4, <1>5 DEF Shape, IndexStep


\* What is known of a call stays known.
LEMMA CallStaysKnown ==
    ASSUME TypeInv, TypeInv', ElectionInv, ElectionInv', LogInv, Record,
           NEW i \in Server, Shape(i), LeaderLogs',
           NEW r \in AppendEntriesRequest, CallKnown(r)
    PROVE  CallKnown(r)'
<1>1. /\ r.term \in DOMAIN leaderLog
      /\ PieceOf(r, leaderLog[r.term])
      /\ r.sent <= timeouts[r.from]
      /\ r.sent = timeouts[r.from] =>
            /\ srv[r.from].state # "Candidate"
            /\ srv[r.from].state = "Leader" => r.term = srv[r.from].currentTerm
  BY DEF CallKnown
<1>2. r.sent \in Nat /\ r.from \in Server
  BY DEF AppendEntriesRequest
<1>3. r.term \in DOMAIN leaderLog' /\ PieceOf(r, leaderLog'[r.term])
  <2>1. /\ DOMAIN leaderLog \subseteq DOMAIN leaderLog'
        /\ Len(leaderLog[r.term]) \in Nat
        /\ Agree(leaderLog[r.term], leaderLog'[r.term], Len(leaderLog[r.term]))
    BY <1>1, RecordLeaderLog
  <2>2. leaderLog'[r.term] \in Seq(Entry)
    BY <1>1, <2>1 DEF LeaderLogs
  <2>3. Len(leaderLog'[r.term]) \in Nat
    BY <2>2, LenProperties
  <2> QED
    BY <1>1, <2>1, <2>3, PieceGrows
<1>4. /\ r.sent <= timeouts'[r.from]
      /\ r.sent = timeouts'[r.from] =>
            /\ srv'[r.from].state # "Candidate"
            /\ srv'[r.from].state = "Leader" => r.term = srv'[r.from].currentTerm
  <2>1. CASE r.from # i
    BY <1>1, <1>2, <2>1 DEF Shape, OthersStay
  <2>2. CASE r.from = i
    <3>1. timeouts[i] \in Nat
      BY DEF TypeInv, TypeOK
    <3>2. CASE timeouts'[i] = timeouts[i] + 1
      BY <1>1, <1>2, <2>2, <3>1, <3>2
    <3>3. CASE timeouts'[i] = timeouts[i]
      <4>1. srv'[i].state = "Candidate" => srv[i].state = "Candidate"
        BY <3>1, <3>3 DEF Shape, RoleStep
      <4>2. srv'[i].state = "Leader" =>
              /\ srv[i].state \in {"Candidate", "Leader"}
              /\ srv'[i].currentTerm = srv[i].currentTerm
        BY LeaderLogGrows
      <4> QED
        BY <1>1, <2>2, <3>3, <4>1, <4>2
    <3> QED
      BY <3>2, <3>3 DEF Shape, RoleStep
  <2> QED
    BY <2>1, <2>2
<1> QED
  BY <1>3, <1>4 DEF CallKnown

\* Every call under way is a piece of its leader's log.
LEMMA CallsStep ==
    ASSUME ShortCalls, TypeInv, TypeInv', ElectionInv, ElectionInv', LogInv,
           Record, NEW i \in Server, Shape(i), LeaderLogs', NodeLogs'
    PROVE  CallsOK' /\ NextIndexOK'
<1>1. ASSUME NEW m \in Calls' PROVE CallKnown(Call(m))'
  <2>1. CASE m \in net
    <3>1. m \in Calls /\ Call(m) \in AppendEntriesRequest
      BY <2>1, CallType DEF Calls
    <3>2. CallKnown(Call(m))
      BY <3>1 DEF LogInv, CallsOK
    <3> QED
      BY <3>1, <3>2, CallStaysKnown
  <2>2. ASSUME srv'[i].state = "Leader", timeouts' = timeouts,
               NEW p \in Peers(i),
               m = sendAppendEntriesToPeer(i, p, srv'[i], logs'[i].log,
                                           nextIndex'[i][p], app[i].commitIndex)
        PROVE  CallKnown(Call(m))'
    <3>1. logs'[i].log \in Seq(Entry) /\ timeouts[i] \in Nat
      BY DEF TypeInv, TypeOK, LogState
    <3>2. /\ nextIndex'[i][p] \in Nat \ {0}
          /\ nextIndex'[i][p] <= Len(logs'[i].log) + 1
      BY <2>2, IndexBounds
    <3>3. /\ m.type = "AppendEntries" /\ m.from = i
          /\ m.term = srv'[i].currentTerm /\ m.sent = timeouts[i]
          /\ PieceOf(m, logs'[i].log)
      BY <2>2, <3>1, <3>2, SendPiece
    <3>4. /\ srv'[i].currentTerm \in DOMAIN leaderLog'
          /\ leaderLog'[srv'[i].currentTerm] = logs'[i].log
      BY <2>2, RecordLeaderLog
    <3>5. CallKnown(m)'
      BY <2>2, <3>1, <3>3, <3>4 DEF CallKnown
    <3> QED
      BY <3>3, <3>5 DEF Call
  <2>3. CASE /\ m.type = "AppendEntriesReply" /\ m.req \in net
             /\ m.req.type = "AppendEntries"
    <3>1. m.req \in Calls /\ Call(m.req) = m.req /\ Call(m) = m.req
      BY <2>3 DEF Calls, Call
    <3>2. CallKnown(m.req) /\ m.req \in AppendEntriesRequest
      BY <3>1, CallType DEF LogInv, CallsOK
    <3>3. CallKnown(m.req)'
      BY <3>2, CallStaysKnown
    <3> QED
      BY <3>1, <3>3 DEF Call
  <2>4. m \in net' /\ m.type \in {"AppendEntries", "AppendEntriesReply"}
    BY DEF Calls
  <2> QED
    BY <2>1, <2>2, <2>3, <2>4 DEF Shape, NewMessage
<1>2. CallsOK'
  BY <1>1 DEF CallsOK
<1>3. ASSUME NEW j \in Server, srv'[j].state = "Leader", NEW p \in Peers(j)
      PROVE  nextIndex'[j][p] <= Len(logs'[j].log) + 1
  <2>1. CASE j = i
    BY <1>3, <2>1, IndexBounds
  <2>2. CASE j # i
    BY <1>3, <2>2 DEF Shape, OthersStay, LogInv, NextIndexOK
  <2> QED
    BY <2>1, <2>2
<1> QED
  BY <1>2, <1>3 DEF NextIndexOK, Peers


\* What a node has taken over in a term it keeps for as long as it is in that
\* term, and held remembers it after that.
LEMMA AckedStays ==
    ASSUME TypeInv, TypeInv', ElectionInv, ElectionInv', LogInv, Record,
           NEW i \in Server, Shape(i), LeaderLogs', held \subseteq held',
           NEW t \in DOMAIN leaderLog, t \in Nat, NEW p \in Server,
           NEW n \in Nat, n <= Len(leaderLog[t]), Acked(t, p, n)
    PROVE  Acked(t, p, n)'
<1> DEFINE G == leaderLog[t]
           H == leaderLog'[t]
<1>1. /\ n = 0 \/ srv[p].currentTerm >= t
      /\ srv[p].currentTerm = t => Agree(logs[p].log, G, n)
      /\ \A k \in 1..n : G[k].term = t => <<t, p, k>> \in held
  BY DEF Acked
<1>2. /\ Len(G) \in Nat /\ Agree(G, H, Len(G)) /\ t \in DOMAIN leaderLog'
  BY RecordLeaderLog
<1>3. H \in Seq(Entry)
  BY <1>2 DEF LeaderLogs
<1>4. Len(H) \in Nat
  BY <1>3, LenProperties
<1>5. /\ srv[p].currentTerm \in Nat /\ srv'[p].currentTerm \in Nat
      /\ srv'[p].currentTerm >= srv[p].currentTerm
  BY TermsGrow
<1>6. Agree(G, H, n)
  BY <1>2, <1>4, AgreeShorter
<1> HIDE DEF G, H
<1>7. \A k \in 1..n : H[k].term = t => <<t, p, k>> \in held'
  BY <1>1, <1>6 DEF Agree
<1>8. n = 0 \/ srv'[p].currentTerm >= t
  BY <1>1, <1>5
<1>9. ASSUME srv'[p].currentTerm = t PROVE Agree(logs'[p].log, H, n)
  <2>1. logs'[p].log \in Seq(Entry)
    BY DEF TypeInv, TypeOK, LogState
  <2>2. Len(logs'[p].log) \in Nat
    BY <2>1, LenProperties
  <2>3. CASE n = 0
    BY <1>4, <2>2, <2>3 DEF Agree
  <2>4. CASE n # 0
    <3>1. srv[p].currentTerm = t /\ Agree(logs[p].log, G, n)
      BY <1>1, <1>5, <1>9, <2>4
    <3>2. Agree(logs'[p].log, G, n)
      <4>1. CASE logs'[p] = logs[p]
        BY <3>1, <4>1
      <4>2. CASE p = i /\ Appends(i)
        <5>1. Agree(logs[p].log, logs'[p].log, Len(logs[p].log))
          BY <4>2, AppendsFacts
        <5>2. n <= Len(logs[p].log)
          BY <3>1 DEF Agree
        <5>3. Len(logs[p].log) \in Nat
          BY LenProperties DEF TypeInv, TypeOK, LogState
        <5>4. Agree(logs[p].log, logs'[p].log, n)
          BY <2>2, <5>1, <5>2, <5>3, AgreeShorter
        <5> QED
          BY <3>1, <5>4 DEF Agree
      <4>3. ASSUME p = i, NEW m \in net, Accepts(i, m)
            PROVE  Agree(logs'[p].log, G, n)
        <5>1. m.term = t
          BY <1>9, <4>3 DEF Accepts
        <5> QED
          BY <3>1, <4>3, <5>1, AcceptsFacts DEF G
      <4> QED
        BY <4>1, <4>2, <4>3 DEF Shape, OthersStay, LogStep
    <3> QED
      BY <1>6, <3>2 DEF Agree
  <2> QED
    BY <2>3, <2>4
<1> QED
  BY <1>7, <1>8, <1>9 DEF Acked, H

\* A successful answer, and what a leader takes from it, stay true.
LEMMA AcksStep ==
    ASSUME ShortCalls, TypeInv, TypeInv', ElectionInv, ElectionInv', LogInv,
           Record, NEW i \in Server, Shape(i), LeaderLogs', NodeLogs', HeldOK',
           held \subseteq held'
    PROVE  RepliesTrue' /\ MatchesTrue'
<1>1. ASSUME NEW m \in net, m.type = "AppendEntriesReply", m.success
      PROVE  Acked(m.req.term, m.req.to, LastOf(m.req))'
  <2>1. m \in Calls /\ Call(m) = m.req
    BY <1>1 DEF Calls, Call
  <2>2. /\ m.req.term \in DOMAIN leaderLog
        /\ LastOf(m.req) <= Len(leaderLog[m.req.term])
        /\ m.req.term \in Nat /\ m.req.to \in Server /\ LastOf(m.req) \in Nat
    BY <2>1, CallType DEF LogInv, CallsOK, CallKnown, PieceOf, LastOf
  <2>3. Acked(m.req.term, m.req.to, LastOf(m.req))
    BY <1>1 DEF LogInv, RepliesTrue, LastOf
  <2> QED
    BY <2>2, <2>3, AckedStays
<1>2. ASSUME NEW m \in net, Accepts(i, m)
      PROVE  Acked(m.term, i, LastOf(m))'
  <2> DEFINE t == m.term
             n == LastOf(m)
             new == logs'[i].log
  <2>1. /\ t \in DOMAIN leaderLog /\ n \in Nat /\ n <= Len(leaderLog[t])
        /\ Agree(new, leaderLog[t], n)
    BY <1>2, AcceptsFacts
  <2>2. /\ Len(leaderLog[t]) \in Nat /\ t \in DOMAIN leaderLog'
        /\ Agree(leaderLog[t], leaderLog'[t], Len(leaderLog[t]))
    BY <2>1, RecordLeaderLog
  <2>3. srv'[i].currentTerm = t /\ srv'[i].currentTerm \in Nat
    BY <1>2 DEF Accepts, TypeInv, TypeOK, ServerState
  <2>4. new \in Seq(Entry) /\ leaderLog'[t] \in Seq(Entry)
    BY <2>2 DEF TypeInv, TypeOK, LogState, LeaderLogs
  <2>5. Len(new) \in Nat /\ Len(leaderLog'[t]) \in Nat
    BY <2>4, LenProperties
  <2> HIDE DEF t, n, new
  <2>6. Agree(leaderLog[t], leaderLog'[t], n)
    BY <2>1, <2>2, <2>5, AgreeShorter
  <2>7. Agree(new, leaderLog'[t], n)
    BY <2>1, <2>6 DEF Agree
  <2>8. ASSUME NEW k \in 1..n, leaderLog'[t][k].term = t
        PROVE  <<t, i, k>> \in held'
    <3>1. k \in 1..Len(new) /\ new[k].term = t
      BY <2>1, <2>5, <2>7, <2>8 DEF Agree
    <3> QED
      BY <2>3, <3>1 DEF HeldOK, new
  <2>9. Acked(t, i, n)'
    BY <2>1, <2>3, <2>7, <2>8 DEF Acked, new
  <2> QED
    BY <2>9 DEF t, n
<1>3. ASSUME NEW m \in net', m.type = "AppendEntriesReply", m.success
      PROVE  Acked(m.req.term, m.req.to, LastOf(m.req))'
  <2>1. CASE m \in net
    BY <1>1, <1>3, <2>1
  <2>2. CASE m.req \in net /\ m.req.to = i /\ Accepts(i, m.req)
    BY <1>2, <2>2
  <2>3. ASSUME NEW p \in Peers(i),
               m = sendAppendEntriesToPeer(i, p, srv'[i], logs'[i].log,
                                           nextIndex'[i][p], app[i].commitIndex)
        PROVE  FALSE
    BY <1>3, <2>3 DEF sendAppendEntriesToPeer
  <2> QED
    BY <1>3, <2>1, <2>2, <2>3 DEF Shape, NewMessage
<1>4. RepliesTrue'
  BY <1>3 DEF RepliesTrue, LastOf
<1>5. ASSUME NEW j \in Server, srv[j].state = "Leader", NEW p \in Peers(j),
             NEW t, t = srv[j].currentTerm, NEW n, n = matchIndex[j][p]
      PROVE  Acked(t, p, n)'
  <2>1. <<t, j>> \in elected /\ leaderLog[t] = logs[j].log
    BY <1>5 DEF LogInv, NodeLogs, ElectionInv, NodesInv, VoteRecorded
  <2>4. t \in Nat /\ n \in Nat /\ p \in Server
    BY <1>5 DEF TypeInv, TypeOK, ServerState, Peers
  <2>3. n <= Len(logs[j].log) /\ Acked(t, p, n)
    BY <1>5 DEF LogInv, MatchesTrue
  <2>2. t \in DOMAIN leaderLog
    BY <2>1 DEF LogInv, LeaderLogs
  <2> QED
    BY <2>1, <2>2, <2>3, <2>4, AckedStays
<1>6. ASSUME NEW j \in Server, srv'[j].state = "Leader", NEW p \in Peers(j),
             NEW t, t = srv'[j].currentTerm, NEW n, n = matchIndex'[j][p]
      PROVE  n <= Len(logs'[j].log) /\ Acked(t, p, n)'
  <2>1. CASE j # i
    <3>1. /\ srv'[j] = srv[j] /\ logs'[j] = logs[j]
          /\ matchIndex'[j] = matchIndex[j]
      BY <2>1 DEF Shape, OthersStay
    <3>2. n <= Len(logs'[j].log)
      BY <1>6, <3>1 DEF LogInv, MatchesTrue
    <3> QED
      BY <1>5, <1>6, <3>1, <3>2
  <2>2. CASE j = i
    <3>1. n <= Len(logs'[i].log) /\ n \in Nat /\ t = srv[i].currentTerm
      BY <1>6, <2>2, IndexBounds, LeaderLogGrows
    <3>2. CASE srv[i].state = "Leader" /\ n = matchIndex[i][p]
      BY <1>5, <1>6, <2>2, <3>1, <3>2
    <3>3. CASE n = 0
      <4>1. t \in DOMAIN leaderLog'
        BY <1>6, <2>2, RecordLeaderLog
      <4>2. logs'[p].log \in Seq(Entry) /\ leaderLog'[t] \in Seq(Entry)
        BY <1>6, <4>1 DEF TypeInv, TypeOK, LogState, LeaderLogs, Peers
      <4>3. Len(logs'[p].log) \in Nat /\ Len(leaderLog'[t]) \in Nat
        BY <4>2, LenProperties
      <4>4. Agree(logs'[p].log, leaderLog'[t], 0)
        BY <4>3 DEF Agree
      <4>5. 1..0 = {}
        OBVIOUS
      <4>6. Acked(t, p, 0)'
        BY <4>4, <4>5 DEF Acked
      <4> QED
        BY <2>2, <3>1, <3>3, <4>6
    <3>4. ASSUME NEW m \in net, m.type = "AppendEntriesReply", m.success,
                 m.req.from = i, m.req.to = p, Waiting(m.req),
                 srv[i].state = "Leader", n = LastOf(m.req)
          PROVE  Acked(t, p, n)'
      <4>1. m.req.term = t
        BY <3>1, <3>4, FreshReply
      <4> QED
        BY <1>1, <3>4, <4>1
    <3> QED
      BY <1>6, <2>2, <3>1, <3>2, <3>3, <3>4 DEF Shape, IndexStep, LastOf
  <2> QED
    BY <2>1, <2>2
<1>7. MatchesTrue'
  <2> SUFFICES ASSUME NEW j \in Server, srv'[j].state = "Leader",
                      NEW p \in Peers(j)
               PROVE  /\ matchIndex'[j][p] <= Len(logs'[j].log)
                      /\ Acked(srv[j].currentTerm, p, matchIndex[j][p])'
    BY DEF MatchesTrue, Peers
  <2>1. matchIndex'[j][p] <= Len(logs'[j].log)
    BY <1>6
  <2>2. ASSUME NEW t, t = srv'[j].currentTerm, NEW n, n = matchIndex'[j][p]
        PROVE  Acked(t, p, n)'
    BY <1>6, <2>2
  <2>3. Acked(srv[j].currentTerm, p, matchIndex[j][p])'
    BY <2>2 DEF Acked
  <2> QED
    BY <2>1, <2>3
<1> QED
  BY <1>4, <1>7


-----------------------------------------------------------------------------
(* Together *)

\* Every step keeps the invariant.
LEMMA NextLogInv ==
    ASSUME ShortCalls, NoRestarts', TypeInv, TypeInv', ElectionInv,
           ElectionInv', LogInv, HNext
    PROVE  LogInv'
<1>1. Record /\ Next
  BY DEF HNext
<1>2. PICK i \in Server : Shape(i)
  BY <1>1, StepShape
<1>3. LeaderLogs' /\ NodeLogs'
  BY <1>1, <1>2, LogsStep
<1>4. HeldOK' /\ held \subseteq held'
  BY <1>1, <1>2, <1>3, HeldStep
<1>5. CallsOK' /\ NextIndexOK'
  BY <1>1, <1>2, <1>3, CallsStep
<1>6. RepliesTrue' /\ MatchesTrue'
  BY <1>1, <1>2, <1>3, <1>4, AcksStep
<1> QED
  BY <1>3, <1>4, <1>5, <1>6 DEF LogInv

\* It holds of a fresh cluster.
LEMMA InitLogInv == HInit => LogInv
<1> SUFFICES ASSUME HInit PROVE LogInv
  OBVIOUS
<1>1. /\ leaderLog = [t \in {} |-> << >>] /\ held = {} /\ elected = {}
      /\ net = {}
      /\ \A i \in Server : logs[i].log = << >> /\ srv[i].state = "Follower"
  BY DEF HInit, Init
<1>2. DOMAIN leaderLog = {} /\ Len(<< >>) = 0 /\ 1..0 = {}
  BY <1>1
<1>3. LeaderLogs /\ NodeLogs
  BY <1>1, <1>2 DEF LeaderLogs, NodeLogs, FromLeaders, UpTo
<1>4. Calls = {}
  BY <1>1 DEF Calls
<1>5. CallsOK /\ NextIndexOK /\ RepliesTrue /\ MatchesTrue
  BY <1>1, <1>4 DEF CallsOK, NextIndexOK, RepliesTrue, MatchesTrue
<1>6. HeldOK
  BY <1>1, <1>2 DEF HeldOK
<1> QED
  BY <1>3, <1>5, <1>6 DEF LogInv

\* All that is proved so far about a run of the cluster.
ClusterInv == TypeInv /\ ElectionInv /\ LogInv

\* Every step keeps the invariants until a process restarts.
LEMMA NextClusterInv ==
    ASSUME ShortCalls, NoRestarts', TypeInv', ClusterInv, [HNext]_hvars
    PROVE  ClusterInv'
<1> USE DEF ClusterInv
<1>1. CASE HNext
  BY <1>1, NextElectionInv, NextLogInv
<1>2. CASE UNCHANGED hvars
  <2>1. ElectionInv'
    BY <1>2, ElectionInvStutters
  <2>2. LogInv'
    <3> USE <1>2 DEF hvars, vars
    <3>1. LeaderLogs' /\ NodeLogs' /\ NextIndexOK' /\ HeldOK'
      BY DEF LogInv, LeaderLogs, NodeLogs, NextIndexOK, HeldOK, Peers
    <3>2. CallsOK'
      BY DEF LogInv, CallsOK, CallKnown, Calls, Call
    <3>3. RepliesTrue' /\ MatchesTrue'
      BY DEF LogInv, RepliesTrue, MatchesTrue, Acked, Peers
    <3> QED
      BY <3>1, <3>2, <3>3 DEF LogInv
  <2> QED
    BY <2>1, <2>2
<1> QED
  BY <1>1, <1>2

\* They hold of a fresh cluster.
LEMMA InitClusterInv == HInit => ClusterInv
BY InitTypeInv, InitElectionInv, InitLogInv DEF HInit, ClusterInv

\* The invariants hold together until a process restarts.
LEMMA ClusterInvariance ==
    ASSUME ShortCalls
    PROVE  HSpec => [](NoRestarts => ClusterInv)
<1>1. HInit => (NoRestarts => ClusterInv)
  BY InitClusterInv
<1>2. TypeInv /\ TypeInv' /\ (NoRestarts => ClusterInv) /\ [HNext]_hvars
        => (NoRestarts => ClusterInv)'
  <2> SUFFICES ASSUME TypeInv, TypeInv', NoRestarts => ClusterInv,
                      [HNext]_hvars, NoRestarts'
               PROVE  ClusterInv'
    OBVIOUS
  <2>1. ClusterInv
    BY RestartsStay DEF HNext, hvars
  <2> QED
    BY <2>1, NextClusterInv
<1> QED
  BY <1>1, <1>2, HistoryTypeInv, PTL DEF HSpec

\* Log matching: until a process restarts, two logs with an entry of the same
\* term at the same index are equal up to it, if calls are short.  Both stand in
\* the log of that term's only leader, which sent them with what precedes them
\* (checkLogConsistency, appendNewEntries).
THEOREM LogsMatch ==
    ASSUME ShortCalls
    PROVE  HSpec => [](NoRestarts => LogMatching)
<1>1. ClusterInv => LogMatching
  <2> SUFFICES ASSUME ClusterInv, NEW i \in Server, NEW j \in Server,
                      NEW k \in 1..minOf(Len(logs[i].log), Len(logs[j].log)),
                      logs[i].log[k].term = logs[j].log[k].term
               PROVE  SubSeq(logs[i].log, 1, k) = SubSeq(logs[j].log, 1, k)
    BY DEF LogMatching
  <2> DEFINE a == logs[i].log
             b == logs[j].log
  <2>1. /\ a \in Seq(Entry) /\ b \in Seq(Entry)
        /\ FromLeaders(a, leaderLog) /\ FromLeaders(b, leaderLog)
    BY DEF ClusterInv, TypeInv, TypeOK, LogState, LogInv, NodeLogs
  <2>2. Len(a) \in Nat /\ Len(b) \in Nat
    BY <2>1, LenProperties
  <2>3. k \in Nat /\ k \in 1..Len(a) /\ k <= Len(b)
    BY <2>2 DEF minOf
  <2> HIDE DEF a, b
  <2>4. a[k].term = b[k].term
    BY DEF a, b
  <2>5. Agree(a, b, k)
    BY <2>1, <2>2, <2>3, <2>4, SameTermAgree
  <2>6. SubSeq(a, 1, k) = SubSeq(b, 1, k)
    BY <2>1, <2>3, <2>5, AgreePrefix
  <2> QED
    BY <2>6 DEF a, b
<1> QED
  BY <1>1, ClusterInvariance, PTL

\* Until a process restarts a leader believes of a follower only what is true,
\* if calls are short: answers to calls of an earlier leadership are never used,
\* and within a term a follower gives up nothing it confirmed
\* (handleAppendEntriesResponse, appendNewEntries).
THEOREM MatchIndexTrue ==
    ASSUME ShortCalls
    PROVE  HSpec => [](NoRestarts => MatchIndexSound)
<1>1. ClusterInv => MatchIndexSound
  <2> SUFFICES ASSUME ClusterInv, NEW i \in Server, NEW p \in Server, i # p,
                      srv[i].state = "Leader",
                      srv[p].currentTerm = srv[i].currentTerm
               PROVE  /\ matchIndex[i][p] <= minOf(Len(logs[i].log),
                                                   Len(logs[p].log))
                      /\ SubSeq(logs[i].log, 1, matchIndex[i][p])
                           = SubSeq(logs[p].log, 1, matchIndex[i][p])
    BY DEF MatchIndexSound
  <2> DEFINE a == logs[i].log
             b == logs[p].log
             n == matchIndex[i][p]
  <2>1. a \in Seq(Entry) /\ b \in Seq(Entry) /\ n \in Nat
    BY DEF ClusterInv, TypeInv, TypeOK, LogState
  <2>2. p \in Peers(i)
    BY DEF Peers
  <2>3. n <= Len(a) /\ Agree(b, leaderLog[srv[i].currentTerm], n)
    BY <2>2 DEF ClusterInv, LogInv, MatchesTrue, Acked
  <2>4. leaderLog[srv[i].currentTerm] = a
    BY DEF ClusterInv, LogInv, NodeLogs
  <2> HIDE DEF a, b, n
  <2>5. Agree(a, b, n)
    BY <2>3, <2>4, AgreeSym
  <2>6. SubSeq(a, 1, n) = SubSeq(b, 1, n)
    BY <2>1, <2>5, AgreePrefix
  <2>7. n <= minOf(Len(a), Len(b))
    BY <2>5 DEF minOf, Agree
  <2> QED
    BY <2>6, <2>7 DEF a, b, n
<1> QED
  BY <1>1, ClusterInvariance, PTL

=============================================================================
