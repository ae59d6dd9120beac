----------------------------- MODULE MCRaftPay -----------------------------
(***************************************************************************)
(* RaftPay for TLC.                                                        *)
(***************************************************************************)
EXTENDS RaftPay, TLC

\* Transaction ids and nodes are interchangeable.
Symmetry == Permutations(TxnID) \cup Permutations(Server)

\* All but the last answer, for runs whose properties do not look at it.
Unread == <<chosen, raft, applyCh, ledgers, handled, booked, restarts>>

=============================================================================
