------------------------------- MODULE MCRaft -------------------------------
(***************************************************************************)
(* RaftHistory for TLC.                                                    *)
(***************************************************************************)
EXTENDS RaftHistory, MCRaftNode

\* The nodes and the history the properties read; no run that uses it checks a
\* property of votes, leaderLog or held.
View == <<NodeView, elected, committedLog>>

=============================================================================
