--------------------------- MODULE ReplicatedLog ---------------------------
(***************************************************************************)
(* What the consensus layer promises the ledger: one sequence of commands  *)
(* that only ever grows, of which every node's applyCh carries a prefix,   *)
(* in order and without gaps or repetitions, from the start in each        *)
(* process.                                                                *)
(***************************************************************************)
EXTENDS Naturals, SequencesExt

CONSTANT Server

VARIABLES
    chosen,     \* the commands decided so far
    delivered   \* per node: what its applyCh carried in this process

Init ==
    /\ chosen = << >>
    /\ delivered = [i \in Server |-> << >>]

\* Commands may be decided, and one node delivers decided ones it had not
\* delivered.
Deliver(i) ==
    /\ IsPrefix(chosen, chosen')
    /\ \E n \in Len(delivered[i])..Len(chosen') :
          delivered' = [delivered EXCEPT ![i] = SubSeq(chosen', 1, n)]

Restart(i) ==
    /\ delivered' = [delivered EXCEPT ![i] = << >>]
    /\ UNCHANGED chosen

Next == \E i \in Server : Deliver(i) \/ Restart(i)

Spec == Init /\ [][Next]_<<chosen, delivered>>

=============================================================================
