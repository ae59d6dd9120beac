-------------------------------- MODULE MCApi --------------------------------
(***************************************************************************)
(* ApiServer for TLC.                                                      *)
(***************************************************************************)
EXTENDS ApiServer, MCRaft

\* An answer that confirms nothing is not worth keeping, nor is the term once
\* the next answer is there, nor is any answer after a restart.
Known ==
    IF NoRestarts
    THEN [status EXCEPT
             !.node = IF status.busy \/ status.commitIndex > 0 THEN @ ELSE None,
             !.term = IF status.busy /\ status.commitIndex > 0 THEN @ ELSE 0]
    ELSE None

ApiView == <<View, reqs, Known>>

=============================================================================
