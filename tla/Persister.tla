------------------------------ MODULE Persister ------------------------------
(***************************************************************************)
(* The files of one node (persistence.go), one file operation at a time.   *)
(* RaftNode takes SaveState and TruncateLog as one step each; here the     *)
(* process may die between any two of the operations they are made of, and *)
(* an operation may fail.  The node logs such a failure and goes on.       *)
(*                                                                         *)
(* A line of log.jsonl is three pieces, the two halves of the entry and    *)
(* the newline, so that a crash can cut it in the middle or right before   *)
(* the newline.  rn.mu is held all through SaveState and TruncateLog, so   *)
(* nothing but a crash comes between their steps.                          *)
(***************************************************************************)
EXTENDS Integers, SequencesExt

CONSTANTS
    Server,      \* the node ids of the cluster
    None,        \* votedFor = "" in the code
    Entry,       \* log entries
    MaxTerm,     \* bound: the highest term
    MaxLogLen,   \* bound: entries in the log
    MaxSpills,   \* bound: times the 64 KB buffer fills up
    MaxFaults,   \* bound: file operations that fail
    MaxCrashes   \* bound: crashes

ASSUME FileAssumption ==
    /\ None \notin Server /\ MaxTerm \in Nat
    /\ MaxLogLen \in Nat /\ MaxSpills \in Nat
    /\ MaxFaults \in Nat /\ MaxCrashes \in Nat

VARIABLES
    mem,      \* the node: (currentTerm, votedFor) and the log
    state,    \* state.json
    temp,     \* state.json.tmp
    file,     \* log.jsonl, as pieces
    buf,      \* logWriter's buffer, as pieces
    open,     \* logFD is an open file
    pc,       \* the file operation that comes next, or "idle"
    history,  \* what the node last relied on, see below
    counts    \* spills, faults and crashes so far

vars == <<mem, state, temp, file, buf, open, pc, history, counts>>

PersistentState == [currentTerm : 0..MaxTerm, votedFor : Server \cup {None}]

\* What the node starts from without a state file.
fresh == [currentTerm |-> 0, votedFor |-> None]

\* A file that was not written to its end.
Cut == [currentTerm |-> -1, votedFor |-> None]

Piece == Entry \X (1..3)

Line(e) == << <<e, 1>>, <<e, 2>>, <<e, 3>> >>

Lines(log) == [k \in 1..(3 * Len(log)) |->
                  <<log[((k - 1) \div 3) + 1], ((k - 1) % 3) + 1>>]

-----------------------------------------------------------------------------
(* Reading the files back: LoadState, LoadLog *)

\* A file the JSON decoder does not accept counts as no file: NewRaftNode
\* starts fresh.
LoadState(f) == IF f = Cut THEN fresh ELSE f

\* Every line is one whole entry; the last one may lack its newline.
Readable(f) ==
    /\ Len(f) % 3 # 1
    /\ \A k \in DOMAIN f : /\ f[k][2] = ((k - 1) % 3) + 1
                           /\ f[k][2] # 1 => f[k][1] = f[k - 1][1]

\* One unreadable line and the whole log is given up.
LoadLog(f) ==
    IF Readable(f) THEN [k \in 1..((Len(f) + 1) \div 3) |-> f[3 * k - 2][1]]
    ELSE << >>

-----------------------------------------------------------------------------

(* history.relied: the pair the node last told others about; history.stored: *)
(* the entries of its log that were at some time whole lines in the file     *)
(* with everything before them; history.old: the log before the last cut.    *)

Init ==
    /\ mem = [pair |-> fresh, log |-> << >>]
    /\ state = fresh /\ temp = fresh
    /\ file = << >> /\ buf = << >> /\ open = TRUE
    /\ pc = "idle"
    /\ history = [relied |-> fresh, stored |-> << >>, old |-> << >>]
    /\ counts = [spills |-> 0, faults |-> 0, crashes |-> 0]

\* An operation may fail, within the bound.
Fault ==
    /\ counts.faults < MaxFaults
    /\ counts' = [counts EXCEPT !.faults = @ + 1]

\* stored after the file became f, with log in memory.
Stored(f, log) ==
    LET whole == {n \in 0..Len(log) :
                     3 * n <= Len(f) /\ SubSeq(f, 1, 3 * n)
                                          = Lines(SubSeq(log, 1, n))}
        n     == Max(whole)
    IN  IF n > Len(history.stored) THEN SubSeq(log, 1, n) ELSE history.stored

-----------------------------------------------------------------------------
(* SaveState *)

\* The node changes currentTerm, which never goes down, or votedFor and calls
\* persist().
persist(p) ==
    /\ pc = "idle" /\ p.currentTerm >= mem.pair.currentTerm
    /\ mem' = [mem EXCEPT !.pair = p]
    /\ pc' = "write temp"
    /\ UNCHANGED <<state, temp, file, buf, open, history, counts>>

\* SaveState has returned, with or without an error: the node goes on to
\* announce its new term or vote.
Returned == /\ pc' = "idle"
            /\ history' = [history EXCEPT !.relied = mem.pair]

\* Mutant: the file is written in place.
WriteInPlace ==
    /\ pc = "write temp"
    /\ \/ state' = Cut /\ pc' = "write temp" /\ UNCHANGED history
       \/ state' = mem.pair /\ Returned
    /\ UNCHANGED <<mem, temp, file, buf, open, counts>>

\* Mutant: the temporary file is put in place although writing it failed.
WriteTempUnchecked ==
    /\ pc = "write temp"
    /\ \/ temp' = Cut /\ UNCHANGED <<pc, counts>>
       \/ temp' = mem.pair /\ pc' = "rename" /\ UNCHANGED counts
       \/ Fault /\ pc' = "rename" /\ UNCHANGED temp
    /\ UNCHANGED <<mem, state, file, buf, open, history>>

\* The temporary file is written; it may be left unfinished.
WriteTemp ==
    /\ pc = "write temp"
    /\ \/ /\ temp' = Cut /\ UNCHANGED <<pc, history, counts>>
       \/ /\ temp' = mem.pair /\ pc' = "rename"
          /\ UNCHANGED <<history, counts>>
       \/ Fault /\ Returned /\ UNCHANGED temp
    /\ UNCHANGED <<mem, state, file, buf, open>>

Rename ==
    /\ pc = "rename"
    /\ \/ state' = temp /\ temp' = fresh /\ UNCHANGED counts
       \/ Fault /\ UNCHANGED <<state, temp>>
    /\ Returned
    /\ UNCHANGED <<mem, file, buf, open>>

-----------------------------------------------------------------------------
(* The log *)

\* The entry goes to the buffer; if that has no open file below it, it gets no
\* further.
AppendLogEntry(e) ==
    /\ pc = "idle" /\ Len(mem.log) < MaxLogLen
    /\ mem' = [mem EXCEPT !.log = Append(@, e)]
    /\ buf' = buf \o Line(e)
    /\ UNCHANGED <<state, temp, file, open, pc, history, counts>>

\* The first n pieces of the buffer reach the file.
Written(n) ==
    /\ file' = file \o SubSeq(buf, 1, n)
    /\ buf' = SubSeq(buf, n + 1, Len(buf))
    /\ history' = [history EXCEPT !.stored = Stored(file', mem.log)]

\* bufio writes its buffer out when it is full, wherever in a line that is.
\* After an error it takes no more.
Spill(n) ==
    /\ pc = "idle" /\ open
    /\ Written(n)
    /\ \/ /\ counts.spills < MaxSpills
          /\ counts' = [counts EXCEPT !.spills = @ + 1]
          /\ UNCHANGED open
       \/ Fault /\ open' = FALSE
    /\ UNCHANGED <<mem, state, temp, pc>>

\* appendNewEntries cuts the log behind n and calls TruncateLog, which writes
\* out what is buffered, does not look at the result and closes the file.
TruncateLog(n) ==
    /\ pc = "idle" /\ n < Len(mem.log)
    /\ mem' = [mem EXCEPT !.log = SubSeq(@, 1, n)]
    /\ \/ /\ file' = IF open THEN file \o buf ELSE file
          /\ UNCHANGED counts
       \/ /\ open /\ Fault
          /\ \E k \in 0..Len(buf) : file' = file \o SubSeq(buf, 1, k)
    /\ buf' = << >>
    /\ open' = FALSE /\ pc' = "remove"
    /\ history' = [history EXCEPT
          !.old    = mem.log,
          !.stored = SubSeq(Stored(file', mem.log), 1,
                            Min({n, Len(Stored(file', mem.log))}))]
    /\ UNCHANGED <<state, temp>>

\* The result of os.Remove is not looked at.
RemoveFile ==
    /\ pc = "remove" /\ pc' = "reopen"
    /\ \/ file' = << >> /\ UNCHANGED counts
       \/ Fault /\ UNCHANGED file
    /\ UNCHANGED <<mem, state, temp, buf, open, history>>

\* Mutants: the log is written back with what was cut off, or without its last
\* entry.
ReopenOld ==
    /\ pc = "reopen"
    /\ open' = TRUE /\ buf' = Lines(history.old) /\ pc' = "flush"
    /\ UNCHANGED <<mem, state, temp, file, history, counts>>

ReopenShort ==
    /\ pc = "reopen"
    /\ open' = TRUE /\ pc' = "flush"
    /\ buf' = Lines(SubSeq(mem.log, 1, Len(mem.log) - 1))
    /\ UNCHANGED <<mem, state, temp, file, history, counts>>

\* Without the file TruncateLog gives up; the writer stays on the closed one.
Reopen ==
    /\ pc = "reopen"
    /\ \/ /\ open' = TRUE /\ buf' = Lines(mem.log) /\ pc' = "flush"
          /\ UNCHANGED counts
       \/ /\ Fault /\ pc' = "idle" /\ UNCHANGED <<open, buf>>
    /\ UNCHANGED <<mem, state, temp, file, history>>

\* The kept entries are written back, all of them or, if that fails, some.
Flush ==
    /\ pc = "flush" /\ pc' = "idle"
    /\ \/ Written(Len(buf)) /\ UNCHANGED <<open, counts>>
       \/ /\ Fault /\ open' = FALSE
          /\ \E n \in 0..Len(buf) : Written(n)
    /\ UNCHANGED <<mem, state, temp>>

-----------------------------------------------------------------------------

\* The process dies, in the middle of Flush too, and the next one reads the
\* files.  The log file is opened for appending as it is; if that fails the log
\* is kept in memory only.
Crash ==
    /\ counts.crashes < MaxCrashes
    /\ \E n \in 0..(IF pc = "flush" THEN Len(buf) ELSE 0) :
          file' = file \o SubSeq(buf, 1, n)
    /\ mem' = [pair |-> LoadState(state), log |-> LoadLog(file')]
    /\ buf' = << >> /\ pc' = "idle"
    /\ \/ open' = TRUE
          /\ counts' = [counts EXCEPT !.crashes = @ + 1]
       \/ /\ open' = FALSE /\ counts.faults < MaxFaults
          /\ counts' = [counts EXCEPT !.crashes = @ + 1, !.faults = @ + 1]
    /\ history' = [relied |-> mem'.pair, stored |-> mem'.log, old |-> << >>]
    /\ UNCHANGED <<state, temp>>

Next ==
    \/ \E p \in PersistentState : persist(p)
    \/ WriteTemp \/ Rename
    \/ \E e \in Entry : AppendLogEntry(e)
    \/ \E n \in 1..Len(buf) : Spill(n)
    \/ \E n \in 0..MaxLogLen : TruncateLog(n)
    \/ RemoveFile \/ Reopen \/ Flush
    \/ Crash

Spec == Init /\ [][Next]_vars

-----------------------------------------------------------------------------

\* Every file operation so far has succeeded.
NoFaults == counts.faults = 0

\* A new process would start from the term and vote the node last told others
\* about, or from those it is just saving: never from half a file and never
\* from an older pair (SaveState).  A failed operation is only logged, so this
\* ends with the first one.
VoteIsDurable ==
    NoFaults =>
    /\ LoadState(state) \in {history.relied, mem.pair}
    /\ pc = "idle" => LoadState(state) = mem.pair

\* Whatever fails and whenever the process dies, the term in the state file
\* never goes back: no file is left half written and no leftover temporary file
\* is put in place of a newer one (SaveState).
SavedTermNeverRegresses ==
    [][LoadState(state').currentTerm >= LoadState(state).currentTerm]_vars

\* A new process would start from a log this node has had: a beginning of its
\* log or, while the log is being cut, of the log before (AppendLogEntry,
\* TruncateLog).  It ends, too, with the first operation that fails: os.Remove's
\* result is not looked at.
RecoversOwnLog ==
    NoFaults =>
    \/ IsPrefix(LoadLog(file), mem.log)
    \/ pc # "idle" /\ IsPrefix(LoadLog(file), history.old)

\* A crash costs only what had not reached the disk: entries that were once in
\* the file, and that the node still counts on, are there after a restart.  Two
\* conditions are the code's: a crash must not cut a line (LoadLog gives up on
\* the whole file) and not come in the middle of TruncateLog.
OnlyTheBufferIsLost ==
    NoFaults /\ Readable(file) /\ pc = "idle"
        => IsPrefix(history.stored, LoadLog(file))

=============================================================================
