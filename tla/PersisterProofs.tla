--------------------------- MODULE PersisterProofs ---------------------------
(***************************************************************************)
(* What the files of one node hold whenever the process may die, for every *)
(* set of entries and every bound, and for any number of crashes.          *)
(*                                                                         *)
(* Term and vote: the state file is whole, it holds what the node has told *)
(* others, and temp holds the node's pair when it is put in place.         *)
(* The log: at every point of writing the buffer out, what could be read   *)
(* back is a beginning of the node's log; that holds of a file with a cut  *)
(* line too, which nothing written behind it makes readable again.         *)
(***************************************************************************)
EXTENDS Persister, SequenceTheorems, WellFoundedInduction, TLAPS

-----------------------------------------------------------------------------
(* Natural numbers *)

\* Less-than, as a relation the provers can expand.
LessThan == {ss \in Nat \X Nat : ss[1] < ss[2]}

LEMMA LessThanWellFounded == IsWellFoundedOn(LessThan, Nat)
<1>1. OpToRel(<, Nat) = LessThan  BY DEF OpToRel, LessThan
<1> QED  BY <1>1, NatLessThanWellFounded

\* A non-empty bounded set of naturals has its Max.
LEMMA MaxOf ==
    ASSUME NEW N \in Nat, NEW C, C \subseteq 0..N, C # {}
    PROVE  Max(C) \in C
<1> DEFINE D == {d \in Nat : \E k \in C : d = N - k}
<1>1. D # {} /\ D \subseteq Nat
  <2>1. PICK k \in C : TRUE  OBVIOUS
  <2>2. N - k \in D  BY <2>1
  <2> QED  BY <2>2
<1>2. PICK d \in D : \A e \in D : ~(<<e, d>> \in LessThan)
  <2> HIDE DEF D
  <2> QED  BY <1>1, LessThanWellFounded, WFMin
<1>3. PICK k \in C : d = N - k  OBVIOUS
<1>4. ASSUME NEW j \in C PROVE k >= j
  <2>1. N - j \in D  OBVIOUS
  <2>2. ~(<<N - j, d>>[1] < <<N - j, d>>[2])
    BY <1>2, <2>1, <<N - j, d>> \in Nat \X Nat, Zenon DEF LessThan
  <2> QED  BY <1>3, <2>2
<1>5. \E x \in C : \A y \in C : x >= y  BY <1>4
<1> QED  BY <1>5 DEF Max

\* The smaller of two naturals.
LEMMA MinOf ==
    ASSUME NEW a \in Nat, NEW b \in Nat
    PROVE  Min({a, b}) \in Nat /\ Min({a, b}) <= a /\ Min({a, b}) <= b
<1>1. \E x \in {a, b} : \A y \in {a, b} : x <= y
  <2>1. a <= b \/ b <= a  OBVIOUS
  <2> QED  BY <2>1
<1> QED  BY <1>1 DEF Min

-----------------------------------------------------------------------------
(* Lines *)

\* Where the pieces of a line are: piece k is number ((k - 1) % 3) + 1 of entry
\* ((k - 1) \div 3) + 1.
LEMMA WhichLine ==
    ASSUME NEW n \in Nat, NEW k \in 1..(3 * n)
    PROVE  /\ ((k - 1) \div 3) + 1 \in 1..n /\ ((k - 1) % 3) + 1 \in 1..3
           /\ k = 3 * ((((k - 1) \div 3) + 1) - 1) + (((k - 1) % 3) + 1)
OBVIOUS

\* A position given by its line q and its place r within it.
LEMMA PieceAt ==
    ASSUME NEW q \in Nat, NEW r \in 1..3
    PROVE  /\ ((3 * q + r - 1) % 3) + 1 = r
           /\ (3 * q + r - 1) \div 3 = q
OBVIOUS

LEMMA LineType ==
    ASSUME NEW e \in Entry
    PROVE  /\ Line(e) \in Seq(Piece) /\ Len(Line(e)) = 3
           /\ \A r \in 1..3 : Line(e)[r] = <<e, r>>
BY DEF Line, Piece

LEMMA LinesType ==
    ASSUME NEW log \in Seq(Entry)
    PROVE  /\ Lines(log) \in Seq(Piece) /\ Len(Lines(log)) = 3 * Len(log)
           /\ \A q \in 1..Len(log), r \in 1..3 :
                 Lines(log)[3 * (q - 1) + r] = <<log[q], r>>
<1>1. Len(log) \in Nat /\ 3 * Len(log) \in Nat  OBVIOUS
<1>2. \A k \in 1..(3 * Len(log)) :
         <<log[((k - 1) \div 3) + 1], ((k - 1) % 3) + 1>> \in Piece
  <2> SUFFICES ASSUME NEW k \in 1..(3 * Len(log))
               PROVE  <<log[((k - 1) \div 3) + 1], ((k - 1) % 3) + 1>> \in Piece
    OBVIOUS
  <2>1. ((k - 1) \div 3) + 1 \in 1..Len(log) /\ ((k - 1) % 3) + 1 \in 1..3
    BY <1>1
  <2> QED  BY <2>1, ElementOfSeq DEF Piece
<1>3. Lines(log) \in Seq(Piece) /\ Len(Lines(log)) = 3 * Len(log)
  BY <1>1, <1>2, IsASeq DEF Lines
<1>4. ASSUME NEW q \in 1..Len(log), NEW r \in 1..3
      PROVE  Lines(log)[3 * (q - 1) + r] = <<log[q], r>>
  <2> DEFINE k == 3 * (q - 1) + r
  <2>1. k \in 1..(3 * Len(log))  BY <1>1
  <2>2. ((k - 1) % 3) + 1 = r /\ (k - 1) \div 3 = q - 1
    BY PieceAt
  <2>3. ((k - 1) \div 3) + 1 = q  BY <2>2
  <2> QED  BY <2>1, <2>2, <2>3 DEF Lines
<1> QED  BY <1>3, <1>4

\* What LoadLog returns is a log, one entry for each line of which at most the
\* newline is missing.
LEMMA LoadLogType ==
    ASSUME NEW f \in Seq(Piece)
    PROVE  /\ LoadLog(f) \in Seq(Entry)
           /\ Readable(f) => /\ Len(LoadLog(f)) = (Len(f) + 1) \div 3
                             /\ \A q \in 1..Len(LoadLog(f)) :
                                   LoadLog(f)[q] = f[3 * q - 2][1]
           /\ ~Readable(f) => LoadLog(f) = << >>
<1>1. (Len(f) + 1) \div 3 \in Nat  OBVIOUS
<1>2. \A q \in 1..((Len(f) + 1) \div 3) : f[3 * q - 2][1] \in Entry
  <2> SUFFICES ASSUME NEW q \in 1..((Len(f) + 1) \div 3)
               PROVE  f[3 * q - 2][1] \in Entry
    OBVIOUS
  <2>1. 3 * q - 2 \in 1..Len(f)  OBVIOUS
  <2>2. f[3 * q - 2] \in Piece  BY <2>1, ElementOfSeq
  <2> QED  BY <2>2 DEF Piece
<1> DEFINE l == [q \in 1..((Len(f) + 1) \div 3) |-> f[3 * q - 2][1]]
<1>3. l \in Seq(Entry) /\ Len(l) = (Len(f) + 1) \div 3
  BY <1>1, <1>2, IsASeq
<1>4. Readable(f) => LoadLog(f) = l  BY DEF LoadLog
<1>5. ~Readable(f) => LoadLog(f) = << >>  BY DEF LoadLog
<1>6. \A q \in 1..Len(l) : l[q] = f[3 * q - 2][1]  BY <1>3
<1>7. << >> \in Seq(Entry)  OBVIOUS
<1> HIDE DEF l
<1> QED  BY <1>3, <1>4, <1>5, <1>6, <1>7, Zenon

\* From an empty file comes an empty log.
LEMMA LoadNothing == LoadLog(<< >>) = << >>
<1>1. << >> \in Seq(Piece) /\ Len(<< >>) = 0  OBVIOUS
<1>2. CASE ~Readable(<< >>)  BY <1>1, <1>2, LoadLogType
<1>3. CASE Readable(<< >>)
  <2>1. LoadLog(<< >>) \in Seq(Entry) /\ Len(LoadLog(<< >>)) = (0 + 1) \div 3
    BY <1>1, <1>3, LoadLogType
  <2>2. (0 + 1) \div 3 = 0  OBVIOUS
  <2> QED  BY <2>1, <2>2, EmptySeq
<1> QED  BY <1>2, <1>3

\* stored becomes a beginning of the log whose lines the file begins with, or
\* stays.
LEMMA StoredIs ==
    ASSUME NEW f \in Seq(Piece), NEW log \in Seq(Entry)
    PROVE  \/ Stored(f, log) = history.stored
           \/ \E n \in 0..Len(log) :
                 /\ Stored(f, log) = SubSeq(log, 1, n)
                 /\ 3 * n <= Len(f)
                 /\ SubSeq(f, 1, 3 * n) = Lines(SubSeq(log, 1, n))
<1> DEFINE whole == {n \in 0..Len(log) :
                        3 * n <= Len(f) /\ SubSeq(f, 1, 3 * n)
                                             = Lines(SubSeq(log, 1, n))}
<1>1. 0 \in whole
  <2>1. SubSeq(f, 1, 3 * 0) = << >> /\ SubSeq(log, 1, 0) = << >>
    OBVIOUS
  <2>2. Lines(<< >>) = << >>
    <3>1. << >> \in Seq(Entry) /\ Len(<< >>) = 0  OBVIOUS
    <3>2. Lines(<< >>) \in Seq(Piece) /\ Len(Lines(<< >>)) = 3 * 0
      BY <3>1, LinesType
    <3> QED  BY <3>2, EmptySeq
  <2>3. 0 \in 0..Len(log) /\ 3 * 0 <= Len(f)  OBVIOUS
  <2> QED  BY <2>1, <2>2, <2>3
<1>2. Max(whole) \in whole
  <2>1. Len(log) \in Nat /\ whole \subseteq 0..Len(log)  OBVIOUS
  <2> HIDE DEF whole
  <2> QED  BY <1>1, <2>1, MaxOf
<1>3. Stored(f, log) = IF Max(whole) > Len(history.stored)
                       THEN SubSeq(log, 1, Max(whole)) ELSE history.stored
  BY DEF Stored
<1>4. PICK n : n = Max(whole)  OBVIOUS
<1>5. /\ n \in 0..Len(log) /\ 3 * n <= Len(f)
      /\ SubSeq(f, 1, 3 * n) = Lines(SubSeq(log, 1, n))
  BY <1>2, <1>4
<1> QED  BY <1>3, <1>4, <1>5

-----------------------------------------------------------------------------
(* Types *)

FilesType ==
    /\ mem \in [pair : PersistentState, log : Seq(Entry)]
    /\ state \in PersistentState /\ temp \in PersistentState \cup {Cut}
    /\ file \in Seq(Piece) /\ buf \in Seq(Piece)
    /\ history \in [relied : PersistentState, stored : Seq(Entry),
                    old : Seq(Entry)]
    /\ counts \in [spills : Nat, faults : Nat, crashes : Nat]
    /\ pc = "rename" => temp = mem.pair

\* The fields one by one.
LEMMA FileFields ==
    ASSUME FilesType
    PROVE  /\ mem.pair \in PersistentState /\ mem.log \in Seq(Entry)
           /\ history.relied \in PersistentState
           /\ history.stored \in Seq(Entry) /\ history.old \in Seq(Entry)
           /\ counts.faults \in Nat /\ file \in Seq(Piece) /\ buf \in Seq(Piece)
           /\ state \in PersistentState
BY DEF FilesType

\* A part of a sequence.
LEMMA PartType ==
    ASSUME NEW S, NEW s \in Seq(S), NEW a \in Nat \ {0}, NEW b \in 0..Len(s)
    PROVE  SubSeq(s, a, b) \in Seq(S)
<1>1. \A k \in a..b : s[k] \in S  BY ElementOfSeq, LenProperties
<1> QED  BY <1>1, SubSeqProperties

LEMMA StoredType ==
    ASSUME FilesType, NEW f \in Seq(Piece), NEW log \in Seq(Entry)
    PROVE  Stored(f, log) \in Seq(Entry)
<1>1. CASE Stored(f, log) = history.stored  BY <1>1, FileFields
<1>2. CASE \E n \in 0..Len(log) : Stored(f, log) = SubSeq(log, 1, n)
  BY <1>2, PartType
<1> QED  BY <1>1, <1>2, StoredIs

\* A fault counts one more; it ends NoFaults.
LEMMA FaultCounts ==
    ASSUME FilesType, Fault
    PROVE  /\ counts' \in [spills : Nat, faults : Nat, crashes : Nat]
           /\ ~NoFaults'
<1>1. counts' = [counts EXCEPT !.faults = counts.faults + 1]
      /\ counts \in [spills : Nat, faults : Nat, crashes : Nat]
  BY DEF Fault, FilesType
<1>2. counts'.faults = counts.faults + 1 /\ counts.faults \in Nat
  BY <1>1
<1> QED  BY <1>1, <1>2 DEF NoFaults

\* n pieces of the buffer reach the file.
LEMMA WrittenType ==
    ASSUME FilesType, NEW n \in 0..Len(buf), Written(n)
    PROVE  /\ file' \in Seq(Piece) /\ buf' \in Seq(Piece)
           /\ history' \in [relied : PersistentState, stored : Seq(Entry),
                            old : Seq(Entry)]
           /\ history'.relied = history.relied /\ history'.old = history.old
           /\ history'.stored = Stored(file', mem.log)
<1>1. SubSeq(buf, 1, n) \in Seq(Piece)
  BY FileFields, PartType
<1>2. SubSeq(buf, n + 1, Len(buf)) \in Seq(Piece)
  BY FileFields, PartType
<1>3. file' \in Seq(Piece)
  BY <1>1, FileFields, ConcatProperties DEF Written
<1>4. Stored(file', mem.log) \in Seq(Entry)
  BY <1>3, FileFields, StoredType
<1> QED  BY <1>2, <1>3, <1>4 DEF Written, FilesType

LEMMA InitFiles == Init => FilesType
<1>1. fresh \in PersistentState
  BY FileAssumption DEF fresh, PersistentState
<1> QED  BY <1>1 DEF Init, FilesType

LEMMA FilesStutter == ASSUME FilesType, UNCHANGED vars PROVE FilesType'
BY DEF FilesType, vars

LEMMA SaveStateType ==
    ASSUME FilesType,
           (\E p \in PersistentState : persist(p)) \/ WriteTemp \/ Rename
    PROVE  FilesType'
<1>1. ASSUME NEW p \in PersistentState, persist(p) PROVE FilesType'
  BY <1>1 DEF persist, FilesType
<1>2. ASSUME Returned
      PROVE  history' \in [relied : PersistentState, stored : Seq(Entry),
                           old : Seq(Entry)]
  <2>1. history' = [history EXCEPT !.relied = mem.pair]
    BY <1>2 DEF Returned
  <2> QED  BY <2>1 DEF FilesType
<1>3. CASE WriteTemp
  <2>1. history' \in [relied : PersistentState, stored : Seq(Entry),
                      old : Seq(Entry)]
    BY <1>2, <1>3 DEF WriteTemp, FilesType
  <2>2. counts' \in [spills : Nat, faults : Nat, crashes : Nat]
    BY <1>3, FaultCounts DEF WriteTemp, FilesType
  <2>3. temp' \in PersistentState \cup {Cut}
    BY <1>3, FileFields DEF WriteTemp, FilesType
  <2>4. pc' = "rename" => temp' = mem.pair
    BY <1>3 DEF WriteTemp, Returned, FilesType
  <2>5. UNCHANGED <<mem, state, file, buf>>  BY <1>3 DEF WriteTemp
  <2> QED  BY <2>1, <2>2, <2>3, <2>4, <2>5 DEF FilesType
<1>4. CASE Rename
  <2>1. Returned /\ UNCHANGED <<mem, file, buf>>  BY <1>4 DEF Rename
  <2>2. history' \in [relied : PersistentState, stored : Seq(Entry),
                      old : Seq(Entry)]
    BY <1>2, <2>1
  <2>3. counts' \in [spills : Nat, faults : Nat, crashes : Nat]
    BY <1>4, FaultCounts DEF Rename, FilesType
  <2>4. fresh \in PersistentState
    BY FileAssumption DEF fresh, PersistentState
  <2>5. state' \in PersistentState /\ temp' \in PersistentState \cup {Cut}
    BY <1>4, <2>4, FileFields DEF Rename, FilesType
  <2>6. pc' = "idle"  BY <2>1 DEF Returned
  <2> QED  BY <2>1, <2>2, <2>3, <2>5, <2>6 DEF FilesType
<1> QED  BY <1>1, <1>3, <1>4

LEMMA AppendType ==
    ASSUME FilesType, NEW e \in Entry, AppendLogEntry(e)
    PROVE  /\ FilesType'
           /\ mem'.pair = mem.pair /\ mem'.log = Append(mem.log, e)
<1>1. buf' \in Seq(Piece)
  BY LineType, FileFields, ConcatProperties DEF AppendLogEntry
<1>2. Append(mem.log, e) \in Seq(Entry)  BY FileFields
<1>3. mem' \in [pair : PersistentState, log : Seq(Entry)]
      /\ mem'.pair = mem.pair /\ mem'.log = Append(mem.log, e)
  BY <1>2 DEF AppendLogEntry, FilesType
<1> QED  BY <1>1, <1>3 DEF AppendLogEntry, FilesType

LEMMA SpillType ==
    ASSUME FilesType, NEW n \in 1..Len(buf), Spill(n)
    PROVE  FilesType'
<1>1. n \in 0..Len(buf)  BY FileFields
<1>2. counts' \in [spills : Nat, faults : Nat, crashes : Nat]
  <2>1. CASE Fault  BY <2>1, FaultCounts
  <2>2. CASE counts' = [counts EXCEPT !.spills = @ + 1]
    <3>1. counts \in [spills : Nat, faults : Nat, crashes : Nat]
      BY DEF FilesType
    <3> QED  BY <2>2, <3>1
  <2> QED  BY <2>1, <2>2 DEF Spill
<1> QED  BY <1>1, <1>2, WrittenType DEF Spill, FilesType

LEMMA TruncateType ==
    ASSUME FilesType, NEW n \in 0..MaxLogLen, TruncateLog(n)
    PROVE  /\ FilesType'
           /\ mem'.pair = mem.pair /\ mem'.log = SubSeq(mem.log, 1, n)
           /\ history'.relied = history.relied /\ history'.old = mem.log
           /\ \E k \in Nat : /\ k <= n /\ k <= Len(Stored(file', mem.log))
                             /\ history'.stored
                                   = SubSeq(Stored(file', mem.log), 1, k)
<1>1. n \in 0..Len(mem.log) /\ SubSeq(mem.log, 1, n) \in Seq(Entry)
  <2>1. n \in Nat /\ n < Len(mem.log)
    BY FileAssumption DEF TruncateLog
  <2>2. n \in 0..Len(mem.log)  BY <2>1, FileFields
  <2> QED  BY <2>2, FileFields, PartType
<1>2. mem' \in [pair : PersistentState, log : Seq(Entry)]
      /\ mem'.pair = mem.pair /\ mem'.log = SubSeq(mem.log, 1, n)
  BY <1>1 DEF TruncateLog, FilesType
<1>3. file' \in Seq(Piece)
  <2>1. CASE file' = file \/ file' = file \o buf
    BY <2>1, FileFields, ConcatProperties
  <2>2. CASE \E k \in 0..Len(buf) : file' = file \o SubSeq(buf, 1, k)
    BY <2>2, FileFields, PartType, ConcatProperties
  <2> QED  BY <2>1, <2>2 DEF TruncateLog
<1>4. PICK s \in Seq(Entry) : s = Stored(file', mem.log)
  BY <1>3, FileFields, StoredType
<1>5. Len(s) \in Nat  OBVIOUS
<1>6. PICK k \in Nat : k = Min({n, Len(s)}) /\ k <= n /\ k <= Len(s)
  BY <1>1, <1>5, MinOf
<1>7. SubSeq(s, 1, k) \in Seq(Entry)
  <2>1. k \in 0..Len(s) /\ 1 \in Nat \ {0}  BY <1>5, <1>6
  <2> QED  BY <2>1, PartType
<1>8. /\ history' \in [relied : PersistentState, stored : Seq(Entry),
                       old : Seq(Entry)]
      /\ history'.relied = history.relied /\ history'.old = mem.log
      /\ history'.stored = SubSeq(s, 1, k)
  <2>1. history' = [history EXCEPT !.old = mem.log,
                                   !.stored = SubSeq(s, 1, k)]
    BY <1>4, <1>6 DEF TruncateLog
  <2> QED  BY <2>1, <1>7, FileFields DEF FilesType
<1>9. counts' \in [spills : Nat, faults : Nat, crashes : Nat]
  BY FaultCounts DEF TruncateLog, FilesType
<1>10. FilesType'
  BY <1>2, <1>3, <1>8, <1>9 DEF TruncateLog, FilesType
<1> QED  BY <1>2, <1>4, <1>6, <1>8, <1>10

LEMMA RewriteType ==
    ASSUME FilesType, RemoveFile \/ Reopen \/ Flush
    PROVE  FilesType' /\ history'.relied = history.relied
<1>1. counts' \in [spills : Nat, faults : Nat, crashes : Nat]
  <2>1. UNCHANGED counts \/ Fault  BY DEF RemoveFile, Reopen, Flush
  <2> QED  BY <2>1, FaultCounts DEF FilesType
<1>2. CASE RemoveFile
  <2>1. << >> \in Seq(Piece)  OBVIOUS
  <2>2. file' \in Seq(Piece)  BY <1>2, <2>1, FileFields DEF RemoveFile
  <2>3. UNCHANGED <<mem, state, temp, buf, history>> /\ pc' = "reopen"
    BY <1>2 DEF RemoveFile
  <2> QED  BY <1>1, <2>2, <2>3 DEF FilesType
<1>3. CASE Reopen
  <2>1. buf' \in Seq(Piece)
    BY <1>3, LinesType, FileFields DEF Reopen
  <2> QED  BY <1>1, <1>3, <2>1 DEF Reopen, FilesType
<1>4. CASE Flush
  <2>1. Len(buf) \in 0..Len(buf)  BY FileFields
  <2>2. \E n \in 0..Len(buf) : Written(n)  BY <1>4, <2>1 DEF Flush
  <2> QED  BY <1>1, <1>4, <2>2, WrittenType DEF Flush, FilesType
<1> QED  BY <1>2, <1>3, <1>4

LEMMA CrashType ==
    ASSUME FilesType, Crash
    PROVE  /\ FilesType'
           /\ mem'.pair = LoadState(state) /\ mem'.log = LoadLog(file')
           /\ history'.relied = mem'.pair /\ history'.stored = mem'.log
<1>1. PICK n \in 0..(IF pc = "flush" THEN Len(buf) ELSE 0) :
         file' = file \o SubSeq(buf, 1, n)
  BY DEF Crash
<1>2. n \in 0..Len(buf)  BY <1>1, FileFields
<1>3. file' \in Seq(Piece)
  BY <1>1, <1>2, FileFields, PartType, ConcatProperties
<1>4. LoadLog(file') \in Seq(Entry)  BY <1>3, LoadLogType
<1>5. LoadState(state) \in PersistentState
  BY FileFields, FileAssumption DEF LoadState, fresh, PersistentState
<1>6. << >> \in Seq(Piece) /\ << >> \in Seq(Entry)  OBVIOUS
<1>7. mem' \in [pair : PersistentState, log : Seq(Entry)]
      /\ mem'.pair = LoadState(state) /\ mem'.log = LoadLog(file')
  BY <1>4, <1>5 DEF Crash
<1>8. /\ history' \in [relied : PersistentState, stored : Seq(Entry),
                       old : Seq(Entry)]
      /\ history'.relied = mem'.pair /\ history'.stored = mem'.log
  BY <1>4, <1>5, <1>6, <1>7 DEF Crash
<1>9. counts' \in [spills : Nat, faults : Nat, crashes : Nat]
  <2>1. counts \in [spills : Nat, faults : Nat, crashes : Nat]
    BY DEF FilesType
  <2>2. CASE counts' = [counts EXCEPT !.crashes = @ + 1]
    BY <2>1, <2>2
  <2>3. CASE counts' = [counts EXCEPT !.crashes = @ + 1, !.faults = @ + 1]
    <3>1. counts.crashes + 1 \in Nat /\ counts.faults + 1 \in Nat
      BY <2>1
    <3>2. counts' = [counts EXCEPT !.crashes = counts.crashes + 1,
                                   !.faults  = counts.faults + 1]
      BY <2>1, <2>3
    <3> QED  BY <2>1, <3>1, <3>2
  <2> QED  BY <2>2, <2>3 DEF Crash
<1> QED  BY <1>3, <1>6, <1>7, <1>8, <1>9 DEF Crash, FilesType

LEMMA NextKeepsFiles == ASSUME FilesType, Next PROVE FilesType'
BY SaveStateType, AppendType, SpillType, TruncateType, RewriteType, CrashType
   DEF Next

-----------------------------------------------------------------------------
(* Term and vote *)

Saving == pc \in {"write temp", "rename"}

\* The state file is never ahead of the node.  Without faults it holds what the
\* node has told others, which is what the node holds unless it is just saving.
StateFileCurrent ==
    /\ state.currentTerm <= mem.pair.currentTerm
    /\ NoFaults => /\ state = history.relied
                   /\ ~Saving => mem.pair = history.relied

\* A whole file is what the next process starts from.
LEMMA WholeLoads ==
    ASSUME NEW f \in PersistentState
    PROVE  LoadState(f) = f /\ f.currentTerm \in Nat
<1>1. f # Cut  BY FileAssumption DEF PersistentState, Cut
<1> QED  BY <1>1, FileAssumption DEF LoadState, PersistentState

LEMMA InitPair == Init => StateFileCurrent
BY FileAssumption
   DEF Init, StateFileCurrent, fresh, Saving, NoFaults

LEMMA PairStutters ==
    ASSUME StateFileCurrent, UNCHANGED vars PROVE StateFileCurrent'
BY DEF StateFileCurrent, Saving, NoFaults, vars

\* A step of the log's operations: term, vote and their files stay.
LEMMA LogStepKeepsPair ==
    ASSUME StateFileCurrent, UNCHANGED state, ~Saving, ~Saving',
           mem'.pair = mem.pair, history'.relied = history.relied,
           NoFaults' => NoFaults
    PROVE  StateFileCurrent'
BY DEF StateFileCurrent

\* Faults are never forgotten.
LEMMA FaultsStay == ASSUME FilesType, Next, NoFaults' PROVE NoFaults
<1>1. CASE counts' = counts  BY <1>1 DEF NoFaults
<1>2. CASE Fault  BY <1>2, FaultCounts
<1>3. counts \in [spills : Nat, faults : Nat, crashes : Nat]
  BY DEF FilesType
<1>4. CASE counts' = [counts EXCEPT !.spills = @ + 1]
  BY <1>3, <1>4 DEF NoFaults
<1>5. CASE counts' = [counts EXCEPT !.crashes = @ + 1]
  BY <1>3, <1>5 DEF NoFaults
<1>6. CASE counts' = [counts EXCEPT !.crashes = @ + 1, !.faults = @ + 1]
  <2>1. counts'.faults = counts.faults + 1 /\ counts.faults \in Nat
    BY <1>3, <1>6
  <2> QED  BY <2>1 DEF NoFaults
<1> QED
  BY <1>1, <1>2, <1>4, <1>5, <1>6
     DEF Next, persist, WriteTemp, Rename, AppendLogEntry, Spill, TruncateLog,
         RemoveFile, Reopen, Flush, Crash

LEMMA NextKeepsPair ==
    ASSUME FilesType, StateFileCurrent, Next PROVE StateFileCurrent'
<1>1. FilesType' /\ (NoFaults' => NoFaults)
  BY NextKeepsFiles, FaultsStay
<1>2. ASSUME NEW p \in PersistentState, persist(p) PROVE StateFileCurrent'
  <2>1. mem'.pair = p /\ p.currentTerm >= mem.pair.currentTerm
    BY <1>2 DEF persist, FilesType
  <2>2. p.currentTerm \in Nat /\ mem.pair.currentTerm \in Nat
        /\ state.currentTerm \in Nat
    BY FileFields, WholeLoads
  <2>3. UNCHANGED <<state, history, counts>> /\ pc = "idle" /\ Saving'
    BY <1>2 DEF persist, Saving
  <2>4. state.currentTerm <= p.currentTerm
    BY <2>1, <2>2 DEF StateFileCurrent
  <2> QED
    BY <2>1, <2>3, <2>4 DEF StateFileCurrent, NoFaults
<1>3. CASE WriteTemp
  <2>1. UNCHANGED <<state, mem>> /\ Saving  BY <1>3 DEF WriteTemp, Saving
  <2>2. CASE UNCHANGED <<history, counts>> /\ Saving'
    BY <2>1, <2>2 DEF StateFileCurrent, NoFaults
  <2>3. CASE Fault  BY <2>1, <2>3, FaultCounts DEF StateFileCurrent
  <2> QED  BY <1>3, <2>2, <2>3 DEF WriteTemp, Saving
<1>4. CASE Rename
  <2>1. temp = mem.pair /\ UNCHANGED mem /\ history'.relied = mem.pair
    BY <1>4 DEF Rename, Returned, FilesType
  <2>2. mem.pair.currentTerm \in Nat  BY FileFields, WholeLoads
  <2>3. CASE Fault /\ UNCHANGED state
    BY <2>1, <2>3, FaultCounts DEF StateFileCurrent
  <2>4. CASE state' = temp
    BY <2>1, <2>2, <2>4 DEF StateFileCurrent
  <2> QED  BY <1>4, <2>3, <2>4 DEF Rename
<1>5. ASSUME NEW e \in Entry, AppendLogEntry(e) PROVE StateFileCurrent'
  BY <1>1, <1>5, AppendType, LogStepKeepsPair DEF AppendLogEntry, Saving
<1>6. ASSUME NEW n \in 1..Len(buf), Spill(n) PROVE StateFileCurrent'
  <2>1. n \in 0..Len(buf)  BY FileFields
  <2> QED
    BY <1>1, <1>6, <2>1, WrittenType, LogStepKeepsPair DEF Spill, Saving
<1>7. ASSUME NEW n \in 0..MaxLogLen, TruncateLog(n) PROVE StateFileCurrent'
  <2>1. /\ mem'.pair = mem.pair /\ history'.relied = history.relied
        /\ UNCHANGED state /\ pc = "idle" /\ pc' = "remove"
    BY <1>7, TruncateType DEF TruncateLog
  <2> QED  BY <1>1, <2>1, LogStepKeepsPair DEF Saving
<1>8. CASE RemoveFile \/ Reopen \/ Flush
  BY <1>1, <1>8, RewriteType, LogStepKeepsPair
     DEF RemoveFile, Reopen, Flush, Saving
<1>9. CASE Crash
  <2>1. LoadState(state) = state /\ state.currentTerm \in Nat
    BY FileFields, WholeLoads
  <2>2. mem'.pair = state /\ history'.relied = state /\ UNCHANGED state
    BY <1>9, <2>1, CrashType DEF Crash
  <2> QED  BY <2>1, <2>2 DEF StateFileCurrent
<1> QED
  BY <1>2, <1>3, <1>4, <1>5, <1>6, <1>7, <1>8, <1>9 DEF Next

LEMMA PairAlways == Spec => [](FilesType /\ StateFileCurrent)
<1>1. FilesType /\ StateFileCurrent /\ [Next]_vars
        => (FilesType /\ StateFileCurrent)'
  BY NextKeepsFiles, FilesStutter, NextKeepsPair, PairStutters
<1> QED  BY <1>1, InitFiles, InitPair, PTL DEF Spec

\* Whenever the process dies, the next one starts from the term and vote the
\* node last told others about or is just saving (SaveState).
THEOREM VotesAreDurable == Spec => []VoteIsDurable
<1>1. FilesType /\ StateFileCurrent => VoteIsDurable
  BY FileFields, WholeLoads DEF StateFileCurrent, VoteIsDurable, Saving
<1> QED  BY <1>1, PairAlways, PTL

\* Faults and crashes included, the term in the state file never goes back
\* (SaveState).
THEOREM SavedTermsGrow == Spec => SavedTermNeverRegresses
<1>1. FilesType /\ StateFileCurrent /\ [Next]_vars
        => [LoadState(state').currentTerm >= LoadState(state).currentTerm]_vars
  <2> SUFFICES ASSUME FilesType, StateFileCurrent, Next
               PROVE  LoadState(state').currentTerm
                         >= LoadState(state).currentTerm
    OBVIOUS
  <2>1. state \in PersistentState /\ state' \in PersistentState
    BY NextKeepsFiles DEF FilesType
  <2>2. LoadState(state) = state /\ LoadState(state') = state'
        /\ state.currentTerm \in Nat /\ mem.pair.currentTerm \in Nat
    BY <2>1, FileFields, WholeLoads
  <2>3. CASE UNCHANGED state  BY <2>2, <2>3
  <2>4. CASE Rename
    <3>1. state' = state \/ state' = mem.pair
      BY <2>4 DEF Rename, FilesType
    <3> QED  BY <2>2, <3>1 DEF StateFileCurrent
  <2>5. UNCHANGED state \/ Rename
    BY DEF Next, persist, WriteTemp, AppendLogEntry, Spill, TruncateLog,
       RemoveFile, Reopen, Flush, Crash
  <2> QED  BY <2>3, <2>4, <2>5
<1> QED  BY <1>1, PairAlways, PTL DEF Spec, SavedTermNeverRegresses

-----------------------------------------------------------------------------
(* What can be read back *)

\* A sequence is a beginning of another, element by element.
LEMMA PrefixIs ==
    ASSUME NEW S, NEW s \in Seq(S), NEW t \in Seq(S)
    PROVE  IsPrefix(s, t) <=> /\ Len(s) <= Len(t)
                              /\ \A k \in 1..Len(s) : s[k] = t[k]
<1>1. Len(s) \in Nat /\ Len(t) \in Nat  OBVIOUS
<1>2. SubSeq(s, 1, Len(s)) = s  OBVIOUS
<1>3. ASSUME Len(s) <= Len(t)
      PROVE  s = SubSeq(t, 1, Len(s)) <=> \A k \in 1..Len(s) : s[k] = t[k]
  <2>1. /\ SubSeq(t, 1, Len(s)) \in Seq(S)
        /\ Len(SubSeq(t, 1, Len(s))) = Len(s)
        /\ \A k \in 1..Len(s) : SubSeq(t, 1, Len(s))[k] = t[k]
    BY <1>1, <1>3, PartType
  <2> QED  BY <2>1, SeqEqual
<1> QED  BY <1>2, <1>3 DEF IsPrefix

LEMMA EmptyIsPrefix ==
    ASSUME NEW S, NEW t \in Seq(S) PROVE IsPrefix(<< >>, t)
<1>1. SubSeq(<< >>, 1, 0) = << >> /\ SubSeq(t, 1, 0) = << >>
  BY SubSeqEmpty
<1>2. Len(<< >>) = 0 /\ Len(t) \in Nat  OBVIOUS
<1> QED  BY <1>1, <1>2 DEF IsPrefix

\* The first m elements of a sequence.
LEMMA FirstOf ==
    ASSUME NEW S, NEW s \in Seq(S), NEW m \in 0..Len(s)
    PROVE  /\ SubSeq(s, 1, m) \in Seq(S) /\ Len(SubSeq(s, 1, m)) = m
           /\ \A k \in 1..m : SubSeq(s, 1, m)[k] = s[k]
           /\ IsPrefix(SubSeq(s, 1, m), s)
<1>1. /\ SubSeq(s, 1, m) \in Seq(S) /\ Len(SubSeq(s, 1, m)) = m
      /\ \A k \in 1..m : SubSeq(s, 1, m)[k] = s[k]
  BY PartType
<1>2. m <= Len(s)  OBVIOUS
<1> QED  BY <1>1, <1>2, PrefixIs

\* A file that stops in the middle of a log's lines gives a beginning of it.
LEMMA LoadCutLines ==
    ASSUME NEW log \in Seq(Entry), NEW m \in 0..Len(Lines(log))
    PROVE  IsPrefix(LoadLog(SubSeq(Lines(log), 1, m)), log)
<1> DEFINE f == SubSeq(Lines(log), 1, m)
<1>1. /\ f \in Seq(Piece) /\ Len(f) = m /\ m <= 3 * Len(log)
      /\ \A k \in 1..m : f[k] = Lines(log)[k]
      /\ m \in Nat /\ Len(log) \in Nat
  BY LinesType, FirstOf
<1> HIDE DEF f
<1>2. LoadLog(f) \in Seq(Entry)  BY <1>1, LoadLogType
<1>3. CASE ~Readable(f)
  <2>1. LoadLog(f) = << >>  BY <1>1, <1>3, LoadLogType
  <2> QED  BY <1>2, <2>1, PrefixIs DEF f
<1>4. CASE Readable(f)
  <2>1. /\ Len(LoadLog(f)) = (m + 1) \div 3
        /\ \A q \in 1..Len(LoadLog(f)) : LoadLog(f)[q] = f[3 * q - 2][1]
    BY <1>1, <1>4, LoadLogType
  <2>2. (m + 1) \div 3 <= Len(log)  BY <1>1
  <2>3. ASSUME NEW q \in 1..Len(LoadLog(f)) PROVE LoadLog(f)[q] = log[q]
    <3>1. q \in 1..Len(log) /\ 3 * q - 2 \in 1..m
          /\ 3 * q - 2 = 3 * (q - 1) + 1
      BY <1>1, <2>1, <2>2
    <3>2. Lines(log)[3 * (q - 1) + 1] = <<log[q], 1>>  BY <3>1, LinesType
    <3>3. f[3 * q - 2] = <<log[q], 1>>  BY <1>1, <3>1, <3>2
    <3> QED  BY <2>1, <3>3
  <2> QED  BY <1>2, <2>1, <2>2, <2>3, PrefixIs DEF f
<1> QED  BY <1>3, <1>4

\* All of its lines give the log.
LEMMA LoadLines ==
    ASSUME NEW log \in Seq(Entry) PROVE LoadLog(Lines(log)) = log
<1> DEFINE f == Lines(log)
<1>1. /\ f \in Seq(Piece) /\ Len(f) = 3 * Len(log) /\ Len(log) \in Nat
      /\ \A q \in 1..Len(log), r \in 1..3 : f[3 * (q - 1) + r] = <<log[q], r>>
  BY LinesType
<1> HIDE DEF f
<1>2. Readable(f)
  <2>1. Len(f) % 3 # 1  BY <1>1
  <2>2. ASSUME NEW k \in DOMAIN f
        PROVE  /\ f[k][2] = ((k - 1) % 3) + 1
               /\ f[k][2] # 1 => f[k][1] = f[k - 1][1]
    <3> DEFINE q == ((k - 1) \div 3) + 1
               r == ((k - 1) % 3) + 1
    <3>1. k \in 1..(3 * Len(log))  BY <1>1
    <3>2. q \in 1..Len(log) /\ r \in 1..3 /\ k = 3 * (q - 1) + r
      BY <1>1, <3>1, WhichLine
    <3>3. f[k] = <<log[q], r>>  BY <1>1, <3>2
    <3>4. CASE r = 1  BY <3>3, <3>4
    <3>5. CASE r # 1
      <4>1. r - 1 \in 1..3 /\ k - 1 = 3 * (q - 1) + (r - 1)  BY <3>2, <3>5
      <4>2. f[k - 1] = <<log[q], r - 1>>  BY <1>1, <3>2, <4>1
      <4> QED  BY <3>3, <4>2
    <3> QED  BY <3>4, <3>5
  <2> QED  BY <2>1, <2>2 DEF Readable
<1>3. /\ LoadLog(f) \in Seq(Entry) /\ Len(LoadLog(f)) = (Len(f) + 1) \div 3
      /\ \A q \in 1..Len(LoadLog(f)) : LoadLog(f)[q] = f[3 * q - 2][1]
  BY <1>1, <1>2, LoadLogType
<1>4. Len(LoadLog(f)) = Len(log)  BY <1>1, <1>3
<1>5. ASSUME NEW q \in 1..Len(log) PROVE LoadLog(f)[q] = log[q]
  <2>1. 3 * q - 2 = 3 * (q - 1) + 1  BY <1>1
  <2>2. f[3 * (q - 1) + 1] = <<log[q], 1>>  BY <1>1
  <2> QED  BY <1>3, <1>4, <2>1, <2>2
<1>6. LoadLog(f) = log  BY <1>3, <1>4, <1>5, SeqEqual
<1> QED  BY <1>6 DEF f

\* A line behind what was read back adds its entry, unless it makes the whole
\* file unreadable.
LEMMA LoadOneMore ==
    ASSUME NEW g \in Seq(Piece), NEW e \in Entry,
           NEW m \in (Len(g) + 1)..(Len(g) + 3),
           Readable(SubSeq(g \o Line(e), 1, m))
    PROVE  /\ Readable(g) /\ Len(g) % 3 = 0
           /\ LoadLog(SubSeq(g \o Line(e), 1, m)) = Append(LoadLog(g), e)
<1> DEFINE f == SubSeq(g \o Line(e), 1, m)
<1>1. Len(g) \in Nat /\ m \in Nat  OBVIOUS
<1>2. /\ g \o Line(e) \in Seq(Piece) /\ Len(g \o Line(e)) = Len(g) + 3
      /\ \A k \in 1..Len(g) : (g \o Line(e))[k] = g[k]
      /\ (g \o Line(e))[Len(g) + 1] = <<e, 1>>
  <2>1. /\ g \o Line(e) \in Seq(Piece)
        /\ Len(g \o Line(e)) = Len(g) + Len(Line(e))
        /\ \A i \in 1..(Len(g) + Len(Line(e))) :
              (g \o Line(e))[i] = IF i <= Len(g) THEN g[i]
                                  ELSE Line(e)[i - Len(g)]
    BY LineType, ConcatProperties
  <2>2. Len(Line(e)) = 3 /\ Line(e)[1] = <<e, 1>>  BY LineType
  <2>3. Len(g) + 1 \in 1..(Len(g) + 3) /\ ~(Len(g) + 1 <= Len(g))
        /\ (Len(g) + 1) - Len(g) = 1
    BY <1>1
  <2>4. (g \o Line(e))[Len(g) + 1] = <<e, 1>>  BY <2>1, <2>2, <2>3
  <2> QED  BY <1>1, <2>1, <2>2, <2>4
<1>3. /\ f \in Seq(Piece) /\ Len(f) = m
      /\ \A k \in 1..m : f[k] = (g \o Line(e))[k]
  BY <1>1, <1>2, FirstOf
<1>4. f[Len(g) + 1] = <<e, 1>> /\ \A k \in 1..Len(g) : f[k] = g[k]
  BY <1>1, <1>2, <1>3
<1>5. Readable(f)  OBVIOUS
<1> HIDE DEF f
<1>6. Len(g) % 3 = 0
  <2>1. Len(g) + 1 \in DOMAIN f  BY <1>1, <1>3
  <2>2. f[Len(g) + 1][2] = ((Len(g) + 1 - 1) % 3) + 1
    BY <1>5, <2>1 DEF Readable
  <2>3. 1 = ((Len(g) + 1 - 1) % 3) + 1  BY <1>4, <2>2
  <2> QED  BY <1>1, <2>3
<1>7. Readable(g)
  <2>1. \A k \in DOMAIN g : k \in DOMAIN f /\ f[k] = g[k]
    BY <1>1, <1>3, <1>4
  <2>2. \A k \in DOMAIN g : /\ g[k][2] = ((k - 1) % 3) + 1
                            /\ g[k][2] # 1 => k - 1 \in DOMAIN g
    <3> SUFFICES ASSUME NEW k \in DOMAIN g
                 PROVE  /\ g[k][2] = ((k - 1) % 3) + 1
                        /\ g[k][2] # 1 => k - 1 \in DOMAIN g
      OBVIOUS
    <3>1. g[k][2] = ((k - 1) % 3) + 1  BY <1>5, <2>1 DEF Readable
    <3>2. k \in 1..Len(g)  OBVIOUS
    <3>3. k = 1 => g[k][2] = 1  BY <3>1
    <3>4. g[k][2] # 1 => k - 1 \in 1..Len(g)  BY <1>1, <3>2, <3>3
    <3> QED  BY <3>1, <3>4
  <2>3. \A k \in DOMAIN g : g[k][2] # 1 => g[k][1] = g[k - 1][1]
    BY <1>5, <2>1, <2>2 DEF Readable
  <2>4. Len(g) % 3 # 1  BY <1>1, <1>6
  <2> QED  BY <2>2, <2>3, <2>4 DEF Readable
<1>8. PICK c \in Nat : Len(g) = 3 * c
  <2>1. Len(g) \div 3 \in Nat /\ Len(g) = 3 * (Len(g) \div 3)
    BY <1>1, <1>6
  <2> QED  BY <2>1
<1>9. Len(f) % 3 # 1  BY <1>5 DEF Readable
<1>10. (Len(f) + 1) \div 3 = c + 1 /\ (Len(g) + 1) \div 3 = c
  <2>1. m \in (3 * c + 1)..(3 * c + 3) /\ m % 3 # 1  BY <1>3, <1>8, <1>9
  <2>2. (m + 1) \div 3 = c + 1  BY <2>1
  <2>3. (3 * c + 1) \div 3 = c  OBVIOUS
  <2> QED  BY <1>3, <1>8, <2>2, <2>3
<1>11. /\ LoadLog(f) \in Seq(Entry) /\ Len(LoadLog(f)) = c + 1
       /\ \A q \in 1..(c + 1) : LoadLog(f)[q] = f[3 * q - 2][1]
  <2>1. /\ LoadLog(f) \in Seq(Entry) /\ Len(LoadLog(f)) = (Len(f) + 1) \div 3
        /\ \A q \in 1..Len(LoadLog(f)) : LoadLog(f)[q] = f[3 * q - 2][1]
    BY <1>3, <1>5, LoadLogType
  <2> QED  BY <1>10, <2>1
<1>12. /\ LoadLog(g) \in Seq(Entry) /\ Len(LoadLog(g)) = c
       /\ \A q \in 1..c : LoadLog(g)[q] = g[3 * q - 2][1]
  BY <1>7, <1>10, LoadLogType
<1>13. /\ Append(LoadLog(g), e) \in Seq(Entry)
       /\ Len(Append(LoadLog(g), e)) = c + 1
       /\ \A q \in 1..c : Append(LoadLog(g), e)[q] = LoadLog(g)[q]
       /\ Append(LoadLog(g), e)[c + 1] = e
  BY <1>12
<1>14. ASSUME NEW q \in 1..(c + 1)
       PROVE  LoadLog(f)[q] = Append(LoadLog(g), e)[q]
  <2>1. CASE q = c + 1
    <3>1. 3 * q - 2 = Len(g) + 1  BY <1>8, <2>1
    <3>2. LoadLog(f)[q] = f[Len(g) + 1][1]  BY <1>11, <3>1
    <3>3. f[Len(g) + 1][1] = e  BY <1>4
    <3> QED  BY <1>13, <2>1, <3>2, <3>3
  <2>2. CASE q # c + 1
    <3>1. q \in 1..c /\ 3 * q - 2 \in 1..Len(g)  BY <1>8, <2>2
    <3> QED  BY <1>4, <1>11, <1>12, <1>13, <3>1
  <2> QED  BY <2>1, <2>2
<1>15. LoadLog(f) = Append(LoadLog(g), e)
  BY <1>11, <1>13, <1>14, SeqEqual
<1> QED  BY <1>6, <1>7, <1>15 DEF f

\* What the process would read back at any point of writing b out behind f is a
\* beginning of log and, when b is written and ends with a newline, all of it.
ReadsBack(f, b, log) ==
    /\ \A m \in Len(f)..Len(f \o b) :
          IsPrefix(LoadLog(SubSeq(f \o b, 1, m)), log)
    /\ Readable(f \o b) /\ Len(f \o b) % 3 = 0 => LoadLog(f \o b) = log

\* The entries of s are in f where they belong, each up to its newline.
InFile(s, f) ==
    \A q \in 1..Len(s) : 3 * q - 1 <= Len(f) /\ f[3 * q - 2][1] = s[q]

\* Two files, one behind the other.
LEMMA Behind ==
    ASSUME NEW f \in Seq(Piece), NEW b \in Seq(Piece)
    PROVE  /\ f \o b \in Seq(Piece) /\ Len(f \o b) = Len(f) + Len(b)
           /\ Len(f) \in Nat /\ Len(b) \in Nat
           /\ \A k \in 1..Len(f) : (f \o b)[k] = f[k]
           /\ \A k \in 1..Len(b) : (f \o b)[Len(f) + k] = b[k]
           /\ SubSeq(f \o b, 1, Len(f)) = f
           /\ SubSeq(f \o b, 1, Len(f \o b)) = f \o b
<1>1. /\ f \o b \in Seq(Piece) /\ Len(f \o b) = Len(f) + Len(b)
      /\ Len(f) \in Nat /\ Len(b) \in Nat
      /\ \A k \in 1..Len(f) : (f \o b)[k] = f[k]
      /\ \A k \in 1..Len(b) : (f \o b)[Len(f) + k] = b[k]
  BY ConcatProperties
<1>2. Len(f) \in 0..Len(f \o b) /\ Len(f \o b) \in 0..Len(f \o b)  BY <1>1
<1>3. /\ SubSeq(f \o b, 1, Len(f)) \in Seq(Piece)
      /\ Len(SubSeq(f \o b, 1, Len(f))) = Len(f)
      /\ \A k \in 1..Len(f) : SubSeq(f \o b, 1, Len(f))[k] = (f \o b)[k]
  BY <1>1, <1>2, FirstOf
<1>4. SubSeq(f \o b, 1, Len(f)) = f  BY <1>1, <1>3, SeqEqual
<1>5. /\ SubSeq(f \o b, 1, Len(f \o b)) \in Seq(Piece)
      /\ Len(SubSeq(f \o b, 1, Len(f \o b))) = Len(f \o b)
      /\ \A k \in 1..Len(f \o b) :
            SubSeq(f \o b, 1, Len(f \o b))[k] = (f \o b)[k]
  BY <1>1, <1>2, FirstOf
<1>6. SubSeq(f \o b, 1, Len(f \o b)) = f \o b  BY <1>1, <1>5, SeqEqual
<1> QED  BY <1>1, <1>4, <1>6

LEMMA ReadsBackNow ==
    ASSUME NEW f \in Seq(Piece), NEW b \in Seq(Piece), NEW log,
           ReadsBack(f, b, log)
    PROVE  IsPrefix(LoadLog(f), log) /\ IsPrefix(LoadLog(f \o b), log)
<1>1. Len(f) \in Len(f)..Len(f \o b) /\ Len(f \o b) \in Len(f)..Len(f \o b)
  BY Behind
<1>2. /\ IsPrefix(LoadLog(SubSeq(f \o b, 1, Len(f))), log)
      /\ IsPrefix(LoadLog(SubSeq(f \o b, 1, Len(f \o b))), log)
  BY <1>1 DEF ReadsBack
<1> QED  BY <1>2, Behind

\* The next process reads what is there.
LEMMA ReadsBackLoaded ==
    ASSUME NEW f \in Seq(Piece)
    PROVE  ReadsBack(f, << >>, LoadLog(f)) /\ InFile(LoadLog(f), f)
<1>1. f \o << >> = f /\ Len(f) \in Nat  OBVIOUS
<1>2. LoadLog(f) \in Seq(Entry)  BY LoadLogType
<1>3. SubSeq(f, 1, Len(f)) = f  OBVIOUS
<1>4. IsPrefix(LoadLog(f), LoadLog(f))
  <2>1. Len(LoadLog(f)) <= Len(LoadLog(f))  BY <1>2
  <2> QED  BY <1>2, <2>1, PrefixIs
<1>5. \A m \in Len(f)..Len(f) : m = Len(f)  BY <1>1
<1>6. ReadsBack(f, << >>, LoadLog(f))
  BY <1>1, <1>3, <1>4, <1>5 DEF ReadsBack
<1>7. CASE Readable(f)
  <2>1. /\ Len(LoadLog(f)) = (Len(f) + 1) \div 3
        /\ \A q \in 1..Len(LoadLog(f)) : LoadLog(f)[q] = f[3 * q - 2][1]
    BY <1>7, LoadLogType
  <2>2. \A q \in 1..((Len(f) + 1) \div 3) : 3 * q - 1 <= Len(f)  BY <1>1
  <2> QED  BY <1>6, <2>1, <2>2 DEF InFile
<1>8. CASE ~Readable(f)
  <2>1. LoadLog(f) = << >> /\ Len(<< >>) = 0  BY <1>8, LoadLogType
  <2> QED  BY <1>6, <2>1 DEF InFile
<1> QED  BY <1>7, <1>8

\* The log written to an empty file.
LEMMA ReadsBackLines ==
    ASSUME NEW log \in Seq(Entry)
    PROVE  ReadsBack(<< >>, Lines(log), log)
<1>1. << >> \o Lines(log) = Lines(log) /\ Lines(log) \in Seq(Piece)
      /\ Len(<< >>) = 0
  BY LinesType
<1>2. \A m \in 0..Len(Lines(log)) :
         IsPrefix(LoadLog(SubSeq(Lines(log), 1, m)), log)
  BY LoadCutLines
<1> QED  BY <1>1, <1>2, LoadLines DEF ReadsBack

\* Pieces move from the buffer to the file.
LEMMA ReadsBackSpilled ==
    ASSUME NEW f \in Seq(Piece), NEW b \in Seq(Piece), NEW n \in 0..Len(b),
           NEW log, ReadsBack(f, b, log)
    PROVE  ReadsBack(f \o SubSeq(b, 1, n), SubSeq(b, n + 1, Len(b)), log)
<1> DEFINE c == SubSeq(b, 1, n)
           d == SubSeq(b, n + 1, Len(b))
<1>1. c \in Seq(Piece) /\ d \in Seq(Piece) /\ Len(c) = n
  BY FirstOf, PartType
<1>2. (f \o c) \o d = f \o b
  <2>1. c \o d = SubSeq(b, 1, Len(b))
    <3>1. 1 \in 1..(Len(b) + 1) /\ n \in (1 - 1)..Len(b)
          /\ Len(b) \in n..Len(b)
      OBVIOUS
    <3> QED  BY <3>1, ConcatAdjacentSubSeq
  <2>2. SubSeq(b, 1, Len(b)) = b  BY SubSeqFull
  <2>3. (f \o c) \o d = f \o (c \o d)
    <3> HIDE DEF c, d
    <3> QED  BY <1>1, ConcatAssociative
  <2> QED  BY <2>1, <2>2, <2>3
<1>3. Len(f \o c) = Len(f) + n /\ Len(f) \in Nat
  BY <1>1, Behind
<1> HIDE DEF c, d
<1>4. \A m \in Len(f \o c)..Len(f \o b) : m \in Len(f)..Len(f \o b)
  BY <1>3, Behind
<1>5. ReadsBack(f \o c, d, log)  BY <1>2, <1>4 DEF ReadsBack
<1> QED  BY <1>5 DEF c, d

\* One more entry in the buffer, and in the log.
LEMMA ReadsBackAppended ==
    ASSUME NEW f \in Seq(Piece), NEW b \in Seq(Piece), NEW log \in Seq(Entry),
           NEW e \in Entry, ReadsBack(f, b, log)
    PROVE  ReadsBack(f, b \o Line(e), Append(log, e))
<1> DEFINE g == f \o b
           l == Line(e)
           h == g \o l
<1>1. /\ g \in Seq(Piece) /\ Len(g) = Len(f) + Len(b)
      /\ Len(f) \in Nat /\ Len(b) \in Nat
  BY Behind
<1>2. l \in Seq(Piece) /\ Len(l) = 3  BY LineType
<1> HIDE DEF l
<1>3. f \o (b \o l) = h
  <2>1. (f \o b) \o l = f \o (b \o l)  BY <1>2, ConcatAssociative
  <2> QED  BY <2>1
<1> HIDE DEF g
<1>4. h \in Seq(Piece) /\ Len(h) = Len(g) + 3 /\ SubSeq(h, 1, Len(h)) = h
      /\ \A k \in 1..Len(g) : h[k] = g[k]
  <2>1. /\ g \o l \in Seq(Piece) /\ Len(g \o l) = Len(g) + Len(l)
        /\ SubSeq(g \o l, 1, Len(g \o l)) = g \o l
        /\ \A k \in 1..Len(g) : (g \o l)[k] = g[k]
    BY <1>1, <1>2, Behind
  <2> QED  BY <1>2, <2>1
<1>5. Append(log, e) \in Seq(Entry) /\ Len(Append(log, e)) = Len(log) + 1
      /\ \A k \in 1..Len(log) : Append(log, e)[k] = log[k]
  OBVIOUS
<1>6. ASSUME NEW m \in (Len(g) + 1)..(Len(g) + 3), Readable(SubSeq(h, 1, m))
      PROVE  LoadLog(SubSeq(h, 1, m)) = Append(log, e)
  <2>1. /\ Readable(g) /\ Len(g) % 3 = 0
        /\ LoadLog(SubSeq(h, 1, m)) = Append(LoadLog(g), e)
    BY <1>1, <1>6, LoadOneMore DEF l
  <2>2. LoadLog(g) = log  BY <2>1 DEF ReadsBack, g
  <2> QED  BY <2>1, <2>2
<1>7. ASSUME NEW m \in Len(f)..Len(h)
      PROVE  IsPrefix(LoadLog(SubSeq(h, 1, m)), Append(log, e))
  <2>1. m \in Nat /\ Len(g) \in Nat  BY <1>1
  <2>2. CASE m <= Len(g)
    <3>1. m \in Len(f)..Len(g) /\ m \in 0..Len(g) /\ m \in 0..Len(h)
      BY <1>1, <1>4, <2>1, <2>2
    <3>2. SubSeq(h, 1, m) = SubSeq(g, 1, m)
      <4>1. /\ SubSeq(h, 1, m) \in Seq(Piece) /\ Len(SubSeq(h, 1, m)) = m
            /\ \A k \in 1..m : SubSeq(h, 1, m)[k] = h[k]
        <5> HIDE DEF h
        <5> QED  BY <1>4, <3>1, FirstOf
      <4>2. /\ SubSeq(g, 1, m) \in Seq(Piece) /\ Len(SubSeq(g, 1, m)) = m
            /\ \A k \in 1..m : SubSeq(g, 1, m)[k] = g[k]
        BY <1>1, <3>1, FirstOf
      <4>3. \A k \in 1..m : h[k] = g[k]  BY <1>1, <1>4, <3>1
      <4> HIDE DEF h
      <4> QED  BY <4>1, <4>2, <4>3, SeqEqual
    <3>3. IsPrefix(LoadLog(SubSeq(g, 1, m)), log)
      BY <3>1 DEF ReadsBack, g
    <3>4. LoadLog(SubSeq(g, 1, m)) \in Seq(Entry)
      BY <1>1, <3>1, FirstOf, LoadLogType
    <3>5. PICK r \in Seq(Entry) : r = LoadLog(SubSeq(g, 1, m))  BY <3>4
    <3>6. Len(r) <= Len(log) /\ \A k \in 1..Len(r) : r[k] = log[k]
      BY <3>3, <3>5, PrefixIs
    <3>7. Len(r) <= Len(Append(log, e))
          /\ \A k \in 1..Len(r) : r[k] = Append(log, e)[k]
      BY <1>5, <3>6
    <3>8. IsPrefix(r, Append(log, e))  BY <1>5, <3>7, PrefixIs
    <3> QED  BY <3>2, <3>5, <3>8
  <2>3. CASE m > Len(g)
    <3>1. m \in (Len(g) + 1)..(Len(g) + 3) /\ m \in 0..Len(h)
      BY <1>4, <2>1, <2>3
    <3>2. CASE Readable(SubSeq(h, 1, m))
      <4>1. Len(Append(log, e)) <= Len(Append(log, e))  BY <1>5
      <4> QED  BY <1>5, <1>6, <3>1, <3>2, <4>1, PrefixIs
    <3>3. CASE ~Readable(SubSeq(h, 1, m))
      <4>1. SubSeq(h, 1, m) \in Seq(Piece)
        <5> HIDE DEF h
        <5> QED  BY <1>4, <3>1, FirstOf
      <4>2. LoadLog(SubSeq(h, 1, m)) = << >>  BY <3>3, <4>1, LoadLogType
      <4> QED  BY <1>5, <4>2, EmptyIsPrefix
    <3> QED  BY <3>2, <3>3
  <2> QED  BY <2>1, <2>2, <2>3
<1>8. Readable(h) => LoadLog(h) = Append(log, e)
  <2>1. Len(h) \in (Len(g) + 1)..(Len(g) + 3)  BY <1>1, <1>4
  <2> QED  BY <1>4, <1>6, <2>1
<1> QED  BY <1>3, <1>7, <1>8 DEF ReadsBack, l

\* What is in the file stays there while the file grows.
LEMMA InFileGrows ==
    ASSUME NEW s \in Seq(Entry), NEW f \in Seq(Piece), NEW b \in Seq(Piece),
           InFile(s, f)
    PROVE  InFile(s, f \o b)
<1> SUFFICES ASSUME NEW q \in 1..Len(s)
             PROVE  /\ 3 * q - 1 <= Len(f \o b)
                    /\ (f \o b)[3 * q - 2][1] = s[q]
  BY DEF InFile
<1>1. 3 * q - 1 <= Len(f) /\ f[3 * q - 2][1] = s[q]  BY DEF InFile
<1>2. 3 * q - 2 \in 1..Len(f)  BY <1>1, Behind
<1>3. (f \o b)[3 * q - 2] = f[3 * q - 2]  BY <1>2, Behind
<1> QED  BY <1>1, <1>3, Behind

\* A file that begins with the lines of a log has its entries.
LEMMA LinesInFile ==
    ASSUME NEW s \in Seq(Entry), NEW f \in Seq(Piece), 3 * Len(s) <= Len(f),
           SubSeq(f, 1, 3 * Len(s)) = Lines(s)
    PROVE  InFile(s, f)
<1> SUFFICES ASSUME NEW q \in 1..Len(s)
             PROVE  3 * q - 1 <= Len(f) /\ f[3 * q - 2][1] = s[q]
  BY DEF InFile
<1>1. Len(s) \in Nat /\ Len(f) \in Nat  OBVIOUS
<1>2. 3 * Len(s) \in 0..Len(f) /\ 3 * q - 2 \in 1..(3 * Len(s))
      /\ 3 * q - 1 <= Len(f) /\ 3 * q - 2 = 3 * (q - 1) + 1
  BY <1>1
<1>3. f[3 * q - 2] = Lines(s)[3 * q - 2]  BY <1>2, FirstOf
<1>4. Lines(s)[3 * (q - 1) + 1] = <<s[q], 1>>  BY LinesType
<1>5. f[3 * q - 2] = <<s[q], 1>>  BY <1>2, <1>3, <1>4
<1> QED  BY <1>2, <1>5

\* Entries in a file that can be read are read.
LEMMA InFileIsRead ==
    ASSUME NEW s \in Seq(Entry), NEW f \in Seq(Piece), InFile(s, f), Readable(f)
    PROVE  IsPrefix(s, LoadLog(f))
<1>1. /\ LoadLog(f) \in Seq(Entry) /\ Len(LoadLog(f)) = (Len(f) + 1) \div 3
      /\ \A q \in 1..Len(LoadLog(f)) : LoadLog(f)[q] = f[3 * q - 2][1]
  BY LoadLogType
<1>2. Len(s) \in Nat /\ Len(f) \in Nat  OBVIOUS
<1>3. Len(s) <= (Len(f) + 1) \div 3
  <2>1. CASE Len(s) = 0  BY <1>2, <2>1
  <2>2. CASE Len(s) # 0
    <3>1. Len(s) \in 1..Len(s)  BY <1>2, <2>2
    <3>2. 3 * Len(s) - 1 <= Len(f)  BY <3>1 DEF InFile
    <3> QED  BY <1>2, <3>2
  <2> QED  BY <2>1, <2>2
<1>4. \A q \in 1..Len(s) : s[q] = LoadLog(f)[q]
  <2> SUFFICES ASSUME NEW q \in 1..Len(s) PROVE s[q] = LoadLog(f)[q]
    OBVIOUS
  <2>1. q \in 1..Len(LoadLog(f))  BY <1>1, <1>2, <1>3
  <2> QED  BY <1>1, <2>1 DEF InFile
<1> QED  BY <1>1, <1>3, <1>4, PrefixIs

\* stored, after the file has become f, is in f and is the log's, if it was.
LEMMA StoredInFile ==
    ASSUME FilesType, NEW f \in Seq(Piece), InFile(history.stored, f),
           IsPrefix(history.stored, mem.log)
    PROVE  InFile(Stored(f, mem.log), f) /\ IsPrefix(Stored(f, mem.log), mem.log)
<1>1. CASE Stored(f, mem.log) = history.stored  BY <1>1
<1>2. ASSUME NEW n \in 0..Len(mem.log),
             Stored(f, mem.log) = SubSeq(mem.log, 1, n), 3 * n <= Len(f),
             SubSeq(f, 1, 3 * n) = Lines(SubSeq(mem.log, 1, n))
      PROVE  InFile(Stored(f, mem.log), f)
             /\ IsPrefix(Stored(f, mem.log), mem.log)
  <2>1. /\ SubSeq(mem.log, 1, n) \in Seq(Entry)
        /\ Len(SubSeq(mem.log, 1, n)) = n
        /\ IsPrefix(SubSeq(mem.log, 1, n), mem.log)
    BY FileFields, FirstOf
  <2>2. InFile(SubSeq(mem.log, 1, n), f)  BY <1>2, <2>1, LinesInFile
  <2> QED  BY <1>2, <2>1, <2>2
<1> QED  BY <1>1, <1>2, FileFields, StoredIs

-----------------------------------------------------------------------------
(* The log file *)

\* As long as nothing fails: what can be read back is the node's own log,
\* however far the buffer gets, and what was once stored is still there, except
\* while TruncateLog writes the file anew.
LogFileOwn ==
    /\ pc \in {"idle", "write temp", "rename", "remove", "reopen", "flush"}
    /\ NoFaults =>
          /\ pc \notin {"remove", "reopen"}
                => open /\ ReadsBack(file, buf, mem.log)
          /\ pc \notin {"remove", "reopen", "flush"}
                => InFile(history.stored, file)
          /\ pc = "remove" => IsPrefix(LoadLog(file), history.old)
          /\ pc = "reopen" => file = << >>
          /\ pc = "flush" => file = << >> /\ buf = Lines(mem.log)
          /\ IsPrefix(history.stored, mem.log)

LEMMA InitLogFile == Init => LogFileOwn
<1> SUFFICES ASSUME Init PROVE LogFileOwn  OBVIOUS
<1>1. << >> \in Seq(Piece) /\ << >> \in Seq(Entry) /\ Len(<< >>) = 0  OBVIOUS
<1>2. LoadLog(<< >>) = << >>  BY LoadNothing
<1>3. ReadsBack(<< >>, << >>, << >>) /\ InFile(<< >>, << >>)
  BY <1>1, <1>2, ReadsBackLoaded
<1>4. IsPrefix(<< >>, << >>)  BY <1>1, EmptyIsPrefix
<1> QED  BY <1>3, <1>4 DEF Init, LogFileOwn

LEMMA LogFileStutters == ASSUME LogFileOwn, UNCHANGED vars PROVE LogFileOwn'
BY DEF LogFileOwn, NoFaults, vars

\* persist and the steps of SaveState do not touch the log.
LEMMA SaveStateKeepsLog ==
    ASSUME FilesType, LogFileOwn, NoFaults' => NoFaults,
           (\E p \in PersistentState : persist(p)) \/ WriteTemp \/ Rename
    PROVE  LogFileOwn'
<1>1. /\ UNCHANGED <<file, buf, open>> /\ mem'.log = mem.log
      /\ history'.stored = history.stored /\ history'.old = history.old
      /\ pc \in {"idle", "write temp", "rename"}
      /\ pc' \in {"idle", "write temp", "rename"}
  BY DEF persist, WriteTemp, Rename, Returned, FilesType
<1> QED  BY <1>1 DEF LogFileOwn

LEMMA AppendKeepsLog ==
    ASSUME FilesType, LogFileOwn, NEW e \in Entry, AppendLogEntry(e)
    PROVE  LogFileOwn'
<1>1. /\ mem'.log = Append(mem.log, e) /\ buf' = buf \o Line(e)
      /\ UNCHANGED <<file, open, pc, history, counts>> /\ pc = "idle"
  BY AppendType DEF AppendLogEntry
<1>2. NoFaults' = NoFaults  BY <1>1 DEF NoFaults
<1>3. CASE NoFaults
  <2>1. ReadsBack(file, buf, mem.log) /\ open /\ InFile(history.stored, file)
        /\ IsPrefix(history.stored, mem.log)
    BY <1>1, <1>3 DEF LogFileOwn
  <2>2. ReadsBack(file, buf \o Line(e), Append(mem.log, e))
    BY <2>1, FileFields, ReadsBackAppended
  <2>3. IsPrefix(history.stored, Append(mem.log, e))
    <3>1. PICK s \in Seq(Entry), l \in Seq(Entry) :
             s = history.stored /\ l = mem.log
      BY FileFields
    <3>2. Len(s) <= Len(l) /\ \A k \in 1..Len(s) : s[k] = l[k]
      BY <2>1, <3>1, PrefixIs
    <3>3. /\ Append(l, e) \in Seq(Entry) /\ Len(s) <= Len(Append(l, e))
          /\ \A k \in 1..Len(s) : s[k] = Append(l, e)[k]
      BY <3>2
    <3>4. IsPrefix(s, Append(l, e))  BY <3>3, PrefixIs
    <3> QED  BY <3>1, <3>4
  <2> QED  BY <1>1, <2>1, <2>2, <2>3 DEF LogFileOwn
<1>4. CASE ~NoFaults  BY <1>1, <1>2, <1>4 DEF LogFileOwn
<1> QED  BY <1>3, <1>4

\* Spill, and Flush when it succeeds.
LEMMA WrittenKeepsLog ==
    ASSUME FilesType, NEW n \in 0..Len(buf), Written(n), UNCHANGED <<mem, open>>,
           ReadsBack(file, buf, mem.log), open, pc' = "idle",
           IsPrefix(history.stored, mem.log),
           InFile(history.stored, file) \/ (file = << >> /\ n = Len(buf)
                                            /\ buf = Lines(mem.log))
    PROVE  LogFileOwn'
<1>1. file' = file \o SubSeq(buf, 1, n) /\ buf' = SubSeq(buf, n + 1, Len(buf))
  BY DEF Written
<1>2. SubSeq(buf, 1, n) \in Seq(Piece)  BY FileFields, FirstOf
<1>3. ReadsBack(file', buf', mem.log)
  BY <1>1, FileFields, ReadsBackSpilled
<1>4. InFile(history.stored, file')
  <2>1. CASE InFile(history.stored, file)
    BY <1>1, <1>2, <2>1, FileFields, InFileGrows
  <2>2. CASE file = << >> /\ n = Len(buf) /\ buf = Lines(mem.log)
    <3>1. PICK s \in Seq(Entry), l \in Seq(Entry) :
             s = history.stored /\ l = mem.log
      BY FileFields
    <3>2. file' = Lines(l)
      <4>1. SubSeq(buf, 1, n) = Lines(l)  BY <2>2, <3>1, FileFields, SubSeqFull
      <4>2. << >> \o Lines(l) = Lines(l)  BY LinesType, ConcatEmptySeq
      <4> QED  BY <1>1, <2>2, <4>1, <4>2
    <3>3. Len(s) <= Len(l) /\ \A k \in 1..Len(s) : s[k] = l[k]
      BY <3>1, PrefixIs
    <3>4. InFile(l, Lines(l))
      <4>1. /\ Lines(l) \in Seq(Piece) /\ Len(Lines(l)) = 3 * Len(l)
            /\ SubSeq(Lines(l), 1, 3 * Len(l)) = Lines(l)
        BY LinesType, SubSeqFull
      <4>2. 3 * Len(l) <= Len(Lines(l))  BY <4>1
      <4> QED  BY <4>1, <4>2, LinesInFile
    <3>5. InFile(s, Lines(l))
      <4>1. \A q \in 1..Len(s) : q \in 1..Len(l)  BY <3>3
      <4> QED  BY <3>3, <3>4, <4>1 DEF InFile
    <3> QED  BY <3>1, <3>2, <3>5
  <2> QED  BY <2>1, <2>2
<1>5. file' \in Seq(Piece) /\ history'.stored = Stored(file', mem.log)
  BY WrittenType
<1>6. InFile(history'.stored, file') /\ IsPrefix(history'.stored, mem.log)
  BY <1>4, <1>5, StoredInFile
<1> QED  BY <1>3, <1>6 DEF LogFileOwn

LEMMA SpillKeepsLog ==
    ASSUME FilesType, LogFileOwn, NEW n \in 1..Len(buf), Spill(n)
    PROVE  LogFileOwn'
<1>1. n \in 0..Len(buf)  BY FileFields
<1>2. CASE Fault
  BY <1>2, FaultCounts DEF Spill, LogFileOwn
<1>3. CASE ~Fault
  <2>1. /\ counts' = [counts EXCEPT !.spills = @ + 1] /\ UNCHANGED <<mem, open>>
        /\ Written(n) /\ pc = "idle" /\ pc' = "idle" /\ open
    BY <1>3 DEF Spill
  <2>2. NoFaults' = NoFaults
    BY <2>1 DEF NoFaults, FilesType
  <2>3. CASE NoFaults
    BY <1>1, <2>1, <2>3, WrittenKeepsLog DEF LogFileOwn
  <2>4. CASE ~NoFaults  BY <2>1, <2>2, <2>4 DEF LogFileOwn
  <2> QED  BY <2>3, <2>4
<1> QED  BY <1>2, <1>3

\* TruncateLog begins: the file is what the log before had, and what stays
\* stored is the log's that is kept.
LEMMA TruncateKeepsLog ==
    ASSUME FilesType, LogFileOwn, NEW n \in 0..MaxLogLen, TruncateLog(n)
    PROVE  LogFileOwn'
<1>1. pc = "idle" /\ pc' = "remove"  BY DEF TruncateLog
<1>2. CASE Fault  BY <1>1, <1>2, FaultCounts DEF LogFileOwn
<1>3. CASE ~Fault /\ ~NoFaults
  <2>1. UNCHANGED counts  BY <1>3 DEF TruncateLog
  <2> QED  BY <1>1, <1>3, <2>1 DEF LogFileOwn, NoFaults
<1>4. CASE ~Fault /\ NoFaults
  <2>1. /\ ReadsBack(file, buf, mem.log) /\ open
        /\ InFile(history.stored, file) /\ IsPrefix(history.stored, mem.log)
    BY <1>1, <1>4 DEF LogFileOwn
  <2>2. file' = file \o buf  BY <1>4, <2>1 DEF TruncateLog
  <2>3. IsPrefix(LoadLog(file'), mem.log)
    BY <2>1, <2>2, FileFields, ReadsBackNow
  <2>4. file' \in Seq(Piece) /\ InFile(history.stored, file')
    BY <2>1, <2>2, FileFields, Behind, InFileGrows
  <2>5. PICK s \in Seq(Entry), l \in Seq(Entry) :
           s = Stored(file', mem.log) /\ l = mem.log
    BY <2>4, FileFields, StoredType
  <2>6. Len(s) <= Len(l) /\ \A q \in 1..Len(s) : s[q] = l[q]
    BY <2>1, <2>4, <2>5, StoredInFile, PrefixIs
  <2>7. PICK k \in Nat : k <= n /\ k <= Len(s)
                         /\ history'.stored = SubSeq(s, 1, k)
    BY <2>5, TruncateType
  <2>8. n \in 0..Len(l) /\ k \in 0..Len(s) /\ k \in 0..Len(l)
    <3>1. n < Len(l) /\ n \in Nat
      BY <2>5, FileAssumption DEF TruncateLog
    <3> QED  BY <2>6, <2>7, <3>1
  <2>9. IsPrefix(SubSeq(s, 1, k), SubSeq(l, 1, n))
    <3>1. /\ SubSeq(s, 1, k) \in Seq(Entry) /\ Len(SubSeq(s, 1, k)) = k
          /\ \A q \in 1..k : SubSeq(s, 1, k)[q] = s[q]
      BY <2>8, FirstOf
    <3>2. /\ SubSeq(l, 1, n) \in Seq(Entry) /\ Len(SubSeq(l, 1, n)) = n
          /\ \A q \in 1..n : SubSeq(l, 1, n)[q] = l[q]
      BY <2>8, FirstOf
    <3>3. \A q \in 1..k : q \in 1..n /\ q \in 1..Len(s)  BY <2>7, <2>8
    <3>4. \A q \in 1..k : SubSeq(s, 1, k)[q] = SubSeq(l, 1, n)[q]
      BY <2>6, <3>1, <3>2, <3>3
    <3>5. k <= n  BY <2>7
    <3> QED  BY <3>1, <3>2, <3>4, <3>5, PrefixIs
  <2>10. mem'.log = SubSeq(l, 1, n) /\ history'.old = l
    BY <2>5, TruncateType
  <2> QED  BY <1>1, <2>3, <2>5, <2>7, <2>9, <2>10 DEF LogFileOwn
<1> QED  BY <1>2, <1>3, <1>4

LEMMA RewriteKeepsLog ==
    ASSUME FilesType, LogFileOwn, RemoveFile \/ Reopen \/ Flush
    PROVE  LogFileOwn'
<1>1. pc' \in {"idle", "reopen", "flush"}
  BY DEF RemoveFile, Reopen, Flush
<1>2. CASE ~NoFaults'  BY <1>1, <1>2 DEF LogFileOwn
<1>3. CASE NoFaults'
  <2>1. ~Fault  BY <1>3, FaultCounts
  <2>2. UNCHANGED counts  BY <2>1 DEF RemoveFile, Reopen, Flush
  <2>3. NoFaults  BY <1>3, <2>2 DEF NoFaults
  <2>4. CASE RemoveFile
    BY <2>1, <2>3, <2>4 DEF RemoveFile, LogFileOwn
  <2>5. CASE Reopen
    <3>1. file = << >> /\ IsPrefix(history.stored, mem.log)
      BY <2>3, <2>5 DEF Reopen, LogFileOwn
    <3>2. buf' = Lines(mem.log) /\ pc' = "flush" /\ open'
          /\ UNCHANGED <<mem, file, history>>
      BY <2>1, <2>5 DEF Reopen
    <3>3. ReadsBack(<< >>, Lines(mem.log), mem.log)
      BY FileFields, ReadsBackLines
    <3> QED  BY <3>1, <3>2, <3>3 DEF LogFileOwn
  <2>6. CASE Flush
    <3>1. /\ Written(Len(buf)) /\ UNCHANGED <<mem, open>> /\ pc' = "idle"
      BY <2>1, <2>6 DEF Flush
    <3>2. /\ ReadsBack(file, buf, mem.log) /\ file = << >> /\ open
          /\ buf = Lines(mem.log) /\ IsPrefix(history.stored, mem.log)
      BY <2>3, <2>6 DEF Flush, LogFileOwn
    <3>3. Len(buf) \in 0..Len(buf)  BY FileFields
    <3> QED  BY <3>1, <3>2, <3>3, WrittenKeepsLog
  <2> QED  BY <2>4, <2>5, <2>6
<1> QED  BY <1>2, <1>3

\* The next process starts from what it can read.
LEMMA CrashKeepsLog == ASSUME FilesType, LogFileOwn, Crash PROVE LogFileOwn'
<1>1. /\ FilesType' /\ mem'.log = LoadLog(file')
      /\ history'.stored = LoadLog(file')
  BY CrashType
<1>2. buf' = << >> /\ pc' = "idle"  BY DEF Crash
<1>3. CASE ~NoFaults'  BY <1>2, <1>3 DEF LogFileOwn
<1>4. CASE NoFaults'
  <2>1. open'
    <3>1. CASE counts' = [counts EXCEPT !.crashes = @ + 1, !.faults = @ + 1]
      <4>1. counts \in [spills : Nat, faults : Nat, crashes : Nat]
        BY DEF FilesType
      <4>2. counts'.faults = counts.faults + 1 /\ counts.faults \in Nat
        BY <3>1, <4>1
      <4> QED  BY <1>4, <4>2 DEF NoFaults
    <3> QED  BY <3>1 DEF Crash
  <2>2. file' \in Seq(Piece) /\ LoadLog(file') \in Seq(Entry)
    BY <1>1, LoadLogType DEF FilesType
  <2>3. ReadsBack(file', << >>, LoadLog(file')) /\ InFile(LoadLog(file'), file')
    BY <2>2, ReadsBackLoaded
  <2>4. IsPrefix(LoadLog(file'), LoadLog(file'))
    <3>1. Len(LoadLog(file')) <= Len(LoadLog(file'))  BY <2>2
    <3> QED  BY <2>2, <3>1, PrefixIs
  <2> QED  BY <1>1, <1>2, <2>1, <2>3, <2>4 DEF LogFileOwn
<1> QED  BY <1>3, <1>4

LEMMA NextKeepsLogFile ==
    ASSUME FilesType, LogFileOwn, Next PROVE LogFileOwn'
<1>1. NoFaults' => NoFaults  BY FaultsStay
<1> QED
  BY <1>1, SaveStateKeepsLog, AppendKeepsLog, SpillKeepsLog, TruncateKeepsLog,
     RewriteKeepsLog, CrashKeepsLog DEF Next

LEMMA LogFileAlways == Spec => [](FilesType /\ LogFileOwn)
<1>1. FilesType /\ LogFileOwn /\ [Next]_vars => (FilesType /\ LogFileOwn)'
  BY NextKeepsFiles, FilesStutter, NextKeepsLogFile, LogFileStutters
<1> QED  BY <1>1, InitFiles, InitLogFile, PTL DEF Spec

\* Whenever the process dies, the next one starts from a beginning of this
\* node's log, or of its log before the cut it is just writing (AppendLogEntry,
\* TruncateLog).
THEOREM OwnLogRecovered == Spec => []RecoversOwnLog
<1>1. FilesType /\ LogFileOwn => RecoversOwnLog
  <2> SUFFICES ASSUME FilesType, LogFileOwn, NoFaults
               PROVE  \/ IsPrefix(LoadLog(file), mem.log)
                      \/ pc # "idle" /\ IsPrefix(LoadLog(file), history.old)
    BY DEF RecoversOwnLog
  <2>1. CASE pc = "remove"  BY <2>1 DEF LogFileOwn
  <2>2. CASE pc = "reopen"
    <3>1. file = << >>  BY <2>2 DEF LogFileOwn
    <3> QED  BY <3>1, LoadNothing, FileFields, EmptyIsPrefix
  <2>3. CASE pc \notin {"remove", "reopen"}
    BY <2>3, FileFields, ReadsBackNow DEF LogFileOwn
  <2> QED  BY <2>1, <2>2, <2>3
<1> QED  BY <1>1, LogFileAlways, PTL

\* What has once reached the file is there after a restart, unless a crash cuts
\* a line or comes in the middle of TruncateLog (AppendLogEntry, TruncateLog,
\* LoadLog).
THEOREM StoredIsKept == Spec => []OnlyTheBufferIsLost
<1>1. FilesType /\ LogFileOwn => OnlyTheBufferIsLost
  BY FileFields, InFileIsRead DEF LogFileOwn, OnlyTheBufferIsLost
<1> QED  BY <1>1, LogFileAlways, PTL

=============================================================================
