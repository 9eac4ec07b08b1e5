---------------------------- MODULE MainLoggerProofs ----------------------------
(*****************************************************************************)
(* Theorems about MainLogger, for any number of processes, hosts and entries. *)
(*                                                                           *)
(* LoggerTypeOK bounds FileCount by 2 and file numbers by 1, which no action  *)
(* preserves on its own: FileNumbering, that the interfaces are created in a  *)
(* fixed order and numbered in that order, makes it inductive and gives       *)
(* SameNames.  CountsCoverFile speaks of a sum over processes: the sum is     *)
(* shown to be the number of the entries counted, one by one, so that what a  *)
(* step does to it is what it does to a set.                                  *)
(*****************************************************************************)
EXTENDS MainLogger, LoggerTypesProofs, WellFoundedInduction

\* The counter and the file numbers follow from which interfaces exist.
FileNumbering ==
    \A p \in Process :
        /\ JSON \in opened[p] => Custom \in opened[p]
        /\ FileCount[p] = IF JSON \in opened[p] THEN 2
                          ELSE IF Custom \in opened[p] THEN 1 ELSE 0
        /\ Custom \in opened[p] => FileNo[p][Custom] = 0
        /\ JSON \in opened[p] => FileNo[p][JSON] = 1
        /\ ~Instance[p] => opened[p] = {} /\ pc[p] # "exec"

LoggerInv == LoggerTypeOK /\ FileNumbering

--------------------------------------------------------------------------------
(* The records that the actions build have the types they should have. *)

\* The entry HandleInstruction builds of an instruction is a LogEntry.
LEMMA EntryOfType ==
    ASSUME NEW p \in Process, NEW ins \in Instruction
    PROVE  EntryOf(p, ins) \in LogEntry(Id)
<1>1. SeverityOf(ins.Type) \in Int
  BY DEF Instruction, LoggerInstruction, InstructionType, ReflectLog, SeverityOf
<1>2. SerializeSeverity(SeverityOf(ins.Type)) \in Label
  BY <1>1, SerializeSeverityType
<1>3. HostOf[p] \in Host
  BY ProcessAssumption
<1>4. /\ ins.id \in Id
      /\ ins.PID \in Pid
      /\ ins.Data \in Text
  BY DEF Instruction, LoggerInstruction
<1> QED
  BY <1>2, <1>3, <1>4 DEF EntryOf, LogEntry

--------------------------------------------------------------------------------
(* Every step preserves the invariant. *)

LEMMA LoggerInitInv == LoggerInit => LoggerInv
<1> SUFFICES ASSUME LoggerInit PROVE LoggerInv
  OBVIOUS
<1>1. (CHOOSE ins \in Input : TRUE) \in Instruction
  BY InputAssumption
<1>2. << >> \in Seq(LogEntry(Id))
  OBVIOUS
<1>3. LoggerTypeOK
  <2>1. /\ pc \in [Process -> {"idle", "exec", "request", "done", "threw", "exited"}]
        /\ cur \in [Process -> Instruction]
        /\ Instance \in [Process -> BOOLEAN]
        /\ opened \in [Process -> SUBSET FileFormat]
    BY <1>1 DEF LoggerInit
  <2>2. /\ FileNo \in [Process -> [FileFormat -> 0..1]]
        /\ FileCount \in [Process -> 0..2]
        /\ EntryCount \in [Process -> [FileFormat -> 0..MAX_ENTRIES]]
    BY MaxEntriesAssumption DEF LoggerInit
  <2>3. disk \in [Host -> [FileName -> Seq(LogEntry(Id))]]
    BY <1>2 DEF LoggerInit
  <2> QED
    BY <2>1, <2>2, <2>3 DEF LoggerTypeOK
<1>4. FileNumbering
  BY DEF LoggerInit, FileNumbering, JSON, Custom, FileFormat
<1> QED
  BY <1>3, <1>4 DEF LoggerInv

PC == {"idle", "exec", "request", "done", "threw", "exited"}

\* A step of HandleInstruction that leaves the interfaces as they are.
LEMMA QuietStep ==
    ASSUME LoggerInv, NEW p \in Process, NEW label \in PC \ {"exec"}, GoTo(p, label),
           UNCHANGED <<cur, Instance, opened, FileNo, FileCount>>,
           EntryCount' \in [Process -> [FileFormat -> 0..MAX_ENTRIES]],
           disk' \in [Host -> [FileName -> Seq(LogEntry(Id))]]
    PROVE  LoggerInv'
<1>1. pc' \in [Process -> PC]
  BY DEF GoTo, LoggerInv, LoggerTypeOK, PC
<1>2. LoggerTypeOK'
  BY <1>1 DEF LoggerInv, LoggerTypeOK, PC
<1>3. FileNumbering'
  BY DEF LoggerInv, LoggerTypeOK, FileNumbering, GoTo
<1> QED
  BY <1>2, <1>3 DEF LoggerInv

\* LogLine counts no further than MAX_ENTRIES.
LEMMA CountedType ==
    ASSUME LoggerInv, NEW p \in Process, Counted(p)
    PROVE  EntryCount' \in [Process -> [FileFormat -> 0..MAX_ENTRIES]]
<1>1. EntryCount \in [Process -> [FileFormat -> 0..MAX_ENTRIES]]
  BY DEF LoggerInv, LoggerTypeOK
<1>2. PICK f \in FileFormat : /\ f = Format(p)
                              /\ EntryCount[p][f] # MAX_ENTRIES
                              /\ EntryCount' = [EntryCount EXCEPT ![p][f] = @ + 1]
  BY DEF Counted, InLogLine
<1>3. EntryCount[p][f] + 1 \in 0..MAX_ENTRIES
  <2>1. EntryCount[p][f] \in 0..MAX_ENTRIES
    BY <1>1
  <2> QED
    BY <1>2, <2>1, MaxEntriesAssumption
<1> QED
  BY <1>1, <1>2, <1>3

\* Appending an entry to a file leaves the disk a disk.
LEMMA AppendType ==
    ASSUME LoggerInv, NEW p \in Process, NEW file \in FileName,
           disk' = [disk EXCEPT ![HostOf[p]][file] = Append(@, EntryOf(p, cur[p]))]
    PROVE  disk' \in [Host -> [FileName -> Seq(LogEntry(Id))]]
<1>1. disk \in [Host -> [FileName -> Seq(LogEntry(Id))]] /\ cur[p] \in Instruction
  BY DEF LoggerInv, LoggerTypeOK
<1>2. EntryOf(p, cur[p]) \in LogEntry(Id)
  BY <1>1, EntryOfType
<1>3. HostOf[p] \in Host
  BY ProcessAssumption
<1>4. Append(disk[HostOf[p]][file], EntryOf(p, cur[p])) \in Seq(LogEntry(Id))
  BY <1>1, <1>2, <1>3
<1> QED
  BY <1>1, <1>3, <1>4

\* The constructor numbers the .ctf file 0 and the .json file 1.
LEMMA CreatedNumber ==
    ASSUME LoggerInv, NEW p \in Process, NEW f \in FileFormat, CreateInterface(p, f)
    PROVE  /\ FileCount[p] = IF f = Custom THEN 0 ELSE 1
           /\ <<FileCount[p], f>> \in FileName
<1>1. FileCount[p] = IF f = Custom THEN 0 ELSE 1
  BY DEF CreateInterface, Creates, LoggerInv, LoggerTypeOK, FileNumbering,
         FileFormat, JSON, Custom
<1> QED
  BY <1>1 DEF FileName, FileFormat, JSON, Custom

LEMMA LoggerStepInv ==
    ASSUME LoggerInv, NEW p \in Process, NEW ins \in Instruction, LoggerStep(p, ins)
    PROVE  LoggerInv'
<1> USE DEF PC
<1>0. /\ EntryCount \in [Process -> [FileFormat -> 0..MAX_ENTRIES]]
      /\ disk \in [Host -> [FileName -> Seq(LogEntry(Id))]]
  BY DEF LoggerInv, LoggerTypeOK
<1>1. CASE HandleInstruction(p, ins)
  <2>1. LoggerTypeOK'
    BY <1>1 DEF HandleInstruction, GoTo, LoggerInv, LoggerTypeOK
  <2>2. opened' = opened
    BY <1>1 DEF HandleInstruction, LoggerInv, LoggerTypeOK, FileNumbering
  <2>3. FileNumbering'
    BY <1>1, <2>2 DEF HandleInstruction, GoTo, LoggerInv, LoggerTypeOK, FileNumbering
  <2> QED
    BY <2>1, <2>3 DEF LoggerInv
<1>2. ASSUME NEW f \in FileFormat, CreateInterface(p, f)
      PROVE  LoggerInv'
  <2>1. FileCount[p] = IF f = Custom THEN 0 ELSE 1
    BY <1>2, CreatedNumber
  <2>2. <<FileCount[p], f>> \in FileName
    BY <1>2, CreatedNumber
  <2>3. disk' \in [Host -> [FileName -> Seq(LogEntry(Id))]]
    <3>1. HostOf[p] \in Host
      BY ProcessAssumption
    <3>2. << >> \in Seq(LogEntry(Id))
      OBVIOUS
    <3>3. disk' = [disk EXCEPT ![HostOf[p]][<<FileCount[p], f>>] = << >>]
      BY <1>2 DEF CreateInterface
    <3> QED
      BY <1>0, <2>2, <3>1, <3>2, <3>3
  <2>4. EntryCount' \in [Process -> [FileFormat -> 0..MAX_ENTRIES]]
    BY <1>0, <1>2, MaxEntriesAssumption DEF CreateInterface
  <2>5. LoggerTypeOK'
    BY <1>2, <2>1, <2>3, <2>4
    DEF CreateInterface, LoggerInv, LoggerTypeOK, FileFormat, JSON, Custom
  <2>6. FileNumbering'
    BY <1>2, <2>1
    DEF CreateInterface, Creates, LoggerInv, LoggerTypeOK, FileNumbering, FileFormat,
        JSON, Custom
  <2> QED
    BY <2>5, <2>6 DEF LoggerInv
<1>3. ASSUME NEW f \in FileFormat, CreateInterfaceFails(p, f)
      PROVE  LoggerInv'
  BY <1>0, <1>3, QuietStep DEF CreateInterfaceFails
<1>4. CASE NoFileInterface(p)
  BY <1>0, <1>4, QuietStep DEF NoFileInterface
<1>5. CASE LogLineFull(p)
  BY <1>0, <1>5, QuietStep DEF LogLineFull, InLogLine
<1>6. CASE LogLineLocal(p)
  <2>1. FileOf(p, Format(p)) \in FileName
    BY <1>6 DEF LogLineLocal, Counted, InLogLine, LoggerInv, LoggerTypeOK, FileOf, FileName
  <2>2. disk' \in [Host -> [FileName -> Seq(LogEntry(Id))]]
    BY <1>6, <2>1, AppendType DEF LogLineLocal
  <2> QED
    BY <1>6, <2>2, CountedType, QuietStep DEF LogLineLocal, Counted, InLogLine
<1>7. CASE LogLineOpenFails(p)
  BY <1>0, <1>7, CountedType, QuietStep DEF LogLineOpenFails, Counted, InLogLine
<1>8. CASE LogLineThrows(p)
  BY <1>0, <1>8, CountedType, QuietStep DEF LogLineThrows, Counted, InLogLine
<1>9. CASE LogLineRemote(p)
  BY <1>0, <1>9, CountedType, QuietStep DEF LogLineRemote, Counted, InLogLine
<1>10. CASE LogLineNoRemoteHost(p)
  BY <1>0, <1>10, CountedType, QuietStep DEF LogLineNoRemoteHost, Counted, InLogLine
<1>11. CASE LogLineNone(p)
  BY <1>0, <1>11, CountedType, QuietStep DEF LogLineNone, Counted, InLogLine
<1>12. CASE LogLineCrashes(p)
  BY <1>0, <1>12, CountedType, QuietStep DEF LogLineCrashes, Counted, InLogLine
<1>13. CASE RequestReturns(p)
  BY <1>0, <1>13, QuietStep DEF RequestReturns
<1>14. CASE Return(p)
  BY <1>0, <1>14, QuietStep DEF Return
<1>15. CASE Catch(p)
  BY <1>0, <1>15, QuietStep DEF Catch
<1>16. CASE Exit(p)
  BY <1>0, <1>16, QuietStep DEF Exit
<1> QED
  BY <1>1, <1>2, <1>3, <1>4, <1>5, <1>6, <1>7, <1>8, <1>9, <1>10, <1>11, <1>12,
     <1>13, <1>14, <1>15, <1>16 DEF LoggerStep, LogLine

LEMMA LoggerStutterInv ==
    ASSUME LoggerInv, UNCHANGED loggerVars
    PROVE  LoggerInv'
BY DEF LoggerInv, LoggerTypeOK, FileNumbering, loggerVars

\* Whatever the processes log, in any interleaving and with any failure, their
\* state stays well typed: FileCount and EntryCount keep within their bounds.
THEOREM LoggerTypeCorrect == LoggerSpec => []LoggerTypeOK
<1>1. LoggerInv /\ [LoggerNext]_loggerVars => LoggerInv'
  BY LoggerStepInv, LoggerStutterInv, InputAssumption DEF LoggerNext
<1>2. LoggerInv => LoggerTypeOK
  BY DEF LoggerInv
<1> QED
  BY LoggerInitInv, <1>1, <1>2, PTL DEF LoggerSpec

LEMMA NumberingNames == LoggerInv => SameNames
<1> SUFFICES ASSUME LoggerInv, NEW p \in Process, NEW q \in Process,
                    NEW f \in opened[p] \cap opened[q]
             PROVE  FileNo[p][f] = FileNo[q][f]
  BY DEF SameNames, FileOf
<1>1. f = JSON \/ f = Custom
  BY DEF LoggerInv, LoggerTypeOK, FileFormat
<1> QED
  BY <1>1 DEF LoggerInv, FileNumbering

\* However many processes log on a host, and whatever else they did before, the
\* file that FileInterface's constructor picks is the same for all of them.
THEOREM NamesCollide == LoggerSpec => []SameNames
<1>1. LoggerInv /\ [LoggerNext]_loggerVars => LoggerInv'
  BY LoggerStepInv, LoggerStutterInv, InputAssumption DEF LoggerNext
<1> QED
  BY LoggerInitInv, NumberingNames, <1>1, PTL DEF LoggerSpec

--------------------------------------------------------------------------------
(* Lines are lost to a constructor's truncation only. *)

LEMMA PrefixOfSelf ==
    ASSUME NEW S, NEW s \in Seq(S)
    PROVE  IsPrefix(s, s)
BY DEF IsPrefix

LEMMA PrefixOfAppend ==
    ASSUME NEW S, NEW s \in Seq(S), NEW x \in S
    PROVE  IsPrefix(s, Append(s, x))
BY DEF IsPrefix

\* In every step the files whose interfaces exist everywhere keep their lines.
LEMMA StepGrows ==
    ASSUME LoggerInv, NEW p \in Process, NEW ins \in Instruction, LoggerStep(p, ins)
    PROVE  SettledFilesGrow
<1> SUFFICES ASSUME NEW h \in Host, NEW file \in FileName, Settled(h, file)
             PROVE  IsPrefix(disk[h][file], disk'[h][file])
  BY DEF SettledFilesGrow
<1>1. /\ disk[h][file] \in Seq(LogEntry(Id))
      /\ disk \in [Host -> [FileName -> Seq(LogEntry(Id))]]
      /\ cur[p] \in Instruction
      /\ HostOf[p] \in Host
  BY ProcessAssumption DEF LoggerInv, LoggerTypeOK
<1>2. ASSUME disk'[h][file] = disk[h][file]
      PROVE  IsPrefix(disk[h][file], disk'[h][file])
  BY <1>1, <1>2, PrefixOfSelf
<1>3. ASSUME NEW f \in FileFormat, CreateInterface(p, f)
      PROVE  disk'[h][file] = disk[h][file]
  <2>1. HostOf[p] # h \/ file[2] # f
    BY <1>3 DEF CreateInterface, Creates, Settled
  <2>2. <<h, file>> # <<HostOf[p], <<FileCount[p], f>>>>
    BY <2>1
  <2> QED
    BY <1>1, <1>3, <2>2 DEF CreateInterface
<1>4. CASE LogLineLocal(p)
  <2> DEFINE own == FileOf(p, Format(p))
  <2>1. disk' = [disk EXCEPT ![HostOf[p]][own] = Append(@, EntryOf(p, cur[p]))]
    BY <1>4 DEF LogLineLocal
  <2>2. CASE h = HostOf[p] /\ file = own
    <3>1. EntryOf(p, cur[p]) \in LogEntry(Id)
      BY <1>1, EntryOfType
    <3>2. disk'[h][file] = Append(disk[h][file], EntryOf(p, cur[p]))
      <4> HIDE DEF own
      <4> QED BY <1>1, <2>1, <2>2
    <3> QED
      BY <1>1, <3>1, <3>2, PrefixOfAppend
  <2>3. CASE ~(h = HostOf[p] /\ file = own)
    <3> HIDE DEF own
    <3> QED BY <1>1, <1>2, <2>1, <2>3
  <2> QED
    BY <2>2, <2>3
<1>5. \/ UNCHANGED disk
      \/ LogLineLocal(p)
      \/ \E f \in FileFormat : CreateInterface(p, f)
  BY DEF LoggerStep, LogLine, HandleInstruction, CreateInterfaceFails, NoFileInterface,
         LogLineFull, LogLineOpenFails, LogLineThrows, LogLineRemote,
         LogLineNoRemoteHost, LogLineNone, LogLineCrashes, RequestReturns, Return,
         Catch, Exit
<1> QED
  BY <1>2, <1>3, <1>4, <1>5

\* For any number of processes sharing the files of any number of hosts, a file
\* can lose lines only while some living process has not opened its own yet.
THEOREM GrowOnceOpened == LoggerSpec => AppendOnlyOnceOpened
<1>1. LoggerInv /\ [LoggerNext]_loggerVars => LoggerInv'
  BY LoggerStepInv, LoggerStutterInv, InputAssumption DEF LoggerNext
<1>2. LoggerInv /\ [LoggerNext]_loggerVars => [SettledFilesGrow]_disk
  BY StepGrows, InputAssumption DEF LoggerNext, loggerVars
<1> QED
  BY LoggerInitInv, <1>1, <1>2, PTL DEF LoggerSpec, AppendOnlyOnceOpened

--------------------------------------------------------------------------------
(* Sums over sets of processes *)

\* The element that a fold over a set takes first.
Pick(s) == CHOOSE x \in s : TRUE

\* What holds of the empty set, and of a set if it holds of the set without the
\* element that a fold takes first, holds of every part of a finite set.
LEMMA PickInduction ==
    ASSUME NEW W, IsFiniteSet(W), NEW Good, {} \in Good,
           \A s \in SUBSET W : s # {} /\ s \ {Pick(s)} \in Good => s \in Good
    PROVE  SUBSET W \subseteq Good
<1> DEFINE Bad == (SUBSET W) \ Good
<1> SUFFICES ASSUME Bad # {} PROVE FALSE
  OBVIOUS
<1>1. IsWellFoundedOn(StrictSubsetOrdering(W), FiniteSubsetsOf(W))
  BY FS_StrictSubsetOrderingWellFounded
<1>2. FiniteSubsetsOf(W) = SUBSET W
  BY FS_FiniteSubsetsOfFinite
<1>3. Bad \subseteq FiniteSubsetsOf(W)
  BY <1>2
<1> HIDE DEF Bad
<1>4. PICK s \in Bad : \A t \in Bad : ~(<<t, s>> \in StrictSubsetOrdering(W))
  BY <1>1, <1>3, WFMin
<1>5. s \in SUBSET W /\ s \notin Good /\ s # {}
  <2>1. s \in SUBSET W /\ s \notin Good
    BY DEF Bad
  <2> QED BY <2>1
<1>6. Pick(s) \in s
  BY <1>5 DEF Pick
<1> DEFINE t == s \ {Pick(s)}
<1>7. t \in SUBSET W /\ t \subseteq s /\ t # s
  BY <1>5, <1>6
<1>8. t \in Good
  <2>1. <<t, s>> \in StrictSubsetOrdering(W)
    BY <1>5, <1>7 DEF StrictSubsetOrdering
  <2> HIDE DEF t
  <2> QED BY <1>4, <1>7, <2>1 DEF Bad
<1> QED BY <1>5, <1>8

--------------------------------------------------------------------------------
\* The sum of CountsCoverFile, over the writers W of a file of format f.
Total(e, f, W) == MapThenSumSet(LAMBDA p : e[p][f], W)

\* The recursion by which a fold is defined, over all parts of W at once.
Solves(g, e, f, W) ==
    g = [s \in SUBSET W |-> IF s = {} THEN 0 ELSE e[Pick(s)][f] + g[s \ {Pick(s)}]]

\* Where the recursion has a solution, the sum is one.
LEMMA TotalSolves ==
    ASSUME NEW e, NEW f, NEW W, NEW h, Solves(h, e, f, W)
    PROVE  \E g : Solves(g, e, f, W) /\ Total(e, f, W) = g[W]
<1> DEFINE g == CHOOSE g : Solves(g, e, f, W)
<1>1. Solves(g, e, f, W)
  OBVIOUS
<1>2. Total(e, f, W) = g[W]
  BY DEF Total, MapThenSumSet, MapThenFoldSet, Solves, Pick
<1> QED BY <1>1, <1>2

\* The units that are added up.
Units(e, f, W) == {u \in W \X Nat : u[2] \in 1..e[u[1]][f]}

LEMMA UnitsOfOne ==
    ASSUME NEW p, NEW n \in Nat
    PROVE  IsFiniteSet({p} \X (1..n)) /\ Cardinality({p} \X (1..n)) = n
<1>1. IsFiniteSet(1..n) /\ Cardinality(1..n) = n
  BY FS_Interval
<1>2. IsFiniteSet({p}) /\ Cardinality({p}) = 1
  BY FS_Singleton
<1>3. /\ IsFiniteSet({p} \X (1..n))
      /\ Cardinality({p} \X (1..n)) = Cardinality({p}) * Cardinality(1..n)
  BY <1>1, <1>2, FS_Product
<1> QED BY <1>1, <1>2, <1>3

LEMMA UnitsWithout ==
    ASSUME NEW e, NEW f, NEW W, NEW p \in W, e[p][f] \in Nat,
           IsFiniteSet(Units(e, f, W \ {p}))
    PROVE  /\ IsFiniteSet(Units(e, f, W))
           /\ Cardinality(Units(e, f, W)) = e[p][f] + Cardinality(Units(e, f, W \ {p}))
<1> DEFINE A == {p} \X (1..e[p][f])
           B == Units(e, f, W \ {p})
<1>1. IsFiniteSet(A) /\ Cardinality(A) = e[p][f]
  BY UnitsOfOne
<1>2. Units(e, f, W) = A \cup B
  BY DEF Units
<1>3. A \cap B = {}
  BY DEF Units
<1>4. IsFiniteSet(B) /\ Cardinality(B) \in Nat
  BY FS_CardinalityType
<1> HIDE DEF A, B
<1>5. /\ IsFiniteSet(A \cup B)
      /\ Cardinality(A \cup B) = Cardinality(A) + Cardinality(B) - Cardinality(A \cap B)
  BY <1>1, <1>4, FS_Union
<1>6. Cardinality(A \cap B) = 0
  BY <1>3, FS_EmptySet
<1>7. Cardinality(A \cup B) = e[p][f] + Cardinality(B)
  BY <1>1, <1>4, <1>5, <1>6
<1> QED BY <1>2, <1>5, <1>7 DEF B

LEMMA UnitsOfNone ==
    ASSUME NEW e, NEW f
    PROVE  IsFiniteSet(Units(e, f, {})) /\ Cardinality(Units(e, f, {})) = 0
<1>1. Units(e, f, {}) = {}
  BY DEF Units
<1> QED BY <1>1, FS_EmptySet

LEMMA UnitsFinite ==
    ASSUME NEW e, NEW f, NEW W, IsFiniteSet(W), \A p \in W : e[p][f] \in Nat
    PROVE  \A s \in SUBSET W : IsFiniteSet(Units(e, f, s))
<1> DEFINE Good == {s \in SUBSET W : IsFiniteSet(Units(e, f, s))}
<1>1. {} \in Good
  BY UnitsOfNone
<1>2. ASSUME NEW s \in SUBSET W, s # {}, s \ {Pick(s)} \in Good
      PROVE  s \in Good
  <2>1. Pick(s) \in s
    BY <1>2 DEF Pick
  <2>2. e[Pick(s)][f] \in Nat
    BY <2>1
  <2>3. IsFiniteSet(Units(e, f, s \ {Pick(s)}))
    BY <1>2
  <2>4. IsFiniteSet(Units(e, f, s))
    BY <2>1, <2>2, <2>3, UnitsWithout
  <2> QED BY <2>4
<1> HIDE DEF Good
<1>3. SUBSET W \subseteq Good
  BY <1>1, <1>2, PickInduction
<1> QED BY <1>3 DEF Good

LEMMA UnitsSolve ==
    ASSUME NEW e, NEW f, NEW W, IsFiniteSet(W), \A p \in W : e[p][f] \in Nat
    PROVE  Solves([s \in SUBSET W |-> Cardinality(Units(e, f, s))], e, f, W)
<1> DEFINE g == [s \in SUBSET W |-> Cardinality(Units(e, f, s))]
           h == [s \in SUBSET W |-> IF s = {} THEN 0 ELSE e[Pick(s)][f] + g[s \ {Pick(s)}]]
<1>1. ASSUME NEW s \in SUBSET W
      PROVE  g[s] = h[s]
  <2>1. CASE s = {}
    BY <2>1, UnitsOfNone
  <2>2. CASE s # {}
    <3>1. Pick(s) \in s /\ s \ {Pick(s)} \in SUBSET W
      BY <2>2 DEF Pick
    <3>2. e[Pick(s)][f] \in Nat /\ IsFiniteSet(Units(e, f, s \ {Pick(s)}))
      BY <3>1, UnitsFinite
    <3>3. Cardinality(Units(e, f, s)) =
              e[Pick(s)][f] + Cardinality(Units(e, f, s \ {Pick(s)}))
      <4> DEFINE q == Pick(s)
      <4>1. q \in s /\ e[q][f] \in Nat /\ IsFiniteSet(Units(e, f, s \ {q}))
        BY <3>1, <3>2
      <4> HIDE DEF g, h, q
      <4>2. Cardinality(Units(e, f, s)) = e[q][f] + Cardinality(Units(e, f, s \ {q}))
        BY <4>1, UnitsWithout
      <4> QED BY <4>2 DEF q
    <3>4. h[s] = e[Pick(s)][f] + g[s \ {Pick(s)}]
      <4> HIDE DEF g
      <4> QED BY <2>2
    <3> QED BY <3>1, <3>3, <3>4
  <2> QED BY <2>1, <2>2
<1>2. g = h
  BY <1>1
<1> QED BY <1>2 DEF Solves

\* A sum over a finite set of processes counts its units.
LEMMA TotalCounts ==
    ASSUME NEW e, NEW f, NEW W, IsFiniteSet(W), \A p \in W : e[p][f] \in Nat
    PROVE  /\ Total(e, f, W) = Cardinality(Units(e, f, W))
           /\ IsFiniteSet(Units(e, f, W))
<1> DEFINE h == [s \in SUBSET W |-> Cardinality(Units(e, f, s))]
<1>1. Solves(h, e, f, W)
  BY UnitsSolve
<1>2. PICK g : Solves(g, e, f, W) /\ Total(e, f, W) = g[W]
  <2> HIDE DEF h
  <2> QED BY <1>1, TotalSolves
<1> DEFINE Good == {s \in SUBSET W : g[s] = h[s]}
<1>3. /\ g = [s \in SUBSET W |-> IF s = {} THEN 0 ELSE e[Pick(s)][f] + g[s \ {Pick(s)}]]
      /\ h = [s \in SUBSET W |-> IF s = {} THEN 0 ELSE e[Pick(s)][f] + h[s \ {Pick(s)}]]
  <2> HIDE DEF h
  <2> QED BY <1>1, <1>2 DEF Solves
<1> HIDE DEF h
<1>4. {} \in Good
  <2>1. {} \in SUBSET W
    OBVIOUS
  <2>2. g[{}] = 0 /\ h[{}] = 0
    BY <1>3, <2>1
  <2> QED BY <2>1, <2>2
<1>5. ASSUME NEW s \in SUBSET W, s # {}, s \ {Pick(s)} \in Good
      PROVE  s \in Good
  <2>1. /\ g[s] = e[Pick(s)][f] + g[s \ {Pick(s)}]
        /\ h[s] = e[Pick(s)][f] + h[s \ {Pick(s)}]
    BY <1>3, <1>5
  <2> QED BY <1>5, <2>1
<1>6. W \in Good
  <2> HIDE DEF Good
  <2>1. SUBSET W \subseteq Good
    BY <1>4, <1>5, PickInduction
  <2> QED BY <2>1
<1>7. g[W] = h[W] /\ h[W] = Cardinality(Units(e, f, W))
  BY <1>6 DEF h
<1> QED BY <1>2, <1>7, UnitsFinite

--------------------------------------------------------------------------------
(* EntryCount never falls behind the file. *)

\* CountsCoverFile for one file, with the sum counted out.
Covers(h, file) ==
    LET W == Writers(h, file[1], file[2])
    IN  Len(disk[h][file]) <= Cardinality(Units(EntryCount, file[2], W))

\* The counts of the interfaces, and of the interfaces of a set of processes.
Counts == [Process -> [FileFormat -> 0..MAX_ENTRIES]]

LEMMA UnitsCounted ==
    ASSUME NEW e \in Counts, NEW f \in FileFormat, NEW W \in SUBSET Process
    PROVE  /\ IsFiniteSet(Units(e, f, W))
           /\ Cardinality(Units(e, f, W)) \in Nat
           /\ Total(e, f, W) = Cardinality(Units(e, f, W))
<1>1. IsFiniteSet(W)
  BY ProcessAssumption, FS_Subset
<1>2. \A p \in W : e[p][f] \in Nat
  BY MaxEntriesAssumption DEF Counts
<1>3. /\ IsFiniteSet(Units(e, f, W))
      /\ Total(e, f, W) = Cardinality(Units(e, f, W))
  BY <1>1, <1>2, TotalCounts
<1> QED BY <1>3, FS_CardinalityType

\* More writers that have counted no less.
LEMMA UnitsGrow ==
    ASSUME NEW e \in Counts, NEW d \in Counts, NEW f \in FileFormat,
           NEW X \in SUBSET Process, NEW W \in SUBSET X,
           \A q \in W : e[q][f] <= d[q][f]
    PROVE  Cardinality(Units(e, f, W)) <= Cardinality(Units(d, f, X))
<1>1. IsFiniteSet(Units(d, f, X))
  BY UnitsCounted
<1>2. Units(e, f, W) \subseteq Units(d, f, X)
  BY MaxEntriesAssumption DEF Units, Counts
<1> QED BY <1>1, <1>2, FS_Subset

\* One of them has counted another entry.
LEMMA UnitsGrowByOne ==
    ASSUME NEW e \in Counts, NEW d \in Counts, NEW f \in FileFormat,
           NEW W \in SUBSET Process, NEW p \in W,
           \A q \in W : e[q][f] <= d[q][f], e[p][f] + 1 <= d[p][f]
    PROVE  Cardinality(Units(e, f, W)) + 1 <= Cardinality(Units(d, f, W))
<1> DEFINE U == Units(e, f, W)
           V == Units(d, f, W)
           u == <<p, e[p][f] + 1>>
<1>1. IsFiniteSet(U) /\ IsFiniteSet(V)
  BY UnitsCounted
<1>2. e[p][f] \in Nat
  BY MaxEntriesAssumption DEF Counts
<1>3. u \notin U /\ u \in V
  BY <1>2 DEF Units
<1>4. U \subseteq V
  BY MaxEntriesAssumption DEF Units, Counts
<1> HIDE DEF U, V, u
<1>5. U \cup {u} \subseteq V
  BY <1>3, <1>4
<1>6. Cardinality(U \cup {u}) = Cardinality(U) + 1
  BY <1>1, <1>3, FS_AddElement
<1>7. Cardinality(U \cup {u}) <= Cardinality(V)
  BY <1>1, <1>5, FS_Subset
<1>8. Cardinality(U) + 1 <= Cardinality(V)
  BY <1>6, <1>7
<1> QED BY <1>8 DEF U, V

AllCovered == \A h \in Host, file \in FileName : Covers(h, file)

LEMMA CoversIsCountsCoverFile == LoggerInv => (CountsCoverFile <=> AllCovered)
<1> SUFFICES ASSUME LoggerInv, NEW h \in Host, NEW file \in FileName
             PROVE  LET W == Writers(h, file[1], file[2])
                    IN  MapThenSumSet(LAMBDA p : EntryCount[p][file[2]], W)
                            = Cardinality(Units(EntryCount, file[2], W))
  BY DEF CountsCoverFile, AllCovered, Covers
<1>1. /\ file[2] \in FileFormat /\ Writers(h, file[1], file[2]) \in SUBSET Process
      /\ EntryCount \in Counts
  BY DEF FileName, Writers, LoggerInv, LoggerTypeOK, Counts
<1>2. Total(EntryCount, file[2], Writers(h, file[1], file[2]))
          = Cardinality(Units(EntryCount, file[2], Writers(h, file[1], file[2])))
  BY <1>1, UnitsCounted
<1> QED BY <1>2 DEF Total

\* A file that is left alone stays covered while its writers stay and count on.
LEMMA CoversStays ==
    ASSUME LoggerInv, LoggerInv', NEW h \in Host, NEW file \in FileName,
           Covers(h, file), disk'[h][file] = disk[h][file],
           \A q \in Writers(h, file[1], file[2]) :
               /\ q \in Writers(h, file[1], file[2])'
               /\ EntryCount[q][file[2]] <= EntryCount'[q][file[2]]
    PROVE  Covers(h, file)'
<1> DEFINE f == file[2]
           W == Writers(h, file[1], f)
           X == Writers(h, file[1], f)'
<1>1. /\ f \in FileFormat /\ X \in SUBSET Process /\ W \in SUBSET X
      /\ EntryCount \in Counts /\ EntryCount' \in Counts
      /\ disk[h][file] \in Seq(LogEntry(Id))
  BY DEF FileName, Writers, LoggerInv, LoggerTypeOK, Counts
<1>2. \A q \in W : EntryCount[q][f] <= EntryCount'[q][f]
  OBVIOUS
<1>3. Len(disk[h][file]) <= Cardinality(Units(EntryCount, f, W))
  BY DEF Covers
<1> SUFFICES Len(disk'[h][file]) <= Cardinality(Units(EntryCount', f, X))
  BY DEF Covers, Units
<1> HIDE DEF f, W, X
<1>4. W \in SUBSET Process
  BY <1>1
<1>5. Cardinality(Units(EntryCount, f, W)) \in Nat
  BY <1>1, <1>4, UnitsCounted
<1>6. Cardinality(Units(EntryCount', f, X)) \in Nat
  BY <1>1, UnitsCounted
<1>7. Cardinality(Units(EntryCount, f, W)) <= Cardinality(Units(EntryCount', f, X))
  BY <1>1, <1>2, UnitsGrow
<1> QED BY <1>1, <1>3, <1>5, <1>6, <1>7

\* A file whose lines are truncated away is covered whatever was counted.
LEMMA CoversTruncated ==
    ASSUME LoggerInv', NEW h \in Host, NEW file \in FileName, disk'[h][file] = << >>
    PROVE  Covers(h, file)'
<1> DEFINE f == file[2]
           X == Writers(h, file[1], f)'
<1>1. f \in FileFormat /\ X \in SUBSET Process /\ EntryCount' \in Counts
  BY DEF FileName, Writers, LoggerInv, LoggerTypeOK, Counts
<1> SUFFICES Len(disk'[h][file]) <= Cardinality(Units(EntryCount', f, X))
  BY DEF Covers, Units
<1> HIDE DEF f, X
<1>2. Cardinality(Units(EntryCount', f, X)) \in Nat
  BY <1>1, UnitsCounted
<1> QED BY <1>2

\* Counted comes before the line: the file it is appended to stays covered.
LEMMA CoversAppended ==
    ASSUME LoggerInv, LoggerInv', NEW p \in Process, LogLineLocal(p),
           NEW h \in Host, NEW file \in FileName, h = HostOf[p],
           file = FileOf(p, Format(p)), Covers(h, file)
    PROVE  Covers(h, file)'
<1> DEFINE f == file[2]
           W == Writers(h, file[1], f)
<1>1. f = Format(p) /\ file[1] = FileNo[p][f]
  BY DEF FileOf
<1>2. /\ f \in FileFormat /\ W \in SUBSET Process /\ p \in W
      /\ EntryCount \in Counts /\ EntryCount' \in Counts
      /\ disk \in [Host -> [FileName -> Seq(LogEntry(Id))]]
      /\ cur[p] \in Instruction
  BY <1>1 DEF LogLineLocal, Counted, InLogLine, FileName, Writers, LoggerInv, LoggerTypeOK,
         Counts
<1>3. W = Writers(h, file[1], f)'
  BY DEF LogLineLocal, Counted, InLogLine, Writers
<1>4. EntryCount' = [EntryCount EXCEPT ![p][f] = @ + 1]
  BY <1>1 DEF LogLineLocal, Counted
<1>5. disk' = [disk EXCEPT ![h][file] = Append(@, EntryOf(p, cur[p]))]
  BY <1>1 DEF LogLineLocal
<1>6. Len(disk[h][file]) <= Cardinality(Units(EntryCount, f, W))
  BY DEF Covers
<1> SUFFICES Len(disk'[h][file]) <= Cardinality(Units(EntryCount', f, W))
  BY <1>3 DEF Covers, Units
<1> HIDE DEF f, W
<1>7. EntryCount[p][f] + 1 <= EntryCount'[p][f]
  BY <1>2, <1>4, MaxEntriesAssumption DEF Counts
<1>8. \A q \in W : EntryCount[q][f] <= EntryCount'[q][f]
  BY <1>2, <1>4, MaxEntriesAssumption DEF Counts
<1>9. Cardinality(Units(EntryCount, f, W)) + 1 <= Cardinality(Units(EntryCount', f, W))
  BY <1>2, <1>7, <1>8, UnitsGrowByOne
<1>10. Len(disk'[h][file]) = Len(disk[h][file]) + 1 /\ Len(disk[h][file]) \in Nat
  BY <1>2, <1>5, EntryOfType
<1>11. /\ Cardinality(Units(EntryCount, f, W)) \in Nat
       /\ Cardinality(Units(EntryCount', f, W)) \in Nat
  BY <1>2, UnitsCounted
<1> QED BY <1>6, <1>9, <1>10, <1>11

\* A counted entry that goes somewhere else, or nowhere.
LEMMA CoversCounted ==
    ASSUME LoggerInv, LoggerInv', NEW p \in Process, Counted(p),
           NEW h \in Host, NEW file \in FileName, Covers(h, file),
           disk'[h][file] = disk[h][file]
    PROVE  Covers(h, file)'
<1>1. EntryCount \in Counts /\ file[2] \in FileFormat
  BY DEF FileName, LoggerInv, LoggerTypeOK, Counts
<1>2. EntryCount' = [EntryCount EXCEPT ![p][Format(p)] = @ + 1]
  BY DEF Counted
<1>3. \A q \in Process : EntryCount[q][file[2]] <= EntryCount'[q][file[2]]
  BY <1>1, <1>2, MaxEntriesAssumption DEF Counts
<1>4. Writers(h, file[1], file[2])' = Writers(h, file[1], file[2])
  BY DEF Counted, InLogLine, Writers
<1> QED BY <1>3, <1>4, CoversStays DEF Writers

\* A process that creates an interface was not among the writers of any file of
\* that format, so that no count of a writer is reset.
LEMMA CoversCreated ==
    ASSUME LoggerInv, LoggerInv', NEW p \in Process, NEW form \in FileFormat,
           CreateInterface(p, form), NEW h \in Host, NEW file \in FileName,
           Covers(h, file)
    PROVE  Covers(h, file)'
<1>1. /\ disk \in [Host -> [FileName -> Seq(LogEntry(Id))]]
      /\ EntryCount \in Counts /\ FileNo \in [Process -> [FileFormat -> 0..1]]
      /\ opened \in [Process -> SUBSET FileFormat]
  BY DEF LoggerInv, LoggerTypeOK, Counts
<1>2. /\ form \notin opened[p]
      /\ opened' = [opened EXCEPT ![p] = @ \cup {form}]
      /\ FileNo' = [FileNo EXCEPT ![p][form] = FileCount[p]]
      /\ EntryCount' = [EntryCount EXCEPT ![p][form] = 0]
      /\ disk' = [disk EXCEPT ![HostOf[p]][<<FileCount[p], form>>] = << >>]
  BY DEF CreateInterface, Creates
<1>3. HostOf[p] \in Host /\ <<FileCount[p], form>> \in FileName
  BY ProcessAssumption, CreatedNumber
<1>4. CASE h = HostOf[p] /\ file = <<FileCount[p], form>>
  <2>1. disk'[h][file] = << >>
    BY <1>1, <1>2, <1>3, <1>4
  <2> QED BY <2>1, CoversTruncated
<1>5. CASE ~(h = HostOf[p] /\ file = <<FileCount[p], form>>)
  <2>1. disk'[h][file] = disk[h][file]
    BY <1>1, <1>2, <1>3, <1>5
  <2>2. ASSUME NEW q \in Writers(h, file[1], file[2])
        PROVE  /\ q \in Writers(h, file[1], file[2])'
               /\ EntryCount[q][file[2]] <= EntryCount'[q][file[2]]
    <3>1. /\ q \in Process /\ HostOf[q] = h /\ file[2] \in opened[q]
          /\ FileNo[q][file[2]] = file[1] /\ file[2] \in FileFormat
      BY DEF Writers, FileName
    <3>2. q # p \/ file[2] # form
      BY <1>2, <3>1
    <3>3. /\ EntryCount'[q][file[2]] = EntryCount[q][file[2]]
          /\ FileNo'[q][file[2]] = file[1] /\ file[2] \in opened'[q]
      BY <1>1, <1>2, <3>1, <3>2 DEF Counts
    <3>4. EntryCount[q][file[2]] \in Nat
      BY <1>1, <3>1, MaxEntriesAssumption DEF Counts
    <3> QED BY <3>1, <3>3, <3>4 DEF Writers
  <2> QED BY <2>1, <2>2, CoversStays
<1> QED BY <1>4, <1>5

\* Steps that neither count nor write.
LEMMA CoversUntouched ==
    ASSUME LoggerInv, LoggerInv', UNCHANGED <<opened, FileNo, EntryCount, disk>>,
           NEW h \in Host, NEW file \in FileName, Covers(h, file)
    PROVE  Covers(h, file)'
BY DEF Covers, Writers, Units

LEMMA StepCovers ==
    ASSUME LoggerInv, LoggerInv', NEW p \in Process, NEW ins \in Instruction,
           LoggerStep(p, ins), NEW h \in Host, NEW file \in FileName, Covers(h, file)
    PROVE  Covers(h, file)'
<1>1. CASE HandleInstruction(p, ins)
  <2>1. UNCHANGED <<opened, FileNo, EntryCount, disk>>
    BY <1>1 DEF HandleInstruction, LoggerInv, LoggerTypeOK, FileNumbering
  <2> QED BY <2>1, CoversUntouched
<1>2. ASSUME NEW form \in FileFormat, CreateInterface(p, form)
      PROVE  Covers(h, file)'
  BY <1>2, CoversCreated
<1>3. CASE LogLineLocal(p)
  <2>1. CASE h = HostOf[p] /\ file = FileOf(p, Format(p))
    BY <1>3, <2>1, CoversAppended
  <2>2. CASE ~(h = HostOf[p] /\ file = FileOf(p, Format(p)))
    <3> DEFINE own == FileOf(p, Format(p))
    <3>1. /\ disk' = [disk EXCEPT ![HostOf[p]][own] = Append(@, EntryOf(p, cur[p]))]
          /\ Counted(p)
      BY <1>3 DEF LogLineLocal
    <3>2. disk \in [Host -> [FileName -> Seq(LogEntry(Id))]]
      BY DEF LoggerInv, LoggerTypeOK
    <3>3. disk'[h][file] = disk[h][file]
      <4> HIDE DEF own
      <4>1. ~(h = HostOf[p] /\ file = own)
        BY <2>2 DEF own
      <4> QED BY <3>1, <3>2, <4>1
    <3> QED BY <3>1, <3>3, CoversCounted
  <2> QED BY <2>1, <2>2
<1>4. CASE Counted(p) /\ UNCHANGED disk
  BY <1>4, CoversCounted
<1>5. CASE UNCHANGED <<opened, FileNo, EntryCount, disk>>
  BY <1>5, CoversUntouched
<1>6. \/ HandleInstruction(p, ins)
      \/ \E form \in FileFormat : CreateInterface(p, form)
      \/ LogLineLocal(p)
      \/ Counted(p) /\ UNCHANGED disk
      \/ UNCHANGED <<opened, FileNo, EntryCount, disk>>
  BY DEF LoggerStep, LogLine, CreateInterfaceFails, NoFileInterface, InLogLine,
         LogLineFull, LogLineOpenFails, LogLineThrows, LogLineRemote,
         LogLineNoRemoteHost, LogLineNone, LogLineCrashes, RequestReturns, Return,
         Catch, Exit
<1> QED BY <1>1, <1>2, <1>3, <1>4, <1>5, <1>6

\* What a step of any process makes of CountsCoverFile.
LEMMA StepCountsCoverFile ==
    ASSUME LoggerInv, CountsCoverFile, NEW p \in Process, NEW ins \in Instruction,
           LoggerStep(p, ins)
    PROVE  CountsCoverFile'
<1>1. LoggerInv'
  BY LoggerStepInv
<1>2. AllCovered
  BY CoversIsCountsCoverFile
<1>3. AllCovered'
  BY <1>1, <1>2, StepCovers DEF AllCovered
<1>4. (LoggerInv => (CountsCoverFile <=> AllCovered))'
  BY CoversIsCountsCoverFile, PTL
<1> QED BY <1>1, <1>3, <1>4

LEMMA StutterCountsCoverFile ==
    ASSUME LoggerInv, CountsCoverFile, UNCHANGED loggerVars
    PROVE  CountsCoverFile'
<1>1. LoggerInv'
  BY LoggerStutterInv
<1>2. AllCovered'
  BY <1>1, CoversIsCountsCoverFile, CoversUntouched DEF AllCovered, loggerVars
<1>3. (LoggerInv => (CountsCoverFile <=> AllCovered))'
  BY CoversIsCountsCoverFile, PTL
<1> QED BY <1>1, <1>2, <1>3

LEMMA InitCountsCoverFile == LoggerInit => CountsCoverFile
<1> SUFFICES ASSUME LoggerInit PROVE CountsCoverFile
  OBVIOUS
<1>1. LoggerInv
  BY LoggerInitInv
<1>2. ASSUME NEW h \in Host, NEW file \in FileName
      PROVE  Covers(h, file)
  <2> DEFINE U == Units(EntryCount, file[2], Writers(h, file[1], file[2]))
  <2>1. /\ file[2] \in FileFormat /\ Writers(h, file[1], file[2]) \in SUBSET Process
        /\ EntryCount \in Counts
    BY <1>1 DEF FileName, Writers, LoggerInv, LoggerTypeOK, Counts
  <2>2. Cardinality(U) \in Nat
    BY <2>1, UnitsCounted
  <2>3. Len(disk[h][file]) = 0
    BY DEF LoggerInit
  <2> QED BY <2>2, <2>3 DEF Covers
<1> QED BY <1>1, <1>2, CoversIsCountsCoverFile DEF AllCovered

\* However many processes write a file, and however truncations, failed writes and
\* writes interleave, its lines are no more than its writers have counted.
THEOREM CountsCover == LoggerSpec => []CountsCoverFile
<1>1. LoggerInv /\ [LoggerNext]_loggerVars => LoggerInv'
  BY LoggerStepInv, LoggerStutterInv, InputAssumption DEF LoggerNext
<1>2. LoggerInv /\ CountsCoverFile /\ [LoggerNext]_loggerVars => CountsCoverFile'
  BY StepCountsCoverFile, StutterCountsCoverFile, InputAssumption DEF LoggerNext
<1> QED
  BY LoggerInitInv, InitCountsCoverFile, <1>1, <1>2, PTL DEF LoggerSpec

\* MAX_ENTRIES bounds what one process writes, not the file: what k processes
\* share has room for k times as many lines.
FileIsBounded ==
    \A h \in Host, file \in FileName :
        Len(disk[h][file]) <=
            Cardinality(Writers(h, file[1], file[2])) * MAX_ENTRIES

LEMMA UnitsBounded ==
    ASSUME NEW e \in Counts, NEW f \in FileFormat, NEW W \in SUBSET Process
    PROVE  Cardinality(Units(e, f, W)) <= Cardinality(W) * MAX_ENTRIES
<1>1. IsFiniteSet(W)
  BY ProcessAssumption, FS_Subset
<1>2. IsFiniteSet(1..MAX_ENTRIES) /\ Cardinality(1..MAX_ENTRIES) = MAX_ENTRIES
  BY FS_Interval, MaxEntriesAssumption
<1>3. /\ IsFiniteSet(W \X (1..MAX_ENTRIES))
      /\ Cardinality(W \X (1..MAX_ENTRIES)) = Cardinality(W) * Cardinality(1..MAX_ENTRIES)
  BY <1>1, <1>2, FS_Product
<1>4. Units(e, f, W) \subseteq W \X (1..MAX_ENTRIES)
  BY MaxEntriesAssumption DEF Units, Counts
<1>5. Cardinality(Units(e, f, W)) <= Cardinality(W \X (1..MAX_ENTRIES))
  BY <1>3, <1>4, FS_Subset
<1> QED BY <1>2, <1>3, <1>5

\* Each writer has counted at most MAX_ENTRIES.
LEMMA CountsBound == LoggerInv /\ CountsCoverFile => FileIsBounded
<1> SUFFICES ASSUME LoggerInv, CountsCoverFile, NEW h \in Host, NEW file \in FileName
             PROVE  Len(disk[h][file]) <=
                        Cardinality(Writers(h, file[1], file[2])) * MAX_ENTRIES
  BY DEF FileIsBounded
<1> DEFINE W == Writers(h, file[1], file[2])
<1>1. Covers(h, file)
  BY CoversIsCountsCoverFile DEF AllCovered
<1>2. /\ file[2] \in FileFormat /\ W \in SUBSET Process /\ EntryCount \in Counts
      /\ disk[h][file] \in Seq(LogEntry(Id))
  BY DEF FileName, Writers, LoggerInv, LoggerTypeOK, Counts
<1>3. Len(disk[h][file]) <= Cardinality(Units(EntryCount, file[2], W))
  BY <1>1 DEF Covers
<1> HIDE DEF W
<1>4. Cardinality(Units(EntryCount, file[2], W)) <= Cardinality(W) * MAX_ENTRIES
  BY <1>2, UnitsBounded
<1>5. Cardinality(Units(EntryCount, file[2], W)) \in Nat /\ Cardinality(W) * MAX_ENTRIES \in Nat
  <2>1. IsFiniteSet(W)
    BY <1>2, ProcessAssumption, FS_Subset
  <2>2. Cardinality(W) \in Nat
    BY <2>1, FS_CardinalityType
  <2> QED BY <1>2, <2>2, UnitsCounted, MaxEntriesAssumption
<1>6. Len(disk[h][file]) <= Cardinality(W) * MAX_ENTRIES
  BY <1>2, <1>3, <1>4, <1>5
<1> QED BY <1>6 DEF W

\* A file of one writer never has more than MAX_ENTRIES lines, one of k writers
\* never more than k times as many.
THEOREM BoundedByWriters == LoggerSpec => []FileIsBounded
<1>1. LoggerInv /\ [LoggerNext]_loggerVars => LoggerInv'
  BY LoggerStepInv, LoggerStutterInv, InputAssumption DEF LoggerNext
<1> QED
  BY LoggerInitInv, CountsCover, CountsBound, <1>1, PTL DEF LoggerSpec

================================================================================
