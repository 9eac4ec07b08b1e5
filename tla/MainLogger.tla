------------------------------- MODULE MainLogger -------------------------------
(*****************************************************************************)
(* The logger inside one process, for every process that logs: the           *)
(* MainLogger singleton, the two file interfaces it owns and the             *)
(* InstructionInterpreter that drives them, together with the files of the   *)
(* hosts, which processes of one host share.                                 *)
(*                                                                           *)
(* HandleInstruction is one function call in the code; here it is a walk of  *)
(* pc[p] through the points where another process can come between:          *)
(*                                                                           *)
(*   idle --> exec --> (request -->) done --> idle                           *)
(*                                                                           *)
(* exec is the body of the lambda given to Exec, request is the blocking     *)
(* call RemoteHost->Request, done is the return to the caller.  threw is an  *)
(* exception on its way to the caller and exited the end of the process.     *)
(* A process has one thread, so the mutex of Exec is never contended.        *)
(*****************************************************************************)
EXTENDS LoggerTypes

CONSTANTS
    Process,      \* the processes that log
    HostOf,       \* HostOf[p]: the host p runs on, whose files it writes
    Connected,    \* processes whose Connection was set before the first instruction
    Id,           \* history: names of instructions
    Input,        \* instructions the processes are asked to handle
    MAX_ENTRIES   \* FileInterface::MAX_ENTRIES

ASSUME ProcessAssumption ==
    /\ Process \subseteq Pid /\ IsFiniteSet(Process)
    /\ HostOf \in [Process -> Host]
    /\ Connected \subseteq Process

ASSUME MaxEntriesAssumption == MAX_ENTRIES \in Nat \ {0}

Instruction == LoggerInstruction(Id)

ASSUME InputAssumption == Input \subseteq Instruction /\ Input # {}

VARIABLES
    pc,          \* where each process is in HandleInstruction
    cur,         \* the instruction each process handles
    Instance,    \* is MainLogger::Instance set?
    opened,      \* the formats whose file interface (cur_ctf, cur_json) exists
    FileNo,      \* the number in each interface's FileName
    FileCount,   \* FileInterface::FileCount, one static counter per process
    EntryCount,  \* the EntryCount of each interface
    disk         \* the lines of each host's files

loggerVars == <<pc, cur, Instance, opened, FileNo, FileCount, EntryCount, disk>>

\* /tmp/logger/log<n>.logger.<extension>
FileName == (0..1) \X FileFormat

LoggerTypeOK ==
    /\ pc \in [Process -> {"idle", "exec", "request", "done", "threw", "exited"}]
    /\ cur \in [Process -> Instruction]
    /\ Instance \in [Process -> BOOLEAN]
    /\ opened \in [Process -> SUBSET FileFormat]
    /\ FileNo \in [Process -> [FileFormat -> 0..1]]
    /\ FileCount \in [Process -> 0..2]
    /\ EntryCount \in [Process -> [FileFormat -> 0..MAX_ENTRIES]]
    /\ disk \in [Host -> [FileName -> Seq(LogEntry(Id))]]

\* A process starts without interfaces.  MainLogger::Setup has run in it if it
\* runs TerminalUserInterface::Start, and has not if it runs Server::Run.
LoggerInit ==
    /\ pc = [p \in Process |-> "idle"]
    /\ cur = [p \in Process |-> CHOOSE ins \in Input : TRUE]
    /\ Instance \in [Process -> BOOLEAN]
    /\ opened = [p \in Process |-> {}]
    /\ FileNo = [p \in Process |-> [f \in FileFormat |-> 0]]
    /\ FileCount = [p \in Process |-> 0]
    /\ EntryCount = [p \in Process |-> [f \in FileFormat |-> 0]]
    /\ disk = [h \in Host |-> [n \in FileName |-> << >>]]

--------------------------------------------------------------------------------
(* What the instruction at hand asks of the logger *)

\* LogEntry built by HandleInstruction.
EntryOf(p, ins) ==
    [id |-> ins.id, label |-> SerializeSeverity(SeverityOf(ins.Type)),
     Source |-> <<HostOf[p], ins.PID>>, Message |-> ins.Data]

\* ServerRequest built by LogLine: the whole line is its data.
RequestOf(p, ins) ==
    [id |-> ins.id, Format |-> FileFormatOf(ins.FType),
     Severity |-> SeverityOf(ins.Type), Origin |-> p,
     Data |-> SerializeEntry(EntryOf(p, ins))]

Format(p) == FileFormatOf(cur[p].FType)

\* The file that the interface of format f of process p names.
FileOf(p, f) == <<FileNo[p][f], f>>

\* JSONFileInterface::LogLine takes everything but Local for Remote,
\* CustomFormatFileInterface::LogLine does nothing for NONE.
Forwards(f, tmode) == IF f = JSON THEN tmode # Local ELSE tmode = Remote

\* LogLine calls SerializeSeverity on an out-of-range severity.
Undefined(p) ==
    /\ SeverityOf(cur[p].Type) \notin Severity
    /\ Format(p) = Custom => \/ cur[p].TMode = Local
                             \/ cur[p].TMode = Remote /\ p \in Connected

GoTo(p, label) == pc' = [pc EXCEPT ![p] = label]

--------------------------------------------------------------------------------
(* InstructionInterpreter::HandleInstruction *)

\* The call, up to the lambda: a missing singleton is set up first, and a new
\* singleton has no interfaces.
HandleInstruction(p, ins) ==
    /\ pc[p] = "idle"
    /\ GoTo(p, "exec")
    /\ cur' = [cur EXCEPT ![p] = ins]
    /\ Instance' = [Instance EXCEPT ![p] = TRUE]
    /\ opened' = IF Instance[p] THEN opened ELSE [opened EXCEPT ![p] = {}]
    /\ UNCHANGED <<FileNo, FileCount, EntryCount, disk>>

\* Mutant: the interfaces are created in whatever order they are needed.
Creates_AnyOrder(p, f) ==
    /\ pc[p] = "exec"
    /\ f \notin opened[p]

\* cur_ctf is created before cur_json.
Creates(p, f) ==
    /\ pc[p] = "exec"
    /\ f \notin opened[p]
    /\ f = JSON => Custom \in opened[p]

\* FileInterface's constructor: names the file after FileCount and truncates it.
CreateInterface(p, f) ==
    /\ Creates(p, f)
    /\ opened' = [opened EXCEPT ![p] = @ \cup {f}]
    /\ FileNo' = [FileNo EXCEPT ![p][f] = FileCount[p]]
    /\ FileCount' = [FileCount EXCEPT ![p] = @ + 1]
    /\ EntryCount' = [EntryCount EXCEPT ![p][f] = 0]
    /\ disk' = [disk EXCEPT ![HostOf[p]][<<FileCount[p], f>>] = << >>]
    /\ UNCHANGED <<pc, cur, Instance>>

\* The file cannot be created: the constructor ends the process.
CreateInterfaceFails(p, f) ==
    /\ Creates(p, f)
    /\ GoTo(p, "exited")
    /\ UNCHANGED <<cur, Instance, opened, FileNo, FileCount, EntryCount, disk>>

\* MainLogger::GetFileInterface returns nullptr: nothing is logged.
NoFileInterface(p) ==
    /\ pc[p] = "exec"
    /\ opened[p] = FileFormat
    /\ Format(p) \notin FileFormat
    /\ GoTo(p, "done")
    /\ UNCHANGED <<cur, Instance, opened, FileNo, FileCount, EntryCount, disk>>

--------------------------------------------------------------------------------
(* LogLine of the two file interfaces.  Its result goes nowhere: Exec hands   *)
(* it to HandleInstruction, which returns void.                               *)

InLogLine(p) ==
    /\ pc[p] = "exec"
    /\ opened[p] = FileFormat
    /\ Format(p) \in FileFormat
    /\ UNCHANGED <<cur, Instance, opened, FileNo, FileCount>>

\* EntryCount has reached MAX_ENTRIES: the entry is refused.
LogLineFull(p) ==
    /\ InLogLine(p)
    /\ EntryCount[p][Format(p)] = MAX_ENTRIES
    /\ GoTo(p, "done")
    /\ UNCHANGED <<EntryCount, disk>>

\* Mutant: the limit is tested for after the count.
Counted_OneMore(p) ==
    /\ InLogLine(p)
    /\ EntryCount[p][Format(p)] <= MAX_ENTRIES
    /\ EntryCount' = [EntryCount EXCEPT ![p][Format(p)] = @ + 1]

\* Mutant: the entry is not counted.
Counted_Not(p) ==
    /\ InLogLine(p)
    /\ EntryCount[p][Format(p)] # MAX_ENTRIES
    /\ UNCHANGED EntryCount

\* Otherwise it is counted, before anything can fail.
Counted(p) ==
    /\ InLogLine(p)
    /\ EntryCount[p][Format(p)] # MAX_ENTRIES
    /\ EntryCount' = [EntryCount EXCEPT ![p][Format(p)] = @ + 1]

\* Mutant: the file is opened without std::ios::app.
LogLineLocal_Truncates(p) ==
    LET f == Format(p) IN
    /\ Counted(p)
    /\ cur[p].TMode = Local
    /\ f = JSON => ~Undumpable(cur[p].Data)
    /\ disk' = [disk EXCEPT ![HostOf[p]][FileOf(p, f)] = <<EntryOf(p, cur[p])>>]
    /\ GoTo(p, "done")

\* The entry is appended to the interface's file.
LogLineLocal(p) ==
    LET f == Format(p) IN
    /\ Counted(p)
    /\ cur[p].TMode = Local
    /\ f = JSON => ~Undumpable(cur[p].Data)
    /\ disk' = [disk EXCEPT ![HostOf[p]][FileOf(p, f)] =
                    Append(@, EntryOf(p, cur[p]))]
    /\ GoTo(p, "done")

\* The file cannot be opened: LogLine returns false.
LogLineOpenFails(p) ==
    /\ Counted(p)
    /\ cur[p].TMode = Local
    /\ GoTo(p, "done")
    /\ UNCHANGED disk

\* j.dump(4) throws, before anything is written.
LogLineThrows(p) ==
    /\ Counted(p)
    /\ cur[p].TMode = Local
    /\ Format(p) = JSON
    /\ Undumpable(cur[p].Data) \/ Undefined(p)
    /\ GoTo(p, "threw")
    /\ UNCHANGED disk

\* The entry is sent on: RemoteHost->Request is called.
LogLineRemote(p) ==
    /\ Counted(p)
    /\ Forwards(Format(p), cur[p].TMode)
    /\ p \in Connected
    /\ GoTo(p, "request")
    /\ UNCHANGED disk

\* RemoteHost is null: LogLine returns false.
LogLineNoRemoteHost(p) ==
    /\ Counted(p)
    /\ Forwards(Format(p), cur[p].TMode)
    /\ p \notin Connected
    /\ GoTo(p, "done")
    /\ UNCHANGED disk

\* Neither Local nor Remote: LogLine returns true and has done nothing.
LogLineNone(p) ==
    /\ Counted(p)
    /\ cur[p].TMode # Local
    /\ ~Forwards(Format(p), cur[p].TMode)
    /\ GoTo(p, "done")
    /\ UNCHANGED disk

\* SerializeSeverity's missing return brings the process down.
LogLineCrashes(p) ==
    /\ Counted(p)
    /\ Undefined(p)
    /\ GoTo(p, "exited")
    /\ UNCHANGED disk

\* Request has returned; LogLine ignores what it returned.
RequestReturns(p) ==
    /\ pc[p] = "request"
    /\ GoTo(p, "done")
    /\ UNCHANGED <<cur, Instance, opened, FileNo, FileCount, EntryCount, disk>>

\* The caller goes on to its next instruction.
Return(p) ==
    /\ pc[p] = "done"
    /\ GoTo(p, "idle")
    /\ UNCHANGED <<cur, Instance, opened, FileNo, FileCount, EntryCount, disk>>

\* Server::HandleIncomingData catches what HandleInstruction throws.
Catch(p) ==
    /\ pc[p] = "threw"
    /\ GoTo(p, "idle")
    /\ UNCHANGED <<cur, Instance, opened, FileNo, FileCount, EntryCount, disk>>

\* The process ends: a signal (main.cpp's signalHandler, or one without a
\* handler), an exception nobody catches, or the end of main.
Exit(p) ==
    /\ pc[p] # "exited"
    /\ GoTo(p, "exited")
    /\ UNCHANGED <<cur, Instance, opened, FileNo, FileCount, EntryCount, disk>>

LogLine(p) ==
    \/ LogLineFull(p)
    \/ LogLineLocal(p)
    \/ LogLineOpenFails(p)
    \/ LogLineThrows(p)
    \/ LogLineRemote(p)
    \/ LogLineNoRemoteHost(p)
    \/ LogLineNone(p)
    \/ LogLineCrashes(p)

LoggerStep(p, ins) ==
    \/ HandleInstruction(p, ins)
    \/ \E f \in FileFormat : CreateInterface(p, f) \/ CreateInterfaceFails(p, f)
    \/ NoFileInterface(p)
    \/ LogLine(p)
    \/ RequestReturns(p)
    \/ Return(p)
    \/ Catch(p)
    \/ Exit(p)

LoggerNext == \E p \in Process, ins \in Input : LoggerStep(p, ins)

LoggerSpec == LoggerInit /\ [][LoggerNext]_loggerVars

--------------------------------------------------------------------------------
(* Properties *)

\* The processes of a host whose interface of the given format writes file n.
Writers(h, n, f) ==
    {p \in Process : HostOf[p] = h /\ f \in opened[p] /\ FileNo[p][f] = n}

\* FileCount is a counter of the process, not of the directory: whatever the
\* order of instructions, two processes of one host that log in the same format
\* have taken the same name for their files, log0 for .ctf and log1 for .json.
SameNames ==
    \A p, q \in Process : \A f \in opened[p] \cap opened[q] :
        FileOf(p, f) = FileOf(q, f)

\* EntryCount never falls behind the file: however truncations, failed writes
\* and writes of several processes interleave, a file holds at most as many
\* lines as the interfaces that write it have counted, so one writer cannot
\* outgrow MAX_ENTRIES.
CountsCoverFile ==
    \A h \in Host, file \in FileName :
        LET W == Writers(h, file[1], file[2])
        IN  Len(disk[h][file]) <=
                MapThenSumSet(LAMBDA p : EntryCount[p][file[2]], W)

\* The files that no living process of the host has yet to open.
Settled(h, file) ==
    \A p \in Process : HostOf[p] = h => pc[p] = "exited" \/ file[2] \in opened[p]

\* Once every living process of a host has created its interface of a format,
\* that format's files only grow there: lines are lost to the constructor's
\* truncation and to nothing else, and it runs once per process.
SettledFilesGrow ==
    \A h \in Host, file \in FileName :
        Settled(h, file) => IsPrefix(disk[h][file], disk'[h][file])

AppendOnlyOnceOpened == [][SettledFilesGrow]_disk

\* LogLine opens its file "in append mode" (CustomFormatFileInterface.cpp:18,
\* JsonFileInterface.cpp:21), as if a line once written stayed where it is.
LinesStay ==
    [][\A h \in Host, file \in FileName :
          IsPrefix(disk[h][file], disk'[h][file])]_disk

================================================================================
