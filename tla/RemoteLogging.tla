----------------------------- MODULE RemoteLogging -----------------------------
(*****************************************************************************)
(* Logging over UDP: processes that take instructions from a queue (the      *)
(* drain loop of TerminalUserInterface::Start), the ServerConnection by      *)
(* which they send entries to a server, the datagrams in between, and the    *)
(* Server process, which logs what it receives with a MainLogger of its own. *)
(*                                                                           *)
(* Every step a process takes inside HandleInstruction is a step of module   *)
(* MainLogger; this module adds who calls HandleInstruction, with what, and  *)
(* what happens while a process is in "request" or "done".                   *)
(*                                                                           *)
(* Each call of Request opens a socket of its own and closes it before it    *)
(* returns, so the id of the request also names the socket: a reply reaches  *)
(* its logger only while that logger still waits for this very request.      *)
(*                                                                           *)
(* UDP loses and reorders datagrams, and between hosts it also duplicates    *)
(* them.  Neither side notices: HandleIncomingData logs and answers a second *)
(* copy like the first.  An id <<l, n, c>> names copy c of the request for   *)
(* logger l's n-th instruction; the one that was sent is copy 0.             *)
(*****************************************************************************)
EXTENDS MainLogger

CONSTANTS
    Server,      \* the process that runs Server::Run
    BufferSize,  \* what HandleIncomingData's buffer holds, in tokens
    maxRetries,  \* Server::Run gives up after this many EINTR in a row
    MaxSubmit,   \* bound: instructions of each logger
    MaxCopies,   \* bound: copies that the network makes of a request
    Faults       \* which of the failures below the environment may produce

Logger == Process \ {Server}

RequestId == UNION {{l} \X (1..MaxSubmit[l]) \X (0..MaxCopies) : l \in Logger}

\* disk: files cannot be created or opened     init: Initialize fails
\* socket: getaddrinfo, socket or sendto fail  recv: recvfrom fails
\* loss: datagrams are lost                    interrupt: epoll_wait gets EINTR
\* signal: a signal ends a process             early: instructions arrive while
\*                                             the server still initializes
ASSUME RemoteAssumption ==
    /\ Server \in Process
    /\ BufferSize \in Nat \ {0}
    /\ maxRetries \in Nat
    /\ MaxSubmit \in [Logger -> Nat]
    /\ MaxCopies \in Nat
    /\ RequestId \subseteq Id
    /\ Faults \subseteq {"disk", "init", "socket", "recv", "loss", "interrupt",
                         "signal", "early"}

VARIABLES
    submitted,   \* all instructions ever put into each logger's Instructions
    taken,       \* how many of them the drain loop has erased from its front
    awaiting,    \* loggers whose Request has sent and not yet returned
    net,         \* requests on their way to the server, in no order
    inbox,       \* requests in the receive queue of the server's socket
    replies,     \* responses on their way to loggers
    running,     \* has Initialize returned in the server?
    bound,       \* is the server's socket open and bound to the port?
    EpollFD,     \* does the server have an epoll instance,
    registered,  \* ... and is the socket registered with it?
    retryCount,  \* EINTRs in a row
    client       \* clientAddr of the request the server handles

\* History variables: no guard reads them.
VARIABLES
    acked,       \* ids whose Request returned a response
    lost,        \* ids whose request or response will never arrive
    copies,      \* ids of the copies that the network has made
    abandoned,   \* ids whose Request gave up after sending
    refused,     \* ids that a full interface or a failing disk kept out of a file
    wiped        \* ids of entries that a truncation removed

serverVars  == <<running, bound, EpollFD, registered, retryCount, client>>
netVars     == <<net, inbox, replies>>
historyVars == <<acked, lost, copies, abandoned, refused, wiped>>
vars == <<loggerVars, submitted, taken, awaiting, netVars, serverVars, historyVars>>

Request == [id: RequestId, from: Logger, wire: Wire]
Reply   == [id: RequestId, to: Logger]

\* The request that a copy is a copy of.
Original(id) == <<id[1], id[2], 0>>

\* All that there is of a request.
CopiesOf(id) == {id} \cup {c \in copies : Original(c) = id}

TypeOK ==
    /\ LoggerTypeOK
    /\ submitted \in [Logger -> Seq(Instruction)]
    /\ taken \in [Logger -> Nat]
    /\ \A l \in Logger : /\ Len(submitted[l]) <= MaxSubmit[l]
                         /\ taken[l] <= Len(submitted[l])
    /\ awaiting \subseteq Logger
    /\ net \subseteq Request
    /\ inbox \subseteq Request
    /\ replies \subseteq Reply
    /\ running \in BOOLEAN /\ bound \in BOOLEAN
    /\ EpollFD \in BOOLEAN /\ registered \in BOOLEAN
    /\ retryCount \in 0..maxRetries
    /\ client \in Process
    /\ acked \subseteq Id
    /\ lost \subseteq Id
    /\ copies \subseteq RequestId
    /\ abandoned \subseteq Id
    /\ refused \subseteq Id
    /\ wiped \subseteq Id

Init ==
    /\ LoggerInit
    /\ Instance = [p \in Process |-> p # Server]
    /\ submitted = [l \in Logger |-> << >>]
    /\ taken = [l \in Logger |-> 0]
    /\ awaiting = {}
    /\ net = {} /\ inbox = {} /\ replies = {}
    /\ running = FALSE /\ bound = FALSE
    /\ EpollFD = FALSE /\ registered = FALSE
    /\ retryCount = 0
    /\ client = Server
    /\ acked = {} /\ lost = {} /\ copies = {} /\ abandoned = {}
    /\ refused = {} /\ wiped = {}

--------------------------------------------------------------------------------
(* A logger's queue.  TerminalUserInterface::Start fills Instructions while   *)
(* it reads its sockets and then drains it: nothing else reads the queue, so  *)
(* instructions may as well arrive one by one whenever the process is idle.   *)
(* Nothing tells a client that the server is up: main.cpp's own client sleeps *)
(* two seconds and hopes for the best ("early" is when that fails).           *)

Submit(l) ==
    /\ pc[l] = "idle"
    /\ running \/ "early" \in Faults
    /\ Len(submitted[l]) < MaxSubmit[l]
    /\ \E ins \in Input :
          submitted' = [submitted EXCEPT ![l] =
              Append(@, [ins EXCEPT !.id = <<l, Len(submitted[l]) + 1, 0>>])]
    /\ UNCHANGED <<loggerVars, taken, awaiting, netVars, serverVars, historyVars>>

\* Mutant: the drain loop leaves the last instruction in its queue.
Dequeue_LeavesLast(l) ==
    /\ taken[l] + 1 < Len(submitted[l])
    /\ HandleInstruction(l, submitted[l][taken[l] + 1])
    /\ taken' = [taken EXCEPT ![l] = @ + 1]
    /\ UNCHANGED <<submitted, awaiting, netVars, serverVars, historyVars>>

Dequeue(l) ==
    /\ taken[l] < Len(submitted[l])
    /\ HandleInstruction(l, submitted[l][taken[l] + 1])
    /\ taken' = [taken EXCEPT ![l] = @ + 1]
    /\ UNCHANGED <<submitted, awaiting, netVars, serverVars, historyVars>>

--------------------------------------------------------------------------------
(* Inside HandleInstruction *)

IdsIn(file) == {file[i].id : i \in DOMAIN file}

Create(p) ==
    /\ \E f \in FileFormat :
          /\ CreateInterface(p, f)
          /\ wiped' = wiped \cup IdsIn(disk[HostOf[p]][<<FileCount[p], f>>])
    /\ UNCHANGED <<submitted, taken, awaiting, netVars, serverVars,
                   acked, lost, copies, abandoned, refused>>

\* LogLine, when the process survives it and the file can be opened.
Log(p) ==
    /\ \/ NoFileInterface(p)
       \/ LogLineLocal(p)
       \/ LogLineThrows(p)
       \/ LogLineRemote(p)
       \/ LogLineNoRemoteHost(p)
       \/ LogLineNone(p)
    /\ UNCHANGED <<submitted, taken, awaiting, netVars, serverVars, historyVars>>

\* LogLine returns false, which nobody looks at.
Full(p) ==
    /\ LogLineFull(p)
    /\ refused' = refused \cup {cur[p].id}
    /\ UNCHANGED <<submitted, taken, awaiting, netVars, serverVars, acked, lost,
                   copies, abandoned, wiped>>

OpenFails(p) ==
    /\ "disk" \in Faults
    /\ LogLineOpenFails(p)
    /\ refused' = refused \cup {cur[p].id}
    /\ UNCHANGED <<submitted, taken, awaiting, netVars, serverVars, acked, lost,
                   copies, abandoned, wiped>>

\* What ends a process.  main.cpp's handler answers a signal with Stop and exit.
Dies(p) ==
    \/ "disk" \in Faults /\ \E f \in FileFormat : CreateInterfaceFails(p, f)
    \/ LogLineCrashes(p)
    \/ "signal" \in Faults /\ Exit(p)
    \/ p # Server /\ pc[p] = "threw" /\ Exit(p)   \* std::terminate

LoggerDies(l) ==
    /\ Dies(l)
    /\ UNCHANGED <<submitted, taken, awaiting, netVars, serverVars, historyVars>>

LoggerReturns(l) ==
    /\ Return(l)
    /\ UNCHANGED <<submitted, taken, awaiting, netVars, serverVars, historyVars>>

--------------------------------------------------------------------------------
(* ServerConnection::Request *)

\* Mutant: Request does not wait for the response.
RequestSend_NoWait(l) ==
    /\ pc[l] = "request" /\ l \notin awaiting
    /\ net' = net \cup {[id |-> cur[l].id, from |-> l,
                         wire |-> SerializeRequest(RequestOf(l, cur[l]))]}
    /\ RequestReturns(l)
    /\ UNCHANGED <<submitted, taken, awaiting, inbox, replies, serverVars,
                   historyVars>>

\* Mutant: a Request that waits sends again.
RequestSend_Retries(l) ==
    /\ pc[l] = "request"
    /\ net' = net \cup {[id |-> cur[l].id, from |-> l,
                         wire |-> SerializeRequest(RequestOf(l, cur[l]))]}
    /\ awaiting' = awaiting \cup {l}
    /\ UNCHANGED <<loggerVars, submitted, taken, inbox, replies, serverVars,
                   historyVars>>

\* A socket is opened and the request sent through it.
RequestSend(l) ==
    /\ pc[l] = "request" /\ l \notin awaiting
    /\ net' = net \cup {[id |-> cur[l].id, from |-> l,
                         wire |-> SerializeRequest(RequestOf(l, cur[l]))]}
    /\ awaiting' = awaiting \cup {l}
    /\ UNCHANGED <<loggerVars, submitted, taken, inbox, replies, serverVars,
                   historyVars>>

\* getaddrinfo, socket or sendto fails: {false, ""}.
RequestFails(l) ==
    /\ "socket" \in Faults
    /\ l \notin awaiting
    /\ RequestReturns(l)
    /\ UNCHANGED <<submitted, taken, awaiting, netVars, serverVars, historyVars>>

\* recvfrom fails: the socket is closed, {false, ""}.
RequestRecvFails(l) ==
    /\ "recv" \in Faults
    /\ l \in awaiting
    /\ RequestReturns(l)
    /\ awaiting' = awaiting \ {l}
    /\ abandoned' = abandoned \cup {cur[l].id}
    /\ UNCHANGED <<submitted, taken, netVars, serverVars, acked, lost, copies,
                   refused, wiped>>

Awaits(l, m) ==
    m.to = l /\ l \in awaiting /\ pc[l] = "request" /\ Original(m.id) = cur[l].id

\* The response arrives.  There is no timeout: nothing else ends the wait.  A
\* second response, or a copy of this one, finds the socket closed.
RequestReceive(l) ==
    /\ \E m \in replies :
          /\ Awaits(l, m)
          /\ replies' = replies \ {m}
          /\ acked' = acked \cup {m.id}
    /\ RequestReturns(l)
    /\ awaiting' = awaiting \ {l}
    /\ UNCHANGED <<submitted, taken, net, inbox, serverVars, lost, copies,
                   abandoned, refused, wiped>>

--------------------------------------------------------------------------------
(* UDP *)

\* The server's host gets a request; without a socket it drops it.
Deliver(m) ==
    IF bound
    THEN inbox' = inbox \cup {m} /\ UNCHANGED lost
    ELSE lost' = lost \cup {m.id} /\ UNCHANGED inbox

Arrive(m) ==
    /\ net' = net \ {m}
    /\ Deliver(m)
    /\ UNCHANGED <<loggerVars, submitted, taken, awaiting, replies, serverVars,
                   acked, copies, abandoned, refused, wiped>>

\* The network between two hosts delivers a request and keeps a copy, to deliver
\* or to lose later.  Copies are alike, so any of them may be the one that goes
\* first.  On the server's own host (loopback) datagrams are not duplicated.
ArriveTwice(m) ==
    LET copy == <<m.id[1], m.id[2], m.id[3] + 1>> IN
    /\ HostOf[m.from] # HostOf[Server]
    /\ m.id[3] < MaxCopies
    /\ net' = (net \ {m}) \cup {[m EXCEPT !.id = copy]}
    /\ copies' = copies \cup {copy}
    /\ Deliver(m)
    /\ UNCHANGED <<loggerVars, submitted, taken, awaiting, replies, serverVars,
                   acked, abandoned, refused, wiped>>

LoseRequest(m) ==
    /\ "loss" \in Faults
    /\ net' = net \ {m}
    /\ lost' = lost \cup {m.id}
    /\ UNCHANGED <<loggerVars, submitted, taken, awaiting, inbox, replies,
                   serverVars, acked, copies, abandoned, refused, wiped>>

\* A response is lost, or reaches a host where its socket is closed.
LoseReply(m) ==
    /\ "loss" \in Faults \/ \A l \in Logger : ~Awaits(l, m)
    /\ replies' = replies \ {m}
    /\ lost' = lost \cup {m.id}
    /\ UNCHANGED <<loggerVars, submitted, taken, awaiting, net, inbox,
                   serverVars, acked, copies, abandoned, refused, wiped>>

--------------------------------------------------------------------------------
(* Server *)

\* Initialize returns nothing, so Run is called however far it got: no epoll
\* instance (with or without a bound socket), an empty one, or all of it.
Initialize ==
    /\ ~running
    /\ pc[Server] = "idle"
    /\ running' = TRUE
    /\ \/ bound' = TRUE /\ EpollFD' = TRUE /\ registered' = TRUE
       \/ /\ "init" \in Faults
          /\ bound' \in BOOLEAN
          /\ EpollFD' \in BOOLEAN
          /\ EpollFD' => bound'
          /\ registered' = FALSE
    /\ UNCHANGED <<loggerVars, submitted, taken, awaiting, netVars, retryCount,
                   client, historyVars>>

\* The process ends and the kernel closes its socket: what was queued there,
\* and the request being handled, get no response.
CloseAll ==
    /\ bound' = FALSE /\ EpollFD' = FALSE /\ registered' = FALSE
    /\ inbox' = {}
    /\ lost' = lost \cup {m.id : m \in inbox}
                    \cup (IF pc[Server] = "idle" THEN {} ELSE {cur[Server].id})
    /\ UNCHANGED <<submitted, taken, awaiting, net, replies, running, retryCount,
                   client, acked, copies, abandoned, refused, wiped>>

ServerDies == Dies(Server) /\ CloseAll

InEpollWait == running /\ pc[Server] = "idle"

\* epoll_wait(-1) fails: Run breaks its loop, cleans up and returns.
EpollError ==
    /\ InEpollWait
    /\ ~EpollFD
    /\ Exit(Server)
    /\ CloseAll

\* Mutant: one EINTR too many is counted.
Interrupted_OneMore ==
    /\ "interrupt" \in Faults
    /\ InEpollWait
    /\ EpollFD
    /\ retryCount <= maxRetries
    /\ retryCount' = retryCount + 1
    /\ UNCHANGED <<loggerVars, submitted, taken, awaiting, netVars, running,
                   bound, EpollFD, registered, client, historyVars>>

\* epoll_wait fails with EINTR (the process was stopped and continued).
Interrupted ==
    /\ "interrupt" \in Faults
    /\ InEpollWait
    /\ EpollFD
    /\ retryCount < maxRetries
    /\ retryCount' = retryCount + 1
    /\ UNCHANGED <<loggerVars, submitted, taken, awaiting, netVars, running,
                   bound, EpollFD, registered, client, historyVars>>

InterruptedTooOften ==
    /\ "interrupt" \in Faults
    /\ InEpollWait
    /\ EpollFD
    /\ retryCount = maxRetries
    /\ Exit(Server)
    /\ CloseAll

\* Mutant: the server handles requests in the mode they were sent with.
InstructionOf_Remote(m, line) ==
    [id |-> m.id, Type |-> TypeOf(m.wire.Severity),
     FType |-> FormatTypeOf(m.wire.Format), TMode |-> Remote,
     PID |-> m.wire.Origin, Data |-> DeserializeData(line)]

\* The instruction the server makes of a datagram, of whose text it got line.
InstructionOf(m, line) ==
    [id |-> m.id, Type |-> TypeOf(m.wire.Severity),
     FType |-> FormatTypeOf(m.wire.Format), TMode |-> Local,
     PID |-> m.wire.Origin, Data |-> DeserializeData(line)]

\* epoll_wait reports the socket and HandleIncomingData reads one datagram.
HandleIncomingData(m) ==
    /\ InEpollWait
    /\ EpollFD /\ registered
    /\ \E line \in Received(m.wire.line, BufferSize) :
          HandleInstruction(Server, InstructionOf(m, line))
    /\ inbox' = inbox \ {m}
    /\ client' = m.from
    /\ retryCount' = 0
    /\ UNCHANGED <<submitted, taken, awaiting, net, replies, running, bound,
                   EpollFD, registered, historyVars>>

\* Mutant: the response overtakes the logging.
Respond_Early ==
    /\ pc[Server] \in {"exec", "done"}
    /\ GoTo(Server, "idle")
    /\ replies' = replies \cup {[id |-> cur[Server].id, to |-> client]}
    /\ UNCHANGED <<cur, Instance, opened, FileNo, FileCount, EntryCount, disk>>
    /\ UNCHANGED <<submitted, taken, awaiting, net, inbox, serverVars, historyVars>>

\* Mutant: the server answers only what it found room for.
Respond_IfRoom ==
    /\ Return(Server)
    /\ IF EntryCount[Server][Format(Server)] < MAX_ENTRIES
       THEN replies' = replies \cup {[id |-> cur[Server].id, to |-> client]}
       ELSE UNCHANGED replies
    /\ UNCHANGED <<submitted, taken, awaiting, net, inbox, serverVars, historyVars>>

\* HandleInstruction returned: ClientResponse(true, ...) goes to clientAddr,
\* whatever became of the entry.
Respond ==
    /\ Return(Server)
    /\ replies' = replies \cup {[id |-> cur[Server].id, to |-> client]}
    /\ UNCHANGED <<submitted, taken, awaiting, net, inbox, serverVars, historyVars>>

\* HandleInstruction threw: the exception is caught, no response is sent.
Swallow ==
    /\ Catch(Server)
    /\ lost' = lost \cup {cur[Server].id}
    /\ UNCHANGED <<submitted, taken, awaiting, netVars, serverVars, acked,
                   copies, abandoned, refused, wiped>>

--------------------------------------------------------------------------------

\* What a logger does of its own accord.
LoggerProgress(l) ==
    \/ Dequeue(l)
    \/ Create(l)
    \/ Log(l)
    \/ Full(l)
    \/ LoggerReturns(l)
    \/ RequestSend(l)
    \/ RequestReceive(l)

ServerProgress ==
    \/ Initialize
    \/ \E m \in inbox : HandleIncomingData(m)
    \/ Create(Server)
    \/ Log(Server)
    \/ Full(Server)
    \/ Respond
    \/ Swallow

Next ==
    \/ \E l \in Logger : \/ Submit(l)
                         \/ LoggerProgress(l)
                         \/ OpenFails(l)
                         \/ RequestFails(l)
                         \/ RequestRecvFails(l)
                         \/ LoggerDies(l)
    \/ \E m \in net : Arrive(m) \/ ArriveTwice(m) \/ LoseRequest(m)
    \/ \E m \in replies : LoseReply(m)
    \/ ServerProgress
    \/ OpenFails(Server)
    \/ EpollError
    \/ Interrupted
    \/ InterruptedTooOften
    \/ ServerDies

Spec == Init /\ [][Next]_vars

\* The scheduler lets every process run and the network delivers what it does
\* not lose.  Nothing obliges clients to submit, or faults to happen.
Fairness ==
    /\ \A l \in Logger : WF_vars(LoggerProgress(l))
    /\ WF_vars(ServerProgress)
    /\ WF_vars(\E m \in net : Arrive(m))

FairSpec == Spec /\ Fairness

--------------------------------------------------------------------------------
(* Properties *)

\* What the file of the server holds for an instruction whose line fits into
\* the buffer and has no "\n" of its own and no zero: a blank and the line the
\* logger would have written, newlines included.
RemoteText(l, ins) ==
    <<"sp", SerializeSeverity(SeverityOf(ins.Type)), HostOf[l], ins.PID>>
        \o ins.Data \o <<"nl">>

Intact(ins) ==
    /\ Len(ins.Data) + 5 <= BufferSize
    /\ \A i \in DOMAIN ins.Data : ins.Data[i] \notin {"esc", "nul"}

StoredLocally(e, h, l, ins) ==
    /\ h = HostOf[l]
    /\ ins.TMode = Local
    /\ e.Source = <<h, ins.PID>>
    /\ e.Message = ins.Data

StoredByServer(e, h, l, ins) ==
    /\ h = HostOf[Server]
    /\ Forwards(FileFormatOf(ins.FType), ins.TMode)
    /\ e.Source = <<h, l>>
    /\ Intact(ins) => e.Message = RemoteText(l, ins)

\* id names the request for logger l's n-th instruction, or a copy of it.
BelongsTo(id, l, n) ==
    \/ id = <<l, n, 0>>
    \/ id \in copies /\ Original(id) = <<l, n, 0>>

\* Every line of every file stems from an instruction that some logger took
\* from its queue, and through both casts of its enumerations (and, if it went
\* over the network, both conversions of its text) it ended up in a file of the
\* instruction's format, with the instruction's severity and text.  A line that
\* stems from a copy was written by the server.
Provenance ==
    \A h \in Host, file \in FileName : \A i \in DOMAIN disk[h][file] :
        LET e == disk[h][file][i] IN
        \E l \in Logger : \E n \in 1..taken[l] :
            LET ins == submitted[l][n] IN
            /\ BelongsTo(e.id, l, n)
            /\ FileFormatOf(ins.FType) = file[2]
            /\ e.label = SerializeSeverity(SeverityOf(ins.Type))
            /\ \/ StoredLocally(e, h, l, ins) /\ e.id = <<l, n, 0>>
               \/ StoredByServer(e, h, l, ins)

Handling == pc[Server] \in {"exec", "request", "done", "threw"}

\* The request with the given id, or the response to it, has not got lost.
Underway(id) ==
    \/ \E m \in net \cup inbox \cup replies : m.id = id
    \/ Handling /\ cur[Server].id = id

\* Neither side multiplies a request: the server cannot be handling, or have
\* answered, what is still queued, no request is answered twice, and there is a
\* second one of a request only where the network made it.
OneCopy ==
    /\ net \cap inbox = {}
    /\ \A m, o \in net \cup inbox \cup replies : m.id = o.id => m = o
    /\ Handling => \A m \in net \cup inbox \cup replies : m.id # cur[Server].id
    /\ \A id \in RequestId : Underway(id) => id[3] = 0 \/ id \in copies

\* Request has no timeout, so it matters why a logger can be stuck in recvfrom:
\* of its request and of every copy of it, either that or the response is on the
\* way, or the exchange broke for a reason on record (loss, no socket, server
\* gone, exception in the server).
BlockedIsExplained ==
    \A l \in awaiting : \A id \in CopiesOf(cur[l].id) : Underway(id) \/ id \in lost

\* The entry is in the server's file, or it is on record why it is not.
AccountedFor(id) ==
    \/ \E file \in FileName : id \in IdsIn(disk[HostOf[Server]][file])
    \/ id \in wiped \cup refused

\* A response stands for a completed HandleInstruction: the entry is in the
\* server's file, unless a later truncation removed it or the server's LogLine
\* refused it, whatever has happened to the server since.
AckedIsAccountedFor == \A id \in acked : AccountedFor(id)

\* Did the network duplicate the request that id belongs to?
Copied(id) == CopiesOf(Original(id)) # {Original(id)}

\* Request blocks, so what one logger sends to the server and what it writes
\* itself keep their order in a file they share.  Only an entry whose Request
\* gave up waiting, or whose request the network duplicated, can come late; and
\* an instruction has two entries only if the network duplicated its request, on
\* the way from another host.  Against that the server has no defence.
FileOrder ==
    \A h \in Host, file \in FileName : \A i, j \in DOMAIN disk[h][file] :
        LET first == disk[h][file][i].id
            second == disk[h][file][j].id
        IN  i < j /\ first[1] = second[1] =>
                /\ first # second
                /\ \/ first[2] < second[2]
                   \/ Original(second) \in abandoned /\ first[2] # second[2]
                   \/ Copied(second) /\ HostOf[second[1]] # HostOf[Server]

\* The server logs what it is sent and never sends it on, not even to itself.
ServerNeverForwards == pc[Server] # "request"

\* Every instruction gets handled, or its logger waits for a response that was
\* lost (on the way, or for a reason on record), to the request and to all its
\* copies: nothing else stops a logger, not even the full interfaces of the
\* server.
EveryInstructionHandled ==
    \A l \in Logger : \A n \in 1..MaxSubmit[l] :
        Len(submitted[l]) >= n
            ~> \/ taken[l] >= n /\ pc[l] = "idle"
               \/ l \in awaiting /\ CopiesOf(cur[l].id) \subseteq lost

\* "Send response back to client" (Server.cpp:117), as if every request that
\* is not lost on the way were answered.
EveryRequestAnswered ==
    \A l \in Logger : l \in awaiting ~> l \notin awaiting

================================================================================
