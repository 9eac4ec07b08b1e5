------------------------- MODULE TerminalUserInterface -------------------------
(*****************************************************************************)
(* TerminalUserInterface::Start: the process that accepts clients on a Unix  *)
(* socket with edge-triggered epoll, cuts what they send into instructions   *)
(* and handles them.  Its descriptor table is shared with the               *)
(* ServerConnection by which HandleInstruction sends entries, so Request is  *)
(* here too, as far as descriptors are concerned; what becomes of an entry   *)
(* is the subject of MainLogger and RemoteLogging.                           *)
(*                                                                           *)
(* pc is where the process is:                                               *)
(*   init --> listening --> wait --> events <--> recv                        *)
(*                           ^-----   drain  <--> request          exited    *)
(*                                                                           *)
(* A client is also the name of its only connection.  The serialized form of *)
(* its n-th instruction is two tokens, numbers 2n-1 and 2n of what it sends: *)
(* "[" with what follows it, and "]" with what precedes it.  Everything      *)
(* between is the same to the loop that looks for brackets, and two tokens   *)
(* are what it takes to be received in two parts.                            *)
(*****************************************************************************)
EXTENDS Integers, Sequences, FiniteSets, SequencesExt

CONSTANTS
    Client,      \* clients, each connecting at most once
    Texts,       \* what a client may send: sequences of kinds of instructions
    MaxFd,       \* the largest descriptor the process may have
    MAX_EVENTS,  \* how many events epoll_wait returns at most
    Backlog,     \* the argument of listen
    BufferSize,  \* how many tokens recv returns at most
    Faults       \* which of the failures below may happen

\* What an instruction does.  local: it is handled without ServerConnection;
\* remote: it calls Request; invalid: Deserialize throws; fatal: HandleInstruction
\* ends the process (j.dump throws).
Kind == {"local", "remote", "invalid", "fatal"}

\* What a descriptor may refer to, besides a client: the standard streams, the
\* epoll instance, the listening socket, the socket of a Request.
Kernel == {"free", "std", "epoll", "listen", "udp"}

Fd == 0..MaxFd

\* start: a call in Start fails        accept: fcntl or epoll_ctl fails
\* recv: recv fails                    request: getaddrinfo or sendto fails
\* signal: a signal ends the process
ASSUME TerminalAssumption ==
    /\ Client \cap Kernel = {}
    /\ Texts \subseteq Seq(Kind)
    /\ MaxFd \in Nat
    /\ MAX_EVENTS \in Nat \ {0}
    /\ Backlog \in Nat
    /\ BufferSize \in Nat \ {0}
    /\ Faults \subseteq {"start", "accept", "recv", "request", "signal"}

VARIABLES
    pc,            \* where the process is
    table,         \* what its descriptors refer to
    EpollFD, FD,   \* TerminalUserInterface's descriptors
    RemoteFD,      \* ServerConnection::FD
    ready,         \* epoll's ready list: what had an edge since it was reported
    events,        \* descriptors with an event that is still to be handled
    reading,       \* the descriptor of the event being handled
    pos,           \* how many of the client's tokens the bracket search has passed
    Instructions   \* the queue

VARIABLES
    text,          \* the instructions a client sends
    status,        \* new, connected or closed, as far as the client knows
    backlog,       \* connections that wait for accept
    sent, read     \* tokens sent by each client, and received from it

\* History variables: no guard reads them, except that CannotCreate asks whether
\* anything was handled before.
VARIABLES
    handled,       \* the instructions given to HandleInstruction, in order
    split,         \* instructions received in two parts
    victims,       \* clients whose descriptor was closed by Request
    dropped        \* clients whose descriptor was closed after an error

clientVars  == <<text, status, sent>>
historyVars == <<handled, split, victims, dropped>>
vars == <<pc, table, EpollFD, FD, RemoteFD, ready, events, reading, pos,
          Instructions, backlog, read, clientVars, historyVars>>

\* The n-th instruction of client c.
Id == Client \X (Nat \ {0})

TypeOK ==
    /\ pc \in {"init", "listening", "wait", "events", "recv", "drain", "request",
               "exited"}
    /\ table \in [Fd -> Client \cup Kernel]
    /\ EpollFD \in Fd \cup {-1}
    /\ FD \in Fd \cup {-1}
    /\ RemoteFD \in Fd \cup {-1}
    /\ ready \subseteq Client \cup {"listen"}
    /\ events \subseteq Fd
    /\ reading \in Fd \cup {-1}
    /\ pos \in Nat
    /\ Instructions \in Seq(Id)
    /\ text \in [Client -> Seq(Kind)]
    /\ status \in [Client -> {"new", "connected", "closed"}]
    /\ backlog \in Seq(Client)
    /\ sent \in [Client -> Nat]
    /\ read \in [Client -> Nat]
    /\ \A c \in Client : read[c] <= sent[c] /\ sent[c] <= 2 * Len(text[c])
    /\ handled \in Seq(Id)
    /\ split \subseteq Id
    /\ victims \subseteq Client
    /\ dropped \subseteq Client

\* Mutant: ServerConnection::FD starts as 0, not as -1.
RemoteInit_Zero == 0
RemoteInit == -1

Init ==
    /\ pc = "init"
    /\ table = [f \in Fd |-> IF f = 0 THEN "std" ELSE "free"]
    /\ EpollFD = -1 /\ FD = -1 /\ RemoteFD = RemoteInit
    /\ ready = {} /\ events = {}
    /\ reading = -1 /\ pos = 0
    /\ Instructions = << >>
    /\ text \in [Client -> Texts]
    /\ status = [c \in Client |-> "new"]
    /\ backlog = << >>
    /\ sent = [c \in Client |-> 0] /\ read = [c \in Client |-> 0]
    /\ handled = << >>
    /\ split = {} /\ victims = {} /\ dropped = {}

--------------------------------------------------------------------------------
(* Descriptors and edges *)

\* The kernel gives out the lowest descriptor that is free in table t.
Lowest(t, f) == t[f] = "free" /\ \A g \in 0..(f - 1) : t[g] # "free"

TableFull(t) == \A f \in Fd : t[f] # "free"

Open == {c \in Client : \E f \in Fd : table[f] = c}

\* What recv or accept would find on a descriptor that refers to o.
HasEvent(o) ==
    \/ o = "listen" /\ backlog # << >>
    \/ o \in Client /\ (read[o] < sent[o] \/ status[o] = "closed")

\* An edge: epoll learns that something has arrived on an open connection.
Edge(c) == ready' = IF c \in Open THEN ready \cup {c} ELSE ready

--------------------------------------------------------------------------------
(* Clients *)

\* connect succeeds once the socket listens; epoll may not know of it yet.
Connect(c) ==
    /\ status[c] = "new"
    /\ pc \notin {"init", "exited"}
    /\ Len(backlog) <= Backlog
    /\ status' = [status EXCEPT ![c] = "connected"]
    /\ backlog' = Append(backlog, c)
    /\ ready' = IF pc = "listening" THEN ready ELSE ready \cup {"listen"}
    /\ UNCHANGED <<pc, table, EpollFD, FD, RemoteFD, events, reading, pos,
                   Instructions, text, sent, read, historyVars>>

Pending(c) == \E i \in DOMAIN backlog : backlog[i] = c

\* The next token reaches the terminal's side of the connection.
Send(c) ==
    /\ status[c] = "connected"
    /\ Pending(c) \/ c \in Open
    /\ sent[c] < 2 * Len(text[c])
    /\ sent' = [sent EXCEPT ![c] = @ + 1]
    /\ Edge(c)
    /\ UNCHANGED <<pc, table, EpollFD, FD, RemoteFD, events, reading, pos,
                   Instructions, text, status, backlog, read, historyVars>>

ClientCloses(c) ==
    /\ status[c] = "connected"
    /\ status' = [status EXCEPT ![c] = "closed"]
    /\ Edge(c)
    /\ UNCHANGED <<pc, table, EpollFD, FD, RemoteFD, events, reading, pos,
                   Instructions, text, backlog, sent, read, historyVars>>

--------------------------------------------------------------------------------
(* Start, up to its loop *)

\* epoll_create1, socket, bind, listen.
Listen ==
    /\ pc = "init"
    /\ \E e, l \in Fd :
          /\ Lowest(table, e)
          /\ Lowest([table EXCEPT ![e] = "epoll"], l)
          /\ table' = [table EXCEPT ![e] = "epoll", ![l] = "listen"]
          /\ EpollFD' = e
          /\ FD' = l
    /\ pc' = "listening"
    /\ UNCHANGED <<RemoteFD, ready, events, reading, pos, Instructions, backlog,
                   read, clientVars, historyVars>>

\* fcntl and epoll_ctl: a connection that is already there is an edge.
Register ==
    /\ pc = "listening"
    /\ pc' = "wait"
    /\ ready' = IF backlog # << >> THEN {"listen"} ELSE {}
    /\ UNCHANGED <<table, EpollFD, FD, RemoteFD, events, reading, pos,
                   Instructions, backlog, read, clientVars, historyVars>>

\* The process ends: Stop closes FD and EpollFD, the kernel everything else.
\* f_Stop is set, but the loop is never entered again.
Ends ==
    /\ pc' = "exited"
    /\ table' = [f \in Fd |-> "free"]
    /\ ready' = {} /\ events' = {}
    /\ reading' = -1 /\ pos' = 0
    /\ backlog' = << >>
    /\ UNCHANGED <<EpollFD, FD, RemoteFD, read, clientVars>>

\* exit(EXIT_FAILURE).
StartFails ==
    /\ "start" \in Faults
    /\ pc \in {"init", "listening"}
    /\ Ends
    /\ UNCHANGED <<Instructions, historyVars>>

\* main.cpp's signalHandler, at any time.
Signal ==
    /\ "signal" \in Faults
    /\ pc # "exited"
    /\ Ends
    /\ UNCHANGED <<Instructions, historyVars>>

--------------------------------------------------------------------------------
(* The event loop *)

Live == {f \in Fd : table[f] \in ready /\ HasEvent(table[f])}

\* Mutant: what did not fit into the events is forgotten.
EpollWait_ClearsAll ==
    /\ pc = "wait"
    /\ \E E \in SUBSET Live :
          /\ E # {}
          /\ E = Live \/ Cardinality(E) = MAX_EVENTS
          /\ Cardinality(E) <= MAX_EVENTS
          /\ events' = E
    /\ ready' = {}
    /\ pc' = "events"
    /\ UNCHANGED <<table, EpollFD, FD, RemoteFD, reading, pos, Instructions,
                   backlog, read, clientVars, historyVars>>

\* epoll_wait reports what had an edge and still has something to say, once.
\* EINTR only starts the loop again.
EpollWait ==
    /\ pc = "wait"
    /\ \E E \in SUBSET Live :
          /\ E # {}
          /\ E = Live \/ Cardinality(E) = MAX_EVENTS
          /\ Cardinality(E) <= MAX_EVENTS
          /\ events' = E
          /\ ready' = ready \ {table[f] : f \in E}
    /\ pc' = "events"
    /\ UNCHANGED <<table, EpollFD, FD, RemoteFD, reading, pos, Instructions,
                   backlog, read, clientVars, historyVars>>

InAccept ==
    /\ pc = "events"
    /\ FD \in events
    /\ events' = events \ {FD}
    /\ UNCHANGED <<pc, EpollFD, FD, RemoteFD, reading, pos, Instructions, read,
                   clientVars, handled, split, victims>>

\* One connection is accepted and registered; what it has sent is an edge.
Accept ==
    /\ InAccept
    /\ backlog # << >>
    /\ \E f \in Fd :
          /\ Lowest(table, f)
          /\ table' = [table EXCEPT ![f] = Head(backlog)]
    /\ backlog' = Tail(backlog)
    /\ ready' = IF HasEvent(Head(backlog)) THEN ready \cup {Head(backlog)} ELSE ready
    /\ UNCHANGED dropped

\* accept fails: no descriptor is left (or no connection).
AcceptFails ==
    /\ InAccept
    /\ backlog = << >> \/ TableFull(table)
    /\ UNCHANGED <<table, backlog, ready, dropped>>

\* fcntl or epoll_ctl fails: the new connection is closed.
AcceptDrops ==
    /\ "accept" \in Faults
    /\ InAccept
    /\ backlog # << >> /\ ~TableFull(table)
    /\ backlog' = Tail(backlog)
    /\ dropped' = dropped \cup {Head(backlog)}
    /\ UNCHANGED <<table, ready>>

\* Any other event is a client's: the loop of recv begins.
BeginRecv ==
    /\ pc = "events"
    /\ \E f \in events \ {FD} :
          /\ events' = events \ {f}
          /\ reading' = f
          /\ pos' = read[table[f]]
    /\ pc' = "recv"
    /\ UNCHANGED <<table, EpollFD, FD, RemoteFD, ready, Instructions, backlog,
                   read, clientVars, historyVars>>

\* The client being read, once the last buffer has been searched.
ToRecv(c) ==
    /\ pc = "recv"
    /\ table[reading] = c
    /\ pos = read[c]

\* Mutant: the buffer is taken to be full.
Recv_WholeBuffer(c) ==
    /\ ToRecv(c)
    /\ read[c] < sent[c]
    /\ read' = [read EXCEPT ![c] = @ + BufferSize]
    /\ UNCHANGED <<pc, table, EpollFD, FD, RemoteFD, ready, events, reading, pos,
                   Instructions, backlog, clientVars, historyVars>>

\* recv returns what there is, as far as the buffer goes.
Recv(c) ==
    /\ ToRecv(c)
    /\ read[c] < sent[c]
    /\ read' = [read EXCEPT ![c] =
                   IF sent[c] <= @ + BufferSize THEN sent[c] ELSE @ + BufferSize]
    /\ UNCHANGED <<pc, table, EpollFD, FD, RemoteFD, ready, events, reading, pos,
                   Instructions, backlog, clientVars, historyVars>>

\* The first instruction that begins behind pos.
NextFrom(p) == (p + 1) \div 2 + 1

\* Mutant: the rest of the buffer is skipped after its first instruction.
Parse_FirstOnly(c) ==
    LET n == NextFrom(pos) IN
    /\ pc = "recv"
    /\ table[reading] = c
    /\ 2 * n <= read[c]
    /\ pos' = read[c]
    /\ Instructions' = IF text[c][n] = "invalid" THEN Instructions
                       ELSE Append(Instructions, <<c, n>>)
    /\ UNCHANGED <<pc, table, EpollFD, FD, RemoteFD, ready, events, reading,
                   backlog, read, clientVars, historyVars>>

\* The buffer holds a whole instruction, which is queued if it can be parsed.
Parse(c) ==
    LET n == NextFrom(pos) IN
    /\ pc = "recv"
    /\ table[reading] = c
    /\ 2 * n <= read[c]
    /\ pos' = 2 * n
    /\ Instructions' = IF text[c][n] = "invalid" THEN Instructions
                       ELSE Append(Instructions, <<c, n>>)
    /\ UNCHANGED <<pc, table, EpollFD, FD, RemoteFD, ready, events, reading,
                   backlog, read, clientVars, historyVars>>

\* It holds no more: what is left of it, perhaps a "[", is forgotten.
ParseBreaks(c) ==
    LET n == NextFrom(pos) IN
    /\ pc = "recv"
    /\ table[reading] = c
    /\ pos < read[c] /\ read[c] < 2 * n
    /\ pos' = read[c]
    /\ split' = IF read[c] = 2 * n - 1 THEN split \cup {<<c, n>>} ELSE split
    /\ UNCHANGED <<pc, table, EpollFD, FD, RemoteFD, ready, events, reading,
                   Instructions, backlog, read, clientVars, handled, victims, dropped>>

RecvDone ==
    /\ pc' = "events"
    /\ reading' = -1
    /\ pos' = 0
    /\ UNCHANGED <<EpollFD, FD, RemoteFD, events, Instructions, backlog, read,
                   clientVars, handled, split, victims>>

\* Mutant: the loop may end before EAGAIN.
RecvAgain_Early(c) ==
    /\ ToRecv(c)
    /\ status[c] # "closed"
    /\ RecvDone
    /\ UNCHANGED <<table, ready, dropped>>

\* EAGAIN.
RecvAgain(c) ==
    /\ ToRecv(c)
    /\ read[c] = sent[c] /\ status[c] # "closed"
    /\ RecvDone
    /\ UNCHANGED <<table, ready, dropped>>

\* recv returns 0: the client has closed its end, and so does the terminal.
RecvEnd(c) ==
    /\ ToRecv(c)
    /\ read[c] = sent[c] /\ status[c] = "closed"
    /\ RecvDone
    /\ table' = [table EXCEPT ![reading] = "free"]
    /\ ready' = ready \ {c}
    /\ UNCHANGED dropped

\* Any other error.
RecvFails(c) ==
    /\ "recv" \in Faults
    /\ ToRecv(c)
    /\ RecvDone
    /\ table' = [table EXCEPT ![reading] = "free"]
    /\ ready' = ready \ {c}
    /\ dropped' = dropped \cup {c}

EndEvents ==
    /\ pc = "events"
    /\ events = {}
    /\ pc' = "drain"
    /\ UNCHANGED <<table, EpollFD, FD, RemoteFD, ready, events, reading, pos,
                   Instructions, backlog, read, clientVars, historyVars>>

Drained ==
    /\ pc = "drain"
    /\ Instructions = << >>
    /\ pc' = "wait"
    /\ UNCHANGED <<table, EpollFD, FD, RemoteFD, ready, events, reading, pos,
                   Instructions, backlog, read, clientVars, historyVars>>

--------------------------------------------------------------------------------
(* HandleInstruction *)

KindOf(id) == text[id[1]][id[2]]

\* Mutant: the instruction at the back is taken.
Dequeue_Back(kind) ==
    /\ pc = "drain"
    /\ Instructions # << >>
    /\ KindOf(Last(Instructions)) = kind
    /\ Instructions' = Front(Instructions)
    /\ handled' = Append(handled, Last(Instructions))

\* The instruction at the front is erased and handed to HandleInstruction.
Dequeue(kind) ==
    /\ pc = "drain"
    /\ Instructions # << >>
    /\ KindOf(Head(Instructions)) = kind
    /\ Instructions' = Tail(Instructions)
    /\ handled' = Append(handled, Head(Instructions))

\* The first instruction of all makes both file interfaces, whose constructors
\* open a file and close it again; without a free descriptor they end the
\* process.
CannotCreate == handled = << >> /\ TableFull(table)

Handle(kind) == ~CannotCreate /\ Dequeue(kind)

\* Files are closed again before it returns.  (LogLine also returns where it finds
\* no descriptor for its file; what becomes of the entry is MainLogger's subject.)
HandleLocal ==
    /\ Handle("local")
    /\ UNCHANGED <<pc, table, EpollFD, FD, RemoteFD, ready, events, reading, pos,
                   backlog, read, clientVars, split, victims, dropped>>

HandleFatal ==
    /\ \E kind \in Kind : Dequeue(kind) /\ (kind = "fatal" \/ CannotCreate)
    /\ Ends
    /\ UNCHANGED <<split, victims, dropped>>

\* Request closes the descriptor whose number it has kept, whatever that now
\* refers to.
Stale == {table[f] : f \in {RemoteFD} \ {-1}}

StaleClosed == [f \in Fd |-> IF f = RemoteFD THEN "free" ELSE table[f]]

CloseStale ==
    /\ ready' = ready \ Stale
    /\ victims' = victims \cup (Stale \cap Client)
    /\ UNCHANGED <<EpollFD, FD, events, reading, pos, backlog, read, clientVars,
                   split, dropped>>

\* A socket is opened, the request sent, and Request waits for the response.
RequestSends ==
    /\ Handle("remote")
    /\ CloseStale
    /\ \E f \in Fd :
          /\ Lowest(StaleClosed, f)
          /\ table' = [StaleClosed EXCEPT ![f] = "udp"]
          /\ RemoteFD' = f
    /\ pc' = "request"

\* sendto fails: the socket is closed, its number kept.
RequestSendFails ==
    /\ "request" \in Faults
    /\ Handle("remote")
    /\ CloseStale
    /\ \E f \in Fd : Lowest(StaleClosed, f) /\ RemoteFD' = f
    /\ table' = StaleClosed
    /\ UNCHANGED pc

\* getaddrinfo or socket fails: FD has been set to -1 before.
RequestFails ==
    /\ "request" \in Faults \/ TableFull(StaleClosed)
    /\ Handle("remote")
    /\ CloseStale
    /\ RemoteFD' = -1
    /\ table' = StaleClosed
    /\ UNCHANGED pc

\* The response, or an error: the socket is closed, its number kept.
RequestReturns ==
    /\ pc = "request"
    /\ pc' = "drain"
    /\ table' = [table EXCEPT ![RemoteFD] = "free"]
    /\ UNCHANGED <<EpollFD, FD, RemoteFD, ready, events, reading, pos,
                   Instructions, backlog, read, clientVars, historyVars>>

--------------------------------------------------------------------------------
Loop ==
    \/ EpollWait
    \/ Accept \/ AcceptFails
    \/ BeginRecv
    \/ \E c \in Client : Recv(c) \/ Parse(c) \/ ParseBreaks(c) \/ RecvAgain(c) \/ RecvEnd(c)
    \/ EndEvents \/ Drained
    \/ HandleLocal \/ HandleFatal
    \/ RequestSends \/ RequestFails \/ RequestReturns

Fault ==
    \/ StartFails \/ Signal
    \/ AcceptDrops \/ (\E c \in Client : RecvFails(c)) \/ RequestSendFails

ClientStep(c) == Connect(c) \/ Send(c) \/ ClientCloses(c)

Next ==
    \/ \E c \in Client : ClientStep(c)
    \/ Listen \/ Register
    \/ Loop
    \/ Fault

Spec == Init /\ [][Next]_vars

\* The terminal's thread keeps running, and the server answers its requests.
FairSpec == Spec /\ WF_vars(Listen \/ Register \/ Loop)

--------------------------------------------------------------------------------
(* Properties *)

\* Request closes a number that may by then refer to something else (the stale
\* FD), and accept hands out numbers that were just closed: the standard
\* streams, the epoll instance and the listening socket never get caught in
\* this, every connection has one descriptor, and the event being handled is
\* a client's.
DescriptorsOK ==
    pc # "exited" =>
        /\ table[0] = "std"
        /\ pc # "init" => table[EpollFD] = "epoll" /\ table[FD] = "listen"
        /\ \A f, g \in Fd : table[f] = table[g] /\ table[f] # "free" => f = g
        /\ \A f \in events \ {FD} : table[f] \in Client
        /\ pc = "recv" => table[reading] \in Client

\* Edge-triggered epoll reports an arrival once: when the process goes to
\* sleep in epoll_wait, every accepted client that has sent something or has
\* closed is on the ready list, whenever it did so.
NoLostEdge ==
    pc = "wait" => \A c \in Open : HasEvent(c) => c \in ready

\* What was received and what became of it.
Parsed(c) ==
    IF pc = "recv" /\ table[reading] = c THEN pos ELSE read[c]

\* However a client's bytes are cut into buffers, an instruction that has been
\* received is handled or queued, unless it could not be parsed or reached the
\* terminal in two parts.
NothingOverlooked ==
    pc # "exited" => \A c \in Client : \A n \in 1..Len(text[c]) :
        2 * n <= Parsed(c) =>
            \/ Contains(handled \o Instructions, <<c, n>>)
            \/ text[c][n] = "invalid"
            \/ <<c, n>> \in split

\* A client's instructions are handled in the order in which it sent them, and
\* none of them twice, whatever other clients do in between.
ClientOrder ==
    LET all == handled \o Instructions
    IN  \A i, j \in DOMAIN all :
            i < j /\ all[i][1] = all[j][1] => all[i][2] < all[j][2]

MaxText == Max({Len(t) : t \in Texts})

\* An instruction that an accepted client has sent is handled, unless it is
\* invalid or split, or the connection or the process is lost.
AcceptedIsHandled ==
    \A c \in Client : \A n \in 1..MaxText :
        (c \in Open /\ 2 * n <= sent[c])
            ~> \/ Contains(handled, <<c, n>>)
               \/ n <= Len(text[c]) /\ text[c][n] = "invalid"
               \/ <<c, n>> \in split
               \/ c \in victims \cup dropped \/ pc = "exited"

\* "p0: Successfully connected to server." (main.cpp:108), as if a connection
\* that succeeded were always accepted.
EveryConnectionAccepted ==
    \A c \in Client : Pending(c) ~> ~Pending(c)

\* "Client closed the connection." (TerminalUserInterface.cpp:145) is what the
\* terminal reports when it closes a descriptor without an error, and
\* ServerConnection takes an FD that is not -1 for its own
\* (ServerConnection.cpp:29): as if no other connection were closed.
ClosedAfterClient ==
    [][\A c \in Client :
          c \in Open /\ c \notin Open' => status[c] = "closed"]_table

================================================================================
