# Verification of LoggerAPI

TLA+ models of the logger, checked with TLC on small instances and proved with
TLAPS for all instances. Paths are relative to the repository, which is in `src/`.

## The system

`main.cpp` forks into three processes. The parent runs the *terminal*
(`TerminalUserInterface::Start`), which accepts instructions on a Unix socket and
handles them one after the other. One child runs the *server*, which receives
entries over UDP and logs them. The other child is a test client of the terminal.

| Component | State | Operations | Interacts with |
|---|---|---|---|
| `InstructionInterpreter`, `MainLogger` | `MainLogger::Instance`, `cur_ctf`, `cur_json` | `HandleInstruction`, `Setup`, `Exec`, `GetFileInterface` | called by the terminal and by the server; calls a file interface |
| `FileInterface` and its two subclasses | `FileCount` (static), `FileName`, `EntryCount`, the files in `/tmp/logger` | constructor, `LogLine`, `ReflectLog` (no caller) | the files are shared by all processes of the host; `LogLine` calls `ServerConnection::Request` |
| `ServerConnection` | `FD` | `Request`, `Transfer` (no caller but `ReflectLog`) | sends a datagram to the server and blocks for the response |
| `Server` | `FD`, `EpollFD`, `retryCount` | `Initialize`, `Run`, `HandleIncomingData`, `Cleanup` | calls `HandleInstruction` in its own process |
| `TerminalUserInterface` | `FD`, `EpollFD`, `f_Stop`, `Instructions` | `Start`, `Stop` | fills `Instructions` from its clients, drains it into `HandleInstruction` |
| `main` | three processes, signal handlers | forks, test client, `signalHandler` | starts everything; `signalHandler` ends the process it runs in |
| `LoggerInstruction`, `ServerRequest`, `ClientResponse`, `LogEntry` | | `Serialize`, `Deserialize` | the formats of the Unix socket, of the datagrams and of the files |

What is hard about it, and what makes each component correct:

* **Logger.** Every process counts its files itself, while the files belong to the
  host. It matters which files coincide, what a truncation can destroy and when, and
  whether `EntryCount` and the file stay in step. (`SameNames`,
  `AppendOnlyOnceOpened`, `CountsCoverFile`)
* **Exchange.** UDP loses and reorders, and between hosts it duplicates; `Request` blocks
  with no timeout; a socket is closed while its answer is under way; the server may not
  have bound its port yet, may swallow an exception or may die. Each copy of a request
  that is delivered must be handled at most once, a response must mean something, and a
  logger that waits for ever must have a reason. Against a copy that the network makes
  the server has no defence: it logs and answers it like the first.
  (`OneCopy`, `BlockedIsExplained`, `AckedIsAccountedFor`, `FileOrder`,
  `EveryInstructionHandled`)
* **Conversions.** An instruction is cast to the logger's enumerations, to a request,
  to an instruction again and to an entry, with `+1` and `-1` at each step, and its text
  is escaped, cut at the buffer's end and unescaped. What ends up in a file must still be
  what was asked for. (`Provenance`)
* **Terminal.** Edge-triggered epoll reports an arrival once, accept is called once per
  event, recv may return any part of what a client sent, and descriptor numbers are
  reused: `Request`, which the drain loop runs in the same thread, closes a number it
  has closed before. No arrival may go unnoticed, no descriptor may be confused with
  another, and what a client sent whole must be handled once and in its order.
  (`NoLostEdge`, `DescriptorsOK`, `NothingOverlooked`, `ClientOrder`,
  `AcceptedIsHandled`)
* **Start and end.** The client is forked before the terminal has a socket, keeps trying
  for a while, then waits for an answer; every process may be killed at any point, and
  the socket's path outlives them all. With its first instruction the terminal forks again,
  now with its sockets open: each file interface waits for a shell (`system("mkdir -p
  /tmp/logger")`), and no descriptor is close-on-exec. A client must not be kept waiting
  by a terminal that is gone, and a second launch must come up. (`LeadsToTheLiving`,
  `NoClientLeftBehind`, `RestartsCleanly`)
* **Instruction texts.** Brackets and parentheses frame an instruction, but are not
  escaped inside, and each buffer is searched on its own. A message must not disturb its
  neighbours, and no piece of one may be taken for an instruction. (`TakenForWhatItIs`,
  `NothingMadeUp`)
* **JSON strings.** `dump` decodes UTF-8 byte by byte into a fixed buffer and throws if it
  cannot. It must throw for nothing else, stay within its buffer, and let no quotation
  mark through. (`WithinBuffer`, `NothingLostOrTwice`, `ThrowsUnlessUTF8`,
  `CompletesCharacters`, `StaysOneString`)
* **Server.** It runs the same `HandleInstruction` with the same `Connection` as the
  loggers, which points at itself. (`ServerNeverForwards`)

`PROJECT.json` lists the hazards one by one, at their lines.

## Modules

| Module | What it is |
|---|---|
| `LoggerTypes` | enumerations, casts, records, texts and their conversions |
| `MainLogger` | `HandleInstruction`, the file interfaces and the files, for all processes of all hosts |
| `RemoteLogging` | extends `MainLogger`: instruction queues, `ServerConnection::Request`, UDP, `Server` |
| `EntryStore` | abstract: what the logger promises about an entry, whoever stores it |
| `RemoteStore` | `RemoteLogging` as an implementation of `EntryStore` |
| `Startup` | `main`: forks, the test client, the terminal's socket, signals, a second launch |
| `InstructionText` | `LoggerInstruction::Serialize` and `Deserialize`, and the bracket search between them |
| `JsonDump` | how `nlohmann::json::dump` writes a string, and when it throws |
| `TerminalUserInterface` | `Start`'s event loop, its clients, epoll and the descriptors of the process |
| `MCMainLogger`, `MCRemoteLogging`, `MCTerminal`, `MCInstructionText`, `MCJsonDump` | values of the constants for TLC |
| `LoggerTypesProofs`, `MainLoggerProofs`, `RemoteLoggingProofs`, `RemoteStoreProofs`, `TerminalProofs`, `StartupProofs`, `InstructionTextProofs`, `JsonDumpProofs` | theorems |

**LoggerTypes.** Enumerations are the integers of the C++ enumerations, so that the
casts are the code's arithmetic. A text is a sequence of tokens; only the characters
the conversions look at (newline, its escape, the blank `Deserialize` leaves in
front, a byte that is not UTF-8) have tokens of their own. Time stamps and brackets
are left out. `ReflectLog` stands for every instruction type past `LogCritical`, the
`Unspecified` values for every unknown format or mode. `id` is a history field that
identifies an instruction wherever its contents go.

**MainLogger.** `HandleInstruction` runs in one thread, but several processes run it
at once on shared files, so it is split where they can come between: `pc[p]` is
`idle`, `exec` (inside the lambda), `request` (inside `Request`), `done`, `threw` or
`exited`. `opened[p]`, `FileNo[p]`, `EntryCount[p]` are `cur_ctf` and `cur_json` with
their fields, `FileCount[p]` the static counter, `disk[h]` the files of host `h`.
Creating an interface is one action per format, in the order of the code; `LogLine`
has one action per way through it. The missing `return` of `SerializeSeverity` is a
choice between a garbage label, a throwing `dump` and a crash.

**RemoteLogging.** Every step a process takes inside `HandleInstruction` is one of
`MainLogger`'s (proved as `NextIsLoggerStep`). `submitted` and `taken` are the terminal's
queue and how far it is drained. `net`, `inbox`, `replies` are datagrams on their way, in
the server's receive queue, and on their way back. Each `Request` has a socket of its own,
so the request's id is also the socket's name: `Awaits` lets a response in only while that
very `Request` waits (the kernel's reuse of a port number for a later `Request` is left
out). An id `<<l, n, c>>` is copy `c` of the request for logger `l`'s `n`-th instruction,
the one that was sent being copy 0. The network delivers what it has (`Arrive`), or
delivers it and keeps a copy (`ArriveTwice`), unless logger and server share a host: the
loopback device, over which all of `main.cpp`'s processes talk, loses but does not
duplicate. The server treats a copy as a request of its own, as `HandleIncomingData` does,
which looks at nothing that could tell it apart; the response to the first copy that is
answered ends the `Request`, and others find its socket closed. Responses that the network
duplicates are not modelled, for the same reason. `Initialize` gets as far as it gets and
`Run` starts anyway, as in the code. `Faults` switches on what the environment may do:
`disk`, `init`, `socket`, `recv`, `loss`, `interrupt`, `signal`, and `early` (instructions
before the server is up). Six history variables (`acked`, `lost`, `copies`, `abandoned`,
`refused`, `wiped`) record ids for the properties; no guard reads them. A server that is
killed while it waits for its own `mkdir` leaves its port bound until that ends; what
arrives in that moment is as lost as what arrives at a closed port, and the model closes
the port at once.

**TerminalUserInterface.** A module of its own beside the other three: it says what is
handed to `HandleInstruction` and in which order, they say what becomes of it. What they
share is `Request`, seen here from its descriptors only. `pc` is the place in `Start`:
`init` (before `listen`), `listening` (before `epoll_ctl`), `wait` (`epoll_wait`),
`events` (the loop over the events), `recv` (the loop over one client's buffers), `drain`
(the loop over the queue), `request` (inside `Request`), `exited`. `table` is the
process's descriptor table; a new descriptor is the lowest free number, as POSIX has it,
because the number is what `Request` keeps. `ready` is epoll's ready list, `events` what
`epoll_wait` returned and is not handled yet, a set because the order within it is the
kernel's. A serialized instruction is two tokens, its two brackets with what is between
them, so that `recv` can return any part of it; `Parse` and `ParseBreaks` are the two ways
an iteration of the bracket search ends. What an instruction does is one of four kinds:
`local`, `remote`, `invalid` and `fatal` (`j.dump` throws). The first instruction of all
also opens two log files, and ends the process when it finds no descriptor for them
(`CannotCreate`); the properties say nothing of a process that has ended. `Faults`
switches on failing calls and signals. Four history variables (`handled`, `split`,
`victims`, `dropped`) serve the properties; of them only `handled` is read by a guard, by
`CannotCreate`, which asks for the first instruction. A signal and every `exit` share
`Ends`: `Stop` closes two descriptors, the kernel the others.

**EntryStore and RemoteStore.** An entry is what `HandleInstruction` is given once: an
instruction a logger handles, or a copy of a request that the server receives. What the
network duplicates is two entries to the server, and so to the store, which promises
nothing about how many of them an instruction has (`FileOrder` does: one, unless the
network made a copy). An entry is stored in one file, once, or given up; it leaves a file
only when the whole file is truncated; neither brings it back, and nobody is answered
before. `RemoteStore` maps the files of all hosts to its `lines`, the ids that `LogLine`
refused or a constructor truncated away (`refused`, `wiped`) to `gone`, and the ids of
`Request`s that returned a response to `answered`. Queues, datagrams, buffers and
processes are hidden.

**Startup.** One `main`, `server` and `client` per launch; a launch may be started while
another one runs or after it was killed. `main[l]` is the place in `main` and `Start`,
`client[l]` the place in the test client: `asleep` stands for the sleep before a
`connect`, `recv` for its wait. What decides on connections is modelled as the kernel has
it: `fork` copies descriptors (`Inherits`), a socket lives while some process holds it
(`holders`), and so does the accepted end of a connection (`ends`); `path` is what the
file system's name leads to. A connection in the backlog ends with the socket, an
accepted one with the last process that holds its end (`Close`). In its loop the terminal
handles the first instruction of any client (`sent`) by creating both interfaces (`ctf`,
`json`, then `made`), and waits each time for a child that has inherited all of its
sockets (`System`, `shell`; one process stands for the shell and the `mkdir` it runs). If
the terminal is killed meanwhile, that child keeps clients connected to nobody until it
ends. `ended` is the end of any process, by whatever way. `unlink` may fail, which the
code does not look at (`UnlinkFails`): then `bind` does. `unlink` and `bind` are two steps
(`Unlink`, `Bind`): of two launches that start together one may be refused its path
(`BindRefused`), or have it taken away after it was bound. `alone` is a history variable
for `RestartsCleanly`: the launch that began when no terminal was left, until another
begins, and unless it could not unlink the path. What the code has after calls that
never return (the client's last prints, `waitpid`) has no action.

**InstructionText.** The stream of one client as a sequence of characters, of which those
are told apart that the code looks for; "num" stands for the four integers. `got` is what
recv has returned, `pos` where the search goes on, `split` the messages a buffer ended
inside. `Parse` and `ParseBreaks` are those of `TerminalUserInterface`, which calls an
instruction valid or not where this module looks into it.

**JsonDump.** `decode`'s table is the code's, by type of byte and state; a step of
`dump_escaped` is one byte: `Accept`, `Incomplete` or `Reject`. What is in
`string_buffer` is a sequence of units (a byte, or an escape sequence) and the number of
bytes they take; `top` is the last place of it ever written. The library comes with the
build, but the server's answer depends on it: what this module throws for is what
`LoggerTypes!Undumpable` stands for.

## Runs

| Run | Instance | Shows |
|---|---|---|
| `logger` | two processes, one host, 5 instructions that take every way through `LogLine`, `MAX_ENTRIES = 2` | `LoggerTypeOK`, `SameNames`, `CountsCoverFile`, `AppendOnlyOnceOpened` |
| `remote_faults` | a logger and the server on one host, as in `main.cpp`, all faults, 3 instructions each from 7 | all safety properties of `RemoteLogging` |
| `remote_two` | two loggers, on the server's host and on another, one plain instruction of the first and two of the second, loss, early start, and one copy of each request from the other host | the same, with competing loggers and duplicated requests; `StoresEntries`, the refinement; `EveryInstructionHandled` |
| `startup` | two launches with the shells of their terminals, two attempts to connect, all faults | `TypeOK`, `LeadsToTheLiving`, `RestartsCleanly`, `NoClientLeftBehind` |
| `instruction_text` | up to three of ten messages: plain, empty, with each character that is searched for, one that quotes an instruction | `TypeOK`, `TakenForWhatItIs`, `NothingMadeUp` |
| `json_dump` | all strings of up to 5 of 27 bytes, those at both ends of every range of `decode`'s table and the escapes | all properties of `JsonDump` |
| `shared_file` | as `logger` | **violated**: `LinesStay` |
| `remote_cut` | one logger, JSON messages, one longer than the buffer | **violated**: `EveryRequestAnswered` |
| `terminal` | two clients, two instructions each of every kind, one descriptor fewer than would be needed, all faults | all safety properties of `TerminalUserInterface` |
| `terminal_live` | three clients without faults, two free descriptors, two events per `epoll_wait` | `AcceptedIsHandled` (a terminal that finds no descriptor for its log files ends), and `DescriptorsOK` and `NoLostEdge` at the limits of the process |
| `terminal_starve` | two clients that connect before one `epoll_wait` | **violated**: `EveryConnectionAccepted` |
| `terminal_stale` | two clients, one instruction each that calls `Request` | **violated**: `ClosedAfterClient` |

*Bounds.* `MAX_ENTRIES` (32768 in the code) is 1 or 2, so that interfaces fill up, in the
logger and in the server, in either order, and 3 in `remote_two`, whose two instructions
of one logger and a copy of either then fit into one file. `BufferSize` (1023 bytes) is 8
tokens, between the shortest and the longest line. `maxRetries` (5) is 1: zero, the last
and one too many EINTRs happen. `MaxSubmit` bounds the instructions of each logger; with
3, an abandoned request can be overtaken and the interface still be filled; with 2 and
`MaxCopies = 1`, a late copy of the first can follow the second. Where all processes share
a host nothing is duplicated, and `MaxCopies` is 0. Two processes are enough for a
collision on a file, two loggers for a reordering. In the terminal, `BufferSize` (1024
bytes) is 2 or 3 tokens, so that a buffer holds one instruction, one and a half, or ends
anywhere; `MaxFd` leaves one descriptor for `Request` or none; `MAX_EVENTS` (16) and
`Backlog` (10) are kept where they do not matter and are 2 and 1 in `terminal_live`, where
they do: its third client finds no descriptor. Two clients are enough to close each
other's descriptors and to mix their instructions. `Startup` has two launches, so that one
finds the path of another, living or dead, and `max_attempts` (5) is 2: a failed attempt
that is not the last, and the last. Three messages of at most four characters in a buffer
of 9 put a message between two others, whole or cut, with two cuts inside one. A
`string_buffer` of 16 bytes (512) is flushed after one escape or a few characters, with
every amount of room left over; characters have at most four bytes, so that five show
every character and what follows it. Clients are interchangeable, hence the symmetry in
the runs without liveness.

*Deadlock* is not checked: processes exit, and the queues are bounded.

*Fairness* (`remote_two`, `remote_cut`): each logger, the server and the delivery of
datagrams are weakly fair. The processes are scheduled by the operating system and do
nothing between their steps that could block but what is modelled; a datagram arrives in
the end, or is lost where the run has loss, which `EveryInstructionHandled` allows for.
Nothing is assumed of clients or of faults. In the terminal's runs (`terminal_live`,
`terminal_starve`) its one thread is weakly fair: that includes `RequestReturns`, that is,
a server that answers, which `remote_two` and `remote_cut` are about. Clients are not
fair: they may stop in the middle of an instruction. In `startup` every process that was
started is weakly fair, the shells included, as `mkdir` waits for nobody; but nothing is
assumed of the terminal's loop, which may be inside `Request` for ever. Nobody has to
start a launch, and no call has to fail or signal to come.

### What the violated runs show

* `shared_file`: `LogLine` appends, but the constructor truncates, and the files of all
  processes of a host have the same names. With `main.cpp`'s processes, the server's
  first entry erases what the terminal has logged locally.
* `remote_cut`: a datagram cut inside a multi-byte character makes `j.dump` throw; the
  exception is swallowed, no response is sent, the logger blocks for ever.
* `terminal_starve`: the listening socket is registered with `EPOLLET` and `accept` is
  called once per event, so of two connections that arrive together one stays in the
  backlog until another client connects.
* `terminal_stale`: `Request` closes its descriptor and keeps the number; if a client is
  accepted under that number, the next `Request` closes the client's connection.

Six more things stand out in the models, each visible in an action or a definition:

* `RemoteLogging!Respond` sends "Request processed successfully" also for an entry that a
  full interface or a failing disk refused, which is why `AccountedFor` needs `refused`.
* `RemoteLogging!ArriveTwice`: between hosts, a datagram that the network duplicates is two
  entries in the server's file. `ServerRequest` has no field by which the server could
  notice.
* `Startup!System`: a terminal that is killed while it creates its log files leaves its
  listening socket and its clients to a shell, until `mkdir` is done.
* No action of `Startup` sends anything to a client: the test client's wait for a
  response ends only with the terminal.
* `Start`'s loop ends by `Stop` alone, which only the signal handler calls before it
  exits: `waitpid` is never reached, and a signal to the parent alone leaves its children
  behind, the server for good.
* `InstructionText!GetsThrough`: the results of `stringReplace` are discarded and the
  first closing parenthesis, bracket or newline counts, so that a message with a
  parenthesis is cut there and one with the others is refused.

## Proofs

TLAPS checks the theorems for every value of the constants that satisfies the named
assumptions: processes have process ids and hosts and are finitely many, inputs are
instructions,
`MAX_ENTRIES`, `MAX_EVENTS` and `BufferSize` are positive, ids can name every
instruction and every copy of its request, and clients differ from what else a
descriptor may refer to. Which processes share a host is arbitrary, and so is how many
copies (`MaxCopies`) the network makes of a request between hosts.

* `MainLoggerProofs`: `LoggerTypeCorrect`, `NamesCollide` (`SameNames`),
  `GrowOnceOpened` (`AppendOnlyOnceOpened`). The type invariant is not inductive:
  nothing in it keeps `FileCount` below 3. `FileNumbering` says that the interfaces
  are created in a fixed order and numbered in that order, and that an unset `Instance`
  means no interfaces; with it every action preserves the types, and `SameNames`
  follows. `CountsCover` (`CountsCoverFile`) is about a sum over all writers of a file,
  which the code keeps one summand at a time, each in its own process. `Units` turns the
  sum into a set, one element per entry counted; that its cardinality is what the fold of
  `FiniteSetsExt` adds up to is shown by induction over finite sets (`PickInduction`, from
  the well-foundedness of the strict subset relation). Then `Covers`, one file's share of
  the property, is followed through each step: a count that grows adds units, a
  truncation empties the file, a line is only appended by a writer that counts it in the
  same step, and a new writer adds its units to the others'. `BoundedByWriters`
  is what follows for the limit: k processes with one file can fill it with k times
  `MAX_ENTRIES` lines.
* `RemoteLoggingProofs`: `TypeCorrect`, `OnlyTheNetworkCopies` (`OneCopy`),
  `BlockedForAReason` (`BlockedIsExplained`), `AnswersAreAccountedFor`
  (`AckedIsAccountedFor`), `ServerLogsLocally` (`ServerNeverForwards`), all from one
  inductive invariant `Inv`. Its parts: `IdsOK` (a logger works on the last instruction
  it took, and ids are unique), `CopiesOK` (a request bears its logger's name, and only those
  from other hosts are duplicated), `RolesOK` (the server handles instructions in mode
  `Local` and knows whom to answer), `FreshOK` (what was not sent, or not
  copied yet, is nowhere),
  `DoneOK` (what the server has done with is accounted for before it is answered). A
  request is alone because it was fresh when it was sent, and so is a copy when it is
  made; a response is accounted for
  because the server was `done`, and truncations are on record. `LoggersAreMainLoggers`
  says that each step of the composition is a step of one process of `MainLogger`, the
  server's included, or leaves the loggers' variables alone; `FilesOfAllLoggers` carries
  `SameNames`, `CountsCoverFile`, `FileIsBounded` and `AppendOnlyOnceOpened` over to it.
* `TerminalProofs`: `TerminalTypeCorrect`, `DescriptorsIntact` (`DescriptorsOK`),
  `EdgesAreKept` (`NoLostEdge`), `NothingIsOverlooked` (`NothingOverlooked`),
  `ClientsInOrder` (`ClientOrder`), from one inductive invariant `Inv`. None of the
  properties is inductive. `TableOK` adds what the stale number may refer to: nothing, a
  client or the socket `Request` waits on, never one of the terminal's own. `EdgesOK`
  follows an arrival from the ready list through `events` to the loop of `recv`, which
  ends at EAGAIN, where nothing is left. `ConnectionsOK` says that a connection waits for
  `accept` once. `OrderOK` and `SplitOK` tie the queue to how far each client's input has
  been searched: what is found next is behind everything queued, and a search that stops
  within an instruction has recorded it as split. All five were checked as invariants by
  TLC before they were proved.
* `RemoteStoreProofs`: `EntriesHaveProvenance` (`Provenance`), `FilesInOrder`
  (`FileOrder`) and the refinement `RemoteLoggingIsEntryStore` (`StoresEntries`). `Trail`
  follows an instruction through request, wire, server and entry and says at each place
  what its fields are by then; `OnceOK` says that each copy of it is in one place, and
  what is decided does not come back; `Unique`, that no two entries of all files have one
  id; `FlightOK`, that nothing is in flight but what its logger waits for, has given up,
  or what the network has copied. In `FilesInOrder` a second entry of an instruction then
  has the id of a copy, and `CopiesOK` says that its logger is on another host. Together
  with `Inv` they are inductive. For the refinement every action is shown to store an
  entry that was not decided, to give one up, to truncate a file, to answer for one that
  is decided, or to leave the three mapped variables alone. `StoreKeepsPromises` is about
  `EntryStore` alone: its steps keep `StoredOnce`, `GoneForGood` and `AnswersFollow`, and
  no decided fate is ever undone (`FatesStand`). `RemoteLoggingKeepsPromises` puts the two
  together: the composition keeps them because it refines a specification that does. They
  hold for each copy of a request by itself: a second one may bring back the text of an
  entry that a truncation removed, as an entry of its own. TLC checked both in the
  instance of `remote_two`.
* `StartupProofs`: `StartupTypeCorrect`, `ClientsWaitForTheLiving` (`LeadsToTheLiving`)
  and `RestartAfterKill` (`RestartsCleanly`). The invariant says who can hold a socket:
  `main`'s two forks come before it is made, and so a listening socket is held by its
  terminal, the shell this waits for, or the one it left behind (`HoldersOK`), an accepted
  connection by the same (`EndsOK`), since none is accepted while a shell runs
  (`ShellOK`), and a socket listens from `listen` on until the last of them has ended
  (`ListeningOK`). `AloneOK` adds that while a launch is `alone` every other terminal has
  ended, so that nobody binds the path between its `Unlink`, which succeeded, and its
  `Bind`.
* `InstructionTextProofs`: `TextTypeCorrect`, `WholeMessagesUndisturbed`
  (`TakenForWhatItIs`) and `PiecesAreNotInstructions` (`NothingMadeUp`), for any messages
  and any cuts. The point is that the search finds its way back: a message ends in a
  closing bracket, so that whatever the search began in the middle of, it never goes
  beyond the end of that message, and starts the next one at its own bracket (`Layout`,
  `SplitKnown`, `Behind`, `TakenAtOnce`).
* `JsonDumpProofs`: `DumpTypeCorrect`, `BufferSuffices` (`WithinBuffer`),
  `DumpIsComplete` (`NothingLostOrTwice`), `DumpIsOneString` (`StaysOneString`),
  `ThrowsForBadUTF8` (`ThrowsUnlessUTF8`) and `CharactersComplete` (`CompletesCharacters`),
  for strings of any length and buffers of at least 13 bytes. `Known` gives, for each state
  of `decode`, how many bytes of the character were read and between which bounds the
  code point is: the upper ones keep it within 21 bits, the lower ones away from the
  escapes, and the number of bytes is what may be missing from the 13 that are free
  after a flush. For the last two, `ThrowsUnlessUTF8` is too weak to be kept by a step: it
  says that what is pending begins some character, not that `state` is the one that
  accepts the rest of that character. `Decoding` does (`After` gives the state after n
  bytes of each row of the standard's table, `Follows` compares it with `utf8d`). That
  the row is known from the first byte on (`FirstBytesDiffer`) makes a rejection final: no
  character begins with what was read. TLC checked `Decoding`'s part `Inside` in the
  instance of `json_dump` before it was proved.
* `LoggerTypesProofs`: what the conversions return, for texts of any length.

Only model-checked: `EveryInstructionHandled`, `AcceptedIsHandled` and
`NoClientLeftBehind`: they are liveness properties under fairness, which are out of this
prover's reach. Every invariant and every action property of the passing runs is a theorem.

## Order of the project

1. `LoggerTypes`, `MainLogger`, `RemoteLogging` and their proofs.
2. `TerminalUserInterface` and its proofs.
3. `EntryStore`, `RemoteStore`, the proofs of `Provenance`, `FileOrder` and of the
   refinement.
4. `Startup`, `InstructionText`, `JsonDump` and their proofs.

What would come next is the terminal composed with `InstructionText`, client by client.

## Not modelled

Time stamps; the parsing of an instruction's integers; `getCanonicalName` (a constant);
`ReflectLog` and `Transfer`, which nothing calls; `ClientResponse::Deserialize`, which
nothing calls; datagrams that do not come from `ServerConnection`; the build files.

Of the C++ in the repository all but a small part is not the logger's:
`cmake-build-debug/_deps/json-src` holds a checkout of nlohmann/json, more than 60000
lines, most of them twice (`include` and `single_include`), and the logger calls `dump`
and a few constructors of it. The rest (parsing, JSON pointers, CBOR and its relatives,
number formatting) never runs in this program, so that nothing the logger does is left
out with it. The logger's own sources are modelled but for what this section lists.
