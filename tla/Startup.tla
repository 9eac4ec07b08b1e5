-------------------------------- MODULE Startup --------------------------------
(*****************************************************************************)
(* main.cpp: how the three processes of a launch come up, find each other    *)
(* and end.  The process that is started forks a test client and the server  *)
(* and becomes the terminal (TerminalUserInterface::Start); the client polls *)
(* the terminal's socket path, sends one instruction and waits for an answer. *)
(* A launch may be started while another one runs, or after it has died: all *)
(* of them use the same socket path.                                         *)
(*                                                                           *)
(* What the terminal and the server do with instructions is left to          *)
(* TerminalUserInterface and RemoteLogging.  Neither module models that a    *)
(* socket lives as long as some process holds a descriptor of it, and that   *)
(* fork copies descriptors.  The terminal itself forks once more: with its   *)
(* first instruction it makes two file interfaces, each of which waits for a *)
(* shell (system("mkdir -p ...")).                                           *)
(*****************************************************************************)
EXTENDS Naturals, FiniteSets

CONSTANTS
    Launch,        \* the launches of the program
    None,          \* no launch
    max_attempts,  \* how often a client tries to connect
    Faults         \* which failures the environment may produce

\* fork: fork fails        setup: a call in Start fails   socket: socket fails
\* unlink: unlink fails     init: Initialize fails       accept: accept's followers fail
\* file: a log file cannot be opened                    signal: a signal ends a process
ASSUME StartupAssumption ==
    /\ None \notin Launch
    /\ max_attempts \in Nat \ {0}
    /\ Faults \subseteq {"fork", "setup", "socket", "unlink", "init", "accept", "file",
                        "signal"}

VARIABLES
    main,       \* where the first process of each launch is
    server,     \* where its server is
    client,     \* where its test client is
    shell,      \* the launches whose terminal has called system: the shell runs
    attempt,    \* the client's attempt
    conn,       \* the client's connection
    peer,       \* the launch whose terminal it leads to
    sent,       \* the clients that have sent their instruction
    holders,    \* the processes that hold each launch's listening socket
    ends,       \* those that hold the accepted end of each client's connection
    listening,  \* the sockets that listen
    path,       \* the socket that the path in the file system names
    alone       \* history: the launches that began after every terminal had
                \* ended, and before the next one, and could unlink the path

clientVars == <<client, attempt, conn, peer, sent>>
socketVars == <<holders, ends, listening, path>>
vars == <<main, server, shell, clientVars, socketVars, alone>>

Process == Launch \X {"main", "server", "client", "shell"}

TypeOK ==
    /\ main \in [Launch -> {"new", "fork1", "fork2", "setup", "socket", "unlinked",
                            "bound", "listening", "loop", "ctf", "json", "made",
                            "refused", "ended"}]
    /\ server \in [Launch -> {"none", "init", "run", "ended"}]
    /\ client \in [Launch -> {"none", "asleep", "send", "recv", "ended"}]
    /\ shell \subseteq Launch
    /\ attempt \in [Launch -> 0..(max_attempts - 1)]
    /\ conn \in [Launch -> {"none", "pending", "open", "closed"}]
    /\ peer \in [Launch -> Launch \cup {None}]
    /\ sent \subseteq Launch
    /\ holders \in [Launch -> SUBSET Process]
    /\ ends \in [Launch -> SUBSET Process]
    /\ listening \subseteq {l \in Launch : holders[l] # {}}
    /\ path \in Launch \cup {None}
    /\ alone \subseteq Launch

Init ==
    /\ main = [l \in Launch |-> "new"]
    /\ server = [l \in Launch |-> "none"]
    /\ client = [l \in Launch |-> "none"]
    /\ shell = {}
    /\ attempt = [l \in Launch |-> 0]
    /\ conn = [l \in Launch |-> "none"]
    /\ peer = [l \in Launch |-> None]
    /\ sent = {}
    /\ holders = [l \in Launch |-> {}]
    /\ ends = [l \in Launch |-> {}]
    /\ listening = {}
    /\ path = None
    /\ alone = {}

--------------------------------------------------------------------------------
(* Processes *)

Enter(l, from, to) == main[l] = from /\ main' = [main EXCEPT ![l] = to]

\* A new process holds what its parent holds: no socket is close-on-exec.
Inherits(l, child) ==
    LET Copied(h) == [k \in Launch |-> IF <<l, "main">> \in h[k]
                                       THEN h[k] \cup {<<l, child>>} ELSE h[k]]
    IN  holders' = Copied(holders) /\ ends' = Copied(ends)

\* The kernel closes what a process leaves open.  A connection ends with the
\* last process that holds its accepted end or, before it is accepted, with
\* the listening socket.
Close(p) ==
    /\ holders' = [l \in Launch |-> holders[l] \ {p}]
    /\ ends' = [c \in Launch |-> ends[c] \ {p}]
    /\ listening' = {l \in listening : holders[l] # {p}}
    /\ conn' = [c \in Launch |->
                   IF \/ conn[c] = "open" /\ ends[c] = {p}
                      \/ conn[c] = "pending" /\ holders[peer[c]] = {p}
                   THEN "closed" ELSE conn[c]]
    /\ UNCHANGED <<attempt, peer, sent, path, alone>>

\* The launch's first process has ended, or not begun.
NoMain(l) == main[l] \in {"new", "refused", "ended"}

\* Its terminal has come to its loop.
InLoop(l) == main[l] \in {"loop", "ctf", "json", "made"}

\* The program is started.
Begin(l) ==
    /\ Enter(l, "new", "fork1")
    /\ alone' = {k \in Launch : k = l /\ \A j \in Launch : NoMain(j)}
    /\ UNCHANGED <<server, shell, clientVars, socketVars>>

\* The first child is the client.
Fork1(l) ==
    /\ Enter(l, "fork1", "fork2")
    /\ client' = [client EXCEPT ![l] = "asleep"]
    /\ Inherits(l, "client")
    /\ UNCHANGED <<server, shell, attempt, conn, peer, sent, listening, path, alone>>

\* The second child is the server.
Fork2(l) ==
    /\ Enter(l, "fork2", "setup")
    /\ server' = [server EXCEPT ![l] = "init"]
    /\ Inherits(l, "server")
    /\ UNCHANGED <<shell, clientVars, listening, path, alone>>

\* The parent exits; after the second fork it leaves its client behind.
ForkFails(l) ==
    /\ "fork" \in Faults
    /\ main[l] \in {"fork1", "fork2"}
    /\ Enter(l, main[l], "ended")
    /\ Close(<<l, "main">>)
    /\ UNCHANGED <<server, client, shell>>

\* main.cpp's handler: Stop closes the two descriptors of the terminal, then
\* exit ends the process, in whichever of the three it runs.  A shell that the
\* terminal waits for goes on without it.
Signal(l) ==
    /\ "signal" \in Faults
    /\ \/ /\ ~NoMain(l)
          /\ main' = [main EXCEPT ![l] = "ended"]
          /\ Close(<<l, "main">>)
          /\ UNCHANGED <<server, client, shell>>
       \/ /\ server[l] \in {"init", "run"}
          /\ server' = [server EXCEPT ![l] = "ended"]
          /\ Close(<<l, "server">>)
          /\ UNCHANGED <<main, client, shell>>
       \/ /\ client[l] \in {"asleep", "send", "recv"}
          /\ client' = [client EXCEPT ![l] = "ended"]
          /\ Close(<<l, "client">>)
          /\ UNCHANGED <<main, server, shell>>

--------------------------------------------------------------------------------
(* The terminal: TerminalUserInterface::Start.  Its loop runs until f_Stop is *)
(* set, which only Stop does, and Stop is called before exit or after Start:  *)
(* nothing but a signal ends the loop, and main never gets to waitpid.        *)

\* Mutant: the socket is made before the second fork.
Socket_BeforeFork(l) ==
    /\ holders' = [holders EXCEPT ![l] = @ \cup {<<l, "main">>}]
    /\ \/ Enter(l, "fork2", "fork2") /\ <<l, "main">> \notin holders[l]
       \/ Enter(l, "setup", "socket") /\ <<l, "main">> \in holders[l]
    /\ UNCHANGED <<server, shell, clientVars, ends, listening, path, alone>>

Socket(l) ==
    /\ Enter(l, "setup", "socket")
    /\ holders' = [holders EXCEPT ![l] = {<<l, "main">>}]
    /\ UNCHANGED <<server, shell, clientVars, ends, listening, path, alone>>

\* Mutant: the path is left as it is.
Unlink_Not(l) ==
    /\ Enter(l, "socket", "unlinked")
    /\ UNCHANGED <<server, shell, clientVars, socketVars, alone>>

\* unlink: whatever the path names, an earlier launch's socket or that of one
\* still running, is no longer reached by it.
Unlink(l) ==
    /\ Enter(l, "socket", "unlinked")
    /\ path' = None
    /\ UNCHANGED <<server, shell, clientVars, holders, ends, listening, alone>>

\* It fails, as with another user's socket in a directory that is sticky.
\* Nobody looks at the result.
UnlinkFails(l) ==
    /\ "unlink" \in Faults
    /\ path # None
    /\ Enter(l, "socket", "unlinked")
    /\ alone' = alone \ {l}
    /\ UNCHANGED <<server, shell, clientVars, socketVars>>

Bind(l) ==
    /\ path = None
    /\ Enter(l, "unlinked", "bound")
    /\ path' = l
    /\ UNCHANGED <<server, shell, clientVars, holders, ends, listening, alone>>

\* bind fails since the path exists: this launch's unlink has failed, or another
\* one has bound it since.
BindRefused(l) ==
    /\ path # None
    /\ Enter(l, "unlinked", "refused")
    /\ Close(<<l, "main">>)
    /\ UNCHANGED <<server, client, shell>>

Listen(l) ==
    /\ Enter(l, "bound", "listening")
    /\ listening' = listening \cup {l}
    /\ UNCHANGED <<server, shell, clientVars, holders, ends, path, alone>>

\* fcntl and epoll_ctl: the terminal begins to wait for events.
Watch(l) ==
    /\ Enter(l, "listening", "loop")
    /\ UNCHANGED <<server, shell, clientVars, socketVars, alone>>

SetupFails(l) ==
    /\ "setup" \in Faults
    /\ main[l] \in {"setup", "socket", "unlinked", "bound", "listening"}
    /\ Enter(l, main[l], "ended")
    /\ Close(<<l, "main">>)
    /\ UNCHANGED <<server, client, shell>>

\* A client is accepted, or closed again.  It is never sent anything.
Accept(l) ==
    /\ main[l] \in {"loop", "made"}
    /\ \E c \in Launch :
          /\ conn[c] = "pending" /\ peer[c] = l
          /\ \/ /\ conn' = [conn EXCEPT ![c] = "open"]
                /\ ends' = [ends EXCEPT ![c] = {<<l, "main">>}]
             \/ /\ "accept" \in Faults
                /\ conn' = [conn EXCEPT ![c] = "closed"]
                /\ UNCHANGED ends
    /\ UNCHANGED <<main, server, shell, client, attempt, peer, sent, holders,
                   listening, path, alone>>

\* system: a child runs the command, unless it cannot be forked.
System(l) ==
    /\ \/ shell' = shell \cup {l} /\ Inherits(l, "shell")
       \/ "fork" \in Faults /\ UNCHANGED <<shell, holders, ends>>
    /\ UNCHANGED <<server, clientVars, listening, path, alone>>

\* The first instruction of any client: HandleInstruction makes both interfaces,
\* and the constructor of each begins with system.
HandleInstruction(l) ==
    /\ \E c \in sent : conn[c] = "open" /\ peer[c] = l
    /\ Enter(l, "loop", "ctf")
    /\ System(l)

\* system has returned, and the file can be opened.
CtfMade(l) == l \notin shell /\ Enter(l, "ctf", "json") /\ System(l)

JsonMade(l) ==
    /\ l \notin shell
    /\ Enter(l, "json", "made")
    /\ UNCHANGED <<server, shell, clientVars, socketVars, alone>>

\* It cannot: exit(EXIT_FAILURE).
FileFails(l) ==
    /\ "file" \in Faults
    /\ l \notin shell
    /\ main[l] \in {"ctf", "json"}
    /\ Enter(l, main[l], "ended")
    /\ Close(<<l, "main">>)
    /\ UNCHANGED <<server, client, shell>>

\* mkdir is done, or a signal has ended it.
ShellEnds(l) ==
    /\ l \in shell
    /\ shell' = shell \ {l}
    /\ Close(<<l, "shell">>)
    /\ UNCHANGED <<main, server, client>>

--------------------------------------------------------------------------------
(* The server process *)

Initialize(l) ==
    /\ server[l] = "init"
    /\ server' = [server EXCEPT ![l] = "run"]
    /\ UNCHANGED <<main, shell, clientVars, socketVars, alone>>

\* Run returns at once for want of an epoll instance.
InitializeFails(l) ==
    /\ "init" \in Faults
    /\ server[l] = "init"
    /\ server' = [server EXCEPT ![l] = "ended"]
    /\ Close(<<l, "server">>)
    /\ UNCHANGED <<main, client, shell>>

--------------------------------------------------------------------------------
(* The test client *)

ClientMoves(c, from, to) ==
    /\ client[c] = from
    /\ client' = [client EXCEPT ![c] = to]
    /\ UNCHANGED <<main, server, shell>>

\* The client's process exits, and the terminal sees the end of its input.
ClientExits(c, from) ==
    /\ ClientMoves(c, from, "ended")
    /\ Close(<<c, "client">>)

Refused == path = None \/ path \notin listening

\* A socket also takes connections that nobody will accept, if no more than a
\* shell is left to hold it.
Connect(c) ==
    /\ ~Refused
    /\ ClientMoves(c, "asleep", "send")
    /\ conn' = [conn EXCEPT ![c] = "pending"]
    /\ peer' = [peer EXCEPT ![c] = path]
    /\ UNCHANGED <<attempt, sent, socketVars, alone>>

\* Mutant: only a failing socket call ends the loop.
ConnectFails_Forever(c) ==
    /\ Refused
    /\ ClientMoves(c, "asleep", "asleep")
    /\ UNCHANGED <<attempt, conn, peer, sent, socketVars, alone>>

\* Mutant: one attempt too many.
ConnectFails_OneMore(c) ==
    /\ Refused
    /\ attempt[c] < max_attempts
    /\ ClientMoves(c, "asleep", "asleep")
    /\ attempt' = [attempt EXCEPT ![c] = @ + 1]
    /\ UNCHANGED <<conn, peer, sent, socketVars, alone>>

\* Another attempt follows, except after the last.
ConnectFails(c) ==
    /\ Refused
    /\ attempt[c] + 1 < max_attempts
    /\ ClientMoves(c, "asleep", "asleep")
    /\ attempt' = [attempt EXCEPT ![c] = @ + 1]
    /\ UNCHANGED <<conn, peer, sent, socketVars, alone>>

ClientGivesUp(c) ==
    /\ Refused
    /\ attempt[c] + 1 = max_attempts
    /\ ClientExits(c, "asleep")

\* socket fails, which ends the client at once.
SocketFails(c) ==
    /\ "socket" \in Faults
    /\ ClientExits(c, "asleep")

Send(c) ==
    /\ conn[c] # "closed"
    /\ ClientMoves(c, "send", "recv")
    /\ sent' = sent \cup {c}
    /\ UNCHANGED <<attempt, conn, peer, socketVars, alone>>

\* send fails (SIGPIPE is ignored), or recv returns 0 or an error.
ConnectionEnds(c) ==
    /\ conn[c] = "closed"
    /\ \E from \in {"send", "recv"} : ClientExits(c, from)

--------------------------------------------------------------------------------

\* What a launch does of its own accord, until its terminal is in the loop.
MainProgress(l) ==
    \/ Fork1(l) \/ Fork2(l)
    \/ Socket(l) \/ Unlink(l) \/ Bind(l) \/ BindRefused(l) \/ Listen(l) \/ Watch(l)

\* What it does there.
LoopProgress(l) ==
    Accept(l) \/ HandleInstruction(l) \/ CtfMade(l) \/ JsonMade(l)

ClientProgress(c) ==
    Connect(c) \/ ConnectFails(c) \/ ClientGivesUp(c) \/ Send(c) \/ ConnectionEnds(c)

Next ==
    \E l \in Launch :
        \/ Begin(l)
        \/ MainProgress(l)
        \/ LoopProgress(l)
        \/ ForkFails(l)
        \/ SetupFails(l)
        \/ UnlinkFails(l)
        \/ FileFails(l)
        \/ ShellEnds(l)
        \/ Initialize(l)
        \/ InitializeFails(l)
        \/ ClientProgress(l)
        \/ SocketFails(l)
        \/ Signal(l)

Spec == Init /\ [][Next]_vars

\* The scheduler runs every process, and mkdir comes to an end.  Nothing is said
\* of the terminal's loop, which may wait for the server's answer for ever (see
\* RemoteLogging), and nobody has to start a launch.
Fairness ==
    \A l \in Launch : /\ WF_vars(MainProgress(l))
                      /\ WF_vars(ShellEnds(l))
                      /\ WF_vars(Initialize(l))
                      /\ WF_vars(ClientProgress(l))

FairSpec == Spec /\ Fairness

--------------------------------------------------------------------------------
(* Properties *)

\* A connection that has not been reset, be it accepted or still in the backlog,
\* leads to a terminal that lives or, where the terminal was killed while it
\* waited for system, to the shell it has left behind, for as long as that runs.
\* The server and the clients, which outlive a terminal for long, never keep one.
LeadsToTheLiving ==
    \A c \in Launch :
        /\ conn[c] = "pending" => peer[c] \in shell \/ main[peer[c]] = "listening"
                                                   \/ InLoop(peer[c])
        /\ conn[c] = "open" => peer[c] \in shell \/ InLoop(peer[c])

\* Nobody but the clients themselves sees to it that they end, as main does not
\* wait for them.  They do end once no terminal is left.
NoClientLeftBehind ==
    <>[](\A l \in Launch : NoMain(l))
        => <>[](\A c \in Launch : client[c] \in {"none", "ended"})

\* A launch whose terminal is the only one from its beginning on is not refused
\* its path, in whatever state earlier launches were killed and even while their
\* servers, clients and shells still run, unless it could not unlink what they
\* have left.  (Two that start together may refuse one.)
RestartsCleanly == \A l \in alone : main[l] # "refused"

================================================================================
