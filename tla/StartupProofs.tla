----------------------------- MODULE StartupProofs -----------------------------
(*****************************************************************************)
(* Theorems about Startup, for any number of launches.                        *)
(*****************************************************************************)
EXTENDS Startup, TLAPS

MainState == {"new", "fork1", "fork2", "setup", "socket", "unlinked", "bound",
              "listening", "loop", "ctf", "json", "made", "refused", "ended"}
ServerState == {"none", "init", "run", "ended"}
ClientState == {"none", "asleep", "send", "recv", "ended"}
ConnState == {"none", "pending", "open", "closed"}

\* The states between the creation of the terminal's socket and the end.
Holding == {"socket", "unlinked", "bound", "listening", "loop", "ctf", "json", "made"}

MainHolds(l) == IF main[l] \in Holding THEN {<<l, "main">>} ELSE {}
ShellHolds(l) == IF l \in shell THEN {<<l, "shell">>} ELSE {}

\* A listening socket belongs to the terminal that made it, from its creation to
\* the terminal's end, and to the shell that it waits for.
HoldersOK == \A l \in Launch : holders[l] = MainHolds(l) \cup ShellHolds(l)

\* So do the connections that the terminal has accepted, since it accepts none
\* while its shell runs.
EndsOK == \A c \in Launch : conn[c] = "open" => ends[c] = holders[peer[c]]

\* A shell runs while the terminal waits for it, or after the terminal's end.
ShellOK == \A l \in shell : main[l] \in {"ctf", "json", "ended"}

ListeningOK ==
    \A l \in Launch : l \in listening <=> main[l] = "listening" \/ InLoop(l) \/ l \in shell

PeersOK ==
    \A c \in Launch : conn[c] \in {"pending", "open"} => peer[c] \in Launch

Inv ==
    /\ TypeOK /\ HoldersOK /\ EndsOK /\ ShellOK /\ ListeningOK /\ PeersOK
    /\ LeadsToTheLiving

LEMMA Types ==
    ASSUME Inv
    PROVE  /\ main \in [Launch -> MainState]
           /\ server \in [Launch -> ServerState]
           /\ client \in [Launch -> ClientState]
           /\ conn \in [Launch -> ConnState]
           /\ shell \subseteq Launch /\ sent \subseteq Launch
           /\ listening \subseteq Launch /\ alone \subseteq Launch
           /\ holders \in [Launch -> SUBSET Process]
           /\ ends \in [Launch -> SUBSET Process]
           /\ peer \in [Launch -> Launch \cup {None}]
           /\ path \in Launch \cup {None}
           /\ attempt \in [Launch -> 0..(max_attempts - 1)]
BY DEF Inv, TypeOK, MainState, ServerState, ClientState, ConnState

\* A socket that listens is held by someone, as TypeOK says of it.
LEMMA ListeningHeld ==
    ASSUME HoldersOK, ListeningOK, NEW l \in Launch, l \in listening
    PROVE  holders[l] # {}
BY DEF HoldersOK, ListeningOK, MainHolds, ShellHolds, Holding, InLoop

LEMMA TypesBack ==
    ASSUME main \in [Launch -> MainState], server \in [Launch -> ServerState],
           client \in [Launch -> ClientState], conn \in [Launch -> ConnState],
           shell \subseteq Launch, sent \subseteq Launch,
           listening \subseteq Launch, alone \subseteq Launch,
           holders \in [Launch -> SUBSET Process], ends \in [Launch -> SUBSET Process],
           peer \in [Launch -> Launch \cup {None}], path \in Launch \cup {None},
           attempt \in [Launch -> 0..(max_attempts - 1)],
           HoldersOK, ListeningOK
    PROVE  TypeOK
BY ListeningHeld DEF TypeOK, MainState, ServerState, ClientState, ConnState

\* Who holds what, for one connection.
LEMMA Kept ==
    ASSUME Inv, NEW c \in Launch, conn[c] \in {"pending", "open"}
    PROVE  /\ peer[c] \in Launch
           /\ holders[peer[c]] = MainHolds(peer[c]) \cup ShellHolds(peer[c])
           /\ holders[peer[c]] # {}
           /\ main[peer[c]] \in Holding =>
                  InLoop(peer[c]) \/ (main[peer[c]] = "listening" /\ conn[c] = "pending")
<1>1. peer[c] \in Launch
  BY DEF Inv, PeersOK
<1>2. holders[peer[c]] = MainHolds(peer[c]) \cup ShellHolds(peer[c])
  BY <1>1 DEF Inv, HoldersOK
<1>3. \/ peer[c] \in shell
      \/ InLoop(peer[c])
      \/ main[peer[c]] = "listening" /\ conn[c] = "pending"
  BY DEF Inv, LeadsToTheLiving
<1>4. peer[c] \in shell => main[peer[c]] \in {"ctf", "json", "ended"}
  BY DEF Inv, ShellOK
<1>5. main[peer[c]] \in Holding =>
          InLoop(peer[c]) \/ (main[peer[c]] = "listening" /\ conn[c] = "pending")
  BY <1>3, <1>4 DEF InLoop, Holding
<1>6. MainHolds(peer[c]) \cup ShellHolds(peer[c]) # {}
  BY <1>3 DEF InLoop, MainHolds, ShellHolds, Holding
<1> QED
  BY <1>1, <1>2, <1>5, <1>6

--------------------------------------------------------------------------------

\* A process of launch l ends: the terminal, its shell, the server or the client.
LEMMA CloseKeeps ==
    ASSUME Inv, NEW l \in Launch, NEW role \in {"main", "server", "client", "shell"},
           Close(<<l, role>>),
           IF role = "main"
           THEN \E x \in {"refused", "ended"} :
                    /\ main' = [main EXCEPT ![l] = x]
                    /\ x = "refused" => main[l] = "unlinked"
           ELSE main' = main,
           shell' = IF role = "shell" THEN shell \ {l} ELSE shell,
           server' \in [Launch -> ServerState],
           client' \in [Launch -> ClientState]
    PROVE  Inv'
<1> DEFINE p == <<l, role>>
<1>1. /\ main \in [Launch -> MainState] /\ conn \in [Launch -> ConnState]
      /\ shell \subseteq Launch /\ listening \subseteq Launch
      /\ holders \in [Launch -> SUBSET Process] /\ ends \in [Launch -> SUBSET Process]
  BY Types
<1>2. /\ holders' = [k \in Launch |-> holders[k] \ {p}]
      /\ ends' = [c \in Launch |-> ends[c] \ {p}]
      /\ listening' = {k \in listening : holders[k] # {p}}
      /\ conn' = [c \in Launch |->
                     IF \/ conn[c] = "open" /\ ends[c] = {p}
                        \/ conn[c] = "pending" /\ holders[peer[c]] = {p}
                     THEN "closed" ELSE conn[c]]
      /\ UNCHANGED <<attempt, peer, sent, path, alone>>
  BY DEF Close
<1>3. \A k \in Launch : /\ k # l => main'[k] = main[k] /\ (k \in shell' <=> k \in shell)
                        /\ role # "main" => main'[k] = main[k]
                        /\ role # "shell" => (k \in shell' <=> k \in shell)
  BY <1>1
<1>4. /\ role = "main" => main'[l] \in {"refused", "ended"}
      /\ role = "shell" => l \notin shell'
      /\ main'[l] = main[l] \/ main'[l] = "ended" \/ l \notin shell
  BY <1>1 DEF Inv, ShellOK
<1>5. ASSUME NEW k \in Launch
      PROVE  MainHolds(k)' = MainHolds(k) \ {p} /\ ShellHolds(k)' = ShellHolds(k) \ {p}
  BY <1>3, <1>4 DEF MainHolds, ShellHolds, Holding
<1>6. HoldersOK'
  BY <1>2, <1>5 DEF Inv, HoldersOK
<1>7. EndsOK'
  <2>1. ASSUME NEW c \in Launch, conn'[c] = "open"
        PROVE  ends'[c] = holders'[peer'[c]]
    <3>1. conn[c] = "open"
      BY <1>2, <2>1
    <3>2. peer[c] \in Launch /\ ends[c] = holders[peer[c]]
      BY <3>1 DEF Inv, PeersOK, EndsOK
    <3> QED
      BY <1>2, <3>2
  <2> QED
    BY <2>1 DEF EndsOK
<1>8. ShellOK'
  <2>1. ASSUME NEW k \in shell'
        PROVE  main'[k] \in {"ctf", "json", "ended"}
    <3>1. k \in shell /\ k \in Launch /\ main[k] \in {"ctf", "json", "ended"}
      BY <1>1 DEF Inv, ShellOK
    <3>2. CASE k = l
      BY <1>4, <3>1, <3>2
    <3>3. CASE k # l
      BY <1>3, <3>1, <3>3
    <3> QED
      BY <3>2, <3>3
  <2> QED
    BY <2>1 DEF ShellOK
\* Whoever is left of those that hold a socket keeps it listening.
<1>9. ASSUME NEW k \in Launch, holders[k] # {p},
             k \in shell \/ main[k] = "listening" \/ InLoop(k)
      PROVE  k \in shell' \/ (main'[k] = main[k] /\ (main[k] = "listening" \/ InLoop(k)))
  <2>1. holders[k] = MainHolds(k) \cup ShellHolds(k)
    BY DEF Inv, HoldersOK
  <2>2. k \in shell => main[k] \in {"ctf", "json", "ended"}
    BY DEF Inv, ShellOK
  <2>3. CASE k # l
    <3>1. main'[k] = main[k] /\ (k \in shell' <=> k \in shell)
      BY <1>3, <2>3
    <3> QED
      BY <1>9, <3>1
  <2>4. CASE k = l /\ role = "main"
    <3>1. k \in shell' <=> k \in shell
      BY <1>3, <2>4
    <3>2. p = <<k, "main">>
      BY <2>4
    <3>3. k \in shell
      BY <1>9, <2>1, <3>2 DEF MainHolds, ShellHolds, Holding, InLoop
    <3> QED
      BY <3>1, <3>3
  <2>5. CASE k = l /\ role = "shell"
    <3>1. main'[k] = main[k]
      BY <1>3, <2>5
    <3>2. p = <<k, "shell">>
      BY <2>5
    <3>3. main[k] \in Holding \/ k \notin shell
      BY <1>9, <2>1, <3>2 DEF MainHolds, ShellHolds
    <3>4. main[k] = "listening" \/ InLoop(k)
      BY <1>9, <2>2, <3>3 DEF Holding, InLoop
    <3> QED
      BY <3>1, <3>4
  <2>6. CASE k = l /\ role \notin {"main", "shell"}
    <3>1. main'[k] = main[k] /\ (k \in shell' <=> k \in shell)
      BY <1>3, <2>6
    <3> QED
      BY <1>9, <3>1
  <2> QED
    BY <2>3, <2>4, <2>5, <2>6
<1>10. ListeningOK'
  <2>1. ASSUME NEW k \in Launch
        PROVE  k \in listening' <=> main'[k] = "listening" \/ InLoop(k)' \/ k \in shell'
    <3>1. k \in listening <=> main[k] = "listening" \/ InLoop(k) \/ k \in shell
      BY DEF Inv, ListeningOK
    <3>2. k \in listening' <=> k \in listening /\ holders[k] # {p}
      BY <1>2
    <3>3. k \in listening' => main'[k] = "listening" \/ InLoop(k)' \/ k \in shell'
      BY <1>9, <3>1, <3>2 DEF InLoop
    <3>4. main'[k] = "listening" \/ InLoop(k)' \/ k \in shell' =>
              main[k] = "listening" \/ InLoop(k) \/ k \in shell
      <4>1. CASE k # l
        BY <1>3, <4>1 DEF InLoop
      <4>2. CASE k = l
        BY <1>3, <1>4, <4>2 DEF InLoop
      <4> QED
        BY <4>1, <4>2
    <3>5. main'[k] = "listening" \/ InLoop(k)' \/ k \in shell' => holders'[k] # {}
      BY <1>6 DEF HoldersOK, MainHolds, ShellHolds, Holding, InLoop
    <3>6. holders'[k] # {} => holders[k] # {p}
      BY <1>2
    <3> QED
      BY <3>1, <3>2, <3>3, <3>4, <3>5, <3>6
  <2> QED
    BY <2>1 DEF ListeningOK
<1>11. PeersOK'
  BY <1>1, <1>2 DEF Inv, PeersOK
<1>12. LeadsToTheLiving'
  <2>1. ASSUME NEW c \in Launch, conn'[c] \in {"pending", "open"}
        PROVE  \/ peer'[c] \in shell' \/ InLoop(peer[c])'
               \/ main'[peer'[c]] = "listening" /\ conn'[c] = "pending"
    <3>1. /\ conn[c] = conn'[c] /\ peer'[c] = peer[c]
          /\ conn[c] = "open" => ends[c] # {p}
          /\ conn[c] = "pending" => holders[peer[c]] # {p}
      BY <1>1, <1>2, <2>1
    <3>2. peer[c] \in Launch /\ holders[peer[c]] # {p}
      BY <2>1, <3>1 DEF Inv, EndsOK, PeersOK
    <3>3. \/ peer[c] \in shell \/ InLoop(peer[c])
          \/ main[peer[c]] = "listening" /\ conn[c] = "pending"
      BY <2>1, <3>1 DEF Inv, LeadsToTheLiving
    <3>4. peer[c] \in shell => main[peer[c]] # "listening"
      BY DEF Inv, ShellOK
    <3> QED
      BY <1>9, <3>1, <3>2, <3>3, <3>4 DEF InLoop
  <2> QED
    BY <2>1 DEF LeadsToTheLiving
<1>13. TypeOK'
  <2>1. /\ main' \in [Launch -> MainState] /\ conn' \in [Launch -> ConnState]
        /\ shell' \subseteq Launch /\ listening' \subseteq Launch
        /\ holders' \in [Launch -> SUBSET Process] /\ ends' \in [Launch -> SUBSET Process]
    BY <1>1, <1>2 DEF MainState, ConnState
  <2>2. /\ sent' \subseteq Launch /\ alone' \subseteq Launch
        /\ peer' \in [Launch -> Launch \cup {None}] /\ path' \in Launch \cup {None}
        /\ attempt' \in [Launch -> 0..(max_attempts - 1)]
    BY <1>2, Types
  <2>3. \A k \in Launch : k \in listening' => holders'[k] # {}
    BY <1>6, <1>10 DEF HoldersOK, ListeningOK, MainHolds, ShellHolds, Holding, InLoop
  <2> QED
    BY <2>1, <2>2, <2>3
    DEF TypeOK, MainState, ServerState, ClientState, ConnState
<1> QED
  BY <1>6, <1>7, <1>8, <1>10, <1>11, <1>12, <1>13 DEF Inv

\* The first process of launch l moves on, with the socket it may hold, while no
\* shell of its own runs; it may start one once it is in its loop.
LEMMA MainKeeps ==
    ASSUME Inv, NEW l \in Launch, NEW from, NEW to, Enter(l, from, to),
           from \in MainState, l \notin shell,
           to \in {"fork1", "fork2", "setup"} \cup Holding,
           InLoop(l) => to \in {"loop", "ctf", "json", "made"},
           from = "listening" => to = "loop",
           shell' \subseteq Launch,
           \A k \in Launch : k # l => (k \in shell' <=> k \in shell),
           l \in shell' => to \in {"ctf", "json"},
           holders' \in [Launch -> SUBSET Process],
           ends' \in [Launch -> SUBSET Process],
           \A k \in Launch : k # l => holders'[k] = holders[k],
           holders'[l] = MainHolds(l)' \cup ShellHolds(l)',
           \A c \in Launch : conn[c] = "open" =>
               ends'[c] = IF peer[c] = l THEN holders'[l] ELSE ends[c],
           listening' = IF to \in {"listening", "loop", "ctf", "json", "made"}
                        THEN listening \cup {l} ELSE listening,
           server' \in [Launch -> ServerState],
           client' \in [Launch -> ClientState],
           UNCHANGED <<attempt, conn, peer, sent>>,
           path' \in Launch \cup {None},
           alone' \subseteq Launch
    PROVE  Inv'
<1>1. /\ main \in [Launch -> MainState] /\ conn \in [Launch -> ConnState]
      /\ main[l] = from /\ main' = [main EXCEPT ![l] = to]
      /\ listening \subseteq Launch
  BY Types DEF Enter
<1>2. main'[l] = to /\ \A k \in Launch : k # l => main'[k] = main[k]
  BY <1>1
<1>3. HoldersOK'
  <2>1. ASSUME NEW k \in Launch, k # l
        PROVE  holders'[k] = MainHolds(k)' \cup ShellHolds(k)'
    BY <1>2, <2>1 DEF Inv, HoldersOK, MainHolds, ShellHolds
  <2> QED
    BY <2>1 DEF HoldersOK
<1>4. EndsOK'
  <2>1. \A c \in Launch : conn[c] = "open" => peer[c] \in Launch
    BY DEF Inv, PeersOK
  <2> QED
    BY <2>1 DEF Inv, EndsOK
<1>5. ShellOK'
  BY <1>2 DEF Inv, ShellOK
<1>6. ListeningOK'
  <2>1. ASSUME NEW k \in Launch
        PROVE  k \in listening' <=> main'[k] = "listening" \/ InLoop(k)' \/ k \in shell'
    <3>1. k \in listening <=> main[k] = "listening" \/ InLoop(k) \/ k \in shell
      BY DEF Inv, ListeningOK
    <3>2. CASE k # l
      BY <1>2, <3>1, <3>2 DEF InLoop
    <3>3. CASE k = l
      BY <1>1, <1>2, <3>1, <3>3 DEF InLoop
    <3> QED
      BY <3>2, <3>3
  <2> QED
    BY <2>1 DEF ListeningOK
<1>7. PeersOK'
  BY DEF Inv, PeersOK
<1>8. LeadsToTheLiving'
  <2>1. ASSUME NEW k \in Launch
        PROVE  /\ k \in shell => k \in shell'
               /\ InLoop(k) => InLoop(k)'
               /\ main[k] = "listening" => main'[k] = "listening" \/ InLoop(k)'
    <3>1. CASE k # l
      BY <1>2, <3>1 DEF InLoop
    <3>2. CASE k = l
      BY <1>1, <1>2, <3>2 DEF InLoop
    <3> QED
      BY <3>1, <3>2
  <2> QED
    BY <2>1 DEF Inv, PeersOK, LeadsToTheLiving
<1>9. TypeOK'
  <2>1. main' \in [Launch -> MainState]
    BY <1>1 DEF MainState, Holding
  <2>2. \A k \in Launch : k \in listening' => holders'[k] # {}
    BY <1>3, <1>6 DEF HoldersOK, ListeningOK, MainHolds, ShellHolds, Holding, InLoop
  <2>3. listening' \subseteq Launch
    BY <1>1
  <2> QED
    BY <2>1, <2>2, <2>3, Types
    DEF TypeOK, MainState, ServerState, ClientState, ConnState
<1> QED
  BY <1>3, <1>4, <1>5, <1>6, <1>7, <1>8, <1>9 DEF Inv

\* What a process forked by the first one inherits: its own terminal's sockets.
LEMMA Inherited ==
    ASSUME Inv, NEW l \in Launch, NEW child, Inherits(l, child)
    PROVE  /\ \A k \in Launch : k # l => holders'[k] = holders[k]
           /\ holders'[l] = IF main[l] \in Holding THEN holders[l] \cup {<<l, child>>}
                                                   ELSE holders[l]
           /\ \A c \in Launch : conn[c] = "open" =>
                  ends'[c] = IF peer[c] = l /\ main[l] \in Holding
                             THEN holders[l] \cup {<<l, child>>} ELSE ends[c]
           /\ DOMAIN holders' = Launch /\ DOMAIN ends' = Launch
           /\ <<l, child>> \in Process => /\ holders' \in [Launch -> SUBSET Process]
                                          /\ ends' \in [Launch -> SUBSET Process]
<1>1. /\ holders \in [Launch -> SUBSET Process] /\ ends \in [Launch -> SUBSET Process]
  BY Types
<1>2. /\ holders' = [k \in Launch |-> IF <<l, "main">> \in holders[k]
                                     THEN holders[k] \cup {<<l, child>>} ELSE holders[k]]
      /\ ends' = [k \in Launch |-> IF <<l, "main">> \in ends[k]
                                  THEN ends[k] \cup {<<l, child>>} ELSE ends[k]]
  BY DEF Inherits
<1>3. ASSUME NEW k \in Launch
      PROVE  <<l, "main">> \in holders[k] <=> k = l /\ main[l] \in Holding
  BY DEF Inv, HoldersOK, MainHolds, ShellHolds
<1>4. ASSUME NEW c \in Launch, conn[c] = "open"
      PROVE  /\ <<l, "main">> \in ends[c] <=> peer[c] = l /\ main[l] \in Holding
             /\ ends[c] = holders[peer[c]]
  <2>1. peer[c] \in Launch /\ ends[c] = holders[peer[c]]
    BY <1>4 DEF Inv, EndsOK, PeersOK
  <2> QED
    BY <1>3, <2>1
<1> QED
  BY <1>1, <1>2, <1>3, <1>4

\* The state of the connections of a launch whose terminal is not in its loop.
LEMMA NobodyYet ==
    ASSUME Inv, NEW l \in Launch, main[l] \notin {"loop", "ctf", "json", "made", "ended"}
    PROVE  l \notin shell /\ \A c \in Launch : ~(conn[c] = "open" /\ peer[c] = l)
BY DEF Inv, ShellOK, LeadsToTheLiving, InLoop

\* The steps in which nobody is forked and nothing is taken or given back.
LEMMA QuietKeeps ==
    ASSUME Inv, NEW l \in Launch, NEW from, NEW to, Enter(l, from, to),
           from \in MainState, l \notin shell,
           to \in {"fork1", "fork2", "setup"} \cup Holding,
           InLoop(l) => to \in {"loop", "ctf", "json", "made"},
           from = "listening" => to = "loop",
           to \in Holding <=> from \in Holding,
           listening' = IF to \in {"listening", "loop", "ctf", "json", "made"}
                        THEN listening \cup {l} ELSE listening,
           server' \in [Launch -> ServerState], client' \in [Launch -> ClientState],
           UNCHANGED <<shell, attempt, conn, peer, sent, holders, ends>>,
           path' \in Launch \cup {None}, alone' \subseteq Launch
    PROVE  Inv'
<1>1. main[l] = from /\ main'[l] = to
  BY Types DEF Enter
<1>2. holders'[l] = MainHolds(l)' \cup ShellHolds(l)'
  BY <1>1 DEF Inv, HoldersOK, MainHolds, ShellHolds
<1>3. \A c \in Launch : conn[c] = "open" =>
          ends'[c] = IF peer[c] = l THEN holders'[l] ELSE ends[c]
  BY DEF Inv, EndsOK
<1> QED
  BY <1>1, <1>2, <1>3, MainKeeps, Types
\* A child that is not the shell is forked before there is anything to inherit.
LEMMA ForkKeeps ==
    ASSUME Inv, NEW l \in Launch, Fork1(l) \/ Fork2(l)
    PROVE  Inv'
<1>1. PICK from \in {"fork1", "fork2"}, to \in {"fork2", "setup"}, child \in {"client", "server"} :
          Enter(l, from, to) /\ Inherits(l, child)
  BY DEF Fork1, Fork2
<1>2. main[l] = from /\ main[l] \notin Holding
  BY <1>1 DEF Enter, Holding
<1>3. l \notin shell /\ ~InLoop(l) /\ holders[l] = {}
  BY <1>2, NobodyYet DEF InLoop, Inv, HoldersOK, MainHolds, ShellHolds, Holding
<1>4. <<l, child>> \in Process
  BY <1>1 DEF Process
<1>5. /\ \A k \in Launch : k # l => holders'[k] = holders[k]
      /\ holders'[l] = {}
      /\ holders' \in [Launch -> SUBSET Process] /\ ends' \in [Launch -> SUBSET Process]
      /\ \A c \in Launch : conn[c] = "open" => ends'[c] = ends[c] /\ peer[c] # l
  BY <1>1, <1>2, <1>3, <1>4, Inherited, NobodyYet
<1>6. /\ server' \in [Launch -> ServerState] /\ client' \in [Launch -> ClientState]
      /\ UNCHANGED <<shell, attempt, conn, peer, sent, listening, path, alone>>
  BY Types DEF Fork1, Fork2, ServerState, ClientState, clientVars
<1>7. main'[l] = to /\ from \in MainState
  BY <1>1, Types DEF Enter, MainState
<1>8. holders'[l] = MainHolds(l)' \cup ShellHolds(l)'
  BY <1>1, <1>3, <1>5, <1>6, <1>7 DEF MainHolds, ShellHolds, Holding
<1> QED
  BY <1>1, <1>3, <1>5, <1>6, <1>7, <1>8, MainKeeps, Types

LEMMA SetupKeeps ==
    ASSUME Inv, NEW l \in Launch,
           \/ Begin(l) \/ Unlink(l) \/ UnlinkFails(l) \/ Bind(l) \/ Listen(l) \/ Watch(l)
           \/ JsonMade(l)
    PROVE  Inv'
<1> USE DEF MainState, Holding, InLoop
<1>1. PICK from \in MainState, to \in {"fork1"} \cup Holding :
          /\ Enter(l, from, to)
          /\ InLoop(l) => to \in {"loop", "ctf", "json", "made"}
          /\ from = "listening" => to = "loop"
          /\ to \in Holding <=> from \in Holding
          /\ from \notin {"loop", "ctf", "json", "made", "ended"} \/ l \notin shell
          /\ listening' = IF to \in {"listening", "loop", "ctf", "json", "made"}
                          THEN listening \cup {l} ELSE listening
  <2>1. CASE Begin(l)
    BY <2>1 DEF Begin, Enter, socketVars
  <2>2. CASE Unlink(l) \/ UnlinkFails(l)
    BY <2>2 DEF Unlink, UnlinkFails, Enter, socketVars
  <2>3. CASE Bind(l) \/ Listen(l)
    BY <2>3 DEF Bind, Listen, Enter
  <2>4. CASE Watch(l) \/ JsonMade(l)
    <3>1. listening = listening \cup {l}
      BY <2>4 DEF Watch, JsonMade, Enter, Inv, ListeningOK
    <3> QED
      BY <2>4, <3>1 DEF Watch, JsonMade, Enter, socketVars
  <2> QED
    BY <2>1, <2>2, <2>3, <2>4
<1>2. /\ UNCHANGED <<server, shell, client, attempt, conn, peer, sent, holders, ends>>
      /\ path' \in Launch \cup {None} /\ alone' \subseteq Launch
  BY Types DEF Begin, Unlink, UnlinkFails, Bind, Listen, Watch, JsonMade, clientVars, socketVars
<1>3. l \notin shell
  BY <1>1, NobodyYet DEF Enter
<1> QED
  BY <1>1, <1>2, <1>3, QuietKeeps, Types

LEMMA SocketKeeps ==
    ASSUME Inv, NEW l \in Launch, Socket(l)
    PROVE  Inv'
<1>1. /\ Enter(l, "setup", "socket") /\ holders' = [holders EXCEPT ![l] = {<<l, "main">>}]
      /\ UNCHANGED <<server, shell, client, attempt, conn, peer, sent, ends, listening, path,
                     alone>>
  BY DEF Socket, clientVars
<1>2. main[l] = "setup" /\ main'[l] = "socket"
  BY <1>1, Types DEF Enter
<1>3. l \notin shell /\ \A c \in Launch : ~(conn[c] = "open" /\ peer[c] = l)
  BY <1>2, NobodyYet
<1>4. holders' \in [Launch -> SUBSET Process]
  BY <1>1, Types DEF Process
<1>5. holders'[l] = MainHolds(l)' \cup ShellHolds(l)'
  BY <1>1, <1>2, <1>3, Types DEF MainHolds, ShellHolds, Holding
<1>6. ~InLoop(l) /\ "setup" \in MainState /\ "socket" \in Holding
  BY <1>2 DEF InLoop, MainState, Holding
<1> QED
  BY <1>1, <1>3, <1>4, <1>5, <1>6, MainKeeps, Types

\* The terminal waits for its shell, which holds what it holds, or goes on
\* without one.
LEMMA SystemKeeps ==
    ASSUME Inv, NEW l \in Launch, HandleInstruction(l) \/ CtfMade(l)
    PROVE  Inv'
<1>1. PICK from \in {"loop", "ctf"}, to \in {"ctf", "json"} :
          Enter(l, from, to) /\ System(l) /\ (from = "loop" \/ l \notin shell)
  BY DEF HandleInstruction, CtfMade
<1>2. main[l] = from /\ main'[l] = to
  BY <1>1, Types DEF Enter
<1>3. l \notin shell
  BY <1>1, <1>2 DEF Inv, ShellOK
<1>4. /\ UNCHANGED <<server, client, attempt, conn, peer, sent, listening, path, alone>>
      /\ \/ shell' = shell \cup {l} /\ Inherits(l, "shell")
         \/ UNCHANGED <<shell, holders, ends>>
  BY <1>1 DEF System, clientVars
<1>5. /\ InLoop(l) /\ from \in Holding /\ to \in Holding /\ from \in MainState
      /\ to \in {"loop", "ctf", "json", "made"} /\ from # "listening"
      /\ listening = listening \cup {l}
  BY <1>1, <1>2 DEF InLoop, Holding, MainState, Inv, ListeningOK
<1>6. holders[l] = {<<l, "main">>}
  BY <1>2, <1>3, <1>5 DEF Inv, HoldersOK, MainHolds, ShellHolds
<1>7. CASE UNCHANGED <<shell, holders, ends>>
  <2>1. from \in Holding <=> to \in Holding
    BY <1>5
  <2> QED
    BY <1>1, <1>3, <1>4, <1>5, <1>7, <2>1, QuietKeeps, Types
<1>8. CASE shell' = shell \cup {l} /\ Inherits(l, "shell")
  <2>1. <<l, "shell">> \in Process
    BY DEF Process
  <2>2. /\ \A k \in Launch : k # l => holders'[k] = holders[k]
        /\ holders'[l] = {<<l, "main">>} \cup {<<l, "shell">>}
        /\ holders' \in [Launch -> SUBSET Process] /\ ends' \in [Launch -> SUBSET Process]
        /\ \A c \in Launch : conn[c] = "open" =>
               ends'[c] = IF peer[c] = l THEN holders'[l] ELSE ends[c]
    <3>1. main[l] \in Holding
      BY <1>2, <1>5
    <3> QED
      BY <1>6, <1>8, <2>1, <3>1, Inherited
  <2>3. holders'[l] = MainHolds(l)' \cup ShellHolds(l)'
    BY <1>2, <1>5, <1>8, <2>2 DEF MainHolds, ShellHolds
  <2>4. /\ shell' \subseteq Launch /\ (l \in shell' => to \in {"ctf", "json"})
        /\ \A k \in Launch : k # l => (k \in shell' <=> k \in shell)
    BY <1>1, <1>8, Types
  <2> QED
    BY <1>1, <1>3, <1>4, <1>5, <2>2, <2>3, <2>4, MainKeeps, Types
<1> QED
  BY <1>4, <1>7, <1>8

LEMMA AcceptKeeps ==
    ASSUME Inv, NEW l \in Launch, Accept(l)
    PROVE  Inv'
<1>1. PICK c \in Launch :
          /\ conn[c] = "pending" /\ peer[c] = l
          /\ \/ /\ conn' = [conn EXCEPT ![c] = "open"]
                /\ ends' = [ends EXCEPT ![c] = {<<l, "main">>}]
             \/ /\ conn' = [conn EXCEPT ![c] = "closed"]
                /\ UNCHANGED ends
  BY DEF Accept
<1>2. /\ main[l] \in {"loop", "made"}
      /\ UNCHANGED <<main, server, shell, client, attempt, peer, sent, holders, listening, path,
                     alone>>
  BY DEF Accept
<1>3. holders[l] = {<<l, "main">>} /\ InLoop(l)
  BY <1>2 DEF Inv, ShellOK, HoldersOK, MainHolds, ShellHolds, Holding, InLoop
<1>4. <<l, "main">> \in Process
  BY DEF Process
<1>5. TypeOK'
  BY <1>1, <1>2, <1>4 DEF Inv, TypeOK
<1>6. EndsOK'
  BY <1>1, <1>2, <1>3, Types DEF Inv, EndsOK
<1>7. PeersOK' /\ LeadsToTheLiving'
  BY <1>1, <1>2, <1>3, Types DEF Inv, PeersOK, LeadsToTheLiving, InLoop
<1>8. HoldersOK' /\ ShellOK' /\ ListeningOK'
  BY <1>2 DEF Inv, HoldersOK, ShellOK, ListeningOK, MainHolds, ShellHolds, InLoop
<1> QED
  BY <1>5, <1>6, <1>7, <1>8 DEF Inv

LEMMA EndsKeep ==
    ASSUME Inv, NEW l \in Launch,
           \/ ForkFails(l) \/ SetupFails(l) \/ BindRefused(l) \/ FileFails(l)
           \/ InitializeFails(l) \/ ShellEnds(l) \/ Signal(l)
           \/ \E from \in {"asleep", "send", "recv"} : ClientExits(l, from)
    PROVE  Inv'
<1>0. server \in [Launch -> ServerState] /\ client \in [Launch -> ClientState]
  BY Types
<1>1. CASE ForkFails(l) \/ SetupFails(l) \/ BindRefused(l) \/ FileFails(l)
  BY <1>0, <1>1, CloseKeeps DEF ForkFails, SetupFails, BindRefused, FileFails, Enter
<1>2. CASE InitializeFails(l)
  BY <1>0, <1>2, CloseKeeps DEF InitializeFails, ServerState
<1>3. CASE Signal(l)
  BY <1>0, <1>3, CloseKeeps DEF Signal, ServerState, ClientState
<1>4. CASE ShellEnds(l)
  BY <1>0, <1>4, CloseKeeps DEF ShellEnds
<1>5. ASSUME NEW from \in {"asleep", "send", "recv"}, ClientExits(l, from)
      PROVE  Inv'
  BY <1>0, <1>5, CloseKeeps DEF ClientExits, ClientMoves, ClientState
<1> QED
  BY <1>1, <1>2, <1>3, <1>4, <1>5

\* Steps that touch neither a socket nor the process that holds it.
LEMMA OthersKeep ==
    ASSUME Inv, UNCHANGED <<main, shell, conn, peer, holders, ends, listening, path, alone>>,
           server' \in [Launch -> ServerState], client' \in [Launch -> ClientState],
           sent' \subseteq Launch, attempt' \in [Launch -> 0..(max_attempts - 1)]
    PROVE  Inv'
<1>1. HoldersOK' /\ EndsOK' /\ ShellOK' /\ ListeningOK' /\ PeersOK' /\ LeadsToTheLiving'
  BY DEF Inv, HoldersOK, EndsOK, ShellOK, ListeningOK, PeersOK, LeadsToTheLiving,
         MainHolds, ShellHolds, InLoop
<1>2. TypeOK'
  BY DEF Inv, TypeOK, ServerState, ClientState
<1> QED
  BY <1>1, <1>2 DEF Inv

LEMMA ClientKeeps ==
    ASSUME Inv, NEW c \in Launch, ClientProgress(c) \/ SocketFails(c) \/ Initialize(c)
    PROVE  Inv'
<1>0. server \in [Launch -> ServerState] /\ client \in [Launch -> ClientState]
  BY Types
<1>1. CASE Connect(c)
  <2>1. /\ path \in Launch /\ path \in listening
        /\ client[c] = "asleep" /\ client' = [client EXCEPT ![c] = "send"]
        /\ conn' = [conn EXCEPT ![c] = "pending"] /\ peer' = [peer EXCEPT ![c] = path]
        /\ UNCHANGED <<main, server, shell, attempt, sent, holders, ends, listening, path, alone>>
    BY <1>1, Types DEF Connect, Refused, ClientMoves, socketVars
  <2>2. path \in shell \/ main[path] = "listening" \/ InLoop(path)
    BY <2>1 DEF Inv, ListeningOK
  <2>3. EndsOK'
    BY <2>1, Types DEF Inv, EndsOK
  <2>4. PeersOK' /\ LeadsToTheLiving'
    BY <2>1, <2>2, Types DEF Inv, PeersOK, LeadsToTheLiving, InLoop
  <2>5. TypeOK'
    BY <1>0, <2>1 DEF Inv, TypeOK, ClientState
  <2>6. HoldersOK' /\ ShellOK' /\ ListeningOK'
    BY <2>1 DEF Inv, HoldersOK, ShellOK, ListeningOK, MainHolds, ShellHolds, InLoop
  <2> QED
    BY <2>3, <2>4, <2>5, <2>6 DEF Inv
<1>2. CASE ConnectFails(c)
  <2>1. attempt[c] \in 0..(max_attempts - 1) /\ max_attempts \in Nat /\ max_attempts > 0
    BY StartupAssumption, Types
  <2>2. attempt[c] + 1 \in 0..(max_attempts - 1)
    BY <1>2, <2>1 DEF ConnectFails
  <2> QED
    BY <1>0, <1>2, <2>2, OthersKeep, Types
    DEF ConnectFails, ClientMoves, ClientState, socketVars
<1>3. CASE Send(c)
  BY <1>0, <1>3, OthersKeep, Types DEF Send, ClientMoves, ClientState, socketVars
<1>4. CASE ClientGivesUp(c) \/ SocketFails(c) \/ ConnectionEnds(c)
  BY <1>4, EndsKeep DEF ClientGivesUp, SocketFails, ConnectionEnds
<1>5. CASE Initialize(c)
  BY <1>0, <1>5, OthersKeep, Types DEF Initialize, ServerState, clientVars, socketVars
<1> QED
  BY <1>1, <1>2, <1>3, <1>4, <1>5 DEF ClientProgress

--------------------------------------------------------------------------------

LEMMA InitInv == Init => Inv
BY StartupAssumption
DEF Init, Inv, TypeOK, ClientState, HoldersOK, EndsOK, ShellOK, ListeningOK, PeersOK,
    LeadsToTheLiving, InLoop, Holding, MainHolds, ShellHolds

LEMMA NextInv == Inv /\ [Next]_vars => Inv'
<1> SUFFICES ASSUME Inv, [Next]_vars PROVE Inv'
  OBVIOUS
<1>1. CASE UNCHANGED vars
  BY <1>1, OthersKeep, Types DEF vars, clientVars, socketVars, Inv
<1> QED
  BY <1>1, SetupKeeps, ForkKeeps, SocketKeeps, SystemKeeps, AcceptKeeps, EndsKeep, ClientKeeps
  DEF Next, MainProgress, LoopProgress

LEMMA SpecInv == Spec => []Inv
BY InitInv, NextInv, PTL DEF Spec

\* While a launch that began alone is the last one, it alone touches the path:
\* between its unlink and its bind nobody else can bind it.
AloneOK ==
    \A l \in alone :
        /\ \A k \in Launch : k # l => NoMain(k)
        /\ main[l] = "unlinked" => path = None
        /\ main[l] # "refused"

\* The first process of a launch does nothing, or a step that ends it, or one of
\* the others; only Begin, Unlink, UnlinkFails and Bind touch what AloneOK speaks of.
LEMMA StepKinds ==
    ASSUME Inv, [Next]_vars
    PROVE  \/ UNCHANGED <<main, path, alone>>
           \/ \E k \in Launch : Begin(k)
           \/ \E k \in Launch : Unlink(k) \/ UnlinkFails(k) \/ Bind(k)
           \/ \E k \in Launch : /\ ~NoMain(k)
                                /\ \E x \in MainState \ {"unlinked", "refused"} :
                                       main' = [main EXCEPT ![k] = x]
                                /\ UNCHANGED <<path, alone>>
           \/ \E k \in Launch : BindRefused(k)
<1>1. CASE UNCHANGED vars
  BY <1>1 DEF vars, socketVars
<1>2. ASSUME NEW k \in Launch,
             \/ Fork1(k) \/ Fork2(k) \/ Socket(k) \/ Listen(k) \/ Watch(k)
             \/ HandleInstruction(k) \/ CtfMade(k) \/ JsonMade(k)
             \/ ForkFails(k) \/ SetupFails(k) \/ FileFails(k)
      PROVE  /\ ~NoMain(k)
             /\ \E x \in MainState \ {"unlinked", "refused"} : main' = [main EXCEPT ![k] = x]
             /\ UNCHANGED <<path, alone>>
  BY <1>2 DEF Fork1, Fork2, Socket, Listen, Watch, HandleInstruction, CtfMade, JsonMade, System,
              ForkFails, SetupFails, FileFails, Enter, Close, socketVars, NoMain, MainState
<1>3. ASSUME NEW k \in Launch, Signal(k)
      PROVE  \/ UNCHANGED <<main, path, alone>>
             \/ /\ ~NoMain(k)
                /\ \E x \in MainState \ {"unlinked", "refused"} : main' = [main EXCEPT ![k] = x]
                /\ UNCHANGED <<path, alone>>
  BY <1>3 DEF Signal, Close, MainState
<1>4. ASSUME NEW k \in Launch,
             \/ Accept(k) \/ ShellEnds(k) \/ Initialize(k) \/ InitializeFails(k)
             \/ ClientProgress(k) \/ SocketFails(k)
      PROVE  UNCHANGED <<main, path, alone>>
  BY <1>4 DEF Accept, ShellEnds, Initialize, InitializeFails, ClientProgress, SocketFails, Connect,
              ConnectFails, ClientGivesUp, Send, ConnectionEnds, ClientExits, ClientMoves,
              Close, clientVars, socketVars
<1> QED
  BY <1>1, <1>2, <1>3, <1>4 DEF Next, MainProgress, LoopProgress

LEMMA NextAlone == Inv /\ AloneOK /\ [Next]_vars => AloneOK'
<1> SUFFICES ASSUME Inv, AloneOK, [Next]_vars PROVE AloneOK'
  OBVIOUS
<1>0. main \in [Launch -> MainState] /\ alone \subseteq Launch /\ None \notin Launch
  BY StartupAssumption, Types
<1>1. CASE UNCHANGED <<main, path, alone>>
  BY <1>1 DEF AloneOK, NoMain
<1>2. ASSUME NEW k \in Launch, Begin(k)
      PROVE  AloneOK'
  BY <1>0, <1>2 DEF Begin, Enter, AloneOK, NoMain
<1>3. ASSUME NEW k \in Launch, Unlink(k) \/ UnlinkFails(k) \/ Bind(k)
      PROVE  AloneOK'
  BY <1>0, <1>3 DEF Unlink, UnlinkFails, Bind, Enter, AloneOK, NoMain
<1>4. ASSUME NEW k \in Launch, ~NoMain(k), UNCHANGED <<path, alone>>,
             NEW x \in MainState \ {"unlinked", "refused"}, main' = [main EXCEPT ![k] = x]
      PROVE  AloneOK'
  BY <1>0, <1>4 DEF AloneOK, NoMain
<1>5. ASSUME NEW k \in Launch, BindRefused(k)
      PROVE  AloneOK'
  BY <1>0, <1>5 DEF BindRefused, Enter, Close, AloneOK, NoMain
<1> QED
  BY <1>1, <1>2, <1>3, <1>4, <1>5, StepKinds

--------------------------------------------------------------------------------
(* The theorems *)

\* With any number of launches every process stays on its way through main.cpp,
\* a client counts its attempts up to max_attempts, and only sockets that some
\* process still holds listen.
THEOREM StartupTypeCorrect == Spec => []TypeOK
<1>1. Inv => TypeOK
  BY DEF Inv
<1> QED
  BY SpecInv, <1>1, PTL

\* A client whose connection has not been reset is connected to a terminal that
\* lives or to the shell that a killed terminal was waiting for, whichever launch
\* it belongs to: main's two forks copy no socket, and the terminal's own forks
\* copy all of them to a shell and to nobody else.
THEOREM ClientsWaitForTheLiving == Spec => []LeadsToTheLiving
<1>1. Inv => LeadsToTheLiving
  BY DEF Inv
<1> QED
  BY SpecInv, <1>1, PTL

\* A launch that finds no terminal running, can unlink the path and is not joined
\* by another, gets its path, however many launches were killed before it and at
\* what point.
THEOREM RestartAfterKill == Spec => []RestartsCleanly
<1>1. Init => AloneOK
  BY DEF Init, AloneOK
<1>2. AloneOK => RestartsCleanly
  BY DEF AloneOK, RestartsCleanly
<1> QED
  BY <1>1, <1>2, NextAlone, SpecInv, PTL DEF Spec

================================================================================
