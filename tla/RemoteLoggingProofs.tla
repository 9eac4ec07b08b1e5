-------------------------- MODULE RemoteLoggingProofs --------------------------
(*****************************************************************************)
(* Theorems about RemoteLogging, for any number of loggers, instructions,     *)
(* hosts, buffer sizes and failures.                                          *)
(*****************************************************************************)
EXTENDS RemoteLogging, MainLoggerProofs

Busy == {"exec", "request", "done", "threw"}

\* The n-th instruction of logger l is called <<l, n, 0>>, and a logger at work
\* is at work on the last one it has taken.
IdsOK ==
    /\ \A l \in Logger : \A n \in 1..Len(submitted[l]) : submitted[l][n].id = <<l, n, 0>>
    /\ \A l \in Logger : (pc[l] \in Busy \/ l \in awaiting) =>
                            taken[l] > 0 /\ cur[l].id = <<l, taken[l], 0>>
    /\ \A l \in awaiting : pc[l] \in {"request", "exited"}

\* Requests bear the name of their logger; only those from other hosts are
\* duplicated, and a copy does not pass for what was sent.
CopiesOK ==
    /\ \A m \in net \cup inbox : m.id[1] = m.from
    /\ Handling => cur[Server].id \in RequestId
    /\ \A id \in copies : id[3] > 0 /\ HostOf[id[1]] # HostOf[Server]

\* A process in Request has a format, and the server at work has a client to
\* answer and an instruction that it does not send on.
RolesOK ==
    /\ \A p \in Process : pc[p] = "request" => Format(p) \in FileFormat
    /\ Handling => /\ client \in Logger
                   /\ cur[Server].TMode = Local
                   /\ Format(Server) \in FileFormat
    /\ pc[Server] # "request"

\* Not sent yet, or a copy that the network may still make.
Fresh(l, n, c) ==
    \/ n > taken[l]
    \/ n = taken[l] /\ pc[l] \in {"exec", "request"} /\ l \notin awaiting
    \/ \E m \in net : \E b \in Nat : b < c /\ m.id = <<l, n, b>>

FreshOK ==
    \A l \in Logger, n \in Nat, c \in Nat :
        Fresh(l, n, c) => ~Underway(<<l, n, c>>) /\ <<l, n, c>> \notin copies

\* What the server has done with, and said so, is accounted for.
DoneOK ==
    /\ pc[Server] = "done" => AccountedFor(cur[Server].id)
    /\ \A m \in replies : AccountedFor(m.id)

Inv ==
    /\ TypeOK
    /\ FileNumbering
    /\ IdsOK
    /\ RolesOK
    /\ CopiesOK
    /\ FreshOK
    /\ OneCopy
    /\ BlockedIsExplained
    /\ DoneOK
    /\ AckedIsAccountedFor

InvA == IdsOK /\ RolesOK /\ CopiesOK /\ FreshOK /\ OneCopy /\ BlockedIsExplained

\* What an id of a request is made of.
LEMMA RequestIdParts ==
    ASSUME NEW id \in RequestId
    PROVE  /\ id[1] \in Logger /\ id[2] \in 1..MaxSubmit[id[1]] /\ id[2] \in Nat
           /\ id[3] \in 0..MaxCopies /\ id[3] \in Nat
           /\ id = <<id[1], id[2], id[3]>>
BY RemoteAssumption DEF RequestId

LEMMA RequestIdMade ==
    ASSUME NEW l \in Logger, NEW n \in 1..MaxSubmit[l], NEW c \in 0..MaxCopies
    PROVE  <<l, n, c>> \in RequestId
BY DEF RequestId

--------------------------------------------------------------------------------
(* Steps inside HandleInstruction that no message travels by. *)

\* Process p moves on to point x of HandleInstruction, and nothing else changes
\* that identifies requests or says where they are.
LEMMA InnerStep ==
    ASSUME Inv, NEW p \in Process, NEW x \in PC, GoTo(p, x),
           x \in Busy => pc[p] \in {"exec", "request"},
           x \in {"exec", "request"} => pc[p] = "exec",
           x = "request" => Format(p) \in FileFormat /\ p # Server,
           p \in awaiting => x = "exited",
           p = Server => x \in Busy,
           UNCHANGED <<cur, submitted, taken, awaiting, netVars, client, lost, copies>>
    PROVE  InvA'
<1>1. pc \in [Process -> PC] /\ cur \in [Process -> Instruction]
  BY DEF Inv, TypeOK, LoggerTypeOK, PC
<1>2. /\ Server \in Process
      /\ Logger = Process \ {Server}
      /\ awaiting \subseteq Logger
  BY RemoteAssumption DEF Inv, TypeOK, Logger
<1>3. pc' = [pc EXCEPT ![p] = x]
  BY DEF GoTo
<1>4. Handling' <=> Handling
  BY <1>1, <1>2, <1>3 DEF Handling, Busy
<1>5. IdsOK'
  BY <1>1, <1>2, <1>3 DEF Inv, IdsOK, Busy
<1>6. RolesOK'
  BY <1>1, <1>2, <1>3, <1>4 DEF Inv, RolesOK, Format
<1>7. \A id : Underway(id)' <=> Underway(id)
  BY <1>4 DEF Underway, netVars
<1>8. FreshOK'
  <2>1. \A l \in Logger, n \in Nat, c \in Nat : Fresh(l, n, c)' => Fresh(l, n, c)
    BY <1>1, <1>2, <1>3 DEF Fresh, netVars
  <2> QED
    BY <1>7, <2>1 DEF Inv, FreshOK
<1>9. OneCopy'
  BY <1>4, <1>7 DEF Inv, OneCopy, netVars
<1>10. BlockedIsExplained'
  BY <1>7 DEF Inv, BlockedIsExplained, CopiesOf
<1>11. CopiesOK'
  BY <1>4 DEF Inv, CopiesOK, netVars
<1> QED
  BY <1>5, <1>6, <1>8, <1>9, <1>10, <1>11 DEF InvA

\* LogLine leaves exec for the points it should, in loggers and in the server.
LEMMA LogStep ==
    ASSUME Inv, NEW p \in Process, Log(p) \/ Full(p) \/ OpenFails(p) \/ Create(p)
    PROVE  InvA'
<1>1. /\ pc \in [Process -> PC]
      /\ p \in awaiting => pc[p] \in {"request", "exited"}
      /\ p = Server /\ pc[p] = "exec" => cur[p].TMode = Local /\ Format(p) \in FileFormat
  BY DEF Inv, TypeOK, LoggerTypeOK, PC, IdsOK, RolesOK, Handling
<1>2. CASE NoFileInterface(p) /\ Log(p)
  BY <1>1, <1>2, InnerStep
  DEF NoFileInterface, Log, PC, Busy, serverVars, historyVars
<1>3. CASE LogLineLocal(p) /\ Log(p)
  BY <1>1, <1>3, InnerStep
  DEF LogLineLocal, Counted, InLogLine, Log, PC, Busy, serverVars, historyVars
<1>4. CASE LogLineThrows(p) /\ Log(p)
  BY <1>1, <1>4, InnerStep
  DEF LogLineThrows, Counted, InLogLine, Log, PC, Busy, serverVars, historyVars
<1>5. CASE LogLineRemote(p) /\ Log(p)
  <2>1. p # Server
    BY <1>1, <1>5
    DEF LogLineRemote, Counted, InLogLine, Forwards, Local, Remote
  <2> QED
    BY <1>1, <1>5, <2>1, InnerStep
    DEF LogLineRemote, Counted, InLogLine, Log, PC, Busy, serverVars, historyVars
<1>6. CASE LogLineNoRemoteHost(p) /\ Log(p)
  BY <1>1, <1>6, InnerStep
  DEF LogLineNoRemoteHost, Counted, InLogLine, Log, PC, Busy, serverVars, historyVars
<1>7. CASE LogLineNone(p) /\ Log(p)
  BY <1>1, <1>7, InnerStep
  DEF LogLineNone, Counted, InLogLine, Log, PC, Busy, serverVars, historyVars
<1>8. CASE Full(p)
  BY <1>1, <1>8, InnerStep
  DEF Full, LogLineFull, InLogLine, PC, Busy, serverVars
<1>9. CASE OpenFails(p)
  BY <1>1, <1>9, InnerStep
  DEF OpenFails, LogLineOpenFails, Counted, InLogLine, PC, Busy, serverVars
<1>10. CASE Create(p)
  <2>1. pc[p] = "exec" /\ GoTo(p, "exec")
    BY <1>1, <1>10 DEF Create, CreateInterface, Creates, GoTo
  <2> QED
    BY <1>1, <1>10, <2>1, InnerStep
    DEF Create, CreateInterface, PC, Busy, serverVars
<1> QED
  BY <1>2, <1>3, <1>4, <1>5, <1>6, <1>7, <1>8, <1>9, <1>10 DEF Log

\* The other steps of a logger on its own.
LEMMA LoggerStepAlone ==
    ASSUME Inv, NEW l \in Logger, LoggerDies(l) \/ LoggerReturns(l) \/ RequestFails(l)
    PROVE  InvA'
<1>1. /\ pc \in [Process -> PC]
      /\ l \in awaiting => pc[l] \in {"request", "exited"}
      /\ l \in Process /\ l # Server
  BY DEF Inv, TypeOK, LoggerTypeOK, PC, IdsOK, Logger
<1>2. CASE LoggerDies(l)
  <2>1. GoTo(l, "exited") /\ UNCHANGED cur
    BY <1>2
    DEF LoggerDies, Dies, CreateInterfaceFails, LogLineCrashes, Counted, InLogLine, Exit
  <2> QED
    BY <1>1, <1>2, <2>1, InnerStep
    DEF LoggerDies, PC, Busy, serverVars, historyVars
<1>3. CASE LoggerReturns(l)
  BY <1>1, <1>3, InnerStep DEF LoggerReturns, Return, PC, Busy, serverVars, historyVars
<1>4. CASE RequestFails(l)
  BY <1>1, <1>4, InnerStep
  DEF RequestFails, RequestReturns, PC, Busy, serverVars, historyVars
<1> QED
  BY <1>2, <1>3, <1>4

--------------------------------------------------------------------------------
(* The queue *)

LEMMA SubmitStep ==
    ASSUME Inv, NEW l \in Logger, Submit(l)
    PROVE  /\ InvA'
           /\ submitted' \in [Logger -> Seq(Instruction)]
           /\ \A k \in Logger : /\ Len(submitted'[k]) <= MaxSubmit[k]
                                 /\ taken[k] <= Len(submitted'[k])
<1>1. PICK ins \in Input :
         submitted' = [submitted EXCEPT ![l] =
             Append(@, [ins EXCEPT !.id = <<l, Len(submitted[l]) + 1, 0>>])]
  BY DEF Submit
<1> DEFINE new == [ins EXCEPT !.id = <<l, Len(submitted[l]) + 1, 0>>]
<1>2. /\ submitted \in [Logger -> Seq(Instruction)]
      /\ Len(submitted[l]) < MaxSubmit[l]
      /\ taken \in [Logger -> Nat]
      /\ \A k \in Logger : Len(submitted[k]) <= MaxSubmit[k] /\ taken[k] <= Len(submitted[k])
  BY DEF Inv, TypeOK, Submit
<1>3. <<l, Len(submitted[l]) + 1, 0>> \in Id
  <2>1. Len(submitted[l]) + 1 \in 1..MaxSubmit[l] /\ 0 \in 0..MaxCopies
    BY <1>2, RemoteAssumption
  <2> QED
    BY <2>1, RequestIdMade, RemoteAssumption
<1>4. new \in Instruction /\ new.id = <<l, Len(submitted[l]) + 1, 0>>
  BY <1>3, InputAssumption DEF Instruction, LoggerInstruction
<1> HIDE DEF new
<1>5. submitted' = [submitted EXCEPT ![l] = Append(@, new)]
  BY <1>1 DEF new
<1>6. /\ submitted' \in [Logger -> Seq(Instruction)]
      /\ \A k \in Logger : Len(submitted'[k]) <= MaxSubmit[k] /\ taken[k] <= Len(submitted'[k])
  <2>1. \A k \in Logger : MaxSubmit[k] \in Nat /\ Len(submitted[k]) \in Nat
    BY <1>2, RemoteAssumption
  <2>2. submitted' \in [Logger -> Seq(Instruction)]
    BY <1>2, <1>4, <1>5
  <2>3. \A k \in Logger : Len(submitted'[k]) = IF k = l THEN Len(submitted[l]) + 1
                                                       ELSE Len(submitted[k])
    BY <1>2, <1>4, <1>5
  <2> QED
    BY <1>2, <2>1, <2>2, <2>3
<1>7. \A k \in Logger : \A n \in 1..Len(submitted'[k]) : submitted'[k][n].id = <<k, n, 0>>
  BY <1>2, <1>4, <1>5 DEF Inv, IdsOK
<1>8. UNCHANGED <<pc, cur, taken, awaiting, net, inbox, replies, client, lost, copies>>
  BY DEF Submit, loggerVars, netVars, serverVars, historyVars
<1>9. IdsOK'
  BY <1>7, <1>8 DEF Inv, IdsOK
<1>10. RolesOK' /\ CopiesOK' /\ FreshOK' /\ OneCopy' /\ BlockedIsExplained'
  BY <1>8 DEF Inv, RolesOK, CopiesOK, FreshOK, Fresh, OneCopy, BlockedIsExplained,
              CopiesOf, Underway, Handling, Format
<1> QED
  BY <1>6, <1>9, <1>10 DEF InvA

LEMMA DequeueStep ==
    ASSUME Inv, NEW l \in Logger, Dequeue(l)
    PROVE  InvA' /\ submitted[l][taken[l] + 1] \in Instruction
<1>1. /\ pc \in [Process -> PC] /\ cur \in [Process -> Instruction]
      /\ submitted \in [Logger -> Seq(Instruction)]
      /\ taken \in [Logger -> Nat]
      /\ awaiting \subseteq Logger
      /\ l \in Process /\ l # Server /\ Server \in Process
  BY RemoteAssumption DEF Inv, TypeOK, LoggerTypeOK, PC, Logger
<1>2. /\ pc[l] = "idle"
      /\ taken[l] < Len(submitted[l])
      /\ pc' = [pc EXCEPT ![l] = "exec"]
      /\ cur' = [cur EXCEPT ![l] = submitted[l][taken[l] + 1]]
      /\ taken' = [taken EXCEPT ![l] = @ + 1]
      /\ UNCHANGED <<submitted, awaiting, net, inbox, replies, client, lost, copies>>
  BY DEF Dequeue, HandleInstruction, GoTo, netVars, serverVars, historyVars
<1>3. taken[l] + 1 \in 1..Len(submitted[l])
  BY <1>1, <1>2
<1>4. submitted[l][taken[l] + 1] \in Instruction
  BY <1>1, <1>3
<1>5. submitted[l][taken[l] + 1].id = <<l, taken[l] + 1, 0>>
  BY <1>3 DEF Inv, IdsOK
<1>6. l \notin awaiting
  BY <1>2 DEF Inv, IdsOK
<1>7. IdsOK'
  BY <1>1, <1>2, <1>5, <1>6 DEF Inv, IdsOK, Busy
<1>8. pc'[Server] = pc[Server] /\ cur'[Server] = cur[Server]
  BY <1>1, <1>2
<1>9. RolesOK'
  BY <1>1, <1>2, <1>8 DEF Inv, RolesOK, Format, Handling
<1>10. \A id : Underway(id)' <=> Underway(id)
  BY <1>2, <1>8 DEF Underway, Handling
<1>11. FreshOK'
  <2>1. \A k \in Logger, n \in Nat, c \in Nat : Fresh(k, n, c)' => Fresh(k, n, c)
    BY <1>1, <1>2 DEF Fresh
  <2> QED
    BY <1>2, <1>10, <2>1 DEF Inv, FreshOK
<1>12. OneCopy'
  BY <1>2, <1>8, <1>10 DEF Inv, OneCopy, Handling
<1>13. BlockedIsExplained'
  BY <1>1, <1>2, <1>6, <1>10 DEF Inv, BlockedIsExplained, CopiesOf
<1>14. CopiesOK'
  BY <1>2, <1>8 DEF Inv, CopiesOK, Handling
<1> QED
  BY <1>4, <1>7, <1>9, <1>11, <1>12, <1>13, <1>14 DEF InvA

--------------------------------------------------------------------------------
(* Messages *)

\* What every action below may rely on.
LEMMA Types ==
    ASSUME Inv
    PROVE  /\ pc \in [Process -> PC] /\ cur \in [Process -> Instruction]
           /\ taken \in [Logger -> Nat]
           /\ awaiting \subseteq Logger
           /\ Server \in Process /\ Server \notin Logger /\ Logger \subseteq Process
           /\ net \subseteq Request /\ inbox \subseteq Request /\ replies \subseteq Reply
BY RemoteAssumption DEF Inv, TypeOK, LoggerTypeOK, PC, Logger

\* A request is not a response.
LEMMA RequestIsNotReply == ASSUME NEW m \in Request PROVE m \notin Reply
<1> SUFFICES ASSUME m \in Reply PROVE FALSE
  OBVIOUS
<1>1. DOMAIN m = {"id", "from", "wire"}
  BY DEF Request
<1>2. DOMAIN m = {"id", "to"}
  BY DEF Reply
<1> QED
  BY <1>1, <1>2

LEMMA RequestSendStep ==
    ASSUME Inv, NEW l \in Logger, RequestSend(l)
    PROVE  InvA'
<1> DEFINE m == [id |-> cur[l].id, from |-> l,
                 wire |-> SerializeRequest(RequestOf(l, cur[l]))]
<1>1. /\ pc[l] = "request" /\ l \notin awaiting
      /\ net' = net \cup {m}
      /\ awaiting' = awaiting \cup {l}
      /\ UNCHANGED <<pc, cur, submitted, taken, inbox, replies, client, lost, copies>>
  BY DEF RequestSend, loggerVars, serverVars, historyVars
<1>2. m.id = cur[l].id /\ m.from = l
  OBVIOUS
<1> HIDE DEF m
<1>3. taken[l] > 0 /\ cur[l].id = <<l, taken[l], 0>>
  BY <1>1 DEF Inv, IdsOK, Busy
<1>4. \A c \in Nat : /\ Fresh(l, taken[l], c)
                      /\ ~Underway(<<l, taken[l], c>>) /\ <<l, taken[l], c>> \notin copies
  BY <1>1, Types DEF Inv, FreshOK, Fresh
<1>5. IdsOK' /\ RolesOK'
  BY <1>1, <1>3, Types DEF Inv, IdsOK, RolesOK, Handling, Format, Busy
<1>6. \A id : Underway(id)' <=> Underway(id) \/ id = cur[l].id
  BY <1>1, <1>2 DEF Underway, Handling
<1>7. FreshOK'
  <2> SUFFICES ASSUME NEW k \in Logger, NEW n \in Nat, NEW c \in Nat, Fresh(k, n, c)'
               PROVE  ~Underway(<<k, n, c>>)' /\ <<k, n, c>> \notin copies'
    BY DEF FreshOK
  <2>1. Fresh(k, n, c)
    BY <1>1, <1>2, <1>3, <1>4 DEF Fresh
  <2>2. <<k, n, c>> # <<l, taken[l], 0>>
    <3>1. ASSUME k = l, n = taken[l], c = 0
          PROVE  ~Fresh(k, n, c)'
      BY <1>1, <3>1, Types DEF Fresh
    <3> QED
      BY <3>1
  <2> QED
    BY <1>1, <1>3, <1>6, <2>1, <2>2 DEF Inv, FreshOK
<1>8. OneCopy'
  <2>1. ~Underway(cur[l].id)
    BY <1>3, <1>4
  <2>2. cur[l].id[3] = 0
    BY <1>3
  <2> QED
    BY <1>1, <1>2, <1>6, <2>1, <2>2 DEF Inv, OneCopy, Underway, Handling
<1>9. BlockedIsExplained'
  <2>1. ASSUME NEW c \in copies, Original(c) = cur[l].id
        PROVE  FALSE
    <3>1. c = <<l, taken[l], c[3]>> /\ c[3] \in Nat
      BY <1>3, <2>1, RequestIdParts DEF Original, Inv, TypeOK
    <3> QED
      BY <1>4, <3>1
  <2> QED
    BY <1>1, <1>6, <2>1 DEF Inv, BlockedIsExplained, CopiesOf
<1>10. CopiesOK'
  BY <1>1, <1>2, <1>3 DEF Inv, CopiesOK, Handling
<1> QED
  BY <1>5, <1>7, <1>8, <1>9, <1>10 DEF InvA

\* Two loggers never wait for copies of the same request.
LEMMA DistinctWaits ==
    ASSUME Inv, NEW k \in awaiting, NEW l \in awaiting, NEW id,
           id \in CopiesOf(cur[k].id), Original(id) = cur[l].id
    PROVE  k = l
BY Types DEF Inv, IdsOK, CopiesOf, Original

LEMMA RequestEndStep ==
    ASSUME Inv, NEW l \in Logger, RequestRecvFails(l) \/ RequestReceive(l)
    PROVE  InvA'
<1>1. /\ pc[l] = "request"
      /\ pc' = [pc EXCEPT ![l] = "done"]
      /\ l \in awaiting /\ awaiting' = awaiting \ {l}
      /\ UNCHANGED <<cur, submitted, taken, net, inbox, client, lost, copies>>
  BY DEF RequestRecvFails, RequestReceive, RequestReturns, Awaits, GoTo, netVars,
         serverVars
<1>2. /\ replies' \subseteq replies
      /\ \A m \in replies \ replies' : Original(m.id) = cur[l].id
  BY DEF RequestRecvFails, RequestReceive, Awaits, netVars
<1>3. pc'[Server] = pc[Server] /\ (Handling' <=> Handling)
  BY <1>1, Types DEF Handling
<1>4. IdsOK'
  BY <1>1, Types DEF Inv, IdsOK, Busy
<1>5. RolesOK'
  BY <1>1, <1>3, Types DEF Inv, RolesOK, Format
<1>6. \A id : Underway(id)' => Underway(id)
  BY <1>1, <1>2, <1>3 DEF Underway
<1>7. FreshOK'
  BY <1>1, <1>6, Types DEF Inv, FreshOK, Fresh
<1>8. OneCopy'
  BY <1>1, <1>2, <1>3, <1>6 DEF Inv, OneCopy
<1>9. \A id : Underway(id) => Underway(id)' \/ Original(id) = cur[l].id
  BY <1>1, <1>2, <1>3 DEF Underway
<1>10. BlockedIsExplained'
  <2> SUFFICES ASSUME NEW k \in awaiting', NEW id \in CopiesOf(cur[k].id)'
               PROVE  Underway(id)' \/ id \in lost'
    BY DEF BlockedIsExplained
  <2>1. k \in awaiting /\ k # l /\ id \in CopiesOf(cur[k].id)
    BY <1>1 DEF CopiesOf
  <2>2. Original(id) # cur[l].id
    BY <1>1, <2>1, DistinctWaits
  <2> QED
    BY <1>1, <1>9, <2>1, <2>2 DEF Inv, BlockedIsExplained
<1>11. CopiesOK'
  BY <1>1, <1>3 DEF Inv, CopiesOK
<1> QED
  BY <1>4, <1>5, <1>7, <1>8, <1>10, <1>11 DEF InvA

\* A request or a response goes on, or it is lost and that is on record.
LEMMA TravelStep ==
    ASSUME Inv,
           \/ \E m \in net : Arrive(m) \/ LoseRequest(m)
           \/ \E m \in replies : LoseReply(m)
    PROVE  InvA'
<1>1. UNCHANGED <<pc, cur, submitted, taken, awaiting, client, copies>>
  BY DEF Arrive, LoseRequest, LoseReply, loggerVars, serverVars
<1>2. PICK m \in net \cup replies :
         \/ /\ m \in net
            /\ net' = net \ {m} /\ inbox' = inbox \cup {m}
            /\ UNCHANGED <<replies, lost>>
         \/ /\ m \in net
            /\ net' = net \ {m} /\ lost' = lost \cup {m.id}
            /\ UNCHANGED <<inbox, replies>>
         \/ /\ replies' = replies \ {m} /\ lost' = lost \cup {m.id}
            /\ UNCHANGED <<net, inbox>>
  BY DEF Arrive, Deliver, LoseRequest, LoseReply
<1>3. IdsOK' /\ RolesOK'
  BY <1>1 DEF Inv, IdsOK, RolesOK, Handling, Format
<1>4. \A id : Underway(id)' => Underway(id)
  BY <1>1, <1>2 DEF Underway, Handling
<1>5. FreshOK'
  <2>1. \A l \in Logger, n \in Nat, c \in Nat : Fresh(l, n, c)' => Fresh(l, n, c)
    BY <1>1, <1>2 DEF Fresh
  <2> QED
    BY <1>1, <1>4, <2>1 DEF Inv, FreshOK
<1>6. OneCopy'
  BY <1>1, <1>2, <1>4 DEF Inv, OneCopy, Handling
<1>7. \A id : Underway(id) => Underway(id)' \/ id \in lost'
  BY <1>1, <1>2 DEF Underway, Handling
<1>8. BlockedIsExplained'
  BY <1>1, <1>2, <1>7 DEF Inv, BlockedIsExplained, CopiesOf
<1>9. CopiesOK'
  BY <1>1, <1>2 DEF Inv, CopiesOK, Handling
<1> QED
  BY <1>3, <1>5, <1>6, <1>8, <1>9 DEF InvA

\* A request is delivered and a copy of it stays behind, which is new.
LEMMA ArriveTwiceStep ==
    ASSUME Inv, NEW m \in net, ArriveTwice(m)
    PROVE  /\ InvA'
           /\ \E l \in Logger, n \in Nat, c \in Nat :
                 LET copy == [m EXCEPT !.id = <<l, n, c + 1>>] IN
                 /\ m.id = <<l, n, c>>
                 /\ copy \in Request
                 /\ net' = (net \ {m}) \cup {copy}
                 /\ copies' = copies \cup {<<l, n, c + 1>>}
                 /\ <<l, n, c + 1>> \in RequestId
                 /\ Fresh(l, n, c + 1)
           /\ \A k \in Logger, i \in Nat, d \in Nat : Fresh(k, i, d)' => Fresh(k, i, d)
<1> DEFINE l == m.id[1]
           n == m.id[2]
           c == m.id[3]
           copy == [m EXCEPT !.id = <<l, n, c + 1>>]
<1>1. m \in Request /\ m.id \in RequestId /\ m.from = l
  BY Types DEF Inv, CopiesOK, Request
<1>2. l \in Logger /\ n \in 1..MaxSubmit[l] /\ n \in Nat /\ c \in Nat /\ m.id = <<l, n, c>>
  BY <1>1, RequestIdParts
<1>3. /\ HostOf[m.from] # HostOf[Server]
      /\ c < MaxCopies
      /\ net' = (net \ {m}) \cup {copy}
      /\ copies' = copies \cup {<<l, n, c + 1>>}
      /\ UNCHANGED <<pc, cur, submitted, taken, awaiting, replies, client>>
  BY DEF ArriveTwice, loggerVars, serverVars
<1>4. <<l, n, c + 1>> \in RequestId
  <2>1. c + 1 \in 0..MaxCopies
    BY <1>2, <1>3, RemoteAssumption
  <2> QED
    BY <1>2, <2>1, RequestIdMade
<1>5. /\ copy \in Request
      /\ copy.id = <<l, n, c + 1>> /\ copy.from = l
  BY <1>1, <1>4 DEF Request
<1>6. \/ inbox' = inbox \cup {m} /\ UNCHANGED lost
      \/ lost' = lost \cup {m.id} /\ UNCHANGED inbox
  BY DEF ArriveTwice, Deliver
<1> HIDE DEF l, n, c, copy
<1>7. Fresh(l, n, c + 1)
  BY <1>2 DEF Fresh
<1>8. /\ ~Underway(<<l, n, c + 1>>)
      /\ <<l, n, c + 1>> \notin copies
  BY <1>2, <1>7 DEF Inv, FreshOK
<1>9. Underway(<<l, n, c>>)
  BY <1>2 DEF Underway
<1>10. \A o \in net : \A b \in Nat : b < c => o.id # <<l, n, b>>
  BY <1>2, <1>9 DEF Inv, FreshOK, Fresh
<1>11. \A id : Underway(id)' => Underway(id) \/ id = <<l, n, c + 1>>
  BY <1>3, <1>5, <1>6 DEF Underway, Handling
<1>12. \A id : Underway(id) => Underway(id)' \/ id \in lost'
  BY <1>2, <1>3, <1>6 DEF Underway, Handling
<1>13. IdsOK' /\ RolesOK'
  BY <1>3 DEF Inv, IdsOK, RolesOK, Handling, Format
<1>14. CopiesOK'
  BY <1>1, <1>2, <1>3, <1>5, <1>6 DEF Inv, CopiesOK, Handling
<1>20. ASSUME NEW k \in Logger, NEW i \in Nat, NEW d \in Nat, Fresh(k, i, d)'
       PROVE  Fresh(k, i, d)
  <2>1. CASE \E b \in Nat : b < d /\ copy.id = <<k, i, b>>
    <3>1. k = l /\ i = n /\ c < d
      BY <1>2, <1>5, <2>1
    <3> QED
      BY <1>2, <3>1 DEF Fresh
  <2> QED
    BY <1>3, <1>20, <2>1 DEF Fresh
<1>15. FreshOK'
  <2> SUFFICES ASSUME NEW k \in Logger, NEW i \in Nat, NEW d \in Nat, Fresh(k, i, d)'
               PROVE  ~Underway(<<k, i, d>>)' /\ <<k, i, d>> \notin copies'
    BY DEF FreshOK
  <2>1. Fresh(k, i, d)
    BY <1>20
  <2>2. <<k, i, d>> # <<l, n, c + 1>>
    <3> SUFFICES ASSUME k = l, i = n, d = c + 1
                 PROVE  FALSE
      OBVIOUS
    <3>1. ~(n > taken[l]) /\ ~(n = taken[l] /\ pc[l] \in {"exec", "request"} /\ l \notin awaiting)
      BY <1>2, <1>9 DEF Inv, FreshOK, Fresh
    <3>2. PICK o \in net' : \E b \in Nat : b < c + 1 /\ o.id = <<l, n, b>>
      BY <1>3, <3>1 DEF Fresh
    <3>3. PICK b \in Nat : b < c + 1 /\ o.id = <<l, n, b>>
      BY <3>2
    <3>4. o # copy
      BY <1>2, <1>5, <3>3
    <3>5. o \in net /\ o # m
      BY <1>3, <3>2, <3>4
    <3>6. b = c
      BY <1>2, <1>10, <3>3, <3>5
    <3> QED
      BY <1>2, <3>3, <3>5, <3>6 DEF Inv, OneCopy
  <2> QED
    BY <1>3, <1>11, <2>1, <2>2 DEF Inv, FreshOK
<1>16. OneCopy'
  <2>1. \A o \in net \cup inbox \cup replies : o.id # copy.id
    BY <1>5, <1>8 DEF Underway
  <2>2. Handling => cur[Server].id # copy.id
    BY <1>5, <1>8 DEF Underway
  <2>3. net' \cap inbox' = {}
    BY <1>3, <1>6, <2>1 DEF Inv, OneCopy
  <2>4. \A o, q \in net' \cup inbox' \cup replies' : o.id = q.id => o = q
    BY <1>3, <1>6, <2>1 DEF Inv, OneCopy
  <2>5. Handling' => \A o \in net' \cup inbox' \cup replies' : o.id # cur'[Server].id
    BY <1>3, <1>6, <2>2 DEF Inv, OneCopy, Handling
  <2>6. \A id \in RequestId : Underway(id)' => id[3] = 0 \/ id \in copies'
    BY <1>3, <1>11 DEF Inv, OneCopy
  <2> QED
    BY <2>3, <2>4, <2>5, <2>6 DEF OneCopy
<1>17. BlockedIsExplained'
  <2>1. Underway(<<l, n, c + 1>>)'
    BY <1>3, <1>5 DEF Underway
  <2> QED
    BY <1>3, <1>6, <1>12, <2>1 DEF Inv, BlockedIsExplained, CopiesOf
<1>18. InvA'
  BY <1>13, <1>14, <1>15, <1>16, <1>17 DEF InvA
<1> QED
  BY <1>2, <1>3, <1>4, <1>5, <1>7, <1>18, <1>20 DEF copy

--------------------------------------------------------------------------------
(* The server *)

LEMMA HandleIncomingDataStep ==
    ASSUME Inv, NEW m \in inbox, HandleIncomingData(m)
    PROVE  InvA' /\ \E ins \in Instruction : HandleInstruction(Server, ins)
<1>1. PICK line \in Received(m.wire.line, BufferSize) :
         HandleInstruction(Server, InstructionOf(m, line))
  BY DEF HandleIncomingData
<1> DEFINE ins == InstructionOf(m, line)
<1>2. m \in Request
  BY Types
<1>3. DeserializeData(line) \in Text
  <2>1. m.wire.line \in Text
    BY <1>2 DEF Request, Wire
  <2> QED
    BY <1>1, <2>1, ReceivedType, DeserializeDataType, RemoteAssumption
<1>4. /\ ins \in Instruction
      /\ ins.id = m.id /\ ins.id \in RequestId /\ ins.TMode = Local /\ FileFormatOf(ins.FType) \in FileFormat
  <2>1. /\ m.id \in Id /\ m.id \in RequestId /\ m.wire.Severity - 1 \in 0..5 /\ m.wire.Format \in {0, 1}
        /\ m.wire.Origin \in Pid
    BY <1>2, RemoteAssumption DEF Request, Wire, SentSeverity, SeverityOf, InstructionType, ReflectLog,
                FileFormat, JSON, Custom
  <2> QED
    BY <1>3, <2>1
    DEF InstructionOf, TypeOf, FormatTypeOf, FileFormatOf, Instruction, LoggerInstruction,
        InstructionType, ReflectLog, FormatType, TransMode, NONE, Local, Remote,
        FileFormat, JSON, Custom
<1> HIDE DEF ins
<1>5. /\ pc[Server] = "idle"
      /\ pc' = [pc EXCEPT ![Server] = "exec"]
      /\ cur' = [cur EXCEPT ![Server] = ins]
      /\ inbox' = inbox \ {m}
      /\ client' = m.from
      /\ UNCHANGED <<submitted, taken, awaiting, net, replies, lost, copies>>
  BY <1>1 DEF HandleIncomingData, HandleInstruction, GoTo, historyVars, ins
<1>6. /\ \A l \in Logger : pc'[l] = pc[l] /\ cur'[l] = cur[l]
      /\ pc'[Server] = "exec" /\ cur'[Server] = ins
      /\ ~Handling /\ Handling'
  BY <1>5, Types DEF Handling
<1>7. IdsOK'
  BY <1>5, <1>6, Types DEF Inv, IdsOK
<1>8. RolesOK'
  <2>1. m.from \in Logger
    BY <1>2 DEF Request
  <2> QED
    BY <1>4, <1>5, <1>6, <2>1, Types DEF Inv, RolesOK, Format, Logger
<1>9. \A id : Underway(id)' <=> Underway(id)
  BY <1>4, <1>5, <1>6 DEF Underway, Inv, OneCopy
<1>10. FreshOK'
  BY <1>5, <1>6, <1>9 DEF Inv, FreshOK, Fresh
<1>11. OneCopy'
  <2>1. \A o \in net \cup inbox' \cup replies : o.id # m.id
    <3>1. m \notin replies
      BY <1>2, Types, RequestIsNotReply
    <3> QED
      BY <1>5, <3>1 DEF Inv, OneCopy
  <2>2. net' \cap inbox' = {}
    BY <1>5 DEF Inv, OneCopy
  <2>3. \A o, q \in net' \cup inbox' \cup replies' : o.id = q.id => o = q
    BY <1>5 DEF Inv, OneCopy
  <2>4. \A id \in RequestId : Underway(id)' => id[3] = 0 \/ id \in copies'
    BY <1>5, <1>9 DEF Inv, OneCopy
  <2> QED
    BY <1>4, <1>5, <1>6, <2>1, <2>2, <2>3, <2>4 DEF OneCopy
<1>12. BlockedIsExplained'
  BY <1>5, <1>6, <1>9, Types DEF Inv, BlockedIsExplained, CopiesOf
<1>13. CopiesOK'
  BY <1>4, <1>5, <1>6 DEF Inv, CopiesOK
<1> QED
  BY <1>1, <1>4, <1>7, <1>8, <1>10, <1>11, <1>12, <1>13 DEF InvA, ins

\* The server is done with a request: it answers, or it swallows an exception.
LEMMA ServerReturnsStep ==
    ASSUME Inv, Respond \/ Swallow
    PROVE  InvA'
<1> DEFINE id0 == cur[Server].id
<1>1. /\ pc[Server] \in {"done", "threw"}
      /\ pc' = [pc EXCEPT ![Server] = "idle"]
      /\ UNCHANGED <<cur, submitted, taken, awaiting, net, inbox, client, copies>>
  BY DEF Respond, Swallow, Return, Catch, GoTo, serverVars, netVars, historyVars
<1>2. /\ Handling /\ ~Handling'
      /\ \A l \in Logger : pc'[l] = pc[l]
      /\ client \in Logger
  BY <1>1, Types DEF Handling, Inv, RolesOK
<1>3. \/ /\ replies' = replies \cup {[id |-> id0, to |-> client]}
         /\ UNCHANGED lost
      \/ /\ lost' = lost \cup {id0}
         /\ UNCHANGED replies
  BY DEF Respond, Swallow, historyVars, netVars
<1>4. IdsOK' /\ RolesOK'
  BY <1>1, <1>2, Types DEF Inv, IdsOK, RolesOK, Format, Logger
<1>5. \A id : Underway(id)' => Underway(id)
  BY <1>1, <1>2, <1>3 DEF Underway
<1>6. FreshOK'
  BY <1>1, <1>2, <1>5 DEF Inv, FreshOK, Fresh
<1>7. OneCopy'
  BY <1>1, <1>2, <1>3, <1>5 DEF Inv, OneCopy
<1>8. \A id : Underway(id) => Underway(id)' \/ id \in lost'
  <2>1. CASE replies' = replies \cup {[id |-> id0, to |-> client]}
    <3> DEFINE r == [id |-> id0, to |-> client]
    <3>1. r.id = id0 /\ r \in replies'
      BY <2>1
    <3> HIDE DEF r
    <3> QED
      BY <1>1, <2>1, <3>1 DEF Underway
  <2>2. CASE lost' = lost \cup {id0} /\ UNCHANGED replies
    BY <1>1, <2>2 DEF Underway
  <2> QED
    BY <1>3, <2>1, <2>2
<1>9. BlockedIsExplained'
  BY <1>1, <1>3, <1>8 DEF Inv, BlockedIsExplained, CopiesOf
<1>10. CopiesOK'
  BY <1>1, <1>2 DEF Inv, CopiesOK
<1> QED
  BY <1>4, <1>6, <1>7, <1>9, <1>10 DEF InvA

\* The server ends, in whatever way.
LEMMA ServerEndsStep ==
    ASSUME Inv, ServerDies \/ EpollError \/ InterruptedTooOften
    PROVE  InvA'
<1>1. /\ pc' = [pc EXCEPT ![Server] = "exited"]
      /\ UNCHANGED cur
      /\ CloseAll
      /\ pc[Server] # "exited"
  BY DEF ServerDies, EpollError, InterruptedTooOften, Dies, CreateInterfaceFails, Creates,
         LogLineCrashes, Counted, InLogLine, Exit, GoTo
<1>2. /\ inbox' = {}
      /\ \A m \in inbox : m.id \in lost'
      /\ Handling => cur[Server].id \in lost'
      /\ lost \subseteq lost'
      /\ UNCHANGED <<submitted, taken, awaiting, net, replies, client, copies>>
  BY <1>1 DEF CloseAll, Handling
<1>3. /\ ~Handling'
      /\ \A l \in Logger : pc'[l] = pc[l]
  BY <1>1, Types DEF Handling
<1>4. IdsOK' /\ RolesOK'
  BY <1>1, <1>2, <1>3, Types DEF Inv, IdsOK, RolesOK, Format, Logger
<1>5. \A id : Underway(id)' => Underway(id)
  BY <1>1, <1>2, <1>3 DEF Underway
<1>6. FreshOK'
  BY <1>1, <1>2, <1>3, <1>5 DEF Inv, FreshOK, Fresh
<1>7. OneCopy'
  BY <1>1, <1>2, <1>3, <1>5 DEF Inv, OneCopy
<1>8. \A id : Underway(id) => Underway(id)' \/ id \in lost'
  BY <1>1, <1>2, <1>3 DEF Underway
<1>9. BlockedIsExplained'
  BY <1>1, <1>2, <1>8 DEF Inv, BlockedIsExplained, CopiesOf
<1>10. CopiesOK'
  BY <1>2, <1>3 DEF Inv, CopiesOK
<1> QED
  BY <1>4, <1>6, <1>7, <1>9, <1>10 DEF InvA

\* Steps that concern neither requests nor instructions, and stuttering.
LEMMA IdleStep ==
    ASSUME Inv, Initialize \/ Interrupted \/ UNCHANGED vars
    PROVE  InvA'
<1>1. UNCHANGED <<pc, cur, submitted, taken, awaiting, net, inbox, replies, client, lost,
                  copies>>
  BY DEF Initialize, Interrupted, vars, loggerVars, netVars, serverVars, historyVars
<1> QED
  BY <1>1 DEF Inv, InvA, IdsOK, RolesOK, CopiesOK, FreshOK, Fresh, OneCopy,
              BlockedIsExplained, CopiesOf, Underway, Handling, Format

\* Every step keeps requests apart and accounts for those that do not arrive.
LEMMA NextInvA ==
    ASSUME Inv, [Next]_vars
    PROVE  InvA'
BY LogStep, LoggerStepAlone, SubmitStep, DequeueStep, RequestSendStep, RequestEndStep,
   TravelStep, ArriveTwiceStep, HandleIncomingDataStep, ServerReturnsStep, ServerEndsStep, IdleStep,
   RemoteAssumption
DEF Next, LoggerProgress, ServerProgress, Logger

--------------------------------------------------------------------------------
(* The loggers inside the processes *)

\* A process takes no step that MainLogger does not know.
LEMMA NextIsLoggerStep ==
    ASSUME Inv, [Next]_vars
    PROVE  \/ UNCHANGED loggerVars
           \/ \E p \in Process, ins \in Instruction : LoggerStep(p, ins)
<1>1. ASSUME NEW p \in Process, NEW ins \in Instruction, HandleInstruction(p, ins)
      PROVE  \E q \in Process, i \in Instruction : LoggerStep(q, i)
  BY <1>1 DEF LoggerStep
<1>2. ASSUME NEW p \in Process,
             Create(p) \/ Log(p) \/ Full(p) \/ OpenFails(p) \/ Dies(p)
      PROVE  LoggerStep(p, cur[p])
  BY <1>2 DEF Create, Log, Full, OpenFails, Dies, LoggerStep, LogLine
<1>3. ASSUME NEW p \in Process, RequestReturns(p) \/ Return(p) \/ Catch(p) \/ Exit(p)
      PROVE  LoggerStep(p, cur[p])
  BY <1>3 DEF LoggerStep
<1>4. \A p \in Process : cur[p] \in Instruction
  BY Types
<1>5. ASSUME NEW l \in Logger, Dequeue(l)
      PROVE  \E ins \in Instruction : HandleInstruction(l, ins)
  BY <1>5, DequeueStep DEF Dequeue
<1>6. ASSUME NEW l \in Logger,
             \/ Submit(l) \/ LoggerProgress(l) \/ OpenFails(l)
             \/ RequestFails(l) \/ RequestRecvFails(l) \/ LoggerDies(l)
      PROVE  \/ UNCHANGED loggerVars
             \/ \E p \in Process, ins \in Instruction : LoggerStep(p, ins)
  <2>1. l \in Process
    BY Types
  <2>2. \/ UNCHANGED loggerVars \/ Dequeue(l)
        \/ Create(l) \/ Log(l) \/ Full(l) \/ OpenFails(l) \/ Dies(l)
        \/ RequestReturns(l) \/ Return(l)
    BY <1>6 DEF Submit, LoggerProgress, RequestSend, RequestReceive, RequestFails,
                RequestRecvFails, LoggerDies, LoggerReturns
  <2> QED
    BY <1>1, <1>2, <1>3, <1>4, <1>5, <2>1, <2>2
<1>7. ASSUME \/ ServerProgress \/ OpenFails(Server) \/ EpollError \/ Interrupted
             \/ InterruptedTooOften \/ ServerDies
      PROVE  \/ UNCHANGED loggerVars
             \/ \E p \in Process, ins \in Instruction : LoggerStep(p, ins)
  <2>1. Server \in Process
    BY Types
  <2>2. ASSUME NEW m \in inbox, HandleIncomingData(m)
        PROVE  \E ins \in Instruction : HandleInstruction(Server, ins)
    BY <2>2, HandleIncomingDataStep
  <2>3. \/ UNCHANGED loggerVars \/ \E m \in inbox : HandleIncomingData(m)
        \/ Create(Server) \/ Log(Server) \/ Full(Server) \/ OpenFails(Server)
        \/ Dies(Server) \/ Return(Server) \/ Catch(Server) \/ Exit(Server)
    BY <1>7 DEF ServerProgress, Initialize, EpollError, Interrupted,
                InterruptedTooOften, ServerDies, Respond, Swallow
  <2> QED
    BY <1>1, <1>2, <1>3, <1>4, <2>1, <2>2, <2>3
<1>8. CASE UNCHANGED vars
  BY <1>8 DEF vars
<1>9. ASSUME \/ \E m \in net : Arrive(m) \/ ArriveTwice(m) \/ LoseRequest(m)
             \/ \E m \in replies : LoseReply(m)
      PROVE  UNCHANGED loggerVars
  BY <1>9 DEF Arrive, ArriveTwice, LoseRequest, LoseReply
<1> QED
  BY <1>6, <1>7, <1>8, <1>9 DEF Next

LEMMA NextLoggerInv ==
    ASSUME Inv, [Next]_vars
    PROVE  LoggerInv'
<1>1. LoggerInv
  BY DEF Inv, TypeOK, LoggerInv
<1> QED
  BY <1>1, NextIsLoggerStep, LoggerStepInv, LoggerStutterInv

--------------------------------------------------------------------------------
(* What the server has answered is accounted for. *)

\* The steps that change the files or the records about them.
LEMMA WriteStep ==
    ASSUME Inv, [Next]_vars
    PROVE  \/ UNCHANGED <<disk, refused, wiped>>
           \/ \E p \in Process : \/ Log(p) /\ LogLineLocal(p)
                               \/ Full(p) \/ OpenFails(p)
                               \/ Create(p)
<1>1. ASSUME NEW p \in Process, Log(p)
      PROVE  UNCHANGED <<refused, wiped>> /\ (UNCHANGED disk \/ LogLineLocal(p))
  BY <1>1 DEF Log, historyVars, NoFileInterface, LogLineThrows, LogLineRemote,
              LogLineNoRemoteHost, LogLineNone
<1>2. ASSUME NEW p \in Process, Dies(p)
      PROVE  UNCHANGED disk
  BY <1>2 DEF Dies, CreateInterfaceFails, LogLineCrashes, Exit
<1>3. ASSUME NEW l \in Logger,
             \/ Submit(l) \/ LoggerProgress(l) \/ OpenFails(l)
             \/ RequestFails(l) \/ RequestRecvFails(l) \/ LoggerDies(l)
      PROVE  \/ UNCHANGED <<disk, refused, wiped>>
             \/ Create(l) \/ Log(l) \/ Full(l) \/ OpenFails(l)
  <2>1. l \in Process
    BY Types
  <2> QED
    BY <1>2, <1>3, <2>1
    DEF Submit, LoggerProgress, Dequeue, HandleInstruction, RequestSend, RequestReceive,
        RequestReturns, RequestFails, RequestRecvFails, LoggerDies, LoggerReturns, Return,
        loggerVars, historyVars
<1>4. ASSUME \/ ServerProgress \/ OpenFails(Server) \/ EpollError \/ Interrupted
             \/ InterruptedTooOften \/ ServerDies
      PROVE  \/ UNCHANGED <<disk, refused, wiped>>
             \/ Create(Server) \/ Log(Server) \/ Full(Server) \/ OpenFails(Server)
  BY <1>2, <1>4, Types
  DEF ServerProgress, Initialize, HandleIncomingData, HandleInstruction, Respond, Return,
      Swallow, Catch, EpollError, Exit, CloseAll, Interrupted, InterruptedTooOften,
      ServerDies, loggerVars, historyVars
<1>5. ASSUME \/ \E m \in net : Arrive(m) \/ ArriveTwice(m) \/ LoseRequest(m)
             \/ \E m \in replies : LoseReply(m)
             \/ UNCHANGED vars
      PROVE  UNCHANGED <<disk, refused, wiped>>
  BY <1>5 DEF Arrive, ArriveTwice, LoseRequest, LoseReply, vars, loggerVars, historyVars
<1> QED
  BY <1>1, <1>3, <1>4, <1>5, Types DEF Next

\* What they do to them.
LEMMA DiskStep ==
    ASSUME Inv, [Next]_vars
    PROVE  \/ UNCHANGED disk /\ refused \subseteq refused' /\ UNCHANGED wiped
           \/ \E p \in Process : LogLineLocal(p) /\ UNCHANGED <<refused, wiped>>
           \/ \E p \in Process : Create(p)
<1>1. ASSUME NEW p \in Process, Full(p) \/ OpenFails(p)
      PROVE  UNCHANGED <<disk, wiped>> /\ refused \subseteq refused'
  BY <1>1 DEF Full, OpenFails, LogLineFull, LogLineOpenFails
<1> QED
  BY <1>1, WriteStep DEF Log, historyVars

\* An entry, once accounted for, stays so: truncations are on record.
LEMMA AccountsKept ==
    ASSUME Inv, [Next]_vars, NEW id, AccountedFor(id)
    PROVE  AccountedFor(id)'
<1>0. /\ disk \in [Host -> [FileName -> Seq(LogEntry(Id))]]
      /\ cur \in [Process -> Instruction]
      /\ HostOf \in [Process -> Host] /\ Server \in Process
      /\ HostOf[Server] \in Host
  BY ProcessAssumption, RemoteAssumption DEF Inv, TypeOK, LoggerTypeOK
<1>1. CASE UNCHANGED disk /\ refused \subseteq refused' /\ UNCHANGED wiped
  BY <1>1 DEF AccountedFor, IdsIn
<1>2. ASSUME NEW p \in Process, LogLineLocal(p), UNCHANGED <<refused, wiped>>
      PROVE  AccountedFor(id)'
  <2> DEFINE own == FileOf(p, Format(p))
             e   == EntryOf(p, cur[p])
  <2>1. disk' = [disk EXCEPT ![HostOf[p]][own] = Append(@, e)]
    BY <1>2 DEF LogLineLocal
  <2>2. e \in LogEntry(Id)
    BY <1>0, EntryOfType
  <2> HIDE DEF own, e
  <2>3. ASSUME NEW file \in FileName
        PROVE  IdsIn(disk[HostOf[Server]][file]) \subseteq IdsIn(disk'[HostOf[Server]][file])
    <3>1. \/ disk'[HostOf[Server]][file] = disk[HostOf[Server]][file]
          \/ disk'[HostOf[Server]][file] = Append(disk[HostOf[Server]][file], e)
      BY <1>0, <2>1
    <3>2. disk[HostOf[Server]][file] \in Seq(LogEntry(Id))
      BY <1>0
    <3>3. ASSUME NEW s \in Seq(LogEntry(Id))
          PROVE  IdsIn(s) \subseteq IdsIn(Append(s, e))
      BY <2>2 DEF IdsIn
    <3> QED
      BY <3>1, <3>2, <3>3
  <2> QED
    BY <1>2, <2>3 DEF AccountedFor
<1>3. ASSUME NEW p \in Process, Create(p)
      PROVE  AccountedFor(id)'
  <2>1. PICK f \in FileFormat :
           /\ disk' = [disk EXCEPT ![HostOf[p]][<<FileCount[p], f>>] = << >>]
           /\ wiped' = wiped \cup IdsIn(disk[HostOf[p]][<<FileCount[p], f>>])
           /\ UNCHANGED refused
    BY <1>3 DEF Create, CreateInterface
  <2>2. CASE id \in wiped \cup refused
    BY <2>1, <2>2 DEF AccountedFor
  <2>3. ASSUME NEW file \in FileName, id \in IdsIn(disk[HostOf[Server]][file])
        PROVE  AccountedFor(id)'
    <3>1. CASE HostOf[p] = HostOf[Server] /\ file = <<FileCount[p], f>>
      BY <2>1, <2>3, <3>1 DEF AccountedFor
    <3>2. CASE ~(HostOf[p] = HostOf[Server] /\ file = <<FileCount[p], f>>)
      <4>1. disk'[HostOf[Server]][file] = disk[HostOf[Server]][file]
        BY <1>0, <2>1, <3>2
      <4> QED
        BY <2>3, <4>1 DEF AccountedFor, IdsIn
    <3> QED
      BY <3>1, <3>2
  <2> QED
    BY <2>2, <2>3 DEF AccountedFor
<1> QED
  BY <1>1, <1>2, <1>3, DiskStep

\* The server comes to the end of HandleInstruction by LogLine only.
LEMMA ServerBecomesDone ==
    ASSUME Inv, [Next]_vars, pc'[Server] = "done"
    PROVE  \/ pc[Server] = "done" /\ cur'[Server] = cur[Server]
           \/ UNCHANGED cur /\ (Log(Server) \/ Full(Server) \/ OpenFails(Server))
<1>1. ASSUME NEW l \in Logger,
             \/ Submit(l) \/ LoggerProgress(l) \/ OpenFails(l)
             \/ RequestFails(l) \/ RequestRecvFails(l) \/ LoggerDies(l)
      PROVE  pc'[Server] = pc[Server] /\ cur'[Server] = cur[Server]
  <2>1. ASSUME Create(l) \/ Log(l) \/ Full(l) \/ OpenFails(l) \/ Dies(l)
        PROVE  (UNCHANGED pc \/ \E x : pc' = [pc EXCEPT ![l] = x]) /\ UNCHANGED cur
    BY <2>1
    DEF Create, CreateInterface, Log, NoFileInterface, LogLineLocal, LogLineThrows,
        LogLineRemote, LogLineNoRemoteHost, LogLineNone, Full, LogLineFull, OpenFails,
        LogLineOpenFails, Counted, InLogLine, Dies, CreateInterfaceFails, LogLineCrashes,
        Exit, GoTo
  <2>2. ASSUME Submit(l) \/ RequestSend(l)
        PROVE  UNCHANGED <<pc, cur>>
    BY <2>2 DEF Submit, RequestSend, loggerVars
  <2>3. ASSUME LoggerReturns(l) \/ RequestReceive(l) \/ RequestFails(l) \/ RequestRecvFails(l)
        PROVE  (\E x : pc' = [pc EXCEPT ![l] = x]) /\ UNCHANGED cur
    BY <2>3 DEF LoggerReturns, Return, RequestReceive, RequestFails, RequestRecvFails,
                RequestReturns, GoTo
  <2>4. ASSUME Dequeue(l)
        PROVE  (\E x : pc' = [pc EXCEPT ![l] = x]) /\ (\E y : cur' = [cur EXCEPT ![l] = y])
    BY <2>4 DEF Dequeue, HandleInstruction, GoTo
  <2> QED
    BY <1>1, <2>1, <2>2, <2>3, <2>4, Types DEF LoggerProgress, LoggerDies
<1>2. ASSUME \/ \E m \in net : Arrive(m) \/ ArriveTwice(m) \/ LoseRequest(m)
             \/ \E m \in replies : LoseReply(m)
             \/ UNCHANGED vars \/ Initialize \/ Interrupted
      PROVE  UNCHANGED <<pc, cur>>
  BY <1>2 DEF Arrive, ArriveTwice, LoseRequest, LoseReply, Initialize, Interrupted, vars, loggerVars
<1>3. ASSUME \/ \E m \in inbox : HandleIncomingData(m)
             \/ Create(Server) \/ Respond \/ Swallow
             \/ EpollError \/ InterruptedTooOften \/ ServerDies
      PROVE  FALSE
  <2>1. pc'[Server] # "done"
    BY <1>3, Types
    DEF HandleIncomingData, HandleInstruction, Create, CreateInterface, Creates, Respond,
        Return, Swallow, Catch, EpollError, InterruptedTooOften, ServerDies, Dies,
        CreateInterfaceFails, LogLineCrashes, Exit, GoTo
  <2> QED
    BY <2>1
<1>4. ASSUME Log(Server) \/ Full(Server) \/ OpenFails(Server)
      PROVE  UNCHANGED cur
  BY <1>4
  DEF Log, NoFileInterface, LogLineLocal, LogLineThrows, LogLineRemote,
      LogLineNoRemoteHost, LogLineNone, Full, LogLineFull, OpenFails, LogLineOpenFails,
      Counted, InLogLine
<1> QED
  BY <1>1, <1>2, <1>3, <1>4 DEF Next, ServerProgress

\* When LogLine returns in the server it has written the entry, or refused it.
LEMMA ServerAccounts ==
    ASSUME Inv, Log(Server) \/ Full(Server) \/ OpenFails(Server), pc'[Server] = "done"
    PROVE  AccountedFor(cur[Server].id)'
<1>0. /\ disk \in [Host -> [FileName -> Seq(LogEntry(Id))]]
      /\ cur[Server] \in Instruction
      /\ FileNo \in [Process -> [FileFormat -> 0..1]]
      /\ HostOf[Server] \in Host /\ Server \in Process
  BY ProcessAssumption, RemoteAssumption DEF Inv, TypeOK, LoggerTypeOK
<1>1. pc[Server] = "exec" /\ UNCHANGED cur
  BY DEF Log, NoFileInterface, LogLineLocal, LogLineThrows, LogLineRemote,
         LogLineNoRemoteHost, LogLineNone, Full, LogLineFull, OpenFails, LogLineOpenFails,
         Counted, InLogLine
<1>2. cur[Server].TMode = Local /\ Format(Server) \in FileFormat
  BY <1>1 DEF Inv, RolesOK, Handling
<1>3. CASE Full(Server) \/ OpenFails(Server)
  BY <1>1, <1>3 DEF Full, OpenFails, AccountedFor
<1>4. CASE LogLineLocal(Server)
  <2> DEFINE own == FileOf(Server, Format(Server))
             e   == EntryOf(Server, cur[Server])
  <2>1. disk' = [disk EXCEPT ![HostOf[Server]][own] = Append(@, e)]
    BY <1>4 DEF LogLineLocal
  <2>2. own \in FileName
    BY <1>0, <1>2 DEF FileOf, FileName
  <2>3. e \in LogEntry(Id) /\ e.id = cur[Server].id
    <3>1. e \in LogEntry(Id)
      BY <1>0, EntryOfType
    <3>2. e.id = cur[Server].id
      BY DEF EntryOf
    <3> QED
      BY <3>1, <3>2
  <2> HIDE DEF own, e
  <2>4. disk'[HostOf[Server]][own] = Append(disk[HostOf[Server]][own], e)
    BY <1>0, <2>1, <2>2
  <2>5. disk[HostOf[Server]][own] \in Seq(LogEntry(Id))
    BY <1>0, <2>2
  <2>6. ASSUME NEW s \in Seq(LogEntry(Id))
        PROVE  e.id \in IdsIn(Append(s, e))
    <3>1. Len(s) + 1 \in DOMAIN Append(s, e) /\ Append(s, e)[Len(s) + 1] = e
      BY <2>3
    <3> QED
      BY <3>1 DEF IdsIn
  <2>7. cur[Server].id \in IdsIn(disk'[HostOf[Server]][own])
    BY <2>3, <2>4, <2>5, <2>6
  <2> QED
    BY <1>1, <2>2, <2>7 DEF AccountedFor
<1>5. ASSUME \/ NoFileInterface(Server) \/ LogLineThrows(Server) \/ LogLineRemote(Server)
             \/ LogLineNoRemoteHost(Server) \/ LogLineNone(Server)
      PROVE  FALSE
  BY <1>2, <1>5, Types
  DEF NoFileInterface, LogLineThrows, LogLineRemote, LogLineNoRemoteHost, LogLineNone,
      Forwards, Local, Remote, GoTo
<1> QED
  BY <1>3, <1>4, <1>5 DEF Log

LEMMA NextDone ==
    ASSUME Inv, [Next]_vars
    PROVE  DoneOK' /\ AckedIsAccountedFor'
<1>1. pc'[Server] = "done" => AccountedFor(cur[Server].id)' /\ cur'[Server] = cur[Server]
  BY ServerBecomesDone, ServerAccounts, AccountsKept DEF Inv, DoneOK
<1>2. \A m \in replies' \ replies : pc[Server] = "done" /\ m.id = cur[Server].id
  BY DEF Next, LoggerProgress, ServerProgress, Submit, Dequeue, Create, Log, Full,
         OpenFails, LoggerReturns, LoggerDies, RequestSend, RequestReceive, RequestFails,
         RequestRecvFails, Arrive, ArriveTwice, LoseRequest, LoseReply, Initialize,
         HandleIncomingData, Respond, Return, Swallow, EpollError, Interrupted,
         InterruptedTooOften, ServerDies, CloseAll, vars, netVars
<1>3. \A id \in acked' \ acked : \E m \in replies : m.id = id
  BY DEF Next, LoggerProgress, ServerProgress, Submit, Dequeue, Create, Log, Full,
         OpenFails, LoggerReturns, LoggerDies, RequestSend, RequestReceive, RequestFails,
         RequestRecvFails, Arrive, ArriveTwice, LoseRequest, LoseReply, Initialize,
         HandleIncomingData, Respond, Swallow, EpollError, Interrupted,
         InterruptedTooOften, ServerDies, CloseAll, vars, historyVars
<1>4. DoneOK'
  <2>1. pc'[Server] = "done" => AccountedFor(cur[Server].id)'
    BY <1>1
  <2>2. \A m \in replies' : AccountedFor(m.id)
    BY <1>2 DEF Inv, DoneOK
  <2>3. \A m \in replies' : AccountedFor(m.id)'
    BY <2>2, AccountsKept
  <2> QED
    BY <1>1, <2>3 DEF DoneOK, AccountedFor
<1>5. AckedIsAccountedFor'
  <2>1. \A id \in acked' : AccountedFor(id)
    BY <1>3 DEF Inv, DoneOK, AckedIsAccountedFor
  <2> QED
    BY <2>1, AccountsKept DEF AckedIsAccountedFor
<1> QED
  BY <1>4, <1>5

--------------------------------------------------------------------------------
(* Types *)

\* What a logger sends is a request.
LEMMA SentIsRequest ==
    ASSUME Inv, NEW l \in Logger, pc[l] = "request"
    PROVE  [id |-> cur[l].id, from |-> l,
            wire |-> SerializeRequest(RequestOf(l, cur[l]))] \in Request
<1>1. l \in Process /\ l \in Pid /\ cur[l] \in Instruction
  BY Types, ProcessAssumption
<1>2. SerializeEntry(EntryOf(l, cur[l])) \in Text
  BY <1>1, EntryOfType, SerializeEntryType
<1>3. FileFormatOf(cur[l].FType) \in FileFormat
  BY <1>1 DEF Inv, RolesOK, Format
<1>4. cur[l].id \in RequestId /\ SeverityOf(cur[l].Type) \in SentSeverity
  <2>1. /\ taken[l] > 0 /\ cur[l].id = <<l, taken[l], 0>>
        /\ taken[l] \in Nat /\ taken[l] <= Len(submitted[l]) /\ Len(submitted[l]) <= MaxSubmit[l]
        /\ Len(submitted[l]) \in Nat
    BY DEF Inv, TypeOK, IdsOK, Busy
  <2>2. taken[l] \in 1..MaxSubmit[l] /\ 0 \in 0..MaxCopies
    BY <2>1, RemoteAssumption
  <2> QED
    BY <1>1, <2>1, <2>2, RequestIdMade DEF Instruction, LoggerInstruction, SentSeverity
<1>5. RequestOf(l, cur[l]) \in ServerRequest(Id)
  BY <1>1, <1>2, <1>3, <1>4, RemoteAssumption DEF RequestOf, ServerRequest
<1>6. SerializeRequest(RequestOf(l, cur[l])) \in Wire
  BY <1>5, SerializeRequestType
<1> QED
  BY <1>4, <1>6 DEF Request

LEMMA IdsInType ==
    ASSUME NEW s \in Seq(LogEntry(Id))
    PROVE  IdsIn(s) \subseteq Id
<1>1. \A i \in DOMAIN s : s[i] \in LogEntry(Id)
  OBVIOUS
<1>2. \A e \in LogEntry(Id) : e.id \in Id
  BY DEF LogEntry
<1> QED
  BY <1>1, <1>2 DEF IdsIn

LEMMA NextTypeOK ==
    ASSUME Inv, [Next]_vars
    PROVE  TypeOK'
<1> USE DEF Inv, TypeOK
<1>0. LoggerTypeOK'
  BY NextLoggerInv DEF LoggerInv
<1>1. \A p \in Process : cur[p].id \in Id
  BY Types DEF Instruction, LoggerInstruction
<1>2. ASSUME NEW l \in Logger, Submit(l)
      PROVE  TypeOK'
  BY <1>0, <1>2, SubmitStep DEF Submit, netVars, serverVars, historyVars
<1>3. ASSUME NEW l \in Logger, Dequeue(l)
      PROVE  TypeOK'
  BY <1>0, <1>3 DEF Dequeue, netVars, serverVars, historyVars
<1>4. ASSUME NEW p \in Process, Create(p)
      PROVE  TypeOK'
  <2>1. PICK f \in FileFormat :
           /\ CreateInterface(p, f)
           /\ wiped' = wiped \cup IdsIn(disk[HostOf[p]][<<FileCount[p], f>>])
    BY <1>4 DEF Create
  <2>2. LoggerInv /\ HostOf[p] \in Host
    BY ProcessAssumption DEF LoggerInv
  <2>3. disk[HostOf[p]][<<FileCount[p], f>>] \in Seq(LogEntry(Id))
    BY <2>1, <2>2, CreatedNumber DEF LoggerTypeOK
  <2>4. IdsIn(disk[HostOf[p]][<<FileCount[p], f>>]) \subseteq Id
    BY <2>3, IdsInType
  <2> QED
    BY <1>0, <1>4, <2>1, <2>4 DEF Create, netVars, serverVars
<1>5. ASSUME NEW p \in Process, Log(p)
      PROVE  TypeOK'
  BY <1>0, <1>5 DEF Log, netVars, serverVars, historyVars
<1>6. ASSUME NEW p \in Process, Full(p) \/ OpenFails(p)
      PROVE  TypeOK'
  BY <1>0, <1>1, <1>6 DEF Full, OpenFails, netVars, serverVars
<1>7. ASSUME NEW l \in Logger, LoggerDies(l) \/ LoggerReturns(l) \/ RequestFails(l)
      PROVE  TypeOK'
  BY <1>0, <1>7 DEF LoggerDies, LoggerReturns, RequestFails, netVars, serverVars, historyVars
<1>8. ASSUME NEW l \in Logger, RequestSend(l)
      PROVE  TypeOK'
  BY <1>0, <1>8, SentIsRequest DEF RequestSend, serverVars, historyVars
<1>9. ASSUME NEW l \in Logger, RequestRecvFails(l)
      PROVE  TypeOK'
  BY <1>0, <1>1, <1>9, Types DEF RequestRecvFails, netVars, serverVars
<1>10. ASSUME NEW l \in Logger, RequestReceive(l)
       PROVE  TypeOK'
  <2>1. \A m \in replies : m.id \in Id
    BY RemoteAssumption DEF Reply
  <2> QED
    BY <1>0, <1>10, <2>1 DEF RequestReceive, serverVars
<1>11. \A m \in net \cup inbox \cup replies : m.id \in Id
  BY RemoteAssumption DEF Request, Reply
<1>12. ASSUME NEW m \in net, Arrive(m) \/ LoseRequest(m)
       PROVE  TypeOK'
  BY <1>0, <1>11, <1>12 DEF Arrive, Deliver, LoseRequest, serverVars
<1>21. ASSUME NEW m \in net, ArriveTwice(m)
       PROVE  TypeOK'
  <2>1. PICK l \in Logger, n \in Nat, c \in Nat :
           LET copy == [m EXCEPT !.id = <<l, n, c + 1>>] IN
           /\ copy \in Request
           /\ net' = (net \ {m}) \cup {copy}
           /\ copies' = copies \cup {<<l, n, c + 1>>}
           /\ <<l, n, c + 1>> \in RequestId
    BY <1>21, ArriveTwiceStep
  <2>2. net' \subseteq Request /\ copies' \subseteq RequestId
    BY <2>1
  <2>3. inbox' \subseteq Request /\ lost' \subseteq Id
    BY <1>11, <1>21 DEF ArriveTwice, Deliver
  <2> QED
    BY <1>0, <1>21, <2>2, <2>3 DEF ArriveTwice, serverVars
<1>13. ASSUME NEW m \in replies, LoseReply(m)
       PROVE  TypeOK'
  BY <1>0, <1>11, <1>13 DEF LoseReply, serverVars
<1>14. CASE Initialize
  BY <1>0, <1>14 DEF Initialize, netVars, historyVars
<1>15. ASSUME NEW m \in inbox, HandleIncomingData(m)
       PROVE  TypeOK'
  <2>1. m.from \in Process
    BY Types DEF Request
  <2> QED
    BY <1>0, <1>15, <2>1, RemoteAssumption DEF HandleIncomingData, historyVars
<1>16. CASE Respond
  <2>1. [id |-> cur[Server].id, to |-> client] \in Reply
    BY <1>1, <1>16, Types DEF Respond, Return, RolesOK, CopiesOK, Handling, Reply
  <2> QED
    BY <1>0, <1>16, <2>1 DEF Respond, serverVars, historyVars
<1>17. CASE Swallow
  BY <1>0, <1>1, <1>17, Types DEF Swallow, netVars, serverVars
<1>18. CASE CloseAll
  BY <1>0, <1>1, <1>11, <1>18, Types DEF CloseAll
<1>19. CASE Interrupted
  BY <1>0, <1>19, RemoteAssumption DEF Interrupted, netVars, historyVars
<1>20. CASE UNCHANGED vars
  BY <1>0, <1>20 DEF vars, netVars, serverVars, historyVars
<1> QED
  BY <1>2, <1>3, <1>4, <1>5, <1>6, <1>7, <1>8, <1>9, <1>10, <1>12, <1>13, <1>14, <1>15,
     <1>16, <1>17, <1>18, <1>19, <1>20, <1>21, Types
  DEF Next, LoggerProgress, ServerProgress, EpollError, InterruptedTooOften, ServerDies

--------------------------------------------------------------------------------
(* The theorems *)

LEMMA InitInv == Init => Inv
<1> SUFFICES ASSUME Init PROVE Inv
  OBVIOUS
<1>1. LoggerInv
  BY LoggerInitInv DEF Init
<1>2. TypeOK
  <2>1. /\ submitted \in [Logger -> Seq(Instruction)]
        /\ taken \in [Logger -> Nat]
        /\ \A l \in Logger : Len(submitted[l]) <= MaxSubmit[l] /\ taken[l] <= Len(submitted[l])
    BY RemoteAssumption DEF Init
  <2>2. /\ retryCount \in 0..maxRetries
        /\ client \in Process
    BY RemoteAssumption DEF Init
  <2>3. /\ running \in BOOLEAN /\ bound \in BOOLEAN
        /\ EpollFD \in BOOLEAN /\ registered \in BOOLEAN
    BY DEF Init
  <2> QED
    BY <1>1, <2>1, <2>2, <2>3 DEF LoggerInv, Init, TypeOK
<1>3. pc = [p \in Process |-> "idle"] /\ ~Handling
  BY RemoteAssumption DEF Init, LoggerInit, Handling
<1>4. IdsOK /\ RolesOK
  BY <1>3, RemoteAssumption DEF Init, IdsOK, RolesOK, Busy, Logger
<1>5. CopiesOK /\ FreshOK /\ OneCopy /\ BlockedIsExplained
  BY <1>3 DEF Init, CopiesOK, FreshOK, OneCopy, BlockedIsExplained, Underway
<1>6. DoneOK /\ AckedIsAccountedFor
  BY <1>3, RemoteAssumption DEF Init, DoneOK, AckedIsAccountedFor
<1> QED
  BY <1>1, <1>2, <1>4, <1>5, <1>6 DEF Inv, LoggerInv

LEMMA NextInv == Inv /\ [Next]_vars => Inv'
BY NextInvA, NextLoggerInv, NextDone, NextTypeOK DEF Inv, InvA, LoggerInv

\* The invariant of all theorems below.
LEMMA SpecInv == Spec => []Inv
BY InitInv, NextInv, PTL DEF Spec

\* With any number of loggers, any buffer and any failure: queue, exchange and
\* server state stay well typed, the text conversions and enumeration casts
\* never leave their types, and EINTRs are counted up to maxRetries.
THEOREM TypeCorrect == Spec => []TypeOK
<1>1. Inv => TypeOK
  BY DEF Inv
<1> QED
  BY SpecInv, <1>1, PTL

\* The code multiplies nothing, whatever the network does: Request sends once,
\* and HandleIncomingData answers once what it reads once, so a request is in two
\* places only where the network duplicated it between two hosts.  It does not
\* say that the server recognizes such a copy: it does not.
THEOREM OnlyTheNetworkCopies == Spec => []OneCopy
<1>1. Inv => OneCopy
  BY DEF Inv
<1> QED
  BY SpecInv, <1>1, PTL

\* A logger blocks in Request for no other reason than the recorded ones.
THEOREM BlockedForAReason == Spec => []BlockedIsExplained
<1>1. Inv => BlockedIsExplained
  BY DEF Inv
<1> QED
  BY SpecInv, <1>1, PTL

\* A response is never sent for an entry that is neither in the server's file,
\* nor truncated away, nor refused by LogLine.
THEOREM AnswersAreAccountedFor == Spec => []AckedIsAccountedFor
<1>1. Inv => AckedIsAccountedFor
  BY DEF Inv
<1> QED
  BY SpecInv, <1>1, PTL

\* The server never enters ServerConnection::Request.
THEOREM ServerLogsLocally == Spec => []ServerNeverForwards
<1>1. Inv => ServerNeverForwards
  BY DEF Inv, RolesOK, ServerNeverForwards
<1> QED
  BY SpecInv, <1>1, PTL

--------------------------------------------------------------------------------
(* What MainLogger promises of its files holds of the loggers and the server   *)
(* together: they are its processes, and the server's interfaces write to the  *)
(* same files as those of the loggers on its host.                             *)

LEMMA NextCountsCoverFile == Inv /\ CountsCoverFile /\ [Next]_vars => CountsCoverFile'
<1> SUFFICES ASSUME Inv, CountsCoverFile, [Next]_vars PROVE CountsCoverFile'
  OBVIOUS
<1>1. LoggerInv
  BY DEF Inv, TypeOK, LoggerInv
<1>2. CASE UNCHANGED loggerVars
  BY <1>1, <1>2, StutterCountsCoverFile
<1>3. ASSUME NEW p \in Process, NEW ins \in Instruction, LoggerStep(p, ins)
      PROVE  CountsCoverFile'
  BY <1>1, <1>3, StepCountsCoverFile
<1> QED
  BY <1>2, <1>3, NextIsLoggerStep

LEMMA NextGrows == Inv /\ [Next]_vars => [SettledFilesGrow]_disk
<1> SUFFICES ASSUME Inv, [Next]_vars PROVE [SettledFilesGrow]_disk
  OBVIOUS
<1>1. LoggerInv
  BY DEF Inv, TypeOK, LoggerInv
<1>2. CASE UNCHANGED loggerVars
  BY <1>2 DEF loggerVars
<1>3. ASSUME NEW p \in Process, NEW ins \in Instruction, LoggerStep(p, ins)
      PROVE  SettledFilesGrow
  BY <1>1, <1>3, StepGrows
<1> QED
  BY <1>2, <1>3, NextIsLoggerStep

\* The processes of MainLogger, called with any instructions.
LoggersRun ==
    LoggerInit /\ [][\E p \in Process, ins \in Instruction : LoggerStep(p, ins)]_loggerVars

\* With queues, datagrams and the server's loop around them, and with all their
\* failures, loggers and server are processes of MainLogger and nothing else: what
\* surrounds HandleInstruction never touches its singleton, its counters or files.
THEOREM LoggersAreMainLoggers == Spec => LoggersRun
<1>1. Init => LoggerInit
  BY DEF Init
<1>2. Inv /\ [Next]_vars =>
        [\E p \in Process, ins \in Instruction : LoggerStep(p, ins)]_loggerVars
  BY NextIsLoggerStep
<1> QED
  BY SpecInv, <1>1, <1>2, PTL DEF Spec, LoggersRun

\* Whatever is lost, refused or cut short between them, the loggers of one host
\* and the server share their files as MainLogger says: by the same names, with
\* counts that cover every file and bound it, and without a line lost once all
\* have opened it.
THEOREM FilesOfAllLoggers ==
    Spec => []SameNames /\ []CountsCoverFile /\ []FileIsBounded /\ AppendOnlyOnceOpened
<1>1. Inv => SameNames
  <2>1. Inv => LoggerInv
    BY DEF Inv, TypeOK, LoggerInv
  <2> QED BY <2>1, NumberingNames
<1>2. Init => CountsCoverFile
  BY InitCountsCoverFile DEF Init
<1>3. Inv /\ CountsCoverFile => FileIsBounded
  <2>1. Inv => LoggerInv
    BY DEF Inv, TypeOK, LoggerInv
  <2> QED BY <2>1, CountsBound
<1> QED
  BY SpecInv, <1>1, <1>2, <1>3, NextCountsCoverFile, NextGrows, PTL DEF Spec, AppendOnlyOnceOpened

================================================================================
