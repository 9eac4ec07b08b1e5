--------------------------- MODULE RemoteStoreProofs ---------------------------
(*****************************************************************************)
(* RemoteLogging implements EntryStore, for any number of loggers, hosts and  *)
(* instructions and with any failure; where its entries come from, and in     *)
(* which order they are written.                                              *)
(*****************************************************************************)
EXTENDS RemoteStore, RemoteLoggingProofs

\* Sent, and not yet logged by the server.
InFlight(id) ==
    \/ \E m \in net \cup inbox : m.id = id
    \/ pc[Server] = "exec" /\ cur[Server].id = id

\* May still be stored.
Owed(id) ==
    \/ InFlight(id)
    \/ \E l \in Logger, n \in Nat, c \in Nat : id = <<l, n, c>> /\ Fresh(l, n, c)

Decided(id) ==
    \/ \E f \in File : id \in IdsIn(disk[f[1]][f[2]])
    \/ id \in wiped \cup refused

OnceOK == \A id : Owed(id) => ~Decided(id)

Unique ==
    \A f, g \in File :
        \A i \in DOMAIN disk[f[1]][f[2]], j \in DOMAIN disk[g[1]][g[2]] :
            disk[f[1]][f[2]][i].id = disk[g[1]][g[2]][j].id => f = g /\ i = j

\* Has the network duplicated the request for the n-th instruction of l?
Doubled(l, n) == \E c \in copies : Original(c) = <<l, n, 0>>

\* Only what its logger still waits for, or has given up, is in flight, and
\* copies.
FlightOK ==
    \A l \in Logger, n \in Nat, c \in Nat : InFlight(<<l, n, c>>) =>
        \/ <<l, n, 0>> \in abandoned
        \/ Doubled(l, n)
        \/ l \in awaiting /\ n = taken[l]

\* A logger at work has in hand the instruction it took last.
WorkOK ==
    \A l \in Logger : (pc[l] \in Busy \/ l \in awaiting) =>
        /\ cur[l] = submitted[l][taken[l]]
        /\ pc[l] = "request" => Forwards(Format(l), cur[l].TMode)

\* m is the request that logger l makes of its n-th instruction, or a copy.
Sent(m, l, n) ==
    /\ n \in 1..taken[l]
    /\ BelongsTo(m.id, l, n)
    /\ m.wire = SerializeRequest(RequestOf(l, submitted[l][n]))
    /\ Forwards(FileFormatOf(submitted[l][n].FType), submitted[l][n].TMode)

NetOK == \A m \in net \cup inbox : \E l \in Logger, n \in Nat : Sent(m, l, n)

\* ins is what the server makes of the request for the n-th instruction of l.
Got(ins, l, n) ==
    LET sent == submitted[l][n] IN
    /\ n \in 1..taken[l]
    /\ BelongsTo(ins.id, l, n)
    /\ ins.PID = l
    /\ SeverityOf(ins.Type) = SeverityOf(sent.Type)
    /\ FileFormatOf(ins.FType) = FileFormatOf(sent.FType)
    /\ Forwards(FileFormatOf(sent.FType), sent.TMode)
    /\ Intact(sent) => ins.Data = RemoteText(l, sent)

ServerOK == pc[Server] = "exec" => \E l \in Logger, n \in Nat : Got(cur[Server], l, n)

\* What the way of an instruction to the server amounts to.
Trail == FlightOK /\ WorkOK /\ NetOK /\ ServerOK

IInv == Inv /\ Trail /\ OnceOK /\ Unique /\ Provenance /\ FileOrder

--------------------------------------------------------------------------------
(* Steps on the way of an instruction to the server *)

OwedShrinks == \A id : Owed(id)' => Owed(id)

\* Process p moves on, and nothing is sent, received or taken from a queue.
LEMMA OnwardStep ==
    ASSUME IInv, NEW p \in Process, NEW x, GoTo(p, x),
           UNCHANGED <<cur, submitted, taken, copies>>,
           x \in {"exec", "request"} => pc[p] = x \/ pc[p] = "exec",
           x = "request" => p # Server,
           x = "request" => Forwards(Format(p), cur[p].TMode),
           x \in Busy => pc[p] \in Busy,
           net' \subseteq net, inbox' \subseteq net \cup inbox,
           abandoned \subseteq abandoned',
           \/ awaiting' = awaiting
           \/ /\ awaiting' = awaiting \ {p}
              /\ x \notin {"exec", "request"}
              /\ \/ cur[p].id \in abandoned'
                 \/ \A c \in Nat : InFlight(<<p, taken[p], c>>) => Doubled(p, taken[p])
    PROVE  OwedShrinks /\ Trail'
<1>1. /\ pc \in [Process -> PC]
      /\ Server \in Process /\ Server \notin Logger /\ Logger \subseteq Process
      /\ awaiting \subseteq Logger
      /\ pc' = [pc EXCEPT ![p] = x]
  BY Types DEF IInv, GoTo
<1>2. \A id : InFlight(id)' => InFlight(id)
  BY <1>1 DEF InFlight
<1>3. \A l \in Logger, n \in Nat, c \in Nat : Fresh(l, n, c)' => Fresh(l, n, c)
  BY <1>1 DEF Fresh
<1>4. OwedShrinks
  BY <1>2, <1>3 DEF OwedShrinks, Owed
<1>5. FlightOK'
  <2> SUFFICES ASSUME NEW l \in Logger, NEW n \in Nat, NEW c \in Nat, InFlight(<<l, n, c>>)'
               PROVE  \/ <<l, n, 0>> \in abandoned'
                      \/ Doubled(l, n)
                      \/ l \in awaiting' /\ n = taken[l]
    BY DEF FlightOK, Doubled
  <2>1. <<l, n, 0>> \in abandoned \/ Doubled(l, n) \/ (l \in awaiting /\ n = taken[l])
    BY <1>2 DEF IInv, Trail, FlightOK
  <2>2. CASE l \in awaiting /\ l \notin awaiting' /\ n = taken[l]
    BY <1>2, <2>2 DEF IInv, Inv, IdsOK
  <2> QED
    BY <2>1, <2>2
<1>6. WorkOK'
  BY <1>1 DEF IInv, Trail, WorkOK, Format, Busy
<1>7. NetOK'
  BY DEF IInv, Trail, NetOK, Sent, BelongsTo
<1>8. ServerOK'
  BY <1>1 DEF IInv, Trail, ServerOK, Got, BelongsTo
<1> QED
  BY <1>4, <1>5, <1>6, <1>7, <1>8 DEF Trail

\* The steps of LogLine, and the others of a process on its own.
LEMMA OnwardLog ==
    ASSUME IInv, NEW p \in Process, Log(p) \/ Full(p) \/ OpenFails(p) \/ Create(p)
    PROVE  OwedShrinks /\ Trail'
<1>1. /\ pc \in [Process -> PC]
      /\ p = Server /\ pc[p] = "exec" => cur[p].TMode = Local /\ Format(p) \in FileFormat
  BY DEF IInv, Inv, TypeOK, LoggerTypeOK, PC, RolesOK, Handling
<1>2. CASE NoFileInterface(p) /\ Log(p)
  BY <1>1, <1>2, OnwardStep
  DEF NoFileInterface, Log, Busy, netVars, serverVars, historyVars
<1>3. CASE LogLineLocal(p) /\ Log(p)
  BY <1>1, <1>3, OnwardStep
  DEF LogLineLocal, Counted, InLogLine, Log, Busy, netVars, serverVars, historyVars
<1>4. CASE LogLineThrows(p) /\ Log(p)
  BY <1>1, <1>4, OnwardStep
  DEF LogLineThrows, Counted, InLogLine, Log, Busy, netVars, serverVars, historyVars
<1>5. CASE LogLineRemote(p) /\ Log(p)
  <2>1. p # Server
    BY <1>1, <1>5
    DEF LogLineRemote, Counted, InLogLine, Forwards, Local, Remote
  <2> QED
    BY <1>1, <1>5, <2>1, OnwardStep
    DEF LogLineRemote, Counted, InLogLine, Log, Busy, netVars, serverVars, historyVars
<1>6. CASE LogLineNoRemoteHost(p) /\ Log(p)
  BY <1>1, <1>6, OnwardStep
  DEF LogLineNoRemoteHost, Counted, InLogLine, Log, Busy, netVars, serverVars, historyVars
<1>7. CASE LogLineNone(p) /\ Log(p)
  BY <1>1, <1>7, OnwardStep
  DEF LogLineNone, Counted, InLogLine, Log, Busy, netVars, serverVars, historyVars
<1>8. CASE Full(p)
  BY <1>1, <1>8, OnwardStep
  DEF Full, LogLineFull, InLogLine, Busy, netVars, serverVars
<1>9. CASE OpenFails(p)
  BY <1>1, <1>9, OnwardStep
  DEF OpenFails, LogLineOpenFails, Counted, InLogLine, Busy, netVars, serverVars
<1>10. CASE Create(p)
  <2>1. pc[p] = "exec" /\ GoTo(p, "exec")
    BY <1>1, <1>10 DEF Create, CreateInterface, Creates, GoTo
  <2> QED
    BY <1>1, <1>10, <2>1, OnwardStep
    DEF Create, CreateInterface, Busy, netVars, serverVars
<1> QED
  BY <1>2, <1>3, <1>4, <1>5, <1>6, <1>7, <1>8, <1>9, <1>10 DEF Log

LEMMA OnwardLogger ==
    ASSUME IInv, NEW l \in Logger,
           \/ LoggerDies(l) \/ LoggerReturns(l)
           \/ RequestFails(l) \/ RequestRecvFails(l) \/ RequestReceive(l)
    PROVE  OwedShrinks /\ Trail'
<1>1. l \in Process /\ pc \in [Process -> PC]
  BY Types DEF IInv
<1>2. CASE LoggerDies(l)
  <2>1. GoTo(l, "exited") /\ UNCHANGED cur
    BY <1>2
    DEF LoggerDies, Dies, CreateInterfaceFails, LogLineCrashes, Counted, InLogLine, Exit
  <2> QED
    BY <1>1, <1>2, <2>1, OnwardStep
    DEF LoggerDies, Busy, netVars, serverVars, historyVars
<1>3. CASE LoggerReturns(l)
  BY <1>1, <1>3, OnwardStep
  DEF LoggerReturns, Return, Busy, netVars, serverVars, historyVars
<1>4. CASE RequestFails(l)
  BY <1>1, <1>4, OnwardStep
  DEF RequestFails, RequestReturns, Busy, netVars, serverVars, historyVars
<1>5. CASE RequestRecvFails(l)
  BY <1>1, <1>5, OnwardStep
  DEF RequestRecvFails, RequestReturns, Busy, netVars
<1>6. CASE RequestReceive(l)
  <2>1. PICK m \in replies : Original(m.id) = cur[l].id
    BY <1>6 DEF RequestReceive, Awaits
  <2>2. \A o \in net \cup inbox : o.id # m.id
    <3>1. m \notin net \cup inbox
      BY Types, RequestIsNotReply DEF IInv
    <3> QED
      BY <3>1 DEF IInv, Inv, OneCopy
  <2>3. ~InFlight(m.id)
    BY <2>2 DEF IInv, Inv, OneCopy, InFlight, Handling
  <2>4. l \in awaiting /\ cur[l].id = <<l, taken[l], 0>>
    BY <1>6 DEF RequestReceive, Awaits, IInv, Inv, IdsOK
  <2>5. m.id \in RequestId /\ m.id = <<l, taken[l], m.id[3]>> /\ m.id[3] \in Nat
    BY <2>1, <2>4, Types, RequestIdParts DEF IInv, Reply, Original
  <2>6. m.id[3] = 0 \/ m.id \in copies
    BY <2>5 DEF IInv, Inv, OneCopy, Underway
  <2>7. ASSUME NEW c \in Nat, InFlight(<<l, taken[l], c>>)
        PROVE  Doubled(l, taken[l])
    <3>1. c # m.id[3]
      BY <2>3, <2>5, <2>7
    <3>2. /\ <<l, taken[l], c>> \in RequestId
          /\ Underway(<<l, taken[l], c>>)
      BY <2>7, Types DEF IInv, Inv, CopiesOK, InFlight, Underway, Handling, Request
    <3>3. c = 0 \/ <<l, taken[l], c>> \in copies
      BY <3>2 DEF IInv, Inv, OneCopy
    <3> QED
      BY <2>5, <2>6, <3>1, <3>3 DEF Doubled, Original
  <2> QED
    BY <1>1, <1>6, <2>7, OnwardStep DEF RequestReceive, RequestReturns, Busy
<1> QED
  BY <1>2, <1>3, <1>4, <1>5, <1>6

\* Datagrams travel, the server answers, starts or ends, or nothing happens.
LEMMA OnwardServer ==
    ASSUME IInv,
           \/ \E m \in net : Arrive(m) \/ LoseRequest(m)
           \/ \E m \in replies : LoseReply(m)
           \/ Respond \/ Swallow \/ ServerDies \/ EpollError \/ InterruptedTooOften
           \/ Initialize \/ Interrupted \/ UNCHANGED vars
    PROVE  OwedShrinks /\ Trail'
<1>1. Server \in Process /\ pc \in [Process -> PC]
  BY Types DEF IInv
<1>2. CASE \/ \E m \in net : Arrive(m) \/ LoseRequest(m)
           \/ \E m \in replies : LoseReply(m)
           \/ Initialize \/ Interrupted \/ UNCHANGED vars
  <2>1. UNCHANGED pc /\ UNCHANGED <<cur, submitted, taken, awaiting>>
    BY <1>2 DEF Arrive, LoseRequest, LoseReply, Initialize, Interrupted, vars, loggerVars
  <2>2. GoTo(Server, pc[Server])
    BY <1>1, <2>1 DEF GoTo
  <2>3. /\ net' \cup inbox' \subseteq net \cup inbox /\ net' \subseteq net
        /\ abandoned' = abandoned /\ copies' = copies
    BY <1>2 DEF Arrive, Deliver, LoseRequest, LoseReply, Initialize, Interrupted, vars, netVars,
                historyVars
  <2>4. pc[Server] # "request"
    BY DEF IInv, Inv, RolesOK
  <2> QED
    BY <1>1, <2>1, <2>2, <2>3, <2>4, OnwardStep
<1>3. CASE Respond \/ Swallow
  <2>1. GoTo(Server, "idle") /\ UNCHANGED <<cur, submitted, taken, awaiting, net, inbox,
                                              copies, abandoned>>
    BY <1>3 DEF Respond, Swallow, Return, Catch, netVars, historyVars
  <2> QED
    BY <1>1, <2>1, OnwardStep DEF Busy
<1>4. CASE ServerDies \/ EpollError \/ InterruptedTooOften
  <2>1. GoTo(Server, "exited") /\ UNCHANGED cur /\ CloseAll
    BY <1>4 DEF ServerDies, EpollError, InterruptedTooOften, Dies, CreateInterfaceFails,
                LogLineCrashes, Counted, InLogLine, Exit
  <2> QED
    BY <1>1, <2>1, OnwardStep DEF CloseAll, Busy
<1> QED
  BY <1>2, <1>3, <1>4

--------------------------------------------------------------------------------
(* The steps that take an instruction further *)

LEMMA SubmitOnward ==
    ASSUME IInv, NEW l \in Logger, Submit(l)
    PROVE  /\ OwedShrinks /\ Trail'
           /\ \A k \in Logger : \A n \in 1..taken[k] : submitted'[k][n] = submitted[k][n]
<1>1. /\ submitted \in [Logger -> Seq(Instruction)]
      /\ taken \in [Logger -> Nat]
      /\ \A k \in Logger : taken[k] <= Len(submitted[k])
  BY DEF IInv, Inv, TypeOK
<1>2. PICK new : submitted' = [submitted EXCEPT ![l] = Append(@, new)]
  BY DEF Submit
<1>3. UNCHANGED <<pc, cur, taken, awaiting, net, inbox, copies, abandoned>>
  BY DEF Submit, loggerVars, netVars, historyVars
<1>4. \A k \in Logger : \A n \in 1..taken[k] : submitted'[k][n] = submitted[k][n]
  <2>1. ASSUME NEW q \in Seq(Instruction), NEW n \in 1..Len(q)
        PROVE  Append(q, new)[n] = q[n]
    OBVIOUS
  <2> QED
    BY <1>1, <1>2, <2>1
<1>5. OwedShrinks /\ FlightOK'
  <2>1. \A id : InFlight(id)' <=> InFlight(id)
    BY <1>3 DEF InFlight
  <2>2. \A k \in Logger, n \in Nat, c \in Nat : Fresh(k, n, c)' <=> Fresh(k, n, c)
    BY <1>3 DEF Fresh
  <2>3. OwedShrinks
    BY <2>1, <2>2 DEF OwedShrinks, Owed
  <2>4. FlightOK'
    BY <1>3, <2>1 DEF IInv, Trail, FlightOK, Doubled
  <2> QED
    BY <2>3, <2>4
<1>6. WorkOK'
  <2>1. ASSUME NEW k \in Logger, pc[k] \in Busy \/ k \in awaiting
        PROVE  submitted'[k][taken[k]] = submitted[k][taken[k]]
    <3>1. taken[k] \in Nat /\ taken[k] > 0
      BY <1>1, <2>1 DEF IInv, Inv, IdsOK
    <3>2. taken[k] \in 1..taken[k]
      BY <3>1
    <3> QED
      BY <1>4, <3>2
  <2> QED
    BY <1>3, <2>1 DEF IInv, Trail, WorkOK, Format
<1>7. NetOK'
  BY <1>3, <1>4 DEF IInv, Trail, NetOK, Sent, BelongsTo
<1>8. ServerOK'
  BY <1>3, <1>4 DEF IInv, Trail, ServerOK, Got, BelongsTo
<1> QED
  BY <1>4, <1>5, <1>6, <1>7, <1>8 DEF Trail

LEMMA DequeueOnward ==
    ASSUME IInv, NEW l \in Logger, Dequeue(l)
    PROVE  OwedShrinks /\ Trail'
<1>1. /\ pc \in [Process -> PC] /\ cur \in [Process -> Instruction]
      /\ taken \in [Logger -> Nat]
      /\ l \in Process /\ l # Server /\ Server \in Process /\ Logger \subseteq Process
  BY Types DEF IInv
<1>2. /\ pc[l] = "idle"
      /\ pc' = [pc EXCEPT ![l] = "exec"]
      /\ cur' = [cur EXCEPT ![l] = submitted[l][taken[l] + 1]]
      /\ taken' = [taken EXCEPT ![l] = @ + 1]
      /\ UNCHANGED <<submitted, awaiting, net, inbox, copies, abandoned>>
  BY DEF Dequeue, HandleInstruction, GoTo, netVars, historyVars
<1>3. l \notin awaiting
  BY <1>2 DEF IInv, Inv, IdsOK
<1>4. \A id : InFlight(id)' <=> InFlight(id)
  BY <1>1, <1>2 DEF InFlight
<1>5. \A k \in Logger, n \in Nat, c \in Nat : Fresh(k, n, c)' => Fresh(k, n, c)
  BY <1>1, <1>2 DEF Fresh
<1>6. OwedShrinks
  BY <1>4, <1>5 DEF OwedShrinks, Owed
<1>7. FlightOK'
  BY <1>1, <1>2, <1>3, <1>4 DEF IInv, Trail, FlightOK, Doubled
<1>8. WorkOK'
  BY <1>1, <1>2, <1>3 DEF IInv, Trail, WorkOK, Format
<1>9. \A k \in Logger : 1..taken[k] \subseteq 1..taken'[k]
  BY <1>1, <1>2
<1>10. NetOK'
  BY <1>2, <1>9 DEF IInv, Trail, NetOK, Sent, BelongsTo
<1>11. ServerOK'
  BY <1>1, <1>2, <1>9 DEF IInv, Trail, ServerOK, Got, BelongsTo
<1> QED
  BY <1>6, <1>7, <1>8, <1>10, <1>11 DEF Trail

LEMMA RequestSendOnward ==
    ASSUME IInv, NEW l \in Logger, RequestSend(l)
    PROVE  OwedShrinks /\ Trail'
<1> DEFINE m == [id |-> cur[l].id, from |-> l,
                 wire |-> SerializeRequest(RequestOf(l, cur[l]))]
<1>1. /\ pc[l] = "request" /\ l \notin awaiting
      /\ net' = net \cup {m}
      /\ awaiting' = awaiting \cup {l}
      /\ UNCHANGED <<pc, cur, submitted, taken, inbox, copies, abandoned>>
  BY DEF RequestSend, loggerVars, historyVars
<1>2. m.id = cur[l].id /\ m.wire = SerializeRequest(RequestOf(l, cur[l]))
  OBVIOUS
<1> HIDE DEF m
<1>3. /\ cur[l] = submitted[l][taken[l]]
      /\ cur[l].id = <<l, taken[l], 0>>
      /\ taken[l] \in Nat /\ taken[l] > 0
      /\ Forwards(Format(l), cur[l].TMode)
  BY <1>1, Types DEF IInv, Inv, Trail, WorkOK, IdsOK, Busy
<1>4. \A id : InFlight(id)' <=> InFlight(id) \/ id = <<l, taken[l], 0>>
  BY <1>1, <1>2, <1>3 DEF InFlight
<1>5. OwedShrinks
  <2>1. \A k \in Logger, n \in Nat, c \in Nat : Fresh(k, n, c)' => Fresh(k, n, c)
    BY <1>1, <1>2, <1>3 DEF Fresh
  <2>2. Fresh(l, taken[l], 0)
    BY <1>1 DEF Fresh
  <2> QED
    BY <1>3, <1>4, <2>1, <2>2 DEF OwedShrinks, Owed
<1>6. FlightOK'
  BY <1>1, <1>4 DEF IInv, Trail, FlightOK, Doubled
<1>7. WorkOK'
  BY <1>1, <1>3 DEF IInv, Trail, WorkOK, Format
<1>8. Sent(m, l, taken[l])
  BY <1>2, <1>3 DEF Sent, Format, BelongsTo
<1>9. NetOK'
  BY <1>1, <1>3, <1>8 DEF IInv, Trail, NetOK, Sent, BelongsTo
<1>10. ServerOK'
  BY <1>1 DEF IInv, Trail, ServerOK, Got, BelongsTo
<1> QED
  BY <1>5, <1>6, <1>7, <1>9, <1>10 DEF Trail

\* If it fits into the buffer and needs no escape that it already contains, the
\* server gets the line that the logger made, word for word.
LEMMA WordForWord ==
    ASSUME Inv, NEW l \in Logger, NEW ins \in Instruction, Intact(ins),
           NEW line \in Received(SerializeRequest(RequestOf(l, ins)).line, BufferSize)
    PROVE  DeserializeData(line) = RemoteText(l, ins)
<1> DEFINE e == EntryOf(l, ins)
           data == SerializeEntry(e)
<1>1. HostOf[l] \in Host /\ ins.PID \in Pid /\ ins.Data \in Text
  BY Types, ProcessAssumption DEF Instruction, LoggerInstruction
<1>2. SerializeSeverity(SeverityOf(ins.Type)) \in Label
  <2>1. SeverityOf(ins.Type) \in Int
    BY DEF Instruction, LoggerInstruction, InstructionType, ReflectLog, SeverityOf
  <2> QED
    BY <2>1, SerializeSeverityType
<1>3. /\ e.label = SerializeSeverity(SeverityOf(ins.Type))
      /\ e.Source[1] = HostOf[l] /\ e.Source[2] = ins.PID /\ e.Message = ins.Data
  BY DEF EntryOf
<1> HIDE DEF e
<1>4. RemoteText(l, ins) = <<"sp", e.label, e.Source[1], e.Source[2]>>
                               \o e.Message \o <<"nl">>
  BY <1>3 DEF RemoteText
<1>5. /\ e.label \in Token /\ e.Source[1] \in Token /\ e.Source[2] \in Token
      /\ e.Message \in Text
  BY <1>1, <1>2, <1>3, SpecialTokens
<1>6. /\ data \in Text
      /\ Len(data) = Len(e.Message) + 4 /\ Len(e.Message) \in Nat
      /\ \A i \in DOMAIN data :
             \/ data[i] \in {e.label, e.Source[1], e.Source[2], "nl"}
             \/ \E j \in DOMAIN e.Message : data[i] = e.Message[j]
      /\ <<"sp">> \o data = RemoteText(l, ins)
  BY <1>4, <1>5, LineOfEntry
<1>7. SerializeRequest(RequestOf(l, ins)).line = stringReplace(data, "nl", "esc") \o <<"nl">>
  BY DEF SerializeRequest, RequestOf, e
<1> HIDE DEF data
<1>8. \A i \in DOMAIN data : data[i] # "esc" /\ data[i] # "nul"
  <2>1. "esc" \notin Label \cup Host \cup Pid /\ "nul" \notin Label \cup Host \cup Pid
    BY TokenAssumption DEF Label, Special
  <2>2. \A j \in DOMAIN ins.Data : ins.Data[j] \notin {"esc", "nul"}
    BY DEF Intact
  <2> QED
    BY <1>1, <1>2, <1>3, <1>6, <2>1, <2>2
<1>9. BufferSize \in Nat /\ Len(e.Message) + 5 <= BufferSize
  BY <1>3, RemoteAssumption DEF Intact
<1>10. line = stringReplace(data, "nl", "esc") \o <<"nl">>
  BY <1>6, <1>7, <1>8, <1>9, EscapeRoundTrip DEF Received
<1> QED
  BY <1>6, <1>8, <1>10, EscapeRoundTrip

LEMMA HandleIncomingDataOnward ==
    ASSUME IInv, NEW m \in inbox, HandleIncomingData(m)
    PROVE  OwedShrinks /\ Trail'
<1>1. PICK line \in Received(m.wire.line, BufferSize) :
         HandleInstruction(Server, InstructionOf(m, line))
  BY DEF HandleIncomingData
<1> DEFINE ins == InstructionOf(m, line)
<1>2. PICK l \in Logger, n \in Nat : Sent(m, l, n)
  BY DEF IInv, Trail, NetOK
<1>3. submitted[l][n] \in Instruction
  BY <1>2 DEF IInv, Inv, TypeOK, Sent
<1>4. Got(ins, l, n)
  <2>1. BelongsTo(ins.id, l, n) /\ ins.PID = l
    BY <1>2 DEF InstructionOf, Sent, SerializeRequest, RequestOf
  <2>2. /\ submitted[l][n].Type \in Int
        /\ submitted[l][n].FType \in Int
    BY <1>3 DEF Instruction, LoggerInstruction, InstructionType, ReflectLog, FormatType
  <2>3. /\ SeverityOf(ins.Type) = SeverityOf(submitted[l][n].Type)
        /\ FileFormatOf(ins.FType) = FileFormatOf(submitted[l][n].FType)
    BY <1>2, <2>2 DEF InstructionOf, Sent, SerializeRequest, RequestOf, SeverityOf, TypeOf,
                     FileFormatOf, FormatTypeOf
  <2>4. Intact(submitted[l][n]) => ins.Data = RemoteText(l, submitted[l][n])
    BY <1>2, <1>3, WordForWord DEF InstructionOf, Sent, IInv
  <2> QED
    BY <1>2, <2>1, <2>3, <2>4 DEF Got, Sent
<1>5. ins.id = m.id
  BY DEF InstructionOf
<1> HIDE DEF ins
<1>6. /\ pc' = [pc EXCEPT ![Server] = "exec"]
      /\ cur' = [cur EXCEPT ![Server] = ins]
      /\ inbox' = inbox \ {m}
      /\ UNCHANGED <<submitted, taken, awaiting, net, copies, abandoned>>
  BY <1>1 DEF HandleIncomingData, HandleInstruction, GoTo, historyVars, ins
<1>7. /\ \A k \in Logger : pc'[k] = pc[k] /\ cur'[k] = cur[k]
      /\ pc'[Server] = "exec" /\ cur'[Server] = ins
  BY <1>6, Types DEF IInv
<1>8. \A id : InFlight(id)' => InFlight(id)
  BY <1>5, <1>6, <1>7 DEF InFlight
<1>9. OwedShrinks
  BY <1>6, <1>7, <1>8 DEF OwedShrinks, Owed, Fresh
<1>10. FlightOK' /\ NetOK'
  BY <1>6, <1>8 DEF IInv, Trail, FlightOK, Doubled, NetOK, Sent, BelongsTo
<1>11. WorkOK'
  BY <1>6, <1>7 DEF IInv, Trail, WorkOK, Format
<1>12. ServerOK'
  <2>1. Got(ins, l, n)'
    BY <1>4, <1>6 DEF Got, BelongsTo
  <2> QED
    BY <1>7, <2>1 DEF ServerOK
<1> QED
  BY <1>9, <1>10, <1>11, <1>12 DEF Trail

LEMMA ArriveTwiceOnward ==
    ASSUME IInv, NEW m \in net, ArriveTwice(m)
    PROVE  OwedShrinks /\ Trail'
<1> DEFINE Copy(l, n, c) == [m EXCEPT !.id = <<l, n, c + 1>>]
<1>1. PICK l \in Logger, n \in Nat, c \in Nat :
         /\ m.id = <<l, n, c>>
         /\ Copy(l, n, c) \in Request
         /\ net' = (net \ {m}) \cup {Copy(l, n, c)}
         /\ copies' = copies \cup {<<l, n, c + 1>>}
         /\ <<l, n, c + 1>> \in RequestId
         /\ Fresh(l, n, c + 1)
  BY ArriveTwiceStep DEF IInv
<1> DEFINE copy == Copy(l, n, c)
<1>2. m \in Request
  BY Types DEF IInv
<1>3. copy.id = <<l, n, c + 1>> /\ copy.wire = m.wire
  BY <1>2 DEF Request
<1>4. net' = (net \ {m}) \cup {copy}
  BY <1>1
<1> HIDE DEF Copy, copy
<1>5. inbox' \subseteq net \cup inbox
  BY DEF ArriveTwice, Deliver
<1>6. UNCHANGED <<pc, cur, submitted, taken, awaiting, abandoned>>
  BY DEF ArriveTwice, loggerVars
<1>7. \A k \in Logger, i \in Nat, d \in Nat : Fresh(k, i, d)' => Fresh(k, i, d)
  BY ArriveTwiceStep DEF IInv
<1>8. \A id : InFlight(id)' => InFlight(id) \/ id = <<l, n, c + 1>>
  BY <1>3, <1>4, <1>5, <1>6 DEF InFlight
<1>9. OwedShrinks
  BY <1>1, <1>7, <1>8 DEF OwedShrinks, Owed
<1>10. copies \subseteq copies' /\ <<l, n, c + 1>> \in copies'
  BY <1>1
<1>11. FlightOK'
  <2>1. Doubled(l, n)'
    BY <1>10 DEF Doubled, Original
  <2>2. \A k, i : Doubled(k, i) => Doubled(k, i)'
    BY <1>10 DEF Doubled
  <2> QED
    BY <1>6, <1>8, <2>1, <2>2 DEF IInv, Trail, FlightOK
<1>12. WorkOK'
  BY <1>6 DEF IInv, Trail, WorkOK, Format
<1>13. \A id, k, i : BelongsTo(id, k, i) => BelongsTo(id, k, i)'
  BY <1>10 DEF BelongsTo
<1>14. NetOK'
  <2>1. PICK k \in Logger, i \in Nat : Sent(m, k, i)
    BY DEF IInv, Trail, NetOK
  <2>2. k = l /\ i = n
    BY <1>1, <2>1 DEF Sent, BelongsTo, Original
  <2>3. BelongsTo(copy.id, l, n)'
    BY <1>3, <1>10 DEF BelongsTo, Original
  <2>4. Sent(copy, l, n)'
    BY <1>3, <1>6, <2>1, <2>2, <2>3 DEF Sent
  <2>5. \A o, j, x : Sent(o, j, x) => Sent(o, j, x)'
    BY <1>6, <1>13 DEF Sent
  <2> QED
    BY <1>4, <1>5, <2>4, <2>5 DEF IInv, Trail, NetOK
<1>15. ServerOK'
  BY <1>6, <1>13 DEF IInv, Trail, ServerOK, Got
<1> QED
  BY <1>9, <1>11, <1>12, <1>14, <1>15 DEF Trail

LEMMA NextOnward ==
    ASSUME IInv, [Next]_vars
    PROVE  OwedShrinks /\ Trail'
BY OnwardLog, OnwardLogger, OnwardServer, SubmitOnward, DequeueOnward, RequestSendOnward,
   ArriveTwiceOnward, HandleIncomingDataOnward, RemoteAssumption
DEF Next, LoggerProgress, ServerProgress, Logger

--------------------------------------------------------------------------------
(* What a step does to the files and the records about them *)

Entries(f) == disk[f[1]][f[2]]

\* Process p decides what becomes of the entry it handles.
Decides(p) ==
    /\ pc[p] = "exec"
    /\ pc' = [pc EXCEPT ![p] = "done"]
    /\ UNCHANGED <<cur, submitted, taken, awaiting, net, inbox>>

Writes(p, f) ==
    /\ Decides(p)
    /\ f \in File /\ f[1] = HostOf[p] /\ f[2][2] = Format(p)
    /\ cur[p].TMode = Local
    /\ \A g \in File : Entries(g)' = IF g = f THEN Append(Entries(g), EntryOf(p, cur[p]))
                                              ELSE Entries(g)
    /\ UNCHANGED <<refused, wiped>>

Refuses(p) ==
    /\ Decides(p)
    /\ refused' = refused \cup {cur[p].id}
    /\ UNCHANGED <<disk, wiped>>

Empties(f) ==
    /\ f \in File
    /\ \A g \in File : Entries(g)' = IF g = f THEN << >> ELSE Entries(g)
    /\ wiped' = wiped \cup IdsIn(Entries(f))
    /\ UNCHANGED refused

LEMMA DiskType ==
    ASSUME Inv
    PROVE  /\ disk \in [Host -> [FileName -> Seq(LogEntry(Id))]]
           /\ \A f \in File : /\ f[1] \in Host /\ f[2] \in FileName /\ f = <<f[1], f[2]>>
                              /\ Entries(f) \in Seq(LogEntry(Id))
           /\ \A h \in Host, file \in FileName :
                  <<h, file>> \in File /\ Entries(<<h, file>>) = disk[h][file]
BY DEF Inv, TypeOK, LoggerTypeOK, File, Entries

LEMMA Effects ==
    ASSUME IInv, [Next]_vars
    PROVE  \/ UNCHANGED <<disk, refused, wiped>>
           \/ \E p \in Process : Refuses(p) \/ \E f \in File : Writes(p, f)
           \/ \E f \in File : Empties(f)
<1>0. /\ Inv
      /\ pc \in [Process -> PC]
      /\ HostOf \in [Process -> Host]
      /\ FileNo \in [Process -> [FileFormat -> 0..1]]
  BY Types, ProcessAssumption DEF IInv, Inv, TypeOK, LoggerTypeOK
<1>1. ASSUME NEW p \in Process, Log(p), LogLineLocal(p)
      PROVE  \E f \in File : Writes(p, f)
  <2> DEFINE f == <<HostOf[p], FileOf(p, Format(p))>>
             e == EntryOf(p, cur[p])
  <2>1. /\ Format(p) \in FileFormat /\ Decides(p) /\ cur[p].TMode = Local
        /\ disk' = [disk EXCEPT ![HostOf[p]][FileOf(p, Format(p))] = Append(@, e)]
        /\ UNCHANGED <<refused, wiped>>
    BY <1>1 DEF Log, LogLineLocal, Counted, InLogLine, GoTo, Decides, netVars, historyVars
  <2>2. f \in File /\ f[1] = HostOf[p] /\ f[2][2] = Format(p)
    BY <1>0, <2>1 DEF File, FileOf, FileName
  <2>3. ASSUME NEW g \in File
        PROVE  Entries(g)' = IF g = f THEN Append(Entries(g), e) ELSE Entries(g)
    <3>1. g = <<g[1], g[2]>> /\ g[1] \in Host /\ g[2] \in FileName
      BY <1>0, DiskType
    <3>2. f[1] \in Host /\ f[2] \in FileName /\ f[2] = FileOf(p, Format(p))
      BY <2>2 DEF File
    <3> HIDE DEF e
    <3>3. disk' = [disk EXCEPT ![f[1]][f[2]] = Append(@, e)]
      BY <2>1, <2>2, <3>2
    <3>4. g = f <=> g[1] = f[1] /\ g[2] = f[2]
      BY <3>1
    <3> HIDE DEF f
    <3> QED
      BY <1>0, <3>1, <3>2, <3>3, <3>4, DiskType DEF Entries
  <2> QED
    BY <2>1, <2>2, <2>3 DEF Writes
<1>2. ASSUME NEW p \in Process, Full(p) \/ OpenFails(p)
      PROVE  Refuses(p)
  BY <1>2 DEF Full, OpenFails, LogLineFull, LogLineOpenFails, Counted, InLogLine, GoTo,
              Decides, Refuses, netVars
<1>3. ASSUME NEW p \in Process, Create(p)
      PROVE  \E f \in File : Empties(f)
  <2>1. PICK t \in FileFormat :
           /\ CreateInterface(p, t)
           /\ wiped' = wiped \cup IdsIn(disk[HostOf[p]][<<FileCount[p], t>>])
    BY <1>3 DEF Create
  <2> DEFINE f == <<HostOf[p], <<FileCount[p], t>>>>
  <2>2. FileCount[p] \in 0..1
    BY <1>0, <2>1, CreatedNumber DEF LoggerInv, Inv, TypeOK
  <2>3. f \in File /\ f[1] \in Host /\ f[2] \in FileName
    BY <1>0, <2>2 DEF File, FileName
  <2>4. /\ disk' = [disk EXCEPT ![f[1]][f[2]] = << >>]
        /\ wiped' = wiped \cup IdsIn(Entries(f))
        /\ UNCHANGED refused
    BY <1>3, <2>1 DEF Create, CreateInterface, Entries
  <2> HIDE DEF f
  <2>5. ASSUME NEW g \in File
        PROVE  Entries(g)' = IF g = f THEN << >> ELSE Entries(g)
    <3>1. /\ g = <<g[1], g[2]>> /\ g[1] \in Host /\ g[2] \in FileName
          /\ f = <<f[1], f[2]>>
      BY <1>0, <2>3, DiskType
    <3>2. g = f <=> g[1] = f[1] /\ g[2] = f[2]
      BY <3>1
    <3> QED
      BY <1>0, <2>3, <2>4, <3>1, <3>2, DiskType DEF Entries
  <2> QED
    BY <2>3, <2>4, <2>5 DEF Empties
<1> QED
  BY <1>0, <1>1, <1>2, <1>3, WriteStep

\* What has been taken stays what it was.
LEMMA HistoryKept ==
    ASSUME IInv, [Next]_vars
    PROVE  /\ \A l \in Logger :
                  /\ taken[l] \in Nat /\ taken'[l] \in Nat /\ taken[l] <= taken'[l]
                  /\ \A n \in 1..taken[l] : submitted'[l][n] = submitted[l][n]
           /\ abandoned \subseteq abandoned' /\ copies \subseteq copies'
<1>1. taken \in [Logger -> Nat]
  BY DEF IInv, Inv, TypeOK
<1>2. CASE \E l \in Logger : Submit(l)
  <2>1. UNCHANGED <<taken, copies, abandoned>>
    BY <1>2 DEF Submit, historyVars
  <2> QED
    BY <1>1, <1>2, <2>1, SubmitOnward
<1>3. CASE \E l \in Logger : Dequeue(l)
  BY <1>1, <1>3 DEF Dequeue, historyVars
<1>4. CASE /\ ~\E l \in Logger : Submit(l) \/ Dequeue(l)
  <2>1. /\ UNCHANGED <<submitted, taken>>
        /\ abandoned \subseteq abandoned' /\ copies \subseteq copies'
    BY <1>4
    DEF Next, LoggerProgress, ServerProgress, Create, Log, Full, OpenFails, LoggerReturns,
        LoggerDies, RequestSend, RequestReceive, RequestFails, RequestRecvFails, Arrive, ArriveTwice,
        LoseRequest, LoseReply, Initialize, HandleIncomingData, Respond, Swallow, EpollError,
        Interrupted, InterruptedTooOften, ServerDies, CloseAll, vars, historyVars
  <2> QED
    BY <1>1, <2>1
<1> QED
  BY <1>2, <1>3, <1>4

--------------------------------------------------------------------------------
(* No entry is decided twice. *)

\* Who decides an entry had it in hand, and nobody else has or will have it.
LEMMA FateSealed ==
    ASSUME IInv, NEW p \in Process, Decides(p)
    PROVE  /\ cur'[p] = cur[p]
           /\ Owed(cur[p].id) /\ ~Decided(cur[p].id) /\ ~Owed(cur[p].id)'
<1>1. /\ pc \in [Process -> PC] /\ pc[p] = "exec"
      /\ Server \in Process /\ Server \notin Logger /\ Logger \subseteq Process
      /\ pc' = [pc EXCEPT ![p] = "done"]
      /\ UNCHANGED <<cur, submitted, taken, awaiting, net, inbox>>
      /\ taken \in [Logger -> Nat]
  BY Types DEF IInv, Decides
<1>2. \A id : InFlight(id) => Underway(id)
  BY DEF InFlight, Underway, Handling
<1>3. \A id : InFlight(id)' => InFlight(id)
  BY <1>1 DEF InFlight
<1>4. \A l \in Logger, n \in Nat, c \in Nat : Fresh(l, n, c)' => Fresh(l, n, c)
  BY <1>1 DEF Fresh
<1>5. \A l \in Logger, n \in Nat, c \in Nat : ~(Fresh(l, n, c) /\ Underway(<<l, n, c>>))
  BY DEF IInv, Inv, FreshOK
<1>6. CASE p = Server
  <2>1. InFlight(cur[p].id)
    BY <1>1, <1>6 DEF InFlight
  <2>2. ~InFlight(cur[p].id)'
    BY <1>1, <1>6 DEF IInv, Inv, OneCopy, InFlight, Handling
  <2>3. \A l \in Logger, n \in Nat, c \in Nat : cur[p].id = <<l, n, c>> => ~Fresh(l, n, c)'
    BY <1>2, <1>4, <1>5, <2>1
  <2> QED
    BY <1>1, <2>1, <2>2, <2>3 DEF Owed, IInv, OnceOK
<1>7. CASE p # Server
  <2>1. p \in Logger
    BY <1>7 DEF Logger
  <2>2. /\ cur[p].id = <<p, taken[p], 0>> /\ taken[p] \in Nat
        /\ p \notin awaiting
    BY <1>1, <2>1 DEF IInv, Inv, IdsOK, Busy
  <2>3. Fresh(p, taken[p], 0)
    BY <1>1, <2>2 DEF Fresh
  <2>4. ~InFlight(cur[p].id)'
    BY <1>1, <1>2, <1>3, <1>5, <2>1, <2>2, <2>3
  <2>5. ~Fresh(p, taken[p], 0)'
    BY <1>1, <2>1, <2>2 DEF Fresh
  <2>6. \A l \in Logger, n \in Nat, c \in Nat : cur[p].id = <<l, n, c>> => ~Fresh(l, n, c)'
    BY <1>1, <2>2, <2>5
  <2> QED
    BY <1>1, <2>1, <2>2, <2>3, <2>4, <2>6 DEF Owed, IInv, OnceOK
<1> QED
  BY <1>6, <1>7

LEMMA IdsInAppend ==
    ASSUME NEW s \in Seq(LogEntry(Id)), NEW e \in LogEntry(Id)
    PROVE  /\ IdsIn(Append(s, e)) = IdsIn(s) \cup {e.id}
           /\ DOMAIN Append(s, e) = 1..(Len(s) + 1) /\ DOMAIN s = 1..Len(s) /\ Len(s) \in Nat
           /\ \A i \in DOMAIN s : i \in DOMAIN Append(s, e) /\ Append(s, e)[i] = s[i]
           /\ Append(s, e)[Len(s) + 1] = e
<1>1. /\ DOMAIN Append(s, e) = 1..(Len(s) + 1) /\ DOMAIN s = 1..Len(s) /\ Len(s) \in Nat
      /\ \A i \in DOMAIN s : i \in DOMAIN Append(s, e) /\ Append(s, e)[i] = s[i]
      /\ Append(s, e)[Len(s) + 1] = e
  OBVIOUS
<1>2. IdsIn(Append(s, e)) = IdsIn(s) \cup {e.id}
  BY <1>1 DEF IdsIn
<1> QED
  BY <1>1, <1>2

LEMMA EntryInHand ==
    ASSUME Inv, NEW p \in Process
    PROVE  EntryOf(p, cur[p]) \in LogEntry(Id) /\ EntryOf(p, cur[p]).id = cur[p].id
BY EntryOfType, Types DEF EntryOf

\* An entry is decided by the process that has it in hand, and no other way.
LEMMA DecidedStep ==
    ASSUME IInv, [Next]_vars, NEW id, Decided(id)', ~Decided(id)
    PROVE  \E p \in Process : Decides(p) /\ id = cur[p].id
<1>0. Inv
  BY DEF IInv
<1>1. \A x : Decided(x) <=> (\E f \in File : x \in IdsIn(Entries(f))) \/ x \in wiped \cup refused
  BY DEF Decided, Entries
<1>2. \/ \E f \in File : id \in IdsIn(Entries(f)')
      \/ id \in wiped' \cup refused'
  BY DEF Decided, Entries, IdsIn
<1>3. CASE UNCHANGED <<disk, refused, wiped>>
  BY <1>3 DEF Decided
<1>4. ASSUME NEW p \in Process, Refuses(p)
      PROVE  Decides(p) /\ id = cur[p].id
  BY <1>4 DEF Refuses, Decided
<1>5. ASSUME NEW p \in Process, NEW f \in File, Writes(p, f)
      PROVE  Decides(p) /\ id = cur[p].id
  <2>1. \A g \in File : IdsIn(Entries(g)') \subseteq IdsIn(Entries(g)) \cup {cur[p].id}
    <3> TAKE g \in File
    <3> DEFINE e == EntryOf(p, cur[p])
               s == Entries(g)
    <3>1. Entries(g)' = Append(s, e) \/ Entries(g)' = s
      BY <1>5 DEF Writes
    <3>2. s \in Seq(LogEntry(Id)) /\ e \in LogEntry(Id) /\ e.id = cur[p].id
      BY <1>0, DiskType, EntryInHand
    <3> HIDE DEF e, s
    <3>3. IdsIn(Append(s, e)) = IdsIn(s) \cup {e.id}
      BY <3>2, IdsInAppend
    <3>4. IdsIn(Entries(g)') \subseteq IdsIn(s) \cup {cur[p].id}
      BY <3>1, <3>2, <3>3
    <3> QED
      BY <3>4 DEF s
  <2> QED
    BY <1>1, <1>2, <1>5, <2>1 DEF Writes
<1>6. ASSUME NEW f \in File, Empties(f)
      PROVE  FALSE
  <2>1. \A g \in File : Entries(g)' = << >> \/ Entries(g)' = Entries(g)
    BY <1>6 DEF Empties
  <2>2. IdsIn(<< >>) = {}
    BY DEF IdsIn
  <2>3. \A g \in File : IdsIn(Entries(g)') \subseteq IdsIn(Entries(g))
    BY <2>1, <2>2
  <2> QED
    BY <1>1, <1>2, <1>6, <2>3 DEF Empties
<1> QED
  BY <1>3, <1>4, <1>5, <1>6, Effects

LEMMA NextOnce ==
    ASSUME IInv, [Next]_vars
    PROVE  OnceOK'
<1> SUFFICES ASSUME NEW id, Owed(id)', Decided(id)'
             PROVE  FALSE
  BY DEF OnceOK
<1>1. ~Decided(id)
  BY NextOnward DEF OwedShrinks, IInv, OnceOK
<1>2. PICK p \in Process : Decides(p) /\ id = cur[p].id
  BY <1>1, DecidedStep
<1> QED
  BY <1>2, FateSealed

--------------------------------------------------------------------------------
(* Where entries come from, and their order *)

\* Every entry of a file was there before or has just been appended.
LEMMA EntryStep ==
    ASSUME IInv, [Next]_vars, NEW g \in File, NEW i \in DOMAIN Entries(g)'
    PROVE  \/ i \in DOMAIN Entries(g) /\ Entries(g)'[i] = Entries(g)[i]
           \/ \E p \in Process : /\ Writes(p, g)
                                /\ i = Len(Entries(g)) + 1 /\ i \notin DOMAIN Entries(g)
                                /\ Entries(g)'[i] = EntryOf(p, cur[p])
<1>0. Inv
  BY DEF IInv
<1>1. CASE Entries(g)' = Entries(g) \/ Entries(g)' = << >>
  BY <1>1
<1>2. CASE UNCHANGED disk
  BY <1>1, <1>2 DEF Entries
<1>3. ASSUME NEW p \in Process, NEW f \in File, Writes(p, f)
      PROVE  \/ Entries(g)' = Entries(g)
             \/ Writes(p, g) /\ Entries(g)' = Append(Entries(g), EntryOf(p, cur[p]))
  BY <1>3 DEF Writes
<1>4. ASSUME NEW p \in Process, Writes(p, g),
             Entries(g)' = Append(Entries(g), EntryOf(p, cur[p]))
      PROVE  \/ i \in DOMAIN Entries(g) /\ Entries(g)'[i] = Entries(g)[i]
             \/ /\ i = Len(Entries(g)) + 1 /\ i \notin DOMAIN Entries(g)
                /\ Entries(g)'[i] = EntryOf(p, cur[p])
  <2> DEFINE e == EntryOf(p, cur[p])
             s == Entries(g)
             t == Entries(g)'
  <2>1. s \in Seq(LogEntry(Id)) /\ e \in LogEntry(Id) /\ t = Append(s, e) /\ i \in DOMAIN t
    BY <1>0, <1>4, DiskType, EntryInHand
  <2> HIDE DEF e, s, t
  <2>2. \/ i \in DOMAIN s /\ t[i] = s[i]
        \/ i = Len(s) + 1 /\ i \notin DOMAIN s /\ t[i] = e
    BY <2>1, IdsInAppend
  <2> QED
    BY <2>2 DEF e, s, t
<1>5. ASSUME NEW f \in File, Empties(f)
      PROVE  Entries(g)' = Entries(g) \/ Entries(g)' = << >>
  BY <1>5 DEF Empties
<1>6. ASSUME NEW p \in Process, Refuses(p)
      PROVE  UNCHANGED disk
  BY <1>6 DEF Refuses
<1> QED
  BY <1>1, <1>2, <1>3, <1>4, <1>5, <1>6, Effects

\* Two entries cannot be appended in one step.
LEMMA OneWriter ==
    ASSUME IInv, NEW p \in Process, NEW f \in File, Writes(p, f),
           NEW q \in Process, NEW g \in File, Writes(q, g)
    PROVE  p = q /\ f = g
<1>1. pc \in [Process -> PC] /\ Inv
  BY Types DEF IInv
<1>2. p = q
  BY <1>1 DEF Writes, Decides
<1>3. Entries(g)' = Append(Entries(g), EntryOf(q, cur[q])) /\ Entries(g) \in Seq(LogEntry(Id))
  BY <1>1, DiskType DEF Writes
<1>4. Append(Entries(g), EntryOf(q, cur[q])) # Entries(g)
  <2> DEFINE e == EntryOf(q, cur[q])
             s == Entries(g)
  <2>1. s \in Seq(LogEntry(Id)) /\ e \in LogEntry(Id)
    BY <1>1, <1>3, EntryInHand
  <2> HIDE DEF e, s
  <2>2. Len(s) \in Nat /\ Len(s) + 1 \in DOMAIN Append(s, e) /\ Len(s) + 1 \notin DOMAIN s
    BY <2>1, IdsInAppend
  <2>3. Append(s, e) # s
    BY <2>2
  <2> QED
    BY <2>3 DEF e, s
<1>5. f # g => Entries(g)' = Entries(g)
  BY DEF Writes
<1> QED
  BY <1>2, <1>3, <1>4, <1>5

LEMMA NextUnique ==
    ASSUME IInv, [Next]_vars
    PROVE  Unique'
<1>0. Inv
  BY DEF IInv
<1>1. ASSUME NEW p \in Process, NEW f \in File, Writes(p, f),
             NEW g \in File, NEW j \in DOMAIN Entries(g)
      PROVE  Entries(g)[j].id # cur[p].id
  <2>1. ~Decided(cur[p].id)
    BY <1>1, FateSealed DEF Writes
  <2> QED
    BY <1>1, <2>1 DEF Decided, IdsIn, Entries
<1>2. ASSUME NEW f \in File, NEW g \in File,
             NEW i \in DOMAIN Entries(f)', NEW j \in DOMAIN Entries(g)',
             Entries(f)'[i].id = Entries(g)'[j].id
      PROVE  f = g /\ i = j
  <2>1. CASE /\ i \in DOMAIN Entries(f) /\ Entries(f)'[i] = Entries(f)[i]
             /\ j \in DOMAIN Entries(g) /\ Entries(g)'[j] = Entries(g)[j]
    BY <1>2, <2>1 DEF IInv, Unique, Entries
  <2>2. ASSUME NEW p \in Process, Writes(p, f), Entries(f)'[i] = EntryOf(p, cur[p]),
               j \in DOMAIN Entries(g), Entries(g)'[j] = Entries(g)[j]
        PROVE  FALSE
    BY <1>0, <1>1, <1>2, <2>2, EntryInHand
  <2>3. ASSUME NEW p \in Process, Writes(p, g), Entries(g)'[j] = EntryOf(p, cur[p]),
               i \in DOMAIN Entries(f), Entries(f)'[i] = Entries(f)[i]
        PROVE  FALSE
    BY <1>0, <1>1, <1>2, <2>3, EntryInHand
  <2>4. ASSUME NEW p \in Process, Writes(p, f), i = Len(Entries(f)) + 1,
               NEW q \in Process, Writes(q, g), j = Len(Entries(g)) + 1
        PROVE  f = g /\ i = j
    BY <2>4, OneWriter
  <2> QED
    BY <2>1, <2>2, <2>3, <2>4, EntryStep
<1> QED
  BY <1>2 DEF Unique, Entries

\* The entry in hand is the last one its logger took, or one it gave up, or one
\* whose request was duplicated.
LEMMA InHand ==
    ASSUME IInv, NEW p \in Process, pc[p] = "exec"
    PROVE  \E l \in Logger, n \in Nat :
              /\ BelongsTo(cur[p].id, l, n)
              /\ <<l, n, 0>> \in abandoned \/ Doubled(l, n) \/ n = taken[l]
<1>1. CASE p = Server
  <2>1. PICK l \in Logger, n \in Nat : Got(cur[Server], l, n)
    BY <1>1 DEF IInv, Trail, ServerOK
  <2>2. BelongsTo(cur[Server].id, l, n)
    BY <2>1 DEF Got
  <2>3. /\ cur[Server].id \in RequestId
        /\ cur[Server].id = <<l, n, cur[Server].id[3]>> /\ cur[Server].id[3] \in Nat
    <3>1. cur[Server].id \in RequestId
      BY <1>1 DEF IInv, Inv, CopiesOK, Handling
    <3> QED
      BY <2>2, <3>1, RequestIdParts DEF BelongsTo, Original
  <2>4. InFlight(<<l, n, cur[Server].id[3]>>)
    BY <1>1, <2>3 DEF InFlight
  <2> QED
    BY <1>1, <2>2, <2>3, <2>4 DEF IInv, Trail, FlightOK
<1>2. CASE p # Server
  <2>1. p \in Logger
    BY <1>2 DEF Logger
  <2> QED
    BY <2>1 DEF IInv, Inv, IdsOK, TypeOK, Busy, BelongsTo
<1> QED
  BY <1>1, <1>2

LEMMA NextProvenance ==
    ASSUME IInv, [Next]_vars
    PROVE  Provenance'
<1>0. Inv
  BY DEF IInv
<1> DEFINE From(e, g, l, n) ==
               LET ins == submitted[l][n] IN
               /\ BelongsTo(e.id, l, n)
               /\ FileFormatOf(ins.FType) = g[2][2]
               /\ e.label = SerializeSeverity(SeverityOf(ins.Type))
               /\ \/ StoredLocally(e, g[1], l, ins) /\ e.id = <<l, n, 0>>
                  \/ StoredByServer(e, g[1], l, ins)
<1>1. ASSUME NEW g \in File, NEW e, NEW l \in Logger, NEW n \in 1..taken[l], From(e, g, l, n)
      PROVE  n \in 1..taken'[l] /\ From(e, g, l, n)'
  <2>1. /\ submitted'[l][n] = submitted[l][n] /\ n \in 1..taken'[l]
        /\ copies \subseteq copies'
    BY HistoryKept
  <2> QED
    BY <1>1, <2>1 DEF StoredLocally, StoredByServer, BelongsTo
<1>2. ASSUME NEW g \in File, NEW i \in DOMAIN Entries(g)
      PROVE  \E l \in Logger : \E n \in 1..taken[l] : From(Entries(g)[i], g, l, n)
  BY <1>0, DiskType DEF IInv, Provenance, Entries
<1>3. ASSUME NEW p \in Process, NEW g \in File, Writes(p, g)
      PROVE  \E l \in Logger : \E n \in 1..taken[l] : From(EntryOf(p, cur[p]), g, l, n)
  <2>1. /\ pc[p] = "exec" /\ g[1] = HostOf[p] /\ g[2][2] = Format(p)
        /\ cur[p].TMode = Local
    BY <1>3 DEF Writes, Decides
  <2>2. CASE p = Server
    <3>1. PICK l \in Logger, n \in Nat : Got(cur[Server], l, n)
      BY <2>1, <2>2 DEF IInv, Trail, ServerOK
    <3>2. From(EntryOf(p, cur[p]), g, l, n)
      BY <2>1, <2>2, <3>1 DEF Got, EntryOf, Format, StoredByServer
    <3> QED
      BY <3>1, <3>2 DEF Got
  <2>3. CASE p # Server
    <3>1. p \in Logger
      BY <2>3 DEF Logger
    <3>2. /\ taken[p] \in 1..taken[p] /\ cur[p].id = <<p, taken[p], 0>>
          /\ cur[p] = submitted[p][taken[p]]
      BY <2>1, <3>1 DEF IInv, Inv, Trail, WorkOK, IdsOK, TypeOK, Busy
    <3>3. From(EntryOf(p, cur[p]), g, p, taken[p])
      BY <2>1, <3>2 DEF EntryOf, Format, StoredLocally, BelongsTo
    <3> QED
      BY <3>1, <3>2, <3>3
  <2> QED
    BY <2>2, <2>3
<1>4. ASSUME NEW g \in File, NEW i \in DOMAIN Entries(g)'
      PROVE  \E l \in Logger : \E n \in 1..taken[l] : From(Entries(g)'[i], g, l, n)
  <2> HIDE DEF From
  <2>1. CASE i \in DOMAIN Entries(g) /\ Entries(g)'[i] = Entries(g)[i]
    BY <1>2, <2>1
  <2>2. ASSUME NEW p \in Process, Writes(p, g), Entries(g)'[i] = EntryOf(p, cur[p])
        PROVE  \E l \in Logger : \E n \in 1..taken[l] : From(Entries(g)'[i], g, l, n)
    BY <1>3, <2>2
  <2> QED
    BY <2>1, <2>2, EntryStep
<1>5. ASSUME NEW g \in File, NEW i \in DOMAIN Entries(g)'
      PROVE  \E l \in Logger : \E n \in 1..taken'[l] : From(Entries(g)[i], g, l, n)'
  <2>1. PICK l \in Logger : \E n \in 1..taken[l] : From(Entries(g)'[i], g, l, n)
    BY <1>4
  <2>2. PICK n \in 1..taken[l] : From(Entries(g)'[i], g, l, n)
    BY <2>1
  <2> DEFINE e == Entries(g)'[i]
  <2> HIDE DEF From
  <2>3. n \in 1..taken'[l] /\ From(Entries(g)[i], g, l, n)'
    BY <1>1, <2>2
  <2> QED
    BY <2>3
<1> SUFFICES ASSUME NEW h \in Host, NEW file \in FileName, NEW i \in DOMAIN disk'[h][file]
             PROVE  \E l \in Logger : \E n \in 1..taken'[l] :
                       From(disk[h][file][i], <<h, file>>, l, n)'
  BY DEF Provenance
<1> QED
  <2>1. <<h, file>> \in File /\ Entries(<<h, file>>)' = disk'[h][file]
    BY DEF Entries, File
  <2>2. \E l \in Logger : \E n \in 1..taken'[l] :
           From(Entries(<<h, file>>)[i], <<h, file>>, l, n)'
    BY <1>5, <2>1
  <2> QED
    BY <2>2 DEF Entries

\* What FileOrder says of an earlier and a later entry of one logger.
InOrder(first, second) ==
    /\ first # second
    /\ \/ first[2] < second[2]
       \/ Original(second) \in abandoned /\ first[2] # second[2]
       \/ Copied(second) /\ HostOf[second[1]] # HostOf[Server]

LEMMA DoubledIsCopied ==
    ASSUME IInv, NEW l \in Logger, NEW n \in Nat, Doubled(l, n), NEW id, BelongsTo(id, l, n)
    PROVE  Copied(id) /\ HostOf[id[1]] # HostOf[Server]
<1>1. PICK c \in copies : Original(c) = <<l, n, 0>>
  BY DEF Doubled
<1>2. c[3] > 0 /\ HostOf[c[1]] # HostOf[Server] /\ c[1] = l
  BY <1>1 DEF IInv, Inv, CopiesOK, Original
<1>3. Original(id) = <<l, n, 0>> /\ id[1] = l
  BY DEF BelongsTo, Original
<1>4. c # <<l, n, 0>>
  BY <1>2
<1>5. Original(<<l, n, 0>>) = <<l, n, 0>>
  BY DEF Original
<1> QED
  BY <1>1, <1>2, <1>3, <1>4 DEF Copied, CopiesOf

LEMMA CopiedStays ==
    ASSUME copies \subseteq copies', NEW id, Copied(id)
    PROVE  Copied(id)'
BY DEF Copied, CopiesOf

LEMMA NextFileOrder ==
    ASSUME IInv, [Next]_vars
    PROVE  FileOrder'
<1>0. Inv
  BY DEF IInv
<1>1. ASSUME NEW g \in File, NEW i \in DOMAIN Entries(g)', NEW j \in DOMAIN Entries(g)', i < j,
             Entries(g)'[i].id[1] = Entries(g)'[j].id[1]
      PROVE  InOrder(Entries(g)[i].id, Entries(g)[j].id)'
  <2> DEFINE first == Entries(g)'[i].id
             second == Entries(g)'[j].id
  <2>0. Entries(g) \in Seq(LogEntry(Id)) /\ DOMAIN Entries(g) = 1..Len(Entries(g))
        /\ Len(Entries(g)) \in Nat
    BY <1>0, DiskType
  <2>1. abandoned \subseteq abandoned' /\ copies \subseteq copies'
    BY HistoryKept
  <2>2. first # second
    <3>1. Unique'
      BY NextUnique
    <3>2. i # j
      BY <1>1, EntryStep, <2>0
    <3> QED
      BY <3>1, <3>2 DEF Unique, Entries
  <2>3. i \in DOMAIN Entries(g) /\ Entries(g)'[i] = Entries(g)[i]
    BY <1>1, <2>0, EntryStep
  <2>4. ASSUME InOrder(first, second)
        PROVE  InOrder(Entries(g)[i].id, Entries(g)[j].id)'
    <3> DEFINE Late(x, y) == Original(y) \in abandoned /\ x[2] # y[2]
               Again(y) == Copied(y) /\ HostOf[y[1]] # HostOf[Server]
    <3>1. first # second /\ (first[2] < second[2] \/ Late(first, second) \/ Again(second))
      BY <2>4 DEF InOrder
    <3>2. Again(second) => Copied(Entries(g)[j].id)' /\ HostOf[second[1]] # HostOf[Server]
      BY <2>1, CopiedStays DEF Copied, CopiesOf
    <3>3. Late(first, second) => Original(second) \in abandoned' /\ first[2] # second[2]
      BY <2>1
    <3> QED
      BY <3>1, <3>2, <3>3 DEF InOrder
  <2>5. CASE j \in DOMAIN Entries(g) /\ Entries(g)'[j] = Entries(g)[j]
    <3>1. g[1] \in Host /\ g[2] \in FileName
      BY <1>0, DiskType
    <3>2. FileOrder /\ Entries(g)[i].id[1] = Entries(g)[j].id[1]
      BY <1>1, <2>3, <2>5 DEF IInv
    <3>3. InOrder(Entries(g)[i].id, Entries(g)[j].id)
      BY <1>1, <2>3, <2>5, <3>1, <3>2 DEF FileOrder, Entries, InOrder
    <3> QED
      BY <2>3, <2>4, <2>5, <3>3
  <2>6. ASSUME NEW p \in Process, Writes(p, g), Entries(g)'[j] = EntryOf(p, cur[p])
        PROVE  InOrder(first, second)
    <3>1. PICK l \in Logger, n \in Nat :
             /\ BelongsTo(cur[p].id, l, n)
             /\ <<l, n, 0>> \in abandoned \/ Doubled(l, n) \/ n = taken[l]
      BY <2>6, InHand DEF Writes, Decides
    <3>2. second = cur[p].id
      BY <1>0, <2>6, EntryInHand
    <3>3. PICK k \in Logger : \E m \in 1..taken[k] : BelongsTo(Entries(g)[i].id, k, m)
      <4>1. g[1] \in Host /\ g[2] \in FileName
        BY <1>0, DiskType
      <4>2. Provenance
        BY DEF IInv
      <4>3. i \in DOMAIN disk[g[1]][g[2]]
        BY <2>3 DEF Entries
      <4> QED
        BY <4>1, <4>2, <4>3 DEF Provenance, Entries
    <3>4. PICK m \in 1..taken[k] : BelongsTo(Entries(g)[i].id, k, m)
      BY <3>3
    <3>5. BelongsTo(first, k, m) /\ BelongsTo(second, l, n)
      BY <2>3, <3>1, <3>2, <3>4
    <3> HIDE DEF first, second
    <3>6. /\ first[1] = k /\ first[2] = m
          /\ second[1] = l /\ second[2] = n /\ Original(second) = <<l, n, 0>>
      BY <3>5 DEF BelongsTo, Original
    <3>7. k = l
      BY <1>1, <3>6 DEF first, second
    <3>8. taken[l] \in Nat /\ m \in Nat /\ m <= taken[l]
      BY <1>0, <3>4, <3>7, Types
    <3>9. CASE m < n
      BY <2>2, <3>6, <3>9 DEF InOrder
    <3>10. CASE Doubled(l, n)
      BY <2>2, <3>5, <3>10, DoubledIsCopied DEF InOrder
    <3>11. CASE m = n
      <4>1. first \in copies \/ second \in copies
        BY <2>2, <3>5, <3>7, <3>11 DEF BelongsTo
      <4>2. Original(first) = <<l, n, 0>>
        BY <3>5, <3>7, <3>11 DEF BelongsTo, Original
      <4>3. Doubled(l, n)
        BY <3>6, <4>1, <4>2 DEF Doubled
      <4> QED
        BY <3>10, <4>3
    <3>12. CASE m > n /\ <<l, n, 0>> \in abandoned
      BY <2>2, <3>6, <3>8, <3>12 DEF InOrder
    <3> QED
      BY <3>1, <3>8, <3>9, <3>10, <3>11, <3>12
  <2> QED
    BY <2>4, <2>5, <2>6, EntryStep
<1> SUFFICES ASSUME NEW h \in Host, NEW file \in FileName,
                    NEW i \in DOMAIN disk'[h][file], NEW j \in DOMAIN disk'[h][file], i < j,
                    disk'[h][file][i].id[1] = disk'[h][file][j].id[1]
             PROVE  InOrder(disk[h][file][i].id, disk[h][file][j].id)'
  BY DEF FileOrder, InOrder
<1> QED
  <2>1. <<h, file>> \in File /\ Entries(<<h, file>>)' = disk'[h][file]
    BY DEF Entries, File
  <2>2. InOrder(Entries(<<h, file>>)[i].id, Entries(<<h, file>>)[j].id)'
    BY <1>1, <2>1
  <2> QED
    BY <2>2 DEF Entries

--------------------------------------------------------------------------------
(* The theorems *)

LEMMA InitIInv == Init => IInv
<1> SUFFICES ASSUME Init PROVE IInv
  OBVIOUS
<1>1. Inv
  BY InitInv
<1>2. /\ pc = [p \in Process |-> "idle"] /\ net = {} /\ inbox = {} /\ awaiting = {}
      /\ wiped = {} /\ refused = {}
      /\ Server \in Process /\ Logger \subseteq Process
  BY <1>1, Types DEF Init, LoggerInit
<1>3. \A f \in File : disk[f[1]][f[2]] = << >>
  BY DEF Init, LoggerInit, File
<1>4. Trail
  BY <1>2 DEF Trail, FlightOK, InFlight, WorkOK, NetOK, ServerOK, Busy
<1>5. \A id : ~Decided(id)
  BY <1>2, <1>3 DEF Decided, IdsIn
<1>6. Unique
  BY <1>3 DEF Unique
<1>7. \A h \in Host, file \in FileName : disk[h][file] = << >>
  BY DEF Init, LoggerInit
<1>8. Provenance /\ FileOrder
  BY <1>7 DEF Provenance, FileOrder
<1> QED
  BY <1>1, <1>4, <1>5, <1>6, <1>8 DEF IInv, OnceOK

LEMMA NextIInv == IInv /\ [Next]_vars => IInv'
BY NextInv, NextOnward, NextOnce, NextUnique, NextProvenance, NextFileOrder DEF IInv

LEMMA SpecIInv == Spec => []IInv
BY InitIInv, NextIInv, PTL DEF Spec

\* Every line of every file stems from an instruction that a logger took, and it
\* is in the right file with the right severity and text, whichever way it came:
\* HandleInstruction in the logger or in the server, through SerializeRequest,
\* the datagram, the buffer, DeserializeData and the casts of both sides.
THEOREM EntriesHaveProvenance == Spec => []Provenance
<1>1. IInv => Provenance
  BY DEF IInv
<1> QED
  BY SpecIInv, <1>1, PTL

\* Entries of one logger stand in a file in the order of its instructions, with
\* nothing but abandoned and duplicated requests coming late; and an instruction
\* has a second entry only where the network, on the way from another host, has
\* made a second request of it.  With every logger on the server's host (main.cpp)
\* no instruction has two.
THEOREM FilesInOrder == Spec => []FileOrder
<1>1. IInv => FileOrder
  BY DEF IInv
<1> QED
  BY SpecIInv, <1>1, PTL

--------------------------------------------------------------------------------
(* The refinement *)

LEMMA NamesOf ==
    ASSUME NEW s \in Seq(LogEntry(Id)), NEW e \in LogEntry(Id)
    PROVE  /\ Store!IdsOf(Names(s)) = IdsIn(s)
           /\ Names(Append(s, e)) = Append(Names(s), e.id)
<1>1. Names(s) \in Seq(Id) /\ DOMAIN Names(s) = DOMAIN s /\ Len(Names(s)) = Len(s)
  <2>1. \A i \in DOMAIN s : s[i] \in LogEntry(Id)
    OBVIOUS
  <2>2. \A x \in LogEntry(Id) : x.id \in Id
    BY DEF LogEntry
  <2>3. \A i \in DOMAIN s : s[i].id \in Id
    BY <2>1, <2>2
  <2> QED
    BY <2>3 DEF Names
<1>2. Store!IdsOf(Names(s)) = IdsIn(s)
  BY <1>1 DEF Names, IdsIn, Store!IdsOf
<1>3. e.id \in Id
  BY DEF LogEntry
<1>4. Names(Append(s, e)) = Append(Names(s), e.id)
  <2> DEFINE t == Append(s, e)
  <2>1. /\ DOMAIN t = 1..(Len(s) + 1) /\ DOMAIN s = 1..Len(s) /\ Len(s) \in Nat
        /\ \A i \in DOMAIN s : t[i] = s[i]
        /\ t[Len(s) + 1] = e
    BY IdsInAppend
  <2> HIDE DEF t
  <2>2. \A i \in DOMAIN s : Names(s)[i] = s[i].id
    BY DEF Names
  <2>3. Names(t) = [i \in 1..(Len(s) + 1) |-> IF i \in DOMAIN s THEN Names(s)[i] ELSE e.id]
    BY <2>1, <2>2 DEF Names
  <2> DEFINE n == Names(s)
  <2>4. n \in Seq(Id) /\ Len(n) = Len(s)
    BY <1>1
  <2> HIDE DEF n
  <2>5. Append(n, e.id) = [i \in 1..(Len(s) + 1) |-> IF i \in DOMAIN s THEN n[i] ELSE e.id]
    BY <1>3, <2>1, <2>4
  <2> QED
    BY <2>3, <2>5 DEF n, t
<1> QED
  BY <1>2, <1>4

LEMMA DecidedAsStore ==
    ASSUME Inv, NEW id
    PROVE  Store!Decided(id) <=> Decided(id)
<1>1. \A f \in File : Lines[f] = Names(Entries(f))
  BY DEF Lines, Entries
<1>2. \A f \in File : Store!IdsOf(Lines[f]) = IdsIn(Entries(f))
  <2> TAKE f \in File
  <2>1. Entries(f) \in Seq(LogEntry(Id))
    BY DiskType
  <2>2. \A s \in Seq(LogEntry(Id)) : Store!IdsOf(Names(s)) = IdsIn(s)
    BY DEF Names, IdsIn, Store!IdsOf
  <2> QED
    BY <1>1, <2>1, <2>2
<1> QED
  BY <1>2 DEF Store!Decided, Store!Stored, Decided, Entries

LEMMA WritesStores ==
    ASSUME IInv, [Next]_vars, NEW p \in Process, NEW f \in File, Writes(p, f), UNCHANGED acked
    PROVE  cur[p].id \in Id /\ Store!Store(cur[p].id)
<1> DEFINE e == EntryOf(p, cur[p])
<1>0. Inv
  BY DEF IInv
<1>1. e \in LogEntry(Id) /\ e.id = cur[p].id /\ e.id \in Id
  BY <1>0, EntryInHand DEF LogEntry
<1>2. ~Store!Decided(cur[p].id)
  BY <1>0, FateSealed, DecidedAsStore DEF Writes
<1>3. ASSUME NEW g \in File
      PROVE  Names(Entries(g)') = IF g = f THEN Append(Names(Entries(g)), cur[p].id)
                                           ELSE Names(Entries(g))
  <2>1. Entries(g)' = IF g = f THEN Append(Entries(g), e) ELSE Entries(g)
    BY DEF Writes
  <2>2. Entries(g) \in Seq(LogEntry(Id))
    BY <1>0, DiskType
  <2> HIDE DEF e
  <2> QED
    BY <1>1, <2>1, <2>2, NamesOf
<1>4. Lines' = [Lines EXCEPT ![f] = Append(@, cur[p].id)]
  BY <1>3 DEF Lines, Entries
<1>5. UNCHANGED <<wiped, refused>>
  BY DEF Writes
<1> QED
  BY <1>1, <1>2, <1>4, <1>5 DEF Store!Store

\* Every step of remote logging is a step of the store, or invisible to it.
LEMMA StepOfStore ==
    ASSUME IInv, [Next]_vars
    PROVE  [Store!Next]_(Store!vars)
<1>0. Inv
  BY DEF IInv
<1>1. \/ UNCHANGED acked
      \/ \E l \in Logger : RequestReceive(l)
  BY DEF Next, LoggerProgress, ServerProgress, Submit, Dequeue, Create, Log, Full,
         OpenFails, LoggerReturns, LoggerDies, RequestSend, RequestFails,
         RequestRecvFails, Arrive, ArriveTwice, LoseRequest, LoseReply, Initialize,
         HandleIncomingData, Respond, Swallow, EpollError, Interrupted,
         InterruptedTooOften, ServerDies, CloseAll, vars, historyVars
<1>2. ASSUME NEW l \in Logger, RequestReceive(l)
      PROVE  Store!Next
  <2>1. PICK m \in replies : acked' = acked \cup {m.id}
    BY <1>2 DEF RequestReceive
  <2>2. m.id \in Id /\ AccountedFor(m.id)
    BY <1>0, Types, RemoteAssumption DEF Inv, DoneOK, Reply
  <2>3. Decided(m.id)
    <3>1. HostOf[Server] \in Host
      BY ProcessAssumption, RemoteAssumption
    <3>2. \A file \in FileName : <<HostOf[Server], file>> \in File
      BY <3>1 DEF File
    <3> QED
      BY <2>2, <3>2 DEF AccountedFor, Decided
  <2>4. UNCHANGED <<disk, refused, wiped>>
    BY <1>2 DEF RequestReceive, RequestReturns
  <2>5. Lines' = Lines /\ UNCHANGED <<refused, wiped>>
    BY <2>4 DEF Lines
  <2>6. Store!Decided(m.id)
    BY <1>0, <2>3, DecidedAsStore
  <2>7. Store!Answer(m.id)
    BY <2>1, <2>5, <2>6 DEF Store!Answer
  <2> QED
    BY <2>2, <2>7 DEF Store!Next
<1>3. CASE UNCHANGED acked /\ UNCHANGED <<disk, refused, wiped>>
  BY <1>3 DEF Store!vars, Lines
<1>4. ASSUME UNCHANGED acked, NEW p \in Process, Refuses(p)
      PROVE  Store!Next
  <2>1. ~Store!Decided(cur[p].id)
    BY <1>0, <1>4, FateSealed, DecidedAsStore DEF Refuses
  <2>2. cur[p].id \in Id
    BY <1>0, EntryInHand DEF LogEntry
  <2>3. Lines' = Lines
    BY <1>4 DEF Refuses, Lines
  <2>4. (wiped \cup refused)' = (wiped \cup refused) \cup {cur[p].id}
    BY <1>4 DEF Refuses
  <2>5. Store!GiveUp(cur[p].id)
    BY <1>4, <2>1, <2>3, <2>4 DEF Store!GiveUp
  <2> QED
    BY <2>2, <2>5 DEF Store!Next
<1>5. ASSUME UNCHANGED acked, NEW p \in Process, NEW f \in File, Writes(p, f)
      PROVE  Store!Next
  BY <1>5, WritesStores DEF Store!Next
<1>6. ASSUME UNCHANGED acked, NEW f \in File, Empties(f)
      PROVE  Store!Next
  <2>1. /\ \A g \in File : Entries(g)' = IF g = f THEN << >> ELSE Entries(g)
        /\ wiped' = wiped \cup IdsIn(Entries(f))
        /\ UNCHANGED refused
    BY <1>6 DEF Empties
  <2>2. Names(<< >>) = << >>
    BY DEF Names
  <2>3. Lines' = [Lines EXCEPT ![f] = << >>]
    BY <2>1, <2>2 DEF Lines, Entries
  <2>4. Store!IdsOf(Lines[f]) = IdsIn(Entries(f))
    <3>1. Entries(f) \in Seq(LogEntry(Id))
      BY <1>0, <1>6, DiskType
    <3>2. \A s \in Seq(LogEntry(Id)) : Store!IdsOf(Names(s)) = IdsIn(s)
      BY DEF Names, IdsIn, Store!IdsOf
    <3> QED
      BY <1>6, <3>1, <3>2 DEF Lines, Entries
  <2>5. (wiped \cup refused)' = (wiped \cup refused) \cup Store!IdsOf(Lines[f])
    BY <2>1, <2>4
  <2>6. Store!Truncate(f)
    BY <1>6, <2>3, <2>5 DEF Store!Truncate
  <2> QED
    BY <1>6, <2>6 DEF Store!Next
<1> QED
  BY <1>1, <1>2, <1>3, <1>4, <1>5, <1>6, Effects

\* RemoteLogging implements EntryStore: with any number of loggers, hosts,
\* instructions and copies of requests, and whatever fails, LogLine,
\* FileInterface's constructor and Request keep what the store promises of what
\* HandleInstruction is given, each copy of a request by itself.
THEOREM RemoteLoggingIsEntryStore == Spec => StoresEntries
<1>1. Init => Store!Init
  <2> SUFFICES ASSUME Init PROVE Store!Init
    OBVIOUS
  <2>1. \A f \in File : Names(disk[f[1]][f[2]]) = << >>
    BY DEF Init, LoggerInit, File, Names
  <2>2. Lines = [f \in File |-> << >>]
    BY <2>1 DEF Lines
  <2> QED
    BY <2>2 DEF Init, Store!Init
<1>2. IInv /\ [Next]_vars => [Store!Next]_(Store!vars)
  BY StepOfStore
<1> QED
  BY <1>1, <1>2, SpecIInv, PTL DEF Spec, StoresEntries, Store!Spec

--------------------------------------------------------------------------------
(* What the store promises *)

\* Whoever implements EntryStore keeps its promises; here it is RemoteLogging.
Kept == Store!TypeOK /\ Store!Promises

\* An entry of a file, and its place.
LEMMA StoredAt ==
    ASSUME Store!TypeOK, NEW id
    PROVE  Store!Stored(id) <=> \E f \in File : \E i \in DOMAIN Lines[f] : Lines[f][i] = id
BY DEF Store!Stored, Store!IdsOf

LEMMA StoreKeeps ==
    ASSUME Kept, NEW id \in Id, Store!Store(id)
    PROVE  Kept' /\ \A x : Store!Decided(x) => Store!Decided(x)'
<1> DEFINE gone == wiped \cup refused
<1>1. PICK f \in File : Lines' = [Lines EXCEPT ![f] = Append(@, id)]
  BY DEF Store!Store
<1>2. Lines \in [File -> Seq(Id)] /\ gone' = gone /\ acked' = acked
  BY DEF Kept, Store!TypeOK, Store!Store
<1>3. Store!TypeOK'
  BY <1>1, <1>2 DEF Store!TypeOK
<1> DEFINE n == Len(Lines[f]) + 1
<1>4. \A g \in File :
         DOMAIN Lines'[g] = IF g = f THEN DOMAIN Lines[f] \cup {n} ELSE DOMAIN Lines[g]
  <2>1. Lines[f] \in Seq(Id)
    BY <1>2
  <2>2. DOMAIN Append(Lines[f], id) = DOMAIN Lines[f] \cup {n}
    <3> DEFINE s == Lines[f]
    <3>1. s \in Seq(Id)
      BY <2>1
    <3> HIDE DEF s
    <3>2. Len(s) \in Nat /\ DOMAIN s = 1..Len(s) /\ DOMAIN Append(s, id) = 1..(Len(s) + 1)
      BY <3>1
    <3>3. 1..(Len(s) + 1) = 1..Len(s) \cup {Len(s) + 1}
      BY <3>2
    <3> QED BY <3>2, <3>3 DEF s
  <2> QED BY <1>1, <1>2, <2>2
<1>5. \A g \in File : \A i \in DOMAIN Lines'[g] :
         Lines'[g][i] = IF g = f /\ i = n THEN id ELSE Lines[g][i]
  BY <1>1, <1>2
<1>6. n \notin DOMAIN Lines[f]
  BY <1>2
<1> HIDE DEF n
<1>7. \A g \in File : \A i \in DOMAIN Lines[g] :
         /\ i \in DOMAIN Lines'[g]
         /\ Lines'[g][i] = Lines[g][i]
         /\ Lines[g][i] # id
  <2>1. \A g \in File : \A i \in DOMAIN Lines[g] : Lines[g][i] # id
    BY StoredAt DEF Store!Store, Store!Decided, Kept
  <2> QED BY <2>1, <1>4, <1>5, <1>6
<1>8. \A x : Store!Stored(x)' <=> Store!Stored(x) \/ x = id
  <2>1. \A x : Store!Stored(x)' <=>
                \E g \in File : \E i \in DOMAIN Lines'[g] : Lines'[g][i] = x
    BY <1>3, StoredAt DEF Store!Stored, Store!IdsOf
  <2>2. \A x : Store!Stored(x) <=>
                \E g \in File : \E i \in DOMAIN Lines[g] : Lines[g][i] = x
    BY StoredAt DEF Kept
  <2>3. \A x : (\E g \in File : \E i \in DOMAIN Lines[g] : Lines[g][i] = x) =>
               (\E g \in File : \E i \in DOMAIN Lines'[g] : Lines'[g][i] = x)
    BY <1>7
  <2>4. n \in DOMAIN Lines'[f] /\ Lines'[f][n] = id
    BY <1>4, <1>5
  <2>5. \A x : (\E g \in File : \E i \in DOMAIN Lines'[g] : Lines'[g][i] = x) =>
               (\E g \in File : \E i \in DOMAIN Lines[g] : Lines[g][i] = x) \/ x = id
    BY <1>4, <1>5
  <2> QED BY <2>1, <2>2, <2>3, <2>4, <2>5
<1>9. Store!StoredOnce'
  <2> SUFFICES ASSUME NEW g \in File, NEW h \in File,
                      NEW i \in DOMAIN Lines'[g], NEW j \in DOMAIN Lines'[h],
                      Lines'[g][i] = Lines'[h][j]
               PROVE  g = h /\ i = j
    BY DEF Store!StoredOnce
  <2>1. CASE g = f /\ i = n
    BY <2>1, <1>4, <1>5, <1>7
  <2>2. CASE h = f /\ j = n
    BY <2>2, <1>4, <1>5, <1>7
  <2>3. CASE ~(g = f /\ i = n) /\ ~(h = f /\ j = n)
    <3>1. i \in DOMAIN Lines[g] /\ j \in DOMAIN Lines[h]
      BY <2>3, <1>4
    <3>2. Lines[g][i] = Lines[h][j]
      BY <3>1, <1>7
    <3> QED BY <3>1, <3>2 DEF Kept, Store!Promises, Store!StoredOnce
  <2> QED BY <2>1, <2>2, <2>3
<1>10. id \notin gone
  BY DEF Store!Store, Store!Decided
<1>11. Store!GoneForGood'
  <2>1. \A x \in gone : ~Store!Stored(x)
    BY DEF Kept, Store!Promises, Store!GoneForGood
  <2> HIDE DEF gone
  <2>2. \A x \in gone' : ~Store!Stored(x)'
    BY <2>1, <1>2, <1>8, <1>10
  <2> QED BY <2>2 DEF Store!GoneForGood, gone
<1>12. \A x : Store!Decided(x) => Store!Decided(x)'
  BY <1>2, <1>8 DEF Store!Decided
<1>13. Store!AnswersFollow'
  <2>1. \A x \in acked' : Store!Decided(x)'
    BY <1>2, <1>12 DEF Kept, Store!Promises, Store!AnswersFollow
  <2> QED BY <2>1 DEF Store!AnswersFollow
<1> QED BY <1>3, <1>9, <1>11, <1>12, <1>13 DEF Kept, Store!Promises

LEMMA TruncateKeeps ==
    ASSUME Kept, NEW f \in File, Store!Truncate(f)
    PROVE  Kept' /\ \A x : Store!Decided(x) => Store!Decided(x)'
<1> DEFINE gone == wiped \cup refused
<1>1. /\ Lines' = [Lines EXCEPT ![f] = << >>]
      /\ gone' = gone \cup Store!IdsOf(Lines[f]) /\ acked' = acked
  BY DEF Store!Truncate
<1>2. Lines \in [File -> Seq(Id)]
  BY DEF Kept, Store!TypeOK
<1>3. Store!TypeOK'
  BY <1>1, <1>2 DEF Store!TypeOK
<1>4. \A g \in File : Lines'[g] = IF g = f THEN << >> ELSE Lines[g]
  BY <1>1, <1>2
<1>5. Store!StoredOnce'
  BY <1>4 DEF Kept, Store!Promises, Store!StoredOnce
<1>6. \A x : Store!Stored(x)' <=> \E g \in File \ {f} : x \in Store!IdsOf(Lines[g])
  BY <1>4 DEF Store!Stored, Store!IdsOf
<1>7. \A x \in Store!IdsOf(Lines[f]) : \A g \in File \ {f} : x \notin Store!IdsOf(Lines[g])
  BY DEF Kept, Store!Promises, Store!StoredOnce, Store!IdsOf
<1>8. \A x : Store!Stored(x) <=> x \in Store!IdsOf(Lines[f]) \/ Store!Stored(x)'
  BY <1>6 DEF Store!Stored
<1>9. Store!GoneForGood'
  <2>1. \A x \in gone : ~Store!Stored(x)
    BY DEF Kept, Store!Promises, Store!GoneForGood
  <2> HIDE DEF gone
  <2>2. \A x \in gone' : ~Store!Stored(x)'
    BY <2>1, <1>1, <1>6, <1>7, <1>8
  <2> QED BY <2>2 DEF Store!GoneForGood, gone
<1>10. \A x : Store!Decided(x) => Store!Decided(x)'
  BY <1>1, <1>8 DEF Store!Decided
<1>11. Store!AnswersFollow'
  <2>1. \A x \in acked' : Store!Decided(x)'
    BY <1>1, <1>10 DEF Kept, Store!Promises, Store!AnswersFollow
  <2> QED BY <2>1 DEF Store!AnswersFollow
<1> QED BY <1>3, <1>5, <1>9, <1>10, <1>11 DEF Kept, Store!Promises

\* Where the files stay as they are, only the fates may change.
LEMMA RestKeeps ==
    ASSUME Kept, Lines' = Lines, wiped \cup refused \subseteq (wiped \cup refused)',
           \A x \in (wiped \cup refused)' : x \in wiped \cup refused \/ ~Store!Decided(x),
           \A x \in acked' : x \in acked \/ Store!Decided(x)
    PROVE  Kept' /\ \A x : Store!Decided(x) => Store!Decided(x)'
<1> DEFINE gone == wiped \cup refused
<1>1. gone \subseteq gone' /\ \A x \in gone' : x \in gone \/ ~Store!Stored(x)
  BY DEF Store!Decided
<1>2. \A x : Store!Stored(x)' <=> Store!Stored(x)
  BY DEF Store!Stored, Store!IdsOf
<1>3. Store!TypeOK' /\ Store!StoredOnce'
  BY DEF Kept, Store!Promises, Store!TypeOK, Store!StoredOnce
<1>4. \A x : Store!Decided(x) => Store!Decided(x)'
  BY <1>1, <1>2 DEF Store!Decided
<1>5. Store!GoneForGood'
  <2>1. \A x \in gone : ~Store!Stored(x)
    BY DEF Kept, Store!Promises, Store!GoneForGood
  <2> HIDE DEF gone
  <2>2. \A x \in gone' : ~Store!Stored(x)'
    BY <2>1, <1>1, <1>2
  <2> QED BY <2>2 DEF Store!GoneForGood, gone
<1>6. Store!AnswersFollow'
  <2>1. \A x \in acked' : Store!Decided(x)'
    BY <1>4 DEF Kept, Store!Promises, Store!AnswersFollow
  <2> QED BY <2>1 DEF Store!AnswersFollow
<1> QED BY <1>3, <1>4, <1>5, <1>6 DEF Kept, Store!Promises

LEMMA NextKeeps ==
    ASSUME Kept, Store!Next
    PROVE  /\ Kept' /\ \A x : Store!Decided(x) => Store!Decided(x)'
           /\ wiped \cup refused \subseteq (wiped \cup refused)'
<1>1. ASSUME NEW id \in Id, Store!Store(id)
      PROVE  /\ Kept' /\ \A x : Store!Decided(x) => Store!Decided(x)'
             /\ wiped \cup refused \subseteq (wiped \cup refused)'
  BY <1>1, StoreKeeps DEF Store!Store
<1>2. ASSUME NEW id \in Id, Store!GiveUp(id)
      PROVE  /\ Kept' /\ \A x : Store!Decided(x) => Store!Decided(x)'
             /\ wiped \cup refused \subseteq (wiped \cup refused)'
  BY <1>2, RestKeeps DEF Store!GiveUp
<1>3. ASSUME NEW id \in Id, Store!Answer(id)
      PROVE  /\ Kept' /\ \A x : Store!Decided(x) => Store!Decided(x)'
             /\ wiped \cup refused \subseteq (wiped \cup refused)'
  BY <1>3, RestKeeps DEF Store!Answer
<1>4. ASSUME NEW f \in File, Store!Truncate(f)
      PROVE  /\ Kept' /\ \A x : Store!Decided(x) => Store!Decided(x)'
             /\ wiped \cup refused \subseteq (wiped \cup refused)'
  BY <1>4, TruncateKeeps DEF Store!Truncate
<1> QED BY <1>1, <1>2, <1>3, <1>4 DEF Store!Next

\* What EntryStore says is what its comment promises: one place for an entry, no
\* way back for what is gone, no answer before the decision.
THEOREM StoreKeepsPromises == StoresEntries => []Store!Promises /\ Store!FatesStand
<1>1. Store!Init => Kept
  BY DEF Store!Init, Kept, Store!TypeOK, Store!Promises, Store!StoredOnce,
         Store!GoneForGood, Store!AnswersFollow
<1>2. Kept /\ [Store!Next]_(Store!vars) => Kept'
  <2>1. Kept /\ UNCHANGED Store!vars => Kept'
    BY RestKeeps DEF Store!vars
  <2> QED BY <2>1, NextKeeps
<1>3. Kept /\ [Store!Next]_(Store!vars) =>
        [/\ wiped \cup refused \subseteq (wiped \cup refused)'
         /\ \A id \in Id : Store!Decided(id) => Store!Decided(id)']_(Store!vars)
  BY NextKeeps
<1>4. Kept => Store!Promises
  BY DEF Kept
<1> QED
  BY <1>1, <1>2, <1>3, <1>4, PTL DEF StoresEntries, Store!Spec, Store!FatesStand

\* So does remote logging, whatever is lost, late, duplicated, refused or killed:
\* no request that was delivered once is in two files or twice in one, none that
\* was handled brings back what was truncated later (a second copy of it may), and
\* a client that is answered has its entry decided for good.
THEOREM RemoteLoggingKeepsPromises == Spec => []Store!Promises /\ Store!FatesStand
BY RemoteLoggingIsEntryStore, StoreKeepsPromises, PTL

================================================================================
